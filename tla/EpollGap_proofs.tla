--------------------------- MODULE EpollGap_proofs ---------------------------
(* For any set of tasks, any number of epoll variants and any threshold: once *)
(* every probe is attached, the reported gaps are exactly the target's long   *)
(* callbacks.  The inductive invariant GapInv ties the BPF hash to what the   *)
(* target is doing (Tracking) and keeps every recorded time in the past       *)
(* (Past), so that completing the attach starts from an empty account.        *)
EXTENDS EpollGap, Accumulation_proofs, FiniteSetTheorems

\* The hash has a slot for the target, and no task but one is the target.
LEMMA TargetSlot ==
    /\ Config.target_tid \in Tids
    /\ \A t \in Tasks : t.tid \in Tids
    /\ \A t \in Tasks : IsTarget(t) => t.tid = Config.target_tid
    /\ \A t, u \in Tasks : IsTarget(t) /\ IsTarget(u) => t = u
  BY TasksAssumption DEF Tids, IsTarget

LEMMA GapInit == Init => GapInv
  <1> SUFFICES ASSUME Init PROVE GapInv
    OBVIOUS
  <1>1. TypeOK
    BY BoundsAssumption DEF Init, TypeOK, LinkTotal
  <1>2. Past
    BY BoundsAssumption, TargetSlot DEF Init, Past
  <1>3. Tracking /\ ExactGaps
    BY DEF Init, Tracking, ExactGaps, Since
  <1> QED
    BY <1>1, <1>2, <1>3 DEF GapInv

\* A step that leaves the target, the clock and the account alone, in a phase
\* that it may change, preserves the invariant unless it completes the attach.
LEMMA LoaderStep ==
    ASSUME GapInv, TypeOK', UNCHANGED <<target, clock, attached_at>>,
           phase' \in {"attached", "polling"} => phase \in {"attached", "polling"},
           phase' \in {"loading", "attaching"} => phase \in {"loading", "attaching"}
    PROVE  GapInv'
  BY DEF GapInv, Past, Tracking, ExactGaps, Since, target, IsTarget

LEMMA AttachStep == GapInv /\ Attach => GapInv'
  <1> SUFFICES ASSUME GapInv, Attach PROVE GapInv'
    OBVIOUS
  <1>1. TypeOK'
    BY BoundsAssumption DEF GapInv, TypeOK, Attach, target, LinkTotal
  <1>2. CASE link_count' # LinkTotal
    BY <1>1, <1>2, LoaderStep DEF Attach
  <1>3. CASE link_count' = LinkTotal
    <2>1. phase' = "attached" /\ attached_at' = clock /\ clock' = clock /\ UNCHANGED target
      BY <1>3 DEF Attach
    <2>2. Past'
      BY <2>1 DEF GapInv, TypeOK, Past, target
    <2>3. Tracking'
      <3> SUFFICES ASSUME NEW t \in Tasks, IsTarget(t)
                   PROVE  /\ ~(running_since[t] > clock)
                          /\ callback_start[t.tid] # None => ~(callback_start[t.tid] > clock)
        BY <2>1 DEF Tracking, target, IsTarget
      <3> QED
        BY TargetSlot, BoundsAssumption DEF GapInv, TypeOK, Past
    <2>4. Since(outputs, clock) = {} /\ Since(callbacks, clock) = {}
      BY DEF GapInv, TypeOK, Past, Since
    <2>5. ExactGaps'
      BY <2>1, <2>4 DEF ExactGaps, target, Since
    <2> QED
      BY <1>1, <2>2, <2>3, <2>5 DEF GapInv
  <1> QED
    BY <1>2, <1>3

LEMMA ExitStep ==
    ASSUME GapInv, NEW t \in Tasks, EpollExit(t)
    PROVE  GapInv'
  <1> USE BoundsAssumption, TargetSlot DEF GapInv, TypeOK
  <1>0. where[t] # 0 /\ clock \in 0 .. MaxTime /\ t.tid \in Tids
    BY DEF EpollExit
  <1>1. TypeOK'
    BY <1>0 DEF EpollExit, loader
  <1>2. Past'
    BY <1>0 DEF EpollExit, loader, Past
  <1>3. ExactGaps'
    BY DEF EpollExit, ExactGaps, Since
  <1>4. Tracking'
    <2> SUFFICES ASSUME phase \in {"attached", "polling"}, NEW u \in Tasks, IsTarget(u)
                 PROVE  /\ where'[u] = 0 /\ running_since'[u] > attached_at
                              => callback_start'[u.tid] = running_since'[u]
                        /\ callback_start'[u.tid] # None /\ callback_start'[u.tid] > attached_at
                              => where'[u] = 0 /\ callback_start'[u.tid] = running_since'[u]
      BY DEF EpollExit, loader, Tracking, IsTarget
    <2>1. CASE u = t
      <3>1. ExitAttached(where[t])
        BY <1>0 DEF ExitAttached, LinkTotal
      <3> QED
        BY <1>0, <2>1, <3>1 DEF EpollExit
    <2>2. CASE u # t
      <3>1. ~ IsTarget(t)
        BY <2>2
      <3>2. /\ where'[u] = where[u] /\ running_since'[u] = running_since[u]
            /\ callback_start' = callback_start
        BY <2>2, <3>1 DEF EpollExit
      <3> QED
        BY <3>2 DEF Tracking
    <2> QED
      BY <2>1, <2>2
  <1> QED
    BY <1>1, <1>2, <1>3, <1>4

LEMMA EnterStep ==
    ASSUME GapInv, NEW t \in Tasks, NEW v \in Uses[t], EpollEnter(t, v)
    PROVE  GapInv'
  <1> USE BoundsAssumption, TargetSlot DEF GapInv, TypeOK
  <1> DEFINE start_ns == callback_start[t.tid]
             gap == <<start_ns, clock>>
             ran == <<running_since[t], clock>>
             Reports == EnterAttached(v) /\ IsTarget(t) /\ start_ns # None
  <1>0. /\ where[t] = 0 /\ v \in 1 .. VariantCount /\ t.tid \in Tids
        /\ start_ns \in (0 .. MaxTime) \cup {None}
        /\ running_since[t] \in 0 .. MaxTime
        /\ phase' = phase /\ link_count' = link_count /\ clock' = clock
        /\ running_since' = running_since /\ attached_at' = attached_at
        /\ where' = [where EXCEPT ![t] = v]
    BY UsesAssumption DEF EpollEnter, loader
  <1>1. callbacks' = IF IsTarget(t) /\ Exceeds(running_since[t], clock)
                     THEN callbacks \cup {ran} ELSE callbacks
    BY DEF EpollEnter
  <1>2. outputs' = IF Reports /\ Exceeds(start_ns, clock) THEN outputs \cup {gap} ELSE outputs
    BY DEF EpollEnter, OnEpollEnter
  <1>3. callback_start' = IF Reports THEN [callback_start EXCEPT ![t.tid] = None]
                          ELSE callback_start
    BY DEF EpollEnter, OnEpollEnter
  <1> HIDE DEF start_ns, gap, ran
  <1>4. TypeOK'
    <2>1. Reports => gap \in (0 .. MaxTime) \X (0 .. MaxTime)
      BY <1>0 DEF gap
    <2>2. ran \in (0 .. MaxTime) \X (0 .. MaxTime)
      BY <1>0 DEF ran
    <2> QED
      BY <1>0, <1>1, <1>2, <1>3, <2>1, <2>2
  <1>5. Past'
    <2>1. Reports => gap[1] <= clock
      BY <1>0 DEF Past, gap, start_ns
    <2>2. ran[1] <= clock
      BY <1>0 DEF Past, ran
    <2>3. \A g \in outputs' \cup callbacks' : g[1] <= clock
      BY <1>1, <1>2, <2>1, <2>2 DEF Past
    <2>4. callback_start'[Config.target_tid] # None => callback_start'[Config.target_tid] <= clock
      BY <1>0, <1>3 DEF Past
    <2> QED
      BY <1>0, <2>3, <2>4 DEF Past
  <1>6. Tracking'
    <2> SUFFICES ASSUME phase \in {"attached", "polling"}, NEW u \in Tasks, IsTarget(u)
                 PROVE  /\ where'[u] = 0 /\ running_since[u] > attached_at
                              => callback_start'[u.tid] = running_since[u]
                        /\ callback_start'[u.tid] # None /\ callback_start'[u.tid] > attached_at
                              => where'[u] = 0 /\ callback_start'[u.tid] = running_since[u]
      BY <1>0 DEF Tracking, IsTarget
    <2>1. CASE u = t
      <3>1. EnterAttached(v)
        BY <1>0 DEF EnterAttached, LinkTotal
      <3>2. where'[u] # 0
        BY <1>0, <2>1
      <3>3. callback_start'[u.tid] = None
        BY <1>0, <1>3, <2>1, <3>1 DEF start_ns
      <3> QED
        BY <3>2, <3>3
    <2>2. CASE u # t
      <3>1. ~ IsTarget(t)
        BY <2>2
      <3>2. where'[u] = where[u] /\ callback_start' = callback_start
        BY <1>0, <1>3, <2>2, <3>1
      <3> QED
        BY <3>2 DEF Tracking
    <2> QED
      BY <2>1, <2>2
  <1>7. ExactGaps'
    <2>1. CASE ~ IsTarget(t)
      BY <1>0, <1>1, <1>2, <2>1 DEF ExactGaps, Since
    <2>2. CASE IsTarget(t) /\ phase \in {"attached", "polling"}
      <3>1. EnterAttached(v)
        BY <1>0, <2>2 DEF EnterAttached, LinkTotal
      <3>2. running_since[t] > attached_at => start_ns = running_since[t]
        BY <1>0, <2>2 DEF Tracking, start_ns
      <3>3. start_ns # None /\ start_ns > attached_at => start_ns = running_since[t]
        BY <1>0, <2>2 DEF Tracking, start_ns
      <3>4. CASE running_since[t] > attached_at
        <4>1. gap = ran /\ start_ns = running_since[t] /\ start_ns # None
          BY <1>0, <3>2, <3>4 DEF gap, ran
        <4>2. \/ outputs' = outputs \cup {ran} /\ callbacks' = callbacks \cup {ran}
              \/ outputs' = outputs /\ callbacks' = callbacks
          BY <1>1, <1>2, <2>2, <3>1, <4>1
        <4> QED
          BY <1>0, <4>2 DEF ExactGaps, Since
      <3>5. CASE ~ (running_since[t] > attached_at)
        <4>1. ran[1] = running_since[t] /\ gap[1] = start_ns
          BY DEF ran, gap
        <4>2. Since(callbacks', attached_at) = Since(callbacks, attached_at)
          BY <1>1, <3>5, <4>1 DEF Since
        <4>3. Reports => ~ (gap[1] > attached_at)
          BY <1>0, <3>3, <3>5, <4>1
        <4>4. Since(outputs', attached_at) = Since(outputs, attached_at)
          BY <1>2, <4>3 DEF Since
        <4> QED
          BY <1>0, <4>2, <4>4 DEF ExactGaps
      <3> QED
        BY <3>4, <3>5
    <2>3. CASE phase \in {"loading", "attaching"}
      <3>1. attached_at = MaxTime
        BY <2>3 DEF Past
      <3>2. Since(outputs', MaxTime) = {} /\ Since(callbacks', MaxTime) = {}
        BY <1>4 DEF Since
      <3> QED
        BY <1>0, <3>1, <3>2 DEF ExactGaps
    <2> QED
      BY <2>1, <2>2, <2>3 DEF EpollEnter, Traced
  <1> QED
    BY <1>4, <1>5, <1>6, <1>7

LEMMA GapStep == GapInv /\ [Next]_vars => GapInv'
  <1> SUFFICES ASSUME GapInv, [Next]_vars PROVE GapInv'
    OBVIOUS
  <1>1. CASE Attach
    BY <1>1, AttachStep
  <1>2. CASE EmitReady
    <2>1. TypeOK'
      BY <1>2 DEF GapInv, TypeOK, EmitReady, target
    <2> QED
      BY <1>2, <2>1, LoaderStep DEF EmitReady
  <1>3. CASE LoadFails \/ AttachFails \/ PollFails
    <2>0. Die
      BY <1>3 DEF LoadFails, AttachFails, PollFails
    <2>1. TypeOK'
      BY <2>0, BoundsAssumption DEF GapInv, TypeOK, Die, target, LinkTotal
    <2> QED
      BY <2>0, <2>1, LoaderStep DEF Die
  <1>4. ASSUME NEW cpu \in Cpus, Poll(cpu) PROVE GapInv'
    <2>1. TypeOK'
      BY <1>4 DEF GapInv, TypeOK, Poll, target
    <2> QED
      BY <1>4, <2>1, LoaderStep DEF Poll
  <1>10. CASE Load
    <2>1. TypeOK'
      BY <1>10 DEF GapInv, TypeOK, Load, target
    <2> QED
      BY <1>10, <2>1, LoaderStep DEF Load
  <1>5. CASE Stop
    <2>1. TypeOK'
      BY <1>5, BoundsAssumption DEF GapInv, TypeOK, Stop, target, LinkTotal
    <2> QED
      BY <1>5, <2>1, LoaderStep DEF Stop
  <1>6. CASE Tick
    <2>1. TypeOK'
      BY <1>6, BoundsAssumption DEF GapInv, TypeOK, Tick, loader, target
    <2>2. Past'
      BY <1>6, BoundsAssumption, TargetSlot DEF GapInv, TypeOK, Past, Tick, loader, target
    <2>3. Tracking' /\ ExactGaps'
      BY <1>6 DEF GapInv, Tracking, ExactGaps, Since, Tick, loader, target, IsTarget
    <2> QED
      BY <2>1, <2>2, <2>3 DEF GapInv
  <1>7. ASSUME NEW t \in Tasks, EpollExit(t) PROVE GapInv'
    BY <1>7, ExitStep
  <1>8. ASSUME NEW t \in Tasks, NEW v \in Uses[t], EpollEnter(t, v) PROVE GapInv'
    BY <1>8, EnterStep
  <1>9. CASE UNCHANGED vars
    BY <1>9 DEF vars, GapInv, TypeOK, Past, Tracking, ExactGaps, Since, IsTarget
  <1> QED
    BY <1>1, <1>2, <1>3, <1>4, <1>5, <1>6, <1>7, <1>8, <1>9, <1>10 DEF Next

\* The collector never reports a gap that is not one of the target's callbacks,
\* and never misses one, once every probe is attached: for any tasks, PID
\* namespaces, epoll variants and threshold.
THEOREM CollectorExact == Spec => []ExactGaps
  <1>1. Spec => []GapInv
    BY GapInit, GapStep, PTL DEF Spec
  <1>2. GapInv => ExactGaps
    BY DEF GapInv
  <1> QED
    BY <1>1, <1>2, PTL

-----------------------------------------------------------------------------
(* What a record stands for.                                                  *)

Weight(r) == IF IsEvent(r) THEN 1 ELSE IF r.type = "lost" THEN r.count ELSE 0

\* The weights of the four kinds of records
LEMMA RecordKinds ==
    /\ \A s, e \in 0 .. MaxTime : /\ Event(s, e) \in Records /\ IsEvent(Event(s, e))
                                  /\ Weight(Event(s, e)) = 1
    /\ \A n \in Nat : Lost(n) \in Records /\ ~ IsEvent(Lost(n)) /\ Weight(Lost(n)) = n
    /\ Ready \in Records /\ ~ IsEvent(Ready) /\ Weight(Ready) = 0
    /\ Fatal \in Records /\ ~ IsEvent(Fatal) /\ Weight(Fatal) = 0
    /\ \A r \in Records : Weight(r) \in Nat
  BY DEF Records, Event, Lost, Ready, Fatal, IsEvent, Weight

\* The weights of a sequence of records are as many numbers
LEMMA WeightsTyped ==
    ASSUME NEW s \in Seq(Records)
    PROVE  /\ Weights(s) \in Seq(Int) /\ Len(Weights(s)) = Len(s)
           /\ \A i \in 1 .. Len(s) : Weights(s)[i] = Weight(s[i])
  <1>1. \A i \in 1 .. Len(s) : Weight(s[i]) \in Int
    BY RecordKinds
  <1>2. Weights(s) = [i \in 1 .. Len(s) |-> Weight(s[i])]
    BY DEF Weights, Weight
  <1>3. Len(s) \in Nat
    OBVIOUS
  <1> QED BY <1>1, <1>2, <1>3

\* An account is a number
LEMMA AccountTyped == ASSUME NEW s \in Seq(Records) PROVE Account(s) \in Int
  <1>1. PICK f : Sums(f, Weights(s), Len(Weights(s))) /\ Total(Weights(s)) = f[Len(Weights(s))]
    BY WeightsTyped, TotalHasSums
  <1> QED BY <1>1, WeightsTyped DEF Sums, Account

\* Nothing is accounted for by no records
LEMMA AccountEmpty == Account(<<>>) = 0
  <1>1. Weights(<<>>) = <<>>
    BY DEF Weights
  <1> QED BY <1>1, TotalEmpty DEF Account

\* One more record at the end
LEMMA AccountAppend ==
    ASSUME NEW s \in Seq(Records), NEW r \in Records
    PROVE  Account(Append(s, r)) = Account(s) + Weight(r)
  <1> DEFINE t == Append(s, r)
  <1>1. t \in Seq(Records) /\ Len(t) = Len(s) + 1 /\ t[Len(s) + 1] = r
        /\ \A i \in 1 .. Len(s) : t[i] = s[i]
    OBVIOUS
  <1> HIDE DEF t
  <1>2. Weights(s) \in Seq(Int) /\ Len(Weights(s)) = Len(s)
        /\ \A i \in 1 .. Len(s) : Weights(s)[i] = Weight(s[i])
    BY WeightsTyped
  <1>3. Weights(t) \in Seq(Int) /\ Len(Weights(t)) = Len(s) + 1
        /\ \A i \in 1 .. Len(s) + 1 : Weights(t)[i] = Weight(t[i])
    BY <1>1, WeightsTyped
  <1>4. Len(s) \in Nat
    OBVIOUS
  <1>5. \A i \in 1 .. Len(s) : Weights(t)[i] = Weights(s)[i]
    BY <1>1, <1>2, <1>3, <1>4
  <1>6. Weights(t)[Len(s) + 1] = Weight(r)
    BY <1>1, <1>3, <1>4
  <1>7. Total(Weights(t)) = Total(Weights(s)) + Weights(t)[Len(s) + 1]
    BY <1>2, <1>3, <1>5, TotalLonger
  <1> QED BY <1>6, <1>7 DEF Account, t

\* One record less at the front
LEMMA AccountTail ==
    ASSUME NEW s \in Seq(Records), s # <<>>
    PROVE  Account(Tail(s)) = Account(s) - Weight(Head(s))
  <1> DEFINE t == Tail(s)
  <1>1. /\ t \in Seq(Records) /\ Len(t) \in Nat /\ Len(s) = Len(t) + 1
        /\ \A i \in 1 .. Len(t) : t[i] = s[i + 1]
        /\ Head(s) = s[1]
    OBVIOUS
  <1> HIDE DEF t
  <1>2. Weights(s) \in Seq(Int) /\ Len(Weights(s)) = Len(t) + 1
        /\ \A i \in 1 .. Len(t) + 1 : Weights(s)[i] = Weight(s[i])
    BY <1>1, WeightsTyped
  <1>3. Weights(t) \in Seq(Int) /\ Len(Weights(t)) = Len(t)
        /\ \A i \in 1 .. Len(t) : Weights(t)[i] = Weight(t[i])
    BY <1>1, WeightsTyped
  <1>4. ASSUME NEW i \in 1 .. Len(t) PROVE Weights(t)[i] = Weights(s)[i + 1]
    <2>1. i + 1 \in 1 .. Len(t) + 1
      BY <1>1
    <2> QED BY <1>1, <1>2, <1>3, <2>1
  <1>5. Weights(s)[1] = Weight(Head(s))
    BY <1>1, <1>2
  <1>6. Total(Weights(t)) = Total(Weights(s)) - Weights(s)[1]
    BY <1>2, <1>3, <1>4, TotalShorter
  <1> QED BY <1>5, <1>6 DEF Account, t

\* A sequence with one more element
LEMMA AppendFacts ==
    ASSUME NEW S, NEW s \in Seq(S), NEW r \in S
    PROVE  /\ Append(s, r) \in Seq(S) /\ Len(s) \in Nat /\ Len(Append(s, r)) = Len(s) + 1
           /\ Append(s, r)[Len(s) + 1] = r
           /\ \A i \in 1 .. Len(s) : Append(s, r)[i] = s[i]
           /\ \A i \in 1 .. Len(s) + 1 : i \in 1 .. Len(s) \/ i = Len(s) + 1
  OBVIOUS

\* Reported is about each record, and about a set of gaps that only grows
LEMMA ReportedGrows ==
    ASSUME NEW s, NEW G, NEW H, G \subseteq H, Reported(s, G)
    PROVE  Reported(s, H)
  BY DEF Reported

LEMMA ReportedAppend ==
    ASSUME NEW s \in Seq(Records), NEW r \in Records, NEW G, Reported(s, G),
           IsEvent(r) => <<r.start_ns, r.end_ns>> \in G
    PROVE  Reported(Append(s, r), G)
  <1> DEFINE t == Append(s, r)
  <1>1. /\ Len(s) \in Nat /\ Len(t) = Len(s) + 1 /\ t[Len(s) + 1] = r
        /\ \A i \in 1 .. Len(s) : t[i] = s[i]
        /\ \A i \in 1 .. Len(s) + 1 : i \in 1 .. Len(s) \/ i = Len(s) + 1
    BY AppendFacts
  <1> HIDE DEF t
  <1>2. ASSUME NEW i \in 1 .. Len(t), IsEvent(t[i])
        PROVE  <<t[i].start_ns, t[i].end_ns>> \in G
    <2>1. CASE i = Len(s) + 1
      BY <1>1, <1>2, <2>1
    <2>2. CASE i \in 1 .. Len(s)
      BY <1>1, <1>2, <2>2 DEF Reported
    <2> QED BY <1>1, <2>1, <2>2
  <1> QED BY <1>2 DEF Reported, t

LEMMA ReportedTail ==
    ASSUME NEW p \in Seq(Records), p # <<>>, NEW G, Reported(p, G)
    PROVE  /\ Reported(Tail(p), G)
           /\ IsEvent(Head(p)) => <<Head(p).start_ns, Head(p).end_ns>> \in G
  <1> DEFINE q == Tail(p)
  <1>1. /\ Head(p) = p[1] /\ Len(q) \in Nat /\ Len(p) = Len(q) + 1
        /\ \A i \in 1 .. Len(q) : q[i] = p[i + 1]
    OBVIOUS
  <1> HIDE DEF q
  <1>2. ASSUME NEW i \in 1 .. Len(q), IsEvent(q[i])
        PROVE  <<q[i].start_ns, q[i].end_ns>> \in G
    <2>1. i + 1 \in 1 .. Len(p) /\ q[i] = p[i + 1]
      BY <1>1
    <2> QED BY <1>2, <2>1 DEF Reported
  <1>3. 1 \in 1 .. Len(p)
    BY <1>1
  <1>4. IsEvent(Head(p)) => <<Head(p).start_ns, Head(p).end_ns>> \in G
    BY <1>1, <1>3 DEF Reported
  <1> QED BY <1>2, <1>4 DEF Reported, q

-----------------------------------------------------------------------------
(* The accounts.                                                              *)

\* The buffer with one or two more records
LEMMA PerfGrows ==
    ASSUME NEW p \in Seq(Records), NEW l \in Records, NEW e \in Records
    PROVE  p \o <<e>> = Append(p, e) /\ p \o <<l, e>> = Append(Append(p, l), e)
  <1>1. p \o <<e>> = Append(p, e)
    OBVIOUS
  <1> DEFINE two == <<l, e>>
             a == p \o two
             b == Append(p, l)
             c == Append(b, e)
  <1>2. two \in Seq(Records) /\ Len(two) = 2 /\ two[1] = l /\ two[2] = e
    OBVIOUS
  <1> HIDE DEF two
  <1>3. /\ Len(p) \in Nat /\ a \in Seq(Records) /\ Len(a) = Len(p) + 2
        /\ \A i \in 1 .. Len(p) : a[i] = p[i]
        /\ a[Len(p) + 1] = l /\ a[Len(p) + 2] = e
    <2>1. /\ Len(p) \in Nat /\ a \in Seq(Records) /\ Len(a) = Len(p) + 2
          /\ \A i \in 1 .. Len(p) + 2 : a[i] = IF i <= Len(p) THEN p[i] ELSE two[i - Len(p)]
      <3>1. Len(p) \in Nat
        OBVIOUS
      <3>2. /\ a \in Seq(Records) /\ Len(a) = Len(p) + Len(two)
            /\ \A i \in 1 .. Len(p) + Len(two) :
                  a[i] = IF i <= Len(p) THEN p[i] ELSE two[i - Len(p)]
        BY <1>2, ConcatProperties
      <3> QED BY <1>2, <3>1, <3>2
    <2> HIDE DEF a
    <2>2. \A i \in 1 .. Len(p) : a[i] = p[i]
      BY <2>1
    <2>3. Len(p) + 1 \in 1 .. Len(p) + 2 /\ ~ (Len(p) + 1 <= Len(p)) /\ (Len(p) + 1) - Len(p) = 1
      BY <2>1
    <2>4. Len(p) + 2 \in 1 .. Len(p) + 2 /\ ~ (Len(p) + 2 <= Len(p)) /\ (Len(p) + 2) - Len(p) = 2
      BY <2>1
    <2>5. a[Len(p) + 1] = two[1] /\ a[Len(p) + 2] = two[2]
      BY <2>1, <2>3, <2>4
    <2> QED BY <1>2, <2>1, <2>2, <2>5
  <1>4. /\ b \in Seq(Records) /\ Len(b) = Len(p) + 1 /\ b[Len(p) + 1] = l
        /\ \A i \in 1 .. Len(p) : b[i] = p[i]
    OBVIOUS
  <1> HIDE DEF a, b
  <1>5. /\ c \in Seq(Records) /\ Len(c) = Len(p) + 2 /\ c[Len(p) + 2] = e
        /\ \A i \in 1 .. Len(p) + 1 : c[i] = b[i]
    BY <1>4
  <1> HIDE DEF c
  <1>6. ASSUME NEW i \in 1 .. Len(p) + 2 PROVE a[i] = c[i]
    <2>1. i \in 1 .. Len(p) \/ i = Len(p) + 1 \/ i = Len(p) + 2
      BY <1>3
    <2>2. CASE i \in 1 .. Len(p)
      BY <1>3, <1>4, <1>5, <2>2
    <2>3. CASE i = Len(p) + 1
      BY <1>3, <1>4, <1>5, <2>3
    <2>4. CASE i = Len(p) + 2
      BY <1>3, <1>5, <2>4
    <2> QED BY <2>1, <2>2, <2>3, <2>4
  <1>7. a = c
    BY <1>3, <1>5, <1>6, SeqEqual
  <1> QED BY <1>1, <1>7 DEF a, b, c, two

\* What is on its way in the rings p with the drops l
PendingOf(p, l) == [cpu \in Cpus |-> Account(p[cpu]) + l[cpu]]

LEMMA PendingTyped ==
    ASSUME NEW p \in [Cpus -> Seq(Records)], NEW l \in [Cpus -> Nat]
    PROVE  /\ PendingOf(p, l) \in Seq(Int) /\ Len(PendingOf(p, l)) = CpuCount
           /\ \A cpu \in Cpus : PendingOf(p, l)[cpu] = Account(p[cpu]) + l[cpu]
           /\ Total(PendingOf(p, l)) \in Int
  <1>1. \A cpu \in Cpus : Account(p[cpu]) + l[cpu] \in Int
    BY AccountTyped
  <1>2. CpuCount \in Nat /\ Cpus = 1 .. CpuCount
    BY BoundsAssumption DEF Cpus
  <1>3. PendingOf(p, l) \in [1 .. CpuCount -> Int]
    BY <1>1, <1>2 DEF PendingOf
  <1>4. PendingOf(p, l) \in Seq(Int) /\ Len(PendingOf(p, l)) = CpuCount
    BY <1>2, <1>3
  <1>5. \A cpu \in Cpus : PendingOf(p, l)[cpu] = Account(p[cpu]) + l[cpu]
    BY DEF PendingOf
  <1> QED BY <1>4, <1>5, TotalType

\* A change of one ring changes the total by as much
LEMMA PendingMoves ==
    ASSUME NEW p \in [Cpus -> Seq(Records)], NEW l \in [Cpus -> Nat],
           NEW q \in [Cpus -> Seq(Records)], NEW m \in [Cpus -> Nat], NEW cpu \in Cpus,
           \A c \in Cpus : c # cpu => q[c] = p[c] /\ m[c] = l[c]
    PROVE  Total(PendingOf(q, m)) = Total(PendingOf(p, l))
               + (Account(q[cpu]) + m[cpu]) - (Account(p[cpu]) + l[cpu])
  <1> DEFINE w == PendingOf(p, l)
             v == PendingOf(q, m)
  <1>1. /\ w \in Seq(Int) /\ Len(w) = CpuCount
        /\ \A c \in Cpus : w[c] = Account(p[c]) + l[c]
    BY PendingTyped
  <1>2. /\ v \in Seq(Int) /\ Len(v) = CpuCount
        /\ \A c \in Cpus : v[c] = Account(q[c]) + m[c]
    BY PendingTyped
  <1> HIDE DEF w, v
  <1>3. Cpus = 1 .. CpuCount /\ cpu \in 1 .. Len(w)
    BY <1>1 DEF Cpus
  <1>4. \A c \in 1 .. Len(w) : c # cpu => v[c] = w[c]
    BY <1>1, <1>2, <1>3
  <1>5. Total(v) = Total(w) + v[cpu] - w[cpu]
    BY <1>1, <1>2, <1>3, <1>4, TotalUpdate
  <1> QED BY <1>1, <1>2, <1>5 DEF v, w

\* Nothing is on its way in empty rings
LEMMA PendingNothing ==
    ASSUME NEW p, NEW l, p = [cpu \in Cpus |-> <<>>], l = [cpu \in Cpus |-> 0]
    PROVE  Total(PendingOf(p, l)) = 0
  <1> DEFINE w == PendingOf(p, l)
             f == [i \in 0 .. CpuCount |-> 0]
  <1>1. p \in [Cpus -> Seq(Records)] /\ l \in [Cpus -> Nat]
    OBVIOUS
  <1>2. /\ w \in Seq(Int) /\ Len(w) = CpuCount
        /\ \A c \in Cpus : w[c] = Account(p[c]) + l[c]
    BY <1>1, PendingTyped
  <1>3. \A c \in 1 .. CpuCount : w[c] = 0
    <2> SUFFICES ASSUME NEW c \in 1 .. CpuCount PROVE w[c] = 0
      OBVIOUS
    <2>1. p[c] = <<>> /\ l[c] = 0 /\ w[c] = Account(p[c]) + l[c]
      BY <1>2 DEF Cpus
    <2> HIDE DEF w
    <2> QED BY <2>1, AccountEmpty
  <1> HIDE DEF w
  <1>4. Sums(f, w, Len(w))
    BY <1>2, <1>3, BoundsAssumption DEF Sums
  <1> QED BY <1>2, <1>4, TotalIs, BoundsAssumption DEF w

\* What an entry of epoll does: it reports the callback of the target that just
\* ended, or it reports nothing
LEMMA EnterCases ==
    ASSUME GapInv, NEW t \in Tasks, NEW v \in Uses[t], EpollEnter(t, v)
    PROVE  /\ UNCHANGED <<clock, stdout, truncated>>
           /\ callback_start'[Config.target_tid] \in {None, callback_start[Config.target_tid]}
           /\ \/ UNCHANGED <<perf, pending_lost, outputs>>
              \/ LET s == callback_start[Config.target_tid]
                 IN  /\ s # None /\ Exceeds(s, clock)
                     /\ \E cpu \in Cpus : PerfOutput(cpu, Event(s, clock))
                     /\ outputs' = outputs \cup {<<s, clock>>}
                     /\ callback_start'[Config.target_tid] = None
  <1>1. UNCHANGED <<clock, stdout, truncated>>
    BY DEF EpollEnter, loader
  <1>2. t.tid \in Tids /\ Config.target_tid \in Tids
        /\ callback_start \in [Tids -> (0 .. MaxTime) \cup {None}]
    BY TargetSlot DEF GapInv, TypeOK
  <1>3. OnEpollEnter(t, v)
    BY DEF EpollEnter
  <1>4. CASE EnterAttached(v) /\ IsTarget(t) /\ callback_start[t.tid] # None
    <2>1. t.tid = Config.target_tid
      BY <1>4, TargetSlot
    <2>2. callback_start'[Config.target_tid] = None
      BY <1>2, <1>3, <1>4, <2>1 DEF OnEpollEnter
    <2> QED BY <1>1, <1>3, <1>4, <2>1, <2>2 DEF OnEpollEnter
  <1>5. CASE ~ (EnterAttached(v) /\ IsTarget(t) /\ callback_start[t.tid] # None)
    BY <1>1, <1>3, <1>5 DEF OnEpollEnter
  <1> QED BY <1>4, <1>5

\* A ring takes a sample, with the pending losses, or counts it as lost; the
\* other rings stay
LEMMA OutputCases ==
    ASSUME Over, NEW e \in Records, NEW cpu \in Cpus, PerfOutput(cpu, e)
    PROVE  /\ perf' \in [Cpus -> Seq(Records)] /\ pending_lost' \in [Cpus -> Nat]
           /\ \A c \in Cpus : c # cpu => perf'[c] = perf[c] /\ pending_lost'[c] = pending_lost[c]
           /\ \/ perf'[cpu] = perf[cpu] /\ pending_lost'[cpu] = pending_lost[cpu] + 1
              \/ /\ perf'[cpu] = Append(perf[cpu], e)
                 /\ pending_lost[cpu] = 0 /\ pending_lost'[cpu] = 0
              \/ /\ perf'[cpu] = Append(Append(perf[cpu], Lost(pending_lost[cpu])), e)
                 /\ pending_lost'[cpu] = 0
  <1> DEFINE ring == perf[cpu]
             drops == pending_lost[cpu]
             records == IF drops = 0 THEN <<e>> ELSE <<Lost(drops), e>>
  <1>1. /\ perf \in [Cpus -> Seq(Records)] /\ pending_lost \in [Cpus -> Nat]
        /\ ring \in Seq(Records) /\ drops \in Nat
    BY DEF Over
  <1>2. Lost(drops) \in Records
    BY <1>1, RecordKinds
  <1>3. /\ ring \o <<e>> = Append(ring, e)
        /\ ring \o <<Lost(drops), e>> = Append(Append(ring, Lost(drops)), e)
    BY <1>1, <1>2, PerfGrows
  <1>4. \/ drops = 0 /\ ring \o records = Append(ring, e)
        \/ ring \o records = Append(Append(ring, Lost(drops)), e)
    BY <1>3
  <1>5. ring \o records \in Seq(Records)
    BY <1>1, <1>2, <1>3
  <1>6. \/ /\ perf' = [perf EXCEPT ![cpu] = ring \o records]
           /\ pending_lost' = [pending_lost EXCEPT ![cpu] = 0]
        \/ perf' = perf /\ pending_lost' = [pending_lost EXCEPT ![cpu] = drops + 1]
    BY DEF PerfOutput
  <1> HIDE DEF ring, drops, records
  <1>7. CASE /\ perf' = [perf EXCEPT ![cpu] = ring \o records]
             /\ pending_lost' = [pending_lost EXCEPT ![cpu] = 0]
    <2>1. perf' \in [Cpus -> Seq(Records)] /\ pending_lost' \in [Cpus -> Nat]
      BY <1>1, <1>5, <1>7
    <2>2. \A c \in Cpus : c # cpu => perf'[c] = perf[c] /\ pending_lost'[c] = pending_lost[c]
      BY <1>1, <1>7
    <2>3. perf'[cpu] = ring \o records /\ pending_lost'[cpu] = 0
      BY <1>1, <1>7
    <2> QED BY <1>4, <2>1, <2>2, <2>3 DEF ring, drops
  <1>8. CASE perf' = perf /\ pending_lost' = [pending_lost EXCEPT ![cpu] = drops + 1]
    <2>1. pending_lost' \in [Cpus -> Nat] /\ pending_lost'[cpu] = drops + 1
      BY <1>1, <1>8
    <2>2. \A c \in Cpus : c # cpu => pending_lost'[c] = pending_lost[c]
      BY <1>1, <1>8
    <2> QED BY <1>1, <1>8, <2>1, <2>2 DEF drops
  <1> QED BY <1>6, <1>7, <1>8

\* A reported gap is new
LEMMA NewGap ==
    ASSUME GapInv, Over, NEW s, s = callback_start[Config.target_tid], s # None,
           Exceeds(s, clock)
    PROVE  /\ s \in 0 .. MaxTime /\ clock \in 0 .. MaxTime
           /\ <<s, clock>> \notin outputs /\ \A g \in outputs : g[2] <= s
  <1>1. s \in 0 .. MaxTime /\ clock \in 0 .. MaxTime
    BY TargetSlot DEF GapInv, TypeOK
  <1>2. \A g \in outputs : g[2] <= s
    BY DEF Over
  <1>3. clock > s
    BY <1>1, BoundsAssumption DEF Exceeds
  <1>4. <<s, clock>> \notin outputs
    <2> SUFFICES ASSUME <<s, clock>> \in outputs PROVE FALSE
      OBVIOUS
    <2>1. <<s, clock>>[2] <= s
      BY <1>2
    <2> QED BY <1>1, <1>3, <2>1
  <1> QED BY <1>1, <1>2, <1>4

\* Over and LossAccounting hold initially
LEMMA BooksInit == Init => Over /\ LossAccounting
  <1> SUFFICES ASSUME Init PROVE Over /\ LossAccounting
    OBVIOUS
  <1>1. Over
    BY FS_EmptySet DEF Init, Over
  <1>2. Cardinality({}) = 0 /\ Account(<<>>) = 0
    BY FS_EmptySet, AccountEmpty
  <1>3. Total(Pending) = 0
    BY PendingNothing DEF Init, Pending, PendingOf
  <1>4. LossAccounting
    BY <1>2, <1>3 DEF Init, LossAccounting, Reported
  <1> QED BY <1>1, <1>4

\* A step that reports nothing, and moves no record, keeps both
LEMMA BooksKept ==
    ASSUME Over, LossAccounting, UNCHANGED <<stdout, truncated, perf, pending_lost, outputs>>,
           GapInv, clock' \in Nat, clock' >= clock,
           callback_start'[Config.target_tid] \in {None, callback_start[Config.target_tid], clock}
    PROVE  Over' /\ LossAccounting'
  <1>1. clock \in Nat /\ outputs \subseteq (0 .. MaxTime) \X (0 .. MaxTime)
    BY DEF GapInv, TypeOK
  <1>2. \A g \in outputs : g[2] \in Int
    BY <1>1
  <1>3. Over'
    BY <1>1, <1>2 DEF Over
  <1>4. LossAccounting'
    BY DEF LossAccounting, Pending
  <1> QED BY <1>3, <1>4

\* A line of the loader's own keeps both
LEMMA BooksSay ==
    ASSUME Over, LossAccounting, NEW r \in {Ready, Fatal}, stdout' = Append(stdout, r),
           UNCHANGED <<truncated, perf, pending_lost, outputs, clock, callback_start>>
    PROVE  Over' /\ LossAccounting'
  <1>1. r \in Records /\ ~ IsEvent(r) /\ Weight(r) = 0
    BY RecordKinds
  <1>2. stdout \in Seq(Records)
    BY DEF Over
  <1>3. Append(stdout, r) \in Seq(Records)
    BY <1>1, <1>2
  <1>4. Over'
    BY <1>3 DEF Over
  <1>5. Account(Append(stdout, r)) = Account(stdout)
    BY <1>1, <1>2, AccountAppend, AccountTyped
  <1>6. Reported(Append(stdout, r), outputs)
    BY <1>1, <1>2, ReportedAppend DEF LossAccounting
  <1>7. Pending' = Pending
    BY DEF Pending
  <1> QED BY <1>4, <1>5, <1>6, <1>7 DEF LossAccounting

\* So does a record that leaves its ring for the output, or is truncated
LEMMA BooksPoll ==
    ASSUME Over, LossAccounting, NEW cpu \in Cpus, Poll(cpu)
    PROVE  Over' /\ LossAccounting'
  <1> DEFINE ring == perf[cpu]
             r == Head(ring)
  <1>1. /\ stdout \in Seq(Records) /\ perf \in [Cpus -> Seq(Records)]
        /\ pending_lost \in [Cpus -> Nat] /\ truncated \in Nat
        /\ ring \in Seq(Records) /\ ring # <<>>
    BY DEF Over, Poll
  <1>2. r \in Records /\ Tail(ring) \in Seq(Records) /\ Append(stdout, r) \in Seq(Records)
    BY <1>1
  <1>3. /\ perf' = [perf EXCEPT ![cpu] = Tail(ring)]
        /\ UNCHANGED <<pending_lost, outputs, clock, callback_start>>
        /\ \/ stdout' = Append(stdout, r) /\ truncated' = truncated
           \/ IsEvent(r) /\ truncated' = truncated + 1 /\ stdout' = stdout
    BY DEF Poll, Emit, target
  <1>4. /\ perf' \in [Cpus -> Seq(Records)] /\ perf'[cpu] = Tail(ring)
        /\ \A c \in Cpus : c # cpu => perf'[c] = perf[c]
    BY <1>1, <1>2, <1>3
  <1>5. Account(Tail(ring)) = Account(ring) - Weight(r)
    BY <1>1, AccountTail
  <1>6. Reported(Tail(ring), outputs) /\ (IsEvent(r) => <<r.start_ns, r.end_ns>> \in outputs)
    BY <1>1, ReportedTail DEF LossAccounting
  <1>7. /\ Account(stdout) \in Int /\ Account(ring) \in Int /\ Weight(r) \in Int
        /\ pending_lost[cpu] \in Int /\ Total(PendingOf(perf, pending_lost)) \in Int
        /\ Account(Append(stdout, r)) = Account(stdout) + Weight(r)
        /\ IsEvent(r) => Weight(r) = 1
    <2> HIDE DEF r
    <2>1. Account(stdout) \in Int /\ Account(ring) \in Int
      BY <1>1, AccountTyped
    <2>2. Weight(r) \in Int /\ (IsEvent(r) => Weight(r) = 1)
      BY <1>2, RecordKinds DEF Weight
    <2>3. pending_lost[cpu] \in Int
      BY <1>1
    <2>4. Total(PendingOf(perf, pending_lost)) \in Int
      BY <1>1, PendingTyped
    <2>5. Account(Append(stdout, r)) = Account(stdout) + Weight(r)
      BY <1>1, <1>2, AccountAppend
    <2> QED BY <2>1, <2>2, <2>3, <2>4, <2>5
  <1>8. Reported(Append(stdout, r), outputs)
    BY <1>1, <1>2, <1>6, ReportedAppend DEF LossAccounting
  <1> HIDE DEF r, ring
  <1>9. stdout' \in Seq(Records) /\ truncated' \in Nat /\ Reported(stdout', outputs)
    <2>1. CASE stdout' = Append(stdout, r) /\ truncated' = truncated
      BY <1>1, <1>2, <1>8, <2>1
    <2>2. CASE truncated' = truncated + 1 /\ stdout' = stdout
      BY <1>1, <2>2 DEF LossAccounting
    <2> QED BY <1>3, <2>1, <2>2
  <1>10. Over'
    BY <1>3, <1>4, <1>9 DEF Over
  <1>11. Account(stdout') + truncated' = Account(stdout) + truncated + Weight(r)
    <2>1. CASE stdout' = Append(stdout, r) /\ truncated' = truncated
      BY <1>1, <1>7, <2>1
    <2>2. CASE IsEvent(r) /\ truncated' = truncated + 1 /\ stdout' = stdout
      BY <1>1, <1>7, <2>2
    <2> QED BY <1>3, <2>1, <2>2
  <1>12. Total(PendingOf(perf', pending_lost')) = Total(PendingOf(perf, pending_lost)) - Weight(r)
    <2>1. Total(PendingOf(perf', pending_lost)) = Total(PendingOf(perf, pending_lost))
              + (Account(perf'[cpu]) + pending_lost[cpu]) - (Account(perf[cpu]) + pending_lost[cpu])
      BY <1>1, <1>4, PendingMoves
    <2> QED BY <1>3, <1>4, <1>5, <1>7, <2>1 DEF ring
  <1>13. Account(stdout) + truncated + Total(PendingOf(perf, pending_lost)) = Cardinality(outputs)
    BY DEF LossAccounting, Pending, PendingOf
  <1>14. Account(stdout') \in Int /\ truncated' \in Int
    BY <1>9, AccountTyped
  <1>15. Account(stdout') + truncated' + Total(PendingOf(perf', pending_lost'))
             = Cardinality(outputs')
    BY <1>1, <1>3, <1>7, <1>11, <1>12, <1>13, <1>14
  <1>16. \A c \in Cpus : Reported(perf'[c], outputs')
    BY <1>3, <1>4, <1>6 DEF LossAccounting
  <1>17. Pending' = PendingOf(perf', pending_lost')
    BY DEF Pending, PendingOf
  <1>18. LossAccounting'
    BY <1>3, <1>9, <1>15, <1>16, <1>17 DEF LossAccounting
  <1> QED BY <1>10, <1>18

\* So does a report, on whichever CPU
LEMMA BooksReport ==
    ASSUME GapInv, Over, LossAccounting, NEW s, s = callback_start[Config.target_tid], s # None,
           Exceeds(s, clock), NEW cpu \in Cpus, PerfOutput(cpu, Event(s, clock)),
           outputs' = outputs \cup {<<s, clock>>}, UNCHANGED <<clock, stdout, truncated>>,
           callback_start'[Config.target_tid] = None
    PROVE  Over' /\ LossAccounting'
  <1> DEFINE e == Event(s, clock)
             ring == perf[cpu]
             drops == pending_lost[cpu]
             l == Lost(drops)
             G == outputs \cup {<<s, clock>>}
  <1>1. /\ s \in 0 .. MaxTime /\ clock \in 0 .. MaxTime
        /\ <<s, clock>> \notin outputs /\ \A g \in outputs : g[2] <= s
    BY NewGap
  <1>2. /\ stdout \in Seq(Records) /\ perf \in [Cpus -> Seq(Records)]
        /\ pending_lost \in [Cpus -> Nat] /\ truncated \in Nat
        /\ ring \in Seq(Records) /\ drops \in Nat /\ IsFiniteSet(outputs)
    BY DEF Over
  <1>3. e \in Records /\ Weight(e) = 1 /\ e.start_ns = s /\ e.end_ns = clock
    BY <1>1, RecordKinds DEF Event
  <1>4. l \in Records /\ ~ IsEvent(l) /\ Weight(l) = drops
    BY <1>2, RecordKinds
  <1>5. /\ perf' \in [Cpus -> Seq(Records)] /\ pending_lost' \in [Cpus -> Nat]
        /\ \A c \in Cpus : c # cpu => perf'[c] = perf[c] /\ pending_lost'[c] = pending_lost[c]
        /\ \/ perf'[cpu] = ring /\ pending_lost'[cpu] = drops + 1
           \/ perf'[cpu] = Append(ring, e) /\ drops = 0 /\ pending_lost'[cpu] = 0
           \/ perf'[cpu] = Append(Append(ring, l), e) /\ pending_lost'[cpu] = 0
    BY <1>3, OutputCases
  <1> HIDE DEF e, l, ring, drops
  <1>6. /\ IsFiniteSet(G) /\ Cardinality(G) = Cardinality(outputs) + 1
        /\ Cardinality(outputs) \in Nat
    BY <1>1, <1>2, FS_AddElement, FS_CardinalityType
  <1>7. Append(ring, l) \in Seq(Records)
    BY <1>2, <1>4
  <1>8. Over'
    <2>1. \A g \in outputs' : g[2] <= clock
      BY <1>1 DEF Over
    <2> QED BY <1>2, <1>5, <1>6, <2>1 DEF Over
  <1>9. Reported(stdout, G) /\ \A c \in Cpus : Reported(perf[c], G)
    <2>1. outputs \subseteq G
      OBVIOUS
    <2> QED BY <2>1, ReportedGrows DEF LossAccounting
  <1>10. Reported(Append(ring, e), G)
    BY <1>2, <1>3, <1>9, ReportedAppend DEF ring
  <1>11. Reported(Append(Append(ring, l), e), G)
    <2>1. Reported(Append(ring, l), G)
      BY <1>2, <1>4, <1>9, ReportedAppend DEF ring
    <2> QED BY <1>3, <1>7, <2>1, ReportedAppend
  <1>12. /\ Account(stdout) \in Int /\ Account(ring) \in Int
         /\ Account(Append(ring, e)) = Account(ring) + 1
         /\ Account(Append(Append(ring, l), e)) = Account(ring) + drops + 1
    <2>1. Account(stdout) \in Int /\ Account(ring) \in Int
      BY <1>2, AccountTyped
    <2>2. Account(Append(ring, e)) = Account(ring) + 1
      BY <1>2, <1>3, AccountAppend
    <2>3. Account(Append(ring, l)) = Account(ring) + drops
      BY <1>2, <1>4, AccountAppend
    <2>4. Account(Append(Append(ring, l), e)) = Account(Append(ring, l)) + 1
      BY <1>3, <1>7, AccountAppend
    <2> QED BY <2>1, <2>2, <2>3, <2>4
  <1>13. Account(perf'[cpu]) + pending_lost'[cpu] = Account(ring) + drops + 1
    <2>1. CASE perf'[cpu] = ring /\ pending_lost'[cpu] = drops + 1
      BY <1>2, <1>12, <2>1
    <2>2. CASE perf'[cpu] = Append(ring, e) /\ drops = 0 /\ pending_lost'[cpu] = 0
      BY <1>2, <1>12, <2>2
    <2>3. CASE perf'[cpu] = Append(Append(ring, l), e) /\ pending_lost'[cpu] = 0
      BY <1>2, <1>12, <2>3
    <2> QED BY <1>5, <2>1, <2>2, <2>3
  <1>14. Reported(perf'[cpu], G)
    BY <1>5, <1>9, <1>10, <1>11 DEF ring
  <1> HIDE DEF G
  <1>15. outputs' = G /\ stdout' = stdout /\ truncated' = truncated
    BY DEF G
  <1>16. Total(PendingOf(perf', pending_lost')) = Total(PendingOf(perf, pending_lost)) + 1
    <2>1. Total(PendingOf(perf', pending_lost')) = Total(PendingOf(perf, pending_lost))
              + (Account(perf'[cpu]) + pending_lost'[cpu]) - (Account(perf[cpu]) + pending_lost[cpu])
      BY <1>2, <1>5, PendingMoves
    <2>2. Total(PendingOf(perf, pending_lost)) \in Int
      BY <1>2, PendingTyped
    <2> QED BY <1>2, <1>12, <1>13, <2>1, <2>2 DEF ring, drops
  <1>17. Account(stdout) + truncated + Total(PendingOf(perf', pending_lost')) = Cardinality(G)
    <2>1. Account(stdout) + truncated + Total(PendingOf(perf, pending_lost)) = Cardinality(outputs)
      BY DEF LossAccounting, Pending, PendingOf
    <2>2. Total(PendingOf(perf, pending_lost)) \in Int
      BY <1>2, PendingTyped
    <2> QED BY <1>2, <1>6, <1>12, <1>16, <2>1, <2>2
  <1>18. \A c \in Cpus : Reported(perf'[c], G)
    BY <1>5, <1>9, <1>14
  <1>19. Pending' = PendingOf(perf', pending_lost')
    BY DEF Pending, PendingOf
  <1>20. LossAccounting'
    BY <1>9, <1>15, <1>17, <1>18, <1>19 DEF LossAccounting
  <1> QED BY <1>8, <1>20

\* Every step keeps the books
LEMMA BooksStep == BooksInv /\ [Next]_vars => BooksInv'
  <1> SUFFICES ASSUME BooksInv, [Next]_vars PROVE Over' /\ LossAccounting'
    BY GapStep DEF BooksInv
  <1>0. GapInv /\ Over /\ LossAccounting /\ clock \in Nat
    BY DEF BooksInv, GapInv, TypeOK
  <1>1. CASE Load \/ Attach \/ Stop
    BY <1>0, <1>1, BooksKept DEF Load, Attach, Stop, target
  <1>2. CASE EmitReady
    BY <1>0, <1>2, BooksSay DEF EmitReady, target
  <1>3. CASE LoadFails \/ AttachFails \/ PollFails
    BY <1>0, <1>3, BooksSay DEF LoadFails, AttachFails, PollFails, Die, target
  <1>4. ASSUME NEW cpu \in Cpus, Poll(cpu) PROVE Over' /\ LossAccounting'
    BY <1>0, <1>4, BooksPoll
  <1>5. CASE Tick
    <2>1. /\ clock' = clock + 1
          /\ UNCHANGED <<stdout, truncated, perf, pending_lost, outputs, callback_start>>
      BY <1>5 DEF Tick, loader, target
    <2> QED BY <1>0, <2>1, BooksKept
  <1>6. ASSUME NEW t \in Tasks, EpollExit(t) PROVE Over' /\ LossAccounting'
    <2>1. UNCHANGED <<stdout, truncated, perf, pending_lost, outputs, clock>>
      BY <1>6 DEF EpollExit, loader
    <2>2. callback_start'[Config.target_tid] \in {callback_start[Config.target_tid], clock}
      BY <1>0, <1>6, TargetSlot DEF EpollExit, GapInv, TypeOK
    <2> QED BY <1>0, <2>1, <2>2, BooksKept
  <1>7. ASSUME NEW t \in Tasks, NEW v \in Uses[t], EpollEnter(t, v) PROVE Over' /\ LossAccounting'
    <2> DEFINE s == callback_start[Config.target_tid]
    <2>1. /\ UNCHANGED <<clock, stdout, truncated>>
          /\ callback_start'[Config.target_tid] \in {None, s}
          /\ \/ UNCHANGED <<perf, pending_lost, outputs>>
             \/ /\ s # None /\ Exceeds(s, clock)
                /\ \E cpu \in Cpus : PerfOutput(cpu, Event(s, clock))
                /\ outputs' = outputs \cup {<<s, clock>>}
                /\ callback_start'[Config.target_tid] = None
      BY <1>0, <1>7, EnterCases
    <2>2. CASE UNCHANGED <<perf, pending_lost, outputs>>
      BY <1>0, <2>1, <2>2, BooksKept
    <2>3. CASE ~ UNCHANGED <<perf, pending_lost, outputs>>
      <3>1. /\ s # None /\ Exceeds(s, clock)
            /\ outputs' = outputs \cup {<<s, clock>>}
            /\ callback_start'[Config.target_tid] = None
        BY <2>1, <2>3
      <3>2. PICK cpu \in Cpus : PerfOutput(cpu, Event(s, clock))
        BY <2>1, <2>3
      <3> QED BY <1>0, <2>1, <3>1, <3>2, BooksReport
    <2> QED BY <2>2, <2>3
  <1>8. CASE UNCHANGED vars
    BY <1>0, <1>8, BooksKept DEF vars
  <1> QED BY <1>1, <1>2, <1>3, <1>4, <1>5, <1>6, <1>7, <1>8 DEF Next

\* No gap the programs hand to the perf buffer is forgotten or counted twice:
\* for any number of CPUs and rings, in whatever order they are read, any
\* capacity and any timing.
THEOREM LossesAccounted == Spec => []LossAccounting
  <1>1. Init => BooksInv
    BY GapInit, BooksInit DEF BooksInv
  <1>2. BooksInv => LossAccounting
    BY DEF BooksInv
  <1> QED BY <1>1, <1>2, BooksStep, PTL DEF Spec
=============================================================================
