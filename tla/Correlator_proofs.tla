-------------------------- MODULE Correlator_proofs --------------------------
(* For every ring, padding, clock offset and interleaving of the sampler with *)
(* on_event: reports name the call sites that were sampled during the call,   *)
(* each once, and nothing older than the padding allows.                      *)
EXTENDS Correlator, Accumulation_proofs

RP == INSTANCE StackRingBuffer_proofs

-----------------------------------------------------------------------------
(* The ring inside the correlator.                                            *)

\* The operators of the ring are those its theorems are about
LEMMA SameSnapshot == Ring!OrderedEntries = RP!OrderedEntries
  BY DEF Ring!OrderedEntries, RP!OrderedEntries, Ring!Rotated, RP!Rotated

LEMMA SameSearch ==
    ASSUME NEW s \in Int, NEW e \in Int
    PROVE  Ring!FindAllInRange(s, e) = RP!FindAllInRange(s, e)
  BY SameSnapshot DEF Ring!FindAllInRange, RP!FindAllInRange,
        Ring!BisectLeft, RP!BisectLeft, Ring!BisectRight, RP!BisectRight,
        Ring!Bisect, RP!Bisect, Ring!Timestamps, RP!Timestamps

\* The correlator pushes and lets time pass, and otherwise leaves the ring alone
LEMMA RingBehaves == Spec => RP!Spec
  <1>1. Init => RP!Init
    BY DEF Init, Ring!Init, RP!Init
  <1>2. [Next]_vars => [RP!Next]_(RP!vars)
    <2> SUFFICES ASSUME [Next]_vars PROVE [RP!Next]_(RP!vars)
      OBVIOUS
    <2>1. CASE OnEvent
      BY <2>1 DEF OnEvent, ring, RP!vars
    <2>2. CASE Correlate
      BY <2>2 DEF Correlate, ring, RP!vars
    <2>3. CASE Block
      BY <2>3 DEF Block, ring, RP!vars
    <2>4. CASE Unblock
      BY <2>4 DEF Unblock, ring, RP!vars
    <2>5. CASE Tick
      BY <2>5 DEF Tick, Ring!Tick, RP!Next, RP!Tick
    <2>6. ASSUME NEW stack \in Stacks, OnSample(stack) PROVE RP!Next
      BY <2>6 DEF OnSample, Ring!Push, RP!Next, RP!Push
    <2>7. CASE UNCHANGED vars
      BY <2>7 DEF vars, ring, RP!vars
    <2> QED BY <2>1, <2>2, <2>3, <2>4, <2>5, <2>6, <2>7 DEF Next
  <1> QED BY <1>1, <1>2, PTL DEF Spec, RP!Spec

\* So its snapshots are in order in every reachable state
RingInv == RP!Inv /\ RP!Chronological

LEMMA RingIsSound == Spec => []RingInv
  <1>1. RP!Spec => []RP!Inv
    BY RP!RingInvariant, RingAssumption DEF RP!SizeAssumption, RP!BoundsAssumption, RP!NoEntryAssumption
  <1>2. RP!Spec => []RP!Chronological
    BY RP!RingChronological, RingAssumption DEF RP!SizeAssumption, RP!BoundsAssumption, RP!NoEntryAssumption
  <1> QED BY <1>1, <1>2, RingBehaves, PTL DEF RingInv

\* What on_event gets from its search: exactly the stacks of its window
LEMMA SearchCovers ==
    ASSUME RingInv, NEW s \in Int, NEW e \in Int
    PROVE  RP!Covers(Ring!FindAllInRange(s, e), Ring!OrderedEntries, s, e)
  BY SameSearch, SameSnapshot, RP!FindAllCovers, RingAssumption
     DEF RingInv, RP!SizeAssumption, RP!BoundsAssumption, RP!NoEntryAssumption

-----------------------------------------------------------------------------
(* Deduplication.                                                             *)

\* seen holds one stack with frames of found for each call site of found
OnePerSite(seen, found) ==
    /\ seen \in Seq(Stacks)
    /\ \A k \in 1 .. Len(seen) : \E i \in 1 .. Len(found) : seen[k] = found[i] /\ found[i] # <<>>
    /\ \A i, j \in 1 .. Len(seen) : LeafKey(seen[i]) = LeafKey(seen[j]) => i = j
    /\ \A i \in 1 .. Len(found) : found[i] # <<>> =>
          \E k \in 1 .. Len(seen) : LeafKey(seen[k]) = LeafKey(found[i])

LEMMA SeenOnePerSite ==
    ASSUME NEW found \in Seq(Stacks)
    PROVE  OnePerSite(Seen(found), found)
  <1> DEFINE n == Len(found)
             K == {i \in 1 .. n : found[i] # <<>> /\ \A j \in 1 .. i - 1 :
                      found[j] # <<>> => LeafKey(found[j]) # LeafKey(found[i])}
             seen == Seen(found)
  <1>1. seen = Keep(found, K)
    BY DEF Seen
  <1>2. n \in Nat /\ \A i \in 1 .. n : found[i] \in Stacks
    OBVIOUS
  <1>3. PICK c : Lists(c, K, n) /\ Picked(seen, found, c)
    <2> HIDE DEF K, seen
    <2> QED BY <1>1, <1>2, KeepPicks
  <1>4. seen = [k \in 1 .. Len(seen) |-> seen[k]]
    <2>1. Keep(found, K) = [k \in 1 .. Len(Chosen(K, n)) |-> found[Chosen(K, n)[k]]]
      BY DEF Keep
    <2>2. Len(Chosen(K, n)) \in Nat
      <3> HIDE DEF K
      <3> QED BY <1>2, ChosenLists DEF Lists
    <2> HIDE DEF seen, K
    <2> QED BY <1>1, <2>1, <2>2
  <1> HIDE DEF seen
  <1>5. /\ Len(c) \in Nat /\ Len(seen) = Len(c)
        /\ \A k \in 1 .. Len(c) : c[k] \in 1 .. n /\ c[k] \in K /\ seen[k] = found[c[k]]
        /\ \A k, m \in 1 .. Len(c) : k < m => c[k] < c[m]
        /\ \A i \in 1 .. n : i \in K => \E k \in 1 .. Len(c) : c[k] = i
    <2> HIDE DEF K, n
    <2> QED BY <1>3 DEF Lists, Picked
  <1>6. seen \in Seq(Stacks)
    <2> HIDE DEF K
    <2>1. \A k \in 1 .. Len(c) : seen[k] \in Stacks
      BY <1>2, <1>5
    <2> QED BY <1>4, <1>5, <2>1
  <1>7. \A k \in 1 .. Len(seen) : \E i \in 1 .. n : seen[k] = found[i] /\ found[i] # <<>>
    BY <1>5
  <1>8. ASSUME NEW i \in 1 .. Len(seen), NEW j \in 1 .. Len(seen), i < j
        PROVE  LeafKey(seen[i]) # LeafKey(seen[j])
    <2>1. c[i] \in 1 .. n /\ c[j] \in 1 .. n /\ c[i] < c[j] /\ c[i] \in K /\ c[j] \in K
      BY <1>5, <1>8
    <2>2. c[i] \in 1 .. c[j] - 1
      BY <2>1
    <2>3. seen[i] = found[c[i]] /\ seen[j] = found[c[j]]
      BY <1>5
    <2> QED BY <2>1, <2>2, <2>3
  <1>9. \A i, j \in 1 .. Len(seen) : LeafKey(seen[i]) = LeafKey(seen[j]) => i = j
    <2> SUFFICES ASSUME NEW i \in 1 .. Len(seen), NEW j \in 1 .. Len(seen), i # j
                 PROVE  LeafKey(seen[i]) # LeafKey(seen[j])
      OBVIOUS
    <2>1. i < j \/ j < i
      BY <1>5
    <2> QED BY <1>8, <2>1
  <1>10. ASSUME NEW i \in 1 .. n, found[i] # <<>>
         PROVE  \E k \in 1 .. Len(seen) : LeafKey(seen[k]) = LeafKey(found[i])
    <2> DEFINE T == {j \in 1 .. n : found[j] # <<>> /\ LeafKey(found[j]) = LeafKey(found[i])}
    <2>1. T \in SUBSET Nat /\ T # {}
      BY <1>10
    <2>2. PICK x \in T : \A y \in T : x <= y
      <3> HIDE DEF T
      <3> QED BY <2>1, LeastNat
    <2>3. ASSUME NEW j \in 1 .. x - 1, found[j] # <<>>
          PROVE  LeafKey(found[j]) # LeafKey(found[x])
      <3>1. j \in 1 .. n /\ ~ (x <= j)
        BY <1>2
      <3>2. j \notin T
        BY <2>2, <3>1
      <3> QED BY <2>3, <3>1, <3>2
    <2>4. x \in K
      BY <2>3
    <2>5. PICK k \in 1 .. Len(c) : c[k] = x
      BY <1>5, <2>4
    <2>6. seen[k] = found[x]
      BY <1>5, <2>5
    <2> QED BY <1>5, <2>5, <2>6
  <1> HIDE DEF K
  <1>11. OnePerSite(seen, found)
    BY <1>6, <1>7, <1>9, <1>10 DEF OnePerSite
  <1> QED BY <1>11 DEF seen

\* told holds stacks of seen, each at most once, and leaves none out but for the
\* <module>-only ones when there is something better
Tells(told, seen) ==
    /\ told \in Seq(Stacks)
    /\ \A i, j \in 1 .. Len(told) : LeafKey(told[i]) = LeafKey(told[j]) => i = j
    /\ \A k \in 1 .. Len(told) : \E i \in 1 .. Len(seen) : told[k] = seen[i]
    /\ \A i \in 1 .. Len(seen) :
          \/ \E k \in 1 .. Len(told) : told[k] = seen[i]
          \/ ~ IsInformative(seen[i]) /\ \E k \in 1 .. Len(told) : IsInformative(told[k])

LEMMA PreferredTells ==
    ASSUME NEW seen \in Seq(Stacks),
           \A i, j \in 1 .. Len(seen) : LeafKey(seen[i]) = LeafKey(seen[j]) => i = j
    PROVE  Tells(Preferred(seen), seen)
  <1> DEFINE n == Len(seen)
             K == {i \in 1 .. n : IsInformative(seen[i])}
             told == Keep(seen, K)
  <1>1. Preferred(seen) = IF told # <<>> THEN told ELSE seen
    BY DEF Preferred
  <1>2. n \in Nat /\ \A i \in 1 .. n : seen[i] \in Stacks
    OBVIOUS
  <1>3. PICK c : Lists(c, K, n) /\ Picked(told, seen, c)
    <2> HIDE DEF K
    <2> QED BY <1>2, KeepPicks
  <1>4. told = [k \in 1 .. Len(told) |-> told[k]]
    <2>1. told = [k \in 1 .. Len(Chosen(K, n)) |-> seen[Chosen(K, n)[k]]]
      BY DEF Keep
    <2>2. Len(Chosen(K, n)) \in Nat
      <3> HIDE DEF K
      <3> QED BY <1>2, ChosenLists DEF Lists
    <2> HIDE DEF told, K
    <2> QED BY <2>1, <2>2
  <1> HIDE DEF told
  <1>5. /\ Len(c) \in Nat /\ Len(told) = Len(c)
        /\ \A k \in 1 .. Len(c) : c[k] \in 1 .. n /\ c[k] \in K /\ told[k] = seen[c[k]]
        /\ \A k, m \in 1 .. Len(c) : k < m => c[k] < c[m]
        /\ \A i \in 1 .. n : i \in K => \E k \in 1 .. Len(c) : c[k] = i
    <2> HIDE DEF K, n
    <2> QED BY <1>3 DEF Lists, Picked
  <1>6. told \in Seq(Stacks)
    <2> HIDE DEF K
    <2>1. \A k \in 1 .. Len(c) : told[k] \in Stacks
      BY <1>2, <1>5
    <2> QED BY <1>4, <1>5, <2>1
  <1>7. CASE told = <<>>
    <2>1. Preferred(seen) = seen
      BY <1>1, <1>7
    <2>2. Tells(seen, seen)
      BY DEF Tells
    <2> QED BY <2>1, <2>2
  <1>8. CASE told # <<>>
    <2>1. Preferred(seen) = told
      BY <1>1, <1>8
    <2>2. 1 \in 1 .. Len(told) /\ IsInformative(told[1])
      <3>1. 1 \in 1 .. Len(c)
        BY <1>5, <1>6, <1>8
      <3> QED BY <1>5, <3>1
    <2>3. \A i, j \in 1 .. Len(told) : LeafKey(told[i]) = LeafKey(told[j]) => i = j
      <3> SUFFICES ASSUME NEW i \in 1 .. Len(told), NEW j \in 1 .. Len(told),
                          LeafKey(told[i]) = LeafKey(told[j])
                   PROVE  i = j
        OBVIOUS
      <3>1. c[i] = c[j]
        BY <1>5
      <3>2. i < j => c[i] < c[j]
        BY <1>5
      <3>3. j < i => c[j] < c[i]
        BY <1>5
      <3>4. c[i] \in Int /\ i \in Int /\ j \in Int
        BY <1>5
      <3> QED BY <3>1, <3>2, <3>3, <3>4
    <2>4. \A k \in 1 .. Len(told) : \E i \in 1 .. n : told[k] = seen[i]
      BY <1>5
    <2>5. ASSUME NEW i \in 1 .. n
          PROVE  \/ \E k \in 1 .. Len(told) : told[k] = seen[i]
                 \/ ~ IsInformative(seen[i]) /\ \E k \in 1 .. Len(told) : IsInformative(told[k])
      <3>1. CASE i \in K
        <4>1. PICK k \in 1 .. Len(c) : c[k] = i
          BY <1>5, <3>1
        <4> QED BY <1>5, <4>1
      <3>2. CASE i \notin K
        BY <2>2, <3>2
      <3> QED BY <3>1, <3>2
    <2> HIDE DEF K
    <2>6. Tells(told, seen)
      BY <1>6, <2>3, <2>4, <2>5 DEF Tells
    <2> QED BY <2>1, <2>6
  <1> QED BY <1>7, <1>8

-----------------------------------------------------------------------------
(* Reports.                                                                   *)

\* The event is of the past when it is handled
Timely(h) == h \in [event : Events, now : Nat] /\ h.event.end_ns <= h.now + Offset

\* What Correlate hands to the reporter
ReportOf(h, E, found) ==
    [event |-> h.event, now |-> h.now, python_stacks |-> Preferred(Seen(found)), retained |-> E]

\* The report of a timely event is complete and recent
LEMMA ReportHolds ==
    ASSUME NEW h, Timely(h), NEW E \in Seq(Nat \X Stacks), NEW found,
           RP!Covers(found, E, SearchStart(h.event, h.now), h.now)
    PROVE  LET r == ReportOf(h, E, found) IN r \in Reports /\ Complete(r) /\ Recent(r)
  <1> DEFINE r == ReportOf(h, E, found)
             s == SearchStart(h.event, h.now)
             e == h.now
             seen == Seen(found)
             told == Preferred(seen)
             from == h.event.start_ns
             to == h.event.end_ns
             reach == Longer(to - from, Padding)
  <1>1. from \in Int /\ to \in Int /\ e \in Nat /\ to <= e + Offset /\ h.event \in Events
    BY DEF Timely, Events
  <1>2. /\ found \in Seq(Stacks)
        /\ \A k \in 1 .. Len(found) : \E i \in 1 .. Len(E) :
              E[i][1] \in s .. e /\ found[k] = E[i][2]
        /\ \A i \in 1 .. Len(E) : E[i][1] \in s .. e =>
              \E k \in 1 .. Len(found) : found[k] = E[i][2]
    BY DEF RP!Covers
  <1>3. OnePerSite(seen, found)
    BY <1>2, SeenOnePerSite
  <1>4. Tells(told, seen)
    <2> HIDE DEF seen
    <2> QED BY <1>3, PreferredTells DEF OnePerSite
  <1>5. r = [event |-> h.event, now |-> e, python_stacks |-> told, retained |-> E]
    BY DEF ReportOf
  <1> HIDE DEF seen, told
  <1>6. r.event = h.event /\ r.now = e /\ r.python_stacks = told /\ r.retained = E
    BY <1>5
  <1>7. s = e - (to - from) - reach /\ Duration(r) = to - from /\ Reach(r) = reach
    BY <1>6 DEF SearchStart, Duration, Reach
  <1>8. reach \in Nat /\ s \in Int
    BY <1>1, <1>7, CorrelatorAssumption DEF Longer
  <1>9. told \in Seq(Stacks)
    BY <1>4 DEF Tells
  <1>10. r \in Reports
    BY <1>1, <1>5, <1>9 DEF Reports
  <1>11. \A i \in 1 .. Len(E) : E[i][1] \in Nat
    OBVIOUS
  <1> HIDE DEF r, s, e, from, to, reach
  <1>12. Recent(r)
    <2>1. ASSUME NEW j \in 1 .. Len(told)
          PROVE  \E i \in 1 .. Len(E) : /\ E[i][2] = told[j]
                                        /\ E[i][1] + Offset >= from - reach
                                        /\ E[i][1] <= e
      <3>1. PICK k \in 1 .. Len(seen) : told[j] = seen[k]
        BY <1>4 DEF Tells
      <3>2. PICK m \in 1 .. Len(found) : seen[k] = found[m]
        BY <1>3 DEF OnePerSite
      <3>3. PICK i \in 1 .. Len(E) : E[i][1] \in s .. e /\ found[m] = E[i][2]
        BY <1>2
      <3>4. E[i][1] + Offset >= from - reach /\ E[i][1] <= e
        <4> DEFINE t == E[i][1]
        <4>1. t \in Int /\ t >= s /\ t <= e
          BY <1>11, <3>3
        <4>2. s = e - (to - from) - reach
          BY <1>7
        <4> HIDE DEF t
        <4>3. t + Offset >= from - reach
          BY <1>1, <1>8, <4>1, <4>2, CorrelatorAssumption
        <4> QED BY <4>1, <4>3 DEF t
      <3> QED BY <3>1, <3>2, <3>3, <3>4
    <2>2. \A i, j \in 1 .. Len(told) : LeafKey(told[i]) = LeafKey(told[j]) => i = j
      BY <1>4 DEF Tells
    <2>3. r.event.start_ns = from
      BY <1>6 DEF from
    <2> QED BY <1>6, <1>7, <2>1, <2>2, <2>3 DEF Recent
  <1>13. Complete(r)
    <2> SUFFICES ASSUME e + Offset - to <= reach, NEW i \in DuringCall(r)
                 PROVE  \/ LeafKey(E[i][2]) \in Sites(told)
                        \/ /\ \E j \in 1 .. Len(told) : IsInformative(told[j])
                           /\ \E j \in 1 .. Len(E) :
                                 /\ E[j][2] # <<>>
                                 /\ LeafKey(E[j][2]) = LeafKey(E[i][2])
                                 /\ ~ IsInformative(E[j][2])
      <3>1. r.event.end_ns = to
        BY <1>6 DEF to
      <3> QED BY <1>6, <1>7, <3>1 DEF Complete
    <2>1. i \in 1 .. Len(E) /\ E[i][2] # <<>> /\ E[i][1] + Offset \in from .. to
      BY <1>6 DEF DuringCall, from, to
    <2>2. E[i][1] \in s .. e
      BY <1>1, <1>7, <1>8, <1>11, <2>1, CorrelatorAssumption
    <2>3. PICK k \in 1 .. Len(found) : found[k] = E[i][2]
      BY <1>2, <2>1, <2>2
    <2>4. PICK p \in 1 .. Len(seen) : LeafKey(seen[p]) = LeafKey(E[i][2])
      BY <1>3, <2>1, <2>3 DEF OnePerSite
    <2>5. CASE \E m \in 1 .. Len(told) : told[m] = seen[p]
      <3>1. PICK m \in 1 .. Len(told) : told[m] = seen[p]
        BY <2>5
      <3>2. LeafKey(told[m]) = LeafKey(E[i][2])
        BY <2>4, <3>1
      <3> QED BY <3>2 DEF Sites
    <2>6. CASE ~ IsInformative(seen[p]) /\ \E m \in 1 .. Len(told) : IsInformative(told[m])
      <3>1. PICK m \in 1 .. Len(found) : seen[p] = found[m] /\ found[m] # <<>>
        BY <1>3 DEF OnePerSite
      <3>2. PICK j \in 1 .. Len(E) : found[m] = E[j][2]
        BY <1>2
      <3>3. E[j][2] # <<>> /\ LeafKey(E[j][2]) = LeafKey(E[i][2]) /\ ~ IsInformative(E[j][2])
        BY <2>4, <2>6, <3>1, <3>2
      <3> QED BY <2>6, <3>3
    <2> QED BY <1>4, <2>5, <2>6 DEF Tells
  <1> QED BY <1>10, <1>12, <1>13 DEF r

\* Appending a good report keeps all reports good
LEMMA ReportsGrow ==
    ASSUME NEW q \in Seq(Reports), NEW r \in Reports,
           \A k \in 1 .. Len(q) : Complete(q[k]) /\ Recent(q[k]), Complete(r), Recent(r)
    PROVE  /\ Append(q, r) \in Seq(Reports)
           /\ \A k \in 1 .. Len(Append(q, r)) : Complete(Append(q, r)[k]) /\ Recent(Append(q, r)[k])
  <1> DEFINE a == Append(q, r)
  <1>1. /\ a \in Seq(Reports) /\ Len(a) = Len(q) + 1 /\ a[Len(q) + 1] = r
        /\ \A k \in 1 .. Len(q) : a[k] = q[k]
    BY AppendProperties
  <1>2. Len(q) \in Nat
    OBVIOUS
  <1> HIDE DEF a
  <1>3. ASSUME NEW k \in 1 .. Len(a) PROVE Complete(a[k]) /\ Recent(a[k])
    <2>1. k = Len(q) + 1 \/ k \in 1 .. Len(q)
      BY <1>1, <1>2
    <2>2. CASE k = Len(q) + 1
      <3>1. a[k] = r
        BY <1>1, <2>2
      <3> QED BY <3>1
    <2>3. CASE k \in 1 .. Len(q)
      <3>1. a[k] = q[k]
        BY <1>1, <2>3
      <3> QED BY <2>3, <3>1
    <2> QED BY <2>1, <2>2, <2>3
  <1> QED BY <1>1, <1>3 DEF a

\* The queued events carry integer timestamps
LEMMA EventTimes ==
    ASSUME NEW q \in Seq(Events)
    PROVE  \A i \in 1 .. Len(q) : q[i].end_ns \in Int
  <1> SUFFICES ASSUME NEW i \in 1 .. Len(q) PROVE q[i].end_ns \in Int
    OBVIOUS
  <1>1. q[i] \in Events
    OBVIOUS
  <1> QED BY <1>1 DEF Events

\* The inductive invariant holds at first
LEMMA CorrelatorInit == Init => CorrelatorInv
  BY DEF Init, CorrelatorInv, TypeOK, EventsArePast, CulpritsReported, StacksAreRecent

\* Steps that leave the events and the reports alone, while time does not run
\* backwards, keep it
LEMMA TimePasses ==
    ASSUME RingInv, RingInv', CorrelatorInv, clock' >= clock,
           UNCHANGED <<blocked_since, in_flight, handling, reports>>
    PROVE  CorrelatorInv'
  <1>1. clock \in Nat /\ clock' \in Nat
    BY DEF RingInv, RP!Inv, RP!TypeOK
  <1>2. TypeOK'
    BY DEF CorrelatorInv, TypeOK
  <1>3. CulpritsReported' /\ StacksAreRecent'
    BY DEF CorrelatorInv, CulpritsReported, StacksAreRecent
  <1>4. EventsArePast'
    <2>1. \A i \in 1 .. Len(in_flight) : in_flight[i].end_ns \in Int
      BY EventTimes DEF CorrelatorInv, TypeOK
    <2>2. handling # NoEntry => handling.now \in Nat
      BY DEF CorrelatorInv, TypeOK
    <2>3. blocked_since # NoEntry => blocked_since \in Nat
      BY DEF CorrelatorInv, TypeOK
    <2> QED BY <1>1, <2>1, <2>2, <2>3, CorrelatorAssumption DEF CorrelatorInv, EventsArePast
  <1> QED BY <1>2, <1>3, <1>4 DEF CorrelatorInv

\* Every step keeps it
LEMMA CorrelatorStep ==
    RingInv /\ RingInv' /\ CorrelatorInv /\ [Next]_vars => CorrelatorInv'
  <1> SUFFICES ASSUME RingInv, RingInv', CorrelatorInv, [Next]_vars PROVE CorrelatorInv'
    OBVIOUS
  <1>0. clock \in Nat
    BY DEF RingInv, RP!Inv, RP!TypeOK
  <1>1. CASE OnEvent
    <2> DEFINE h == [event |-> Head(in_flight), now |-> clock]
    <2>1. /\ handling' = h /\ in_flight' = Tail(in_flight)
          /\ UNCHANGED <<clock, blocked_since, reports>>
      BY <1>1 DEF OnEvent, ring
    <2>2. /\ in_flight \in Seq(Events) /\ in_flight # <<>>
          /\ \A i \in 1 .. Len(in_flight) : in_flight[i].end_ns <= clock + Offset
      BY <1>1 DEF OnEvent, CorrelatorInv, TypeOK, EventsArePast
    <2>3. /\ Tail(in_flight) \in Seq(Events) /\ Head(in_flight) \in Events
          /\ Head(in_flight) = in_flight[1] /\ 1 \in 1 .. Len(in_flight)
          /\ Len(Tail(in_flight)) = Len(in_flight) - 1 /\ Len(in_flight) \in Nat
          /\ \A i \in 1 .. Len(in_flight) - 1 : Tail(in_flight)[i] = in_flight[i + 1]
      <3> HIDE DEF Events
      <3> QED BY <2>2
    <2>4. h \in [event : Events, now : Nat] /\ h.event = in_flight[1] /\ h.now = clock
      BY <1>0, <2>3
    <2> HIDE DEF h
    <2>5. TypeOK'
      BY <2>1, <2>3, <2>4 DEF CorrelatorInv, TypeOK
    <2>6. EventsArePast'
      <3>1. ASSUME NEW i \in 1 .. Len(in_flight') PROVE in_flight'[i].end_ns <= clock + Offset
        <4>1. i + 1 \in 1 .. Len(in_flight) /\ in_flight'[i] = in_flight[i + 1]
          BY <2>1, <2>3
        <4> QED BY <2>2, <4>1
      <3>2. h.event.end_ns <= h.now + Offset /\ h.now <= clock
        BY <1>0, <2>2, <2>3, <2>4
      <3>3. blocked_since # NoEntry => blocked_since <= clock
        BY DEF CorrelatorInv, EventsArePast
      <3> QED BY <2>1, <3>1, <3>2, <3>3 DEF EventsArePast
    <2>7. CulpritsReported' /\ StacksAreRecent'
      BY <2>1 DEF CorrelatorInv, CulpritsReported, StacksAreRecent
    <2> QED BY <2>5, <2>6, <2>7 DEF CorrelatorInv
  <1>2. CASE Correlate
    <2> DEFINE h == handling
               E == Ring!OrderedEntries
               found == Ring!FindAllInRange(SearchStart(h.event, h.now), h.now)
               r == ReportOf(h, E, found)
    <2>1. /\ handling # NoEntry /\ handling' = NoEntry
          /\ UNCHANGED <<clock, blocked_since, in_flight>>
          /\ reports' = Append(reports, r)
      BY <1>2 DEF Correlate, ring, ReportOf
    <2>2. Timely(h)
      BY <2>1 DEF CorrelatorInv, TypeOK, EventsArePast, Timely
    <2>3. E \in Seq(Nat \X Stacks)
      <3>1. RP!Sorted(RP!OrderedEntries)
        BY RP!SnapshotSorted, RingAssumption
           DEF RingInv, RP!SizeAssumption, RP!BoundsAssumption, RP!NoEntryAssumption
      <3> QED BY <3>1, SameSnapshot DEF RP!Sorted
    <2>4. SearchStart(h.event, h.now) \in Int /\ h.now \in Int
      BY <2>2, CorrelatorAssumption DEF Timely, Events, SearchStart, Longer
    <2>5. RP!Covers(found, E, SearchStart(h.event, h.now), h.now)
      BY <2>4, SearchCovers
    <2> HIDE DEF h, E, found
    <2>6. r \in Reports /\ Complete(r) /\ Recent(r)
      BY <2>2, <2>3, <2>5, ReportHolds
    <2> HIDE DEF r
    <2>7. reports \in Seq(Reports) /\ \A k \in 1 .. Len(reports) : Complete(reports[k]) /\ Recent(reports[k])
      BY DEF CorrelatorInv, TypeOK, CulpritsReported, StacksAreRecent
    <2>8. /\ reports' \in Seq(Reports)
          /\ \A k \in 1 .. Len(reports') : Complete(reports'[k]) /\ Recent(reports'[k])
      BY <2>1, <2>6, <2>7, ReportsGrow
    <2>9. TypeOK' /\ EventsArePast'
      BY <2>1, <2>8 DEF CorrelatorInv, TypeOK, EventsArePast
    <2> QED BY <2>8, <2>9 DEF CorrelatorInv, CulpritsReported, StacksAreRecent
  <1>3. CASE Block
    <2>1. blocked_since' = clock /\ UNCHANGED <<clock, in_flight, handling, reports>>
      BY <1>3 DEF Block, ring
    <2>2. TypeOK' /\ EventsArePast'
      BY <1>0, <2>1 DEF CorrelatorInv, TypeOK, EventsArePast
    <2>3. CulpritsReported' /\ StacksAreRecent'
      BY <2>1 DEF CorrelatorInv, CulpritsReported, StacksAreRecent
    <2> QED BY <2>2, <2>3 DEF CorrelatorInv
  <1>4. CASE Unblock
    <2> DEFINE e == [start_ns |-> blocked_since + Offset, end_ns |-> clock + Offset]
               q == Append(in_flight, e)
    <2>1. in_flight' = q /\ blocked_since' = NoEntry /\ UNCHANGED <<clock, handling, reports>>
      BY <1>4 DEF Unblock, ring
    <2>2. e \in Events /\ e.end_ns = clock + Offset
      BY <1>0, <1>4, CorrelatorAssumption DEF Unblock, CorrelatorInv, TypeOK, Events
    <2>3. /\ in_flight \in Seq(Events)
          /\ \A i \in 1 .. Len(in_flight) : in_flight[i].end_ns <= clock + Offset
      BY DEF CorrelatorInv, TypeOK, EventsArePast
    <2> HIDE DEF e
    <2>4. /\ q \in Seq(Events) /\ Len(q) = Len(in_flight) + 1 /\ Len(in_flight) \in Nat
          /\ q[Len(in_flight) + 1] = e /\ \A i \in 1 .. Len(in_flight) : q[i] = in_flight[i]
      BY <2>2, <2>3, AppendProperties
    <2> HIDE DEF q
    <2>5. ASSUME NEW i \in 1 .. Len(q) PROVE q[i].end_ns <= clock + Offset
      <3>1. i = Len(in_flight) + 1 \/ i \in 1 .. Len(in_flight)
        BY <2>4
      <3>2. CASE i = Len(in_flight) + 1
        BY <1>0, <2>2, <2>4, <3>2, CorrelatorAssumption
      <3>3. CASE i \in 1 .. Len(in_flight)
        BY <2>3, <2>4, <3>3
      <3> QED BY <3>1, <3>2, <3>3
    <2>6. TypeOK' /\ EventsArePast'
      BY <2>1, <2>4, <2>5 DEF CorrelatorInv, TypeOK, EventsArePast
    <2>7. CulpritsReported' /\ StacksAreRecent'
      BY <2>1 DEF CorrelatorInv, CulpritsReported, StacksAreRecent
    <2> QED BY <2>6, <2>7 DEF CorrelatorInv
  <1>5. CASE Tick
    <2>1. clock' >= clock
      BY <1>0, <1>5 DEF Tick, Ring!Tick
    <2> QED BY <1>5, <2>1, TimePasses DEF Tick
  <1>6. ASSUME NEW stack \in Stacks, OnSample(stack) PROVE CorrelatorInv'
    <2>1. clock' >= clock
      BY <1>0, <1>6 DEF OnSample, Ring!Push
    <2> QED BY <1>6, <2>1, TimePasses DEF OnSample
  <1>7. CASE UNCHANGED vars
    <2>1. clock' >= clock /\ UNCHANGED <<blocked_since, in_flight, handling, reports>>
      BY <1>0, <1>7 DEF vars, ring
    <2> QED BY <2>1, TimePasses
  <1> QED BY <1>1, <1>2, <1>3, <1>4, <1>5, <1>6, <1>7 DEF Next

\* The inductive invariant holds in every reachable state: on_event anchors its
\* search on a present that is never before the end of the call.
THEOREM CorrelatorInvariant == Spec => []CorrelatorInv
  BY CorrelatorInit, CorrelatorStep, RingIsSound, PTL DEF Spec

\* Every call site sampled during a call whose event came in time is reported,
\* whatever the ring size, the padding and the offset between the clocks, and
\* however the sampler's pushes fall between `now` and the search.
THEOREM CulpritsAreReported == Spec => []CulpritsReported
  BY CorrelatorInvariant, PTL DEF CorrelatorInv

\* No report holds a stack from before the padded window or from after `now`,
\* nor a call site twice.
THEOREM ReportsAreRecent == Spec => []StacksAreRecent
  BY CorrelatorInvariant, PTL DEF CorrelatorInv
=============================================================================
