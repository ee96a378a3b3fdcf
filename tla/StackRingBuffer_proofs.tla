----------------------- MODULE StackRingBuffer_proofs -----------------------
(* For every ring size: the ring's slots are filled without holes, and the   *)
(* ring implements the sliding window over the newest Size samples.          *)
EXTENDS StackRingBuffer, Accumulation_proofs

\* The slot arithmetic of push and of _ordered_entries wraps at most once.
LEMMA NextHead ==
    ASSUME head \in 0 .. Size - 1
    PROVE  (head + 1) % Size = IF head + 1 < Size THEN head + 1 ELSE 0
  BY SizeAssumption

LEMMA SlotWraps ==
    ASSUME head \in 0 .. Size - 1, NEW i \in 1 .. Size
    PROVE  (head + i - 1) % Size
             = IF head + i - 1 < Size THEN head + i - 1 ELSE head + i - 1 - Size
  BY SizeAssumption

\* The slots are typed and filled without holes in every reachable state.
LEMMA InvInit == Init => Inv
  BY SizeAssumption DEF Init, Inv, TypeOK, FilledPrefix

\* A push or the passing of time keeps them so
LEMMA InvStep == Inv /\ [Next]_vars => Inv'
  <1> SUFFICES ASSUME Inv, [Next]_vars PROVE Inv'
    OBVIOUS
  <1> USE SizeAssumption, NoEntryAssumption DEF Inv, TypeOK, FilledPrefix, Entries
  <1>1. CASE Tick
    BY <1>1 DEF Tick
  <1>2. ASSUME NEW stack \in Stacks, Push(stack) PROVE Inv'
    <2>1. (head + 1) % Size = IF head + 1 < Size THEN head + 1 ELSE 0
      BY NextHead
    <2>2. <<clock, stack>> \in Entries
      OBVIOUS
    <2>3. TypeOK'
      <3>1. buffer' \in [0 .. Size - 1 -> Entries \cup {NoEntry}]
        <4> HIDE DEF Entries
        <4> QED
          BY <1>2, <2>2 DEF Push
      <3>2. head' \in 0 .. Size - 1
        BY <1>2, <2>1 DEF Push
      <3>3. count' \in 0 .. Size /\ overflow_count' \in Nat /\ clock' \in Nat
        BY <1>2 DEF Push
      <3> QED
        BY <3>1, <3>2, <3>3
    <2>4. FilledPrefix'
      BY <1>2, <2>1, <2>2 DEF Push
    <2> QED
      BY <2>3, <2>4
  <1>3. CASE UNCHANGED vars
    BY <1>3 DEF vars
  <1> QED
    BY <1>1, <1>2, <1>3 DEF Next

\* Type correctness and the absence of holes: what _ordered_entries takes for
\* granted about _head and _count holds in every reachable state.
THEOREM RingInvariant == Spec => []Inv
  BY InvInit, InvStep, PTL DEF Spec

-----------------------------------------------------------------------------
\* The slot of the i-th oldest entry
Slot(i) ==
    IF count < Size THEN i - 1
    ELSE IF head + i - 1 < Size THEN head + i - 1 ELSE head + i - 1 - Size

\* What the searches get to see: count entries, none of them None
Shape ==
    /\ OrderedEntries \in Seq(Entries)
    /\ Len(OrderedEntries) = count
    /\ \A i \in 1 .. count : OrderedEntries[i] = buffer[Slot(i)]

\* _ordered_entries returns the filled slots from the oldest on, and its None
\* filter never removes anything.
LEMMA OrderedShape == Inv => Shape
  <1> SUFFICES ASSUME Inv PROVE Shape
    OBVIOUS
  <1> USE SizeAssumption, NoEntryAssumption DEF Inv, TypeOK, FilledPrefix
  <1>1. CASE count < Size
    <2>1. OrderedEntries = [i \in 1 .. count |-> buffer[i - 1]]
      BY <1>1 DEF OrderedEntries
    <2>2. \A i \in 1 .. count : buffer[i - 1] \in Entries
      OBVIOUS
    <2> QED
      BY <1>1, <2>1, <2>2 DEF Shape, Slot
  <1>2. CASE count = Size
    <2>1. \A i \in 1 .. Size : /\ (head + i - 1) % Size = Slot(i)
                              /\ Slot(i) \in 0 .. Size - 1
      <3> TAKE i \in 1 .. Size
      <3>1. (head + i - 1) % Size
               = IF head + i - 1 < Size THEN head + i - 1 ELSE head + i - 1 - Size
        BY SlotWraps
      <3> QED
        BY <1>2, <3>1 DEF Slot
    <2>2. \A i \in 1 .. Size : Rotated[i] = buffer[Slot(i)]
      BY <2>1 DEF Rotated
    <2>3. \A i \in 1 .. Size : Rotated[i] \in Entries /\ Rotated[i] # NoEntry
      BY <1>2, <2>1, <2>2
    <2>4. OrderedEntries = Rotated
      BY <1>2, <2>3 DEF OrderedEntries
    <2>5. Rotated \in [1 .. Size -> Entries]
      BY <2>3 DEF Rotated
    <2>6. Rotated \in Seq(Entries) /\ Len(Rotated) = Size
      BY <2>5
    <2> QED
      BY <1>2, <2>2, <2>4, <2>6 DEF Shape
  <1> QED
    BY <1>1, <1>2 DEF Inv, TypeOK

\* A push appends to the ordered entries and, when the ring is full, removes
\* the oldest of them.
LEMMA PushSlides ==
    ASSUME Inv, Inv', NEW stack \in Stacks, Push(stack)
    PROVE  OrderedEntries' = Window!Newest(Append(OrderedEntries, <<clock, stack>>))
  <1> DEFINE e == <<clock, stack>>
             old == OrderedEntries
             grown == Append(old, e)
             new == OrderedEntries'
  <1>1. Shape /\ Shape'
    <2>1. Inv' => Shape'
      BY OrderedShape, PTL
    <2> QED
      BY <2>1, OrderedShape
  <1> USE SizeAssumption DEF Inv, TypeOK
  <1>2. e \in Entries
    BY DEF Entries
  <1>3. /\ old \in Seq(Entries) /\ Len(old) = count
        /\ new \in Seq(Entries) /\ Len(new) = count'
        /\ \A i \in 1 .. count : old[i] = buffer[Slot(i)]
        /\ \A i \in 1 .. count' : new[i] = buffer'[Slot(i)']
    BY <1>1 DEF Shape
  <1> HIDE DEF old, new
  <1>4. /\ grown \in Seq(Entries) /\ grown # <<>> /\ Len(grown) = count + 1
        /\ \A i \in 1 .. count : grown[i] = old[i]
        /\ grown[count + 1] = e
    <2> HIDE DEF e
    <2>1. /\ grown \in Seq(Entries) /\ grown # <<>> /\ Len(grown) = Len(old) + 1
          /\ \A i \in 1 .. Len(old) : grown[i] = old[i]
          /\ grown[Len(old) + 1] = e
      BY <1>2, <1>3, AppendProperties
    <2> QED
      BY <1>3, <2>1
  <1>5. head' = IF head + 1 < Size THEN head + 1 ELSE 0
    BY NextHead DEF Push
  <1>6. buffer' = [buffer EXCEPT ![head] = e]
    BY DEF Push
  <1> HIDE DEF grown, e
  <1>7. CASE count < Size
    <2>1. count' = count + 1 /\ head = count
      BY <1>7 DEF Push, FilledPrefix
    <2>2. \A i \in 1 .. count + 1 : new[i] = grown[i]
      <3> TAKE i \in 1 .. count + 1
      <3>1. Slot(i)' = i - 1
        BY <1>5, <1>7, <2>1 DEF Slot
      <3>2. new[i] = buffer'[i - 1]
        BY <1>3, <2>1, <3>1
      <3>3. CASE i = count + 1
        BY <1>4, <1>6, <2>1, <3>2, <3>3
      <3>4. CASE i # count + 1
        <4>1. i \in 1 .. count /\ i - 1 # head /\ i - 1 \in 0 .. Size - 1
          BY <1>7, <2>1, <3>4
        <4>2. grown[i] = buffer[i - 1]
          BY <1>3, <1>4, <1>7, <4>1 DEF Slot
        <4> QED
          BY <1>6, <3>2, <4>1, <4>2
      <3> QED
        BY <3>3, <3>4
    <2>3. new = grown
      BY <1>3, <1>4, <2>1, <2>2, SeqEqual
    <2> QED
      BY <1>4, <1>7, <2>3 DEF Window!Newest, new, grown, old, e
  <1>8. CASE count = Size
    <2>1. count' = Size
      BY <1>8 DEF Push
    <2>2. /\ Tail(grown) \in Seq(Entries) /\ Len(Tail(grown)) = Size
          /\ \A i \in 1 .. Size : Tail(grown)[i] = grown[i + 1]
      BY <1>4, <1>8, HeadTailProperties
    <2>3. \A i \in 1 .. Size : new[i] = Tail(grown)[i]
      <3> TAKE i \in 1 .. Size
      <3>1. new[i] = buffer'[Slot(i)']
        BY <1>3, <2>1
      <3>2. CASE i = Size
        <4>1. Slot(i)' = head
          BY <1>5, <2>1, <3>2 DEF Slot
        <4> QED
          BY <1>4, <1>6, <1>8, <2>2, <3>1, <3>2, <4>1
      <3>3. CASE i # Size
        <4>1. Slot(i)' = Slot(i + 1) /\ Slot(i + 1) # head /\ Slot(i + 1) \in 0 .. Size - 1
          BY <1>5, <1>8, <2>1, <3>3 DEF Slot
        <4>2. grown[i + 1] = buffer[Slot(i + 1)]
          <5>1. i + 1 \in 1 .. count
            BY <1>8, <3>3
          <5> QED
            BY <1>3, <1>4, <5>1
        <4> QED
          BY <1>6, <2>2, <3>1, <4>1, <4>2
      <3> QED
        BY <3>2, <3>3
    <2>4. new = Tail(grown)
      BY <1>3, <2>1, <2>2, <2>3, SeqEqual
    <2> QED
      <3>1. Window!Newest(grown) = Tail(grown)
        BY <1>4, <1>8 DEF Window!Newest
      <3> QED
        BY <2>4, <3>1 DEF new, grown, old, e
  <1> QED
    BY <1>7, <1>8

\* The ordered entries depend on nothing but the ring.
LEMMA SameRing ==
    ASSUME Inv, Inv', UNCHANGED <<buffer, head, count>>
    PROVE  OrderedEntries' = OrderedEntries
  <1>1. Inv' => Shape'
    BY OrderedShape, PTL
  <1>2. Shape /\ Shape'
    BY <1>1, OrderedShape
  <1>3. \A i \in 1 .. count : Slot(i)' = Slot(i)
    BY DEF Slot
  <1> QED
    BY <1>2, <1>3, SeqEqual DEF Shape

\* The ring implements the sliding window: every step of the ring is a step of
\* the window over the newest Size samples, whatever the size and however often
\* the ring has wrapped.
THEOREM RingImplementsWindow == Spec => WindowSpec
  <1>1. Init => Window!Init
    BY SizeAssumption DEF Init, Window!Init, OrderedEntries
  <1>2. Inv /\ Inv' /\ [Next]_vars => [Window!Next]_(Window!vars)
    <2> SUFFICES ASSUME Inv, Inv', [Next]_vars PROVE [Window!Next]_(Window!vars)
      OBVIOUS
    <2>1. CASE Tick
      <3>1. OrderedEntries' = OrderedEntries
        BY <2>1, SameRing DEF Tick
      <3> QED
        BY <2>1, <3>1 DEF Tick, Window!Next, Window!Tick
    <2>2. ASSUME NEW stack \in Stacks, Push(stack) PROVE Window!Next
      <3>1. Len(OrderedEntries) = count
        BY OrderedShape DEF Shape
      <3>2. OrderedEntries' = Window!Newest(Append(OrderedEntries, <<clock, stack>>))
        BY <2>2, PushSlides
      <3>3. Window!Record(stack)
        <4>1. Len(OrderedEntries) + overflow_count < MaxPushes
          BY <2>2, <3>1 DEF Push
        <4>2. overflow_count' = IF Len(OrderedEntries) = Size
                                THEN overflow_count + 1 ELSE overflow_count
          BY <2>2, <3>1, SizeAssumption DEF Push, Inv, TypeOK
        <4>3. clock' = clock
          BY <2>2 DEF Push
        <4> QED
          BY <3>2, <4>1, <4>2, <4>3 DEF Window!Record
      <3> QED
        BY <3>3 DEF Window!Next
    <2>3. CASE UNCHANGED vars
      BY <2>3, SameRing DEF vars, Window!vars
    <2> QED
      BY <2>1, <2>2, <2>3 DEF Next
  <1> QED
    BY <1>1, <1>2, RingInvariant, PTL DEF Spec, WindowSpec, Window!Spec

\* The timestamps the searches bisect are sorted in every reachable state, in a
\* ring of any size: rotating out the oldest sample never disturbs the order.
THEOREM RingChronological == Spec => []Chronological
  <1>1. Init => Chronological
    BY SizeAssumption DEF Init, Chronological, OrderedEntries
  <1>2. Inv /\ Inv' /\ Chronological /\ [Next]_vars => Chronological'
    <2> SUFFICES ASSUME Inv, Inv', Chronological, [Next]_vars PROVE Chronological'
      OBVIOUS
    <2>1. OrderedEntries \in Seq(Nat \X Stacks) /\ Len(OrderedEntries) = count /\ clock \in Nat
      BY OrderedShape DEF Shape, Entries, Inv, TypeOK
    <2>2. CASE Tick
      <3>1. OrderedEntries' = OrderedEntries /\ clock' = clock + 1
        BY <2>2, SameRing DEF Tick
      <3> QED
        BY <2>1, <3>1 DEF Chronological
    <2>3. ASSUME NEW stack \in Stacks, Push(stack) PROVE Chronological'
      <3> DEFINE old == OrderedEntries
                 e == <<clock, stack>>
                 grown == Append(old, e)
      <3>1. OrderedEntries' = Window!Newest(grown)
        BY <2>3, PushSlides
      <3>2. e \in Nat \X Stacks /\ e[1] = clock /\ clock' = clock
        BY <2>1, <2>3 DEF Push
      <3> HIDE DEF e
      <3>3. /\ grown \in Seq(Nat \X Stacks) /\ grown # <<>> /\ Len(grown) = Len(old) + 1
            /\ \A i \in 1 .. Len(old) : grown[i] = old[i]
            /\ grown[Len(old) + 1] = e
        BY <2>1, <3>2, AppendProperties
      <3>4. \A i, j \in 1 .. Len(grown) :
                (i <= j => grown[i][1] <= grown[j][1]) /\ grown[j][1] <= clock
        <4> HIDE DEF grown
        <4> TAKE i, j \in 1 .. Len(grown)
        <4>1. \A k \in 1 .. Len(old) : old[k] \in Nat \X Stacks /\ old[k][1] \in Nat
          BY <2>1
        <4>2. \A k, m \in 1 .. Len(old) :
                (k <= m => old[k][1] <= old[m][1]) /\ old[m][1] <= clock
          BY DEF Chronological
        <4> HIDE DEF old
        <4>3. CASE j = Len(old) + 1
          <5>1. grown[j][1] = clock
            BY <3>2, <3>3, <4>3
          <5>2. Len(old) \in Nat
            BY <2>1 DEF old
          <5>3. i = Len(old) + 1 \/ i \in 1 .. Len(old)
            BY <3>3, <5>2
          <5>4. grown[i][1] <= clock
            <6>1. CASE i = Len(old) + 1
              BY <2>1, <3>2, <3>3, <6>1
            <6>2. CASE i \in 1 .. Len(old)
              BY <3>3, <4>2, <6>2
            <6> QED
              BY <5>3, <6>1, <6>2
          <5> QED
            BY <2>1, <5>1, <5>4
        <4>4. CASE j # Len(old) + 1
          <5>1. j \in 1 .. Len(old) /\ (i <= j => i \in 1 .. Len(old))
            BY <2>1, <3>3, <4>4 DEF old
          <5> QED
            BY <3>3, <4>2, <5>1
        <4> QED
          BY <4>3, <4>4
      <3> HIDE DEF grown
      <3>5. CASE Len(grown) > Size
        <4>1. OrderedEntries' = Tail(grown)
          BY <3>1, <3>5 DEF Window!Newest
        <4>2. /\ Tail(grown) \in Seq(Nat \X Stacks) /\ Len(Tail(grown)) = Len(grown) - 1
              /\ \A i \in 1 .. Len(Tail(grown)) : Tail(grown)[i] = grown[i + 1]
          BY <3>3, HeadTailProperties
        <4>3. \A i \in 1 .. Len(Tail(grown)) : i + 1 \in 1 .. Len(grown)
          BY <2>1, <3>3, <4>2
        <4>4. \A i, j \in 1 .. Len(Tail(grown)) :
                 (i <= j => Tail(grown)[i][1] <= Tail(grown)[j][1]) /\ Tail(grown)[j][1] <= clock
          <5> TAKE i, j \in 1 .. Len(Tail(grown))
          <5>1. /\ i + 1 \in 1 .. Len(grown) /\ j + 1 \in 1 .. Len(grown)
                /\ i <= j => i + 1 <= j + 1
            BY <2>1, <3>3, <4>2, <4>3
          <5> QED
            BY <3>4, <4>2, <5>1
        <4> QED
          BY <3>2, <4>1, <4>4 DEF Chronological
      <3>6. CASE ~(Len(grown) > Size)
        <4>1. OrderedEntries' = grown
          BY <3>1, <3>6 DEF Window!Newest
        <4> QED
          BY <3>2, <3>4, <4>1 DEF Chronological
      <3> QED
        BY <3>5, <3>6
    <2>4. CASE UNCHANGED vars
      BY <2>4, SameRing DEF vars, Chronological
    <2> QED
      BY <2>2, <2>3, <2>4 DEF Next
  <1> QED
    BY <1>1, <1>2, RingInvariant, PTL DEF Spec

-----------------------------------------------------------------------------
(* The searches.                                                              *)

\* E is a snapshot the searches can bisect
Sorted(E) ==
    /\ E \in Seq(Nat \X Stacks)
    /\ \A i, j \in 1 .. Len(E) : i <= j => E[i][1] <= E[j][1]

\* The insertion points split the snapshot by time
LEMMA InsertionPoints ==
    ASSUME NEW E, Sorted(E), NEW x \in Int
    PROVE  /\ BisectLeft(Timestamps(E), x) \in 0 .. Len(E)
           /\ BisectRight(Timestamps(E), x) \in 0 .. Len(E)
           /\ \A i \in 1 .. Len(E) :
                 /\ E[i][1] \in Nat /\ E[i][2] \in Stacks
                 /\ E[i][1] < x <=> i <= BisectLeft(Timestamps(E), x)
                 /\ E[i][1] <= x <=> i <= BisectRight(Timestamps(E), x)
  <1> DEFINE n == Len(E)
             ts == Timestamps(E)
             L == {i \in 1 .. Len(ts) : ts[i] < x}
             R == {i \in 1 .. Len(ts) : ~ (x < ts[i])}
  <1>1. n \in Nat /\ \A i \in 1 .. n : E[i] \in Nat \X Stacks
    BY DEF Sorted
  <1>2. \A i \in 1 .. n : E[i][1] \in Nat /\ E[i][2] \in Stacks
    BY <1>1
  <1>3. Len(ts) = n /\ \A i \in 1 .. n : ts[i] = E[i][1]
    BY <1>1 DEF Timestamps
  <1>4. BisectLeft(ts, x) = Bisect(L, n) /\ BisectRight(ts, x) = Bisect(R, n)
    BY <1>3 DEF BisectLeft, BisectRight
  <1> HIDE DEF ts
  <1>5. \A i \in 1 .. n : (i \in L <=> E[i][1] < x) /\ (i \in R <=> E[i][1] <= x)
    BY <1>2, <1>3
  <1> HIDE DEF L, R
  <1>6. \A i, j \in 1 .. n : i <= j => E[i][1] <= E[j][1]
    BY DEF Sorted
  <1>7. /\ \A i, j \in 1 .. n : i <= j /\ j \in L => i \in L
        /\ \A i, j \in 1 .. n : i <= j /\ j \in R => i \in R
    <2> HIDE DEF n
    <2> QED BY <1>2, <1>5, <1>6
  <1>8. /\ Bisect(L, n) \in 0 .. n
        /\ \A i \in 1 .. n : i \in L <=> i <= Bisect(L, n)
    <2> HIDE DEF n
    <2> QED BY <1>1, <1>7, BisectSplits
  <1>9. /\ Bisect(R, n) \in 0 .. n
        /\ \A i \in 1 .. n : i \in R <=> i <= Bisect(R, n)
    <2> HIDE DEF n
    <2> QED BY <1>1, <1>7, BisectSplits
  <1> QED BY <1>2, <1>4, <1>5, <1>8, <1>9 DEF ts

\* The reachable snapshots are sorted
LEMMA SnapshotSorted == ASSUME Inv, Chronological PROVE Sorted(OrderedEntries)
  BY OrderedShape DEF Shape, Entries, Chronological, Sorted

\* find_all_in_range returns exactly the samples of its window
LEMMA FindAllExact ==
    ASSUME Inv, Chronological, NEW s \in Int, NEW e \in Int
    PROVE  FindAllIsExact(s, e)
  <1> DEFINE E == OrderedEntries
             n == Len(E)
             K == InRange(s, e)
             lo == BisectLeft(Timestamps(E), s)
             hi == BisectRight(Timestamps(E), e)
             c == Chosen(K, n)
             hits == Keep(E, K)
  <1>1. Sorted(E)
    BY SnapshotSorted
  <1>2. FindAllInRange(s, e) = [i \in 1 .. hi - lo |-> E[lo + i][2]]
    BY DEF FindAllInRange
  <1>3. K = {i \in 1 .. n : E[i][1] \in s .. e}
    BY DEF InRange
  <1>4. hits = [k \in 1 .. Len(c) |-> E[c[k]]]
    BY DEF Keep
  <1> SUFFICES FindAllInRange(s, e) = [i \in 1 .. Len(hits) |-> hits[i][2]]
    BY DEF FindAllIsExact
  <1> HIDE DEF E, K, lo, hi, c, hits
  <1>5. n \in Nat
    BY <1>1 DEF Sorted
  <1>6. /\ lo \in 0 .. n /\ hi \in 0 .. n
        /\ \A i \in 1 .. n : /\ E[i][1] \in Nat
                             /\ E[i][1] < s <=> i <= lo
                             /\ E[i][1] <= e <=> i <= hi
    BY <1>1, InsertionPoints DEF lo, hi
  <1>7. \A i \in 1 .. n : i \in K <=> i \in lo + 1 .. hi
    <2> HIDE DEF n
    <2> QED BY <1>3, <1>5, <1>6
  <1>8. c = [k \in 1 .. hi - lo |-> lo + k]
    <2>1. lo \in Nat /\ hi \in 0 .. n
      BY <1>5, <1>6
    <2> HIDE DEF n
    <2>2. Chosen(K, n) = Interval(lo, hi)
      BY <1>5, <1>7, <2>1, ChosenInterval
    <2> QED BY <2>2 DEF c, Interval
  <1> HIDE DEF n
  <1>9. 1 .. Len(c) = 1 .. hi - lo /\ Len(c) \in Nat
    <2>1. CASE hi - lo \in Nat
      BY <1>8, <2>1
    <2>2. CASE hi - lo \notin Nat
      <3>1. 1 .. hi - lo = {}
        BY <1>5, <1>6, <2>2
      <3>2. c = <<>>
        BY <1>8, <3>1
      <3> QED BY <3>1, <3>2
    <2> QED BY <2>1, <2>2
  <1>10. Len(hits) = Len(c)
    BY <1>4, <1>9
  <1>11. \A i \in 1 .. hi - lo : hits[i] = E[lo + i]
    BY <1>4, <1>8, <1>9
  <1>12. [i \in 1 .. Len(hits) |-> hits[i][2]] = [i \in 1 .. hi - lo |-> E[lo + i][2]]
    BY <1>9, <1>10, <1>11
  <1> QED BY <1>2, <1>12

\* find_nearest answers with a sample at the insertion point or before it, and
\* for a target inside its window no other sample of the window is closer
LEMMA NearestFound ==
    ASSUME Inv, Chronological, NEW s \in Int, NEW e \in Int, NEW t \in Int,
           t \in s .. e \/ e < s
    PROVE  IsNearest(FindNearest(t, s, e), t, s, e)
  <1> DEFINE E == OrderedEntries
             n == Len(E)
             hits == InRange(s, e)
             pos == BisectLeft(Timestamps(E), t)
             dist(i) == Distance(E[i][1], t)
             Acceptable(i) == /\ i \in 1 .. n
                              /\ E[i][1] \in s .. e
                              /\ dist(i) < e - s + 1
             r == FindNearest(t, s, e)
  <1>1. Sorted(E)
    BY SnapshotSorted
  <1>2. r = IF Acceptable(pos + 1) /\ (Acceptable(pos) => dist(pos + 1) < dist(pos))
            THEN E[pos + 1][2]
            ELSE IF Acceptable(pos) THEN E[pos][2] ELSE NoEntry
    BY DEF FindNearest
  <1>3. hits = {i \in 1 .. n : E[i][1] \in s .. e}
    BY DEF InRange
  <1> SUFFICES IF hits = {} THEN r = NoEntry
               ELSE \E i \in hits : r = E[i][2] /\ \A j \in hits : dist(i) <= dist(j)
    BY DEF IsNearest
  <1> HIDE DEF E, hits, pos, r
  <1>4. n \in Nat
    BY <1>1 DEF Sorted
  <1>5. /\ pos \in 0 .. n
        /\ \A i \in 1 .. n : E[i][1] \in Nat /\ (E[i][1] < t <=> i <= pos)
    BY <1>1, InsertionPoints DEF pos
  <1>6. \A i, j \in 1 .. n : i <= j => E[i][1] <= E[j][1]
    BY <1>1 DEF Sorted
  <1> HIDE DEF n
  <1>7. ASSUME NEW i \in Int PROVE Acceptable(i) <=> i \in hits
    <2>1. CASE i \in 1 .. n /\ E[i][1] \in s .. e
      <3>1. E[i][1] \in Nat /\ t \in s .. e
        BY <1>5, <2>1
      <3>2. dist(i) < e - s + 1
        BY <2>1, <3>1 DEF Distance
      <3> QED BY <1>3, <2>1, <3>2
    <2>2. CASE ~ (i \in 1 .. n /\ E[i][1] \in s .. e)
      BY <1>3, <2>2
    <2> QED BY <2>1, <2>2
  <1>8. pos \in Int /\ pos + 1 \in Int
    BY <1>4, <1>5
  <1>9. ASSUME NEW j \in hits, j <= pos PROVE pos \in hits /\ dist(pos) <= dist(j)
    <2>1. j \in 1 .. n /\ E[j][1] \in s .. e /\ t \in s .. e
      BY <1>3
    <2>2. pos \in 1 .. n
      BY <1>4, <1>5, <1>9, <2>1
    <2>3. E[j][1] <= E[pos][1] /\ E[pos][1] < t /\ E[pos][1] \in Nat /\ E[j][1] \in Nat
      BY <1>5, <1>6, <1>9, <2>1, <2>2
    <2> QED BY <1>3, <2>1, <2>2, <2>3 DEF Distance
  <1>10. ASSUME NEW j \in hits, ~ (j <= pos) PROVE pos + 1 \in hits /\ dist(pos + 1) <= dist(j)
    <2>1. j \in 1 .. n /\ E[j][1] \in s .. e /\ t \in s .. e
      BY <1>3
    <2>2. pos + 1 \in 1 .. n /\ pos + 1 <= j /\ ~ (pos + 1 <= pos)
      BY <1>4, <1>5, <1>10, <2>1
    <2>3. /\ E[pos + 1][1] <= E[j][1] /\ ~ (E[pos + 1][1] < t)
          /\ E[pos + 1][1] \in Nat /\ E[j][1] \in Nat
      BY <1>5, <1>6, <2>1, <2>2
    <2> QED BY <1>3, <2>1, <2>2, <2>3 DEF Distance
  <1>11. \A j \in hits : dist(j) \in Int
    BY <1>3, <1>5 DEF Distance
  <1>12. /\ Acceptable(pos) <=> pos \in hits
         /\ Acceptable(pos + 1) <=> pos + 1 \in hits
    BY <1>7, <1>8
  <1> HIDE DEF Acceptable, dist
  <1>13. CASE pos + 1 \in hits /\ (pos \in hits => dist(pos + 1) < dist(pos))
    <2>1. r = E[pos + 1][2]
      BY <1>2, <1>12, <1>13
    <2>2. ASSUME NEW j \in hits PROVE dist(pos + 1) <= dist(j)
      <3>1. CASE j <= pos
        <4>1. pos \in hits /\ dist(pos) <= dist(j)
          BY <1>9, <3>1
        <4>2. dist(pos) \in Int /\ dist(pos + 1) \in Int /\ dist(j) \in Int
          BY <1>11, <1>13, <4>1
        <4> QED BY <1>13, <4>1, <4>2
      <3>2. CASE ~ (j <= pos)
        BY <1>10, <3>2
      <3> QED BY <3>1, <3>2
    <2> QED BY <1>13, <2>1, <2>2
  <1>14. CASE /\ ~ (pos + 1 \in hits /\ (pos \in hits => dist(pos + 1) < dist(pos)))
              /\ pos \in hits
    <2>1. r = E[pos][2]
      BY <1>2, <1>12, <1>14
    <2>2. ASSUME NEW j \in hits PROVE dist(pos) <= dist(j)
      <3>1. CASE j <= pos
        BY <1>9, <3>1
      <3>2. CASE ~ (j <= pos)
        <4>1. pos + 1 \in hits /\ dist(pos + 1) <= dist(j)
          BY <1>10, <3>2
        <4>2. dist(pos) \in Int /\ dist(pos + 1) \in Int /\ dist(j) \in Int
          BY <1>11, <1>14, <4>1
        <4> QED BY <1>14, <4>1, <4>2
      <3> QED BY <3>1, <3>2
    <2> QED BY <1>14, <2>1, <2>2
  <1>15. CASE pos + 1 \notin hits /\ pos \notin hits
    <2>1. r = NoEntry
      BY <1>2, <1>12, <1>15
    <2>2. hits = {}
      BY <1>9, <1>10, <1>15
    <2> QED BY <2>1, <2>2
  <1> QED BY <1>13, <1>14, <1>15

\* found holds the stacks of the entries of E in the window [s, e] and no other
Covers(found, E, s, e) ==
    /\ found \in Seq(Stacks)
    /\ \A k \in 1 .. Len(found) : \E i \in 1 .. Len(E) :
          E[i][1] \in s .. e /\ found[k] = E[i][2]
    /\ \A i \in 1 .. Len(E) : E[i][1] \in s .. e => \E k \in 1 .. Len(found) : found[k] = E[i][2]

\* So does what find_all_in_range returns
LEMMA FindAllCovers ==
    ASSUME Inv, Chronological, NEW s \in Int, NEW e \in Int
    PROVE  Covers(FindAllInRange(s, e), OrderedEntries, s, e)
  <1> DEFINE E == OrderedEntries
             lo == BisectLeft(Timestamps(E), s)
             hi == BisectRight(Timestamps(E), e)
             found == FindAllInRange(s, e)
  <1>1. Sorted(E)
    BY SnapshotSorted
  <1>2. found = [i \in 1 .. hi - lo |-> E[lo + i][2]]
    BY DEF FindAllInRange
  <1> HIDE DEF E, lo, hi, found
  <1>3. Len(E) \in Nat
    BY <1>1 DEF Sorted
  <1>4. /\ lo \in 0 .. Len(E) /\ hi \in 0 .. Len(E)
        /\ \A i \in 1 .. Len(E) : /\ E[i][1] \in Nat /\ E[i][2] \in Stacks
                                  /\ E[i][1] < s <=> i <= lo
                                  /\ E[i][1] <= e <=> i <= hi
    BY <1>1, InsertionPoints DEF lo, hi
  <1>5. found \in Seq(Stacks) /\ 1 .. Len(found) = 1 .. hi - lo
    <2>1. CASE hi - lo \in Nat
      <3>1. \A k \in 1 .. hi - lo : lo + k \in 1 .. Len(E)
        BY <1>3, <1>4
      <3>2. found \in [1 .. hi - lo -> Stacks]
        BY <1>2, <1>4, <3>1
      <3> QED BY <2>1, <3>2
    <2>2. CASE hi - lo \notin Nat
      <3>1. 1 .. hi - lo = {}
        BY <1>3, <1>4, <2>2
      <3>2. found = <<>>
        BY <1>2, <3>1
      <3> QED BY <3>1, <3>2
    <2> QED BY <2>1, <2>2
  <1>6. \A k \in 1 .. hi - lo : found[k] = E[lo + k][2]
    BY <1>2
  <1>7. ASSUME NEW k \in 1 .. Len(found)
        PROVE  \E i \in 1 .. Len(E) : E[i][1] \in s .. e /\ found[k] = E[i][2]
    <2>1. k \in 1 .. hi - lo
      BY <1>5
    <2>2. lo + k \in 1 .. Len(E) /\ ~ (lo + k <= lo) /\ lo + k <= hi
      BY <1>3, <1>4, <2>1
    <2>3. E[lo + k][1] \in s .. e
      BY <1>4, <2>2
    <2> QED BY <1>6, <2>1, <2>2, <2>3
  <1>8. ASSUME NEW i \in 1 .. Len(E), E[i][1] \in s .. e
        PROVE  \E k \in 1 .. Len(found) : found[k] = E[i][2]
    <2>1. i - lo \in 1 .. hi - lo /\ lo + (i - lo) = i
      <3>1. E[i][1] \in Nat /\ ~ (i <= lo) /\ i <= hi
        BY <1>4, <1>8
      <3> QED BY <1>3, <1>4, <3>1
    <2>2. found[i - lo] = E[i][2]
      BY <1>6, <2>1
    <2>3. i - lo \in 1 .. Len(found)
      BY <1>5, <2>1
    <2> QED BY <2>2, <2>3
  <1>9. Covers(found, E, s, e)
    BY <1>5, <1>7, <1>8 DEF Covers
  <1> QED BY <1>9 DEF found, E

\* What the docstrings of the searches promise holds in every reachable ring, of
\* any size and however often it has wrapped: bisection, on which both searches
\* rest, finds the ends of the window because the snapshot is sorted.
THEOREM RingSearchesExact == Spec => []SearchesAreExact
  <1>1. Inv /\ Chronological => SearchesAreExact
    <2> SUFFICES ASSUME Inv, Chronological, NEW s \in Times, NEW e \in Times
                 PROVE  /\ FindAllIsExact(s, e)
                        /\ \A t \in s .. e : IsNearest(FindNearest(t, s, e), t, s, e)
                        /\ IsNearest(FindInRange(s, e), s, s, e)
      BY DEF SearchesAreExact
    <2>1. s \in Int /\ e \in Int
      BY BoundsAssumption DEF Times
    <2>2. FindAllIsExact(s, e)
      BY <2>1, FindAllExact
    <2>3. ASSUME NEW t \in s .. e PROVE IsNearest(FindNearest(t, s, e), t, s, e)
      <3>1. t \in Int
        BY <2>1
      <3> QED BY <2>1, <3>1, NearestFound
    <2>4. IsNearest(FindInRange(s, e), s, s, e)
      <3>1. s \in s .. e \/ e < s
        BY <2>1
      <3> QED BY <2>1, <3>1, NearestFound DEF FindInRange
    <2> QED BY <2>2, <2>3, <2>4
  <1> QED BY <1>1, RingInvariant, RingChronological, PTL
=============================================================================
