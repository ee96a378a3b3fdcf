------------------------- MODULE Accumulation_proofs -------------------------
(* Induction over the natural numbers in a form that takes a set, not an      *)
(* operator, and what follows from it for the loops of Accumulation.          *)
EXTENDS Accumulation, SequenceTheorems, WellFoundedInduction, TLAPS

\* Every non-empty set of natural numbers has a least element
LEMMA LeastNat ==
    ASSUME NEW T \in SUBSET Nat, T # {}
    PROVE  \E x \in T : \A y \in T : x <= y
  <1> DEFINE R == {ss \in Nat \X Nat : ss[1] < ss[2]}
  <1>1. IsWellFoundedOn(R, Nat)
    BY NatLessThanWellFounded DEF OpToRel
  <1>2. \E x \in T : \A y \in T : ~ (<<y, x>> \in R)
    <2> HIDE DEF R
    <2> QED BY <1>1, WFMin
  <1>3. PICK x \in T : \A y \in T : ~ (<<y, x>> \in R)
    BY <1>2
  <1>4. ASSUME NEW y \in T PROVE x <= y
    <2>1. <<y, x>> \in Nat \X Nat /\ <<y, x>>[1] = y /\ <<y, x>>[2] = x
      OBVIOUS
    <2>2. ~ (y < x)
      BY <1>3, <2>1
    <2> QED BY <2>2
  <1> QED BY <1>4

\* Induction: a set that holds 0 and every successor holds all natural numbers
LEMMA SetInduction ==
    ASSUME NEW S, 0 \in S, \A n \in Nat : n \in S => n + 1 \in S
    PROVE  Nat \subseteq S
  <1> DEFINE T == Nat \ S
  <1>1. CASE T = {}
    BY <1>1
  <1>2. CASE T # {}
    <2>1. PICK x \in T : \A y \in T : x <= y
      BY <1>2, LeastNat
    <2>2. x # 0 /\ x - 1 \in Nat
      OBVIOUS
    <2>3. x - 1 \in S
      BY <2>1, <2>2
    <2> QED BY <2>2, <2>3
  <1> QED BY <1>1, <1>2

\* The values a loop of n steps runs through, from d on
LoopTrace(f, D, d, n, step) ==
    /\ f \in [0 .. n -> D]
    /\ f[0] = d
    /\ \A i \in 1 .. n : f[i] = step[i][f[i - 1]]

\* Every loop has a trace
LEMMA LoopExists ==
    ASSUME NEW D, NEW d \in D, NEW n \in Nat, NEW step \in [1 .. n -> [D -> D]]
    PROVE  \E f : LoopTrace(f, D, d, n, step)
  <1> DEFINE Trace(f, m) == /\ f \in [0 .. m -> D]
                            /\ f[0] = d
                            /\ \A i \in 1 .. m : f[i] = step[i][f[i - 1]]
             S == {m \in Nat : m <= n => \E f : Trace(f, m)}
  <1>1. 0 \in S
    <2>1. Trace([i \in 0 .. 0 |-> d], 0)
      OBVIOUS
    <2> QED BY <2>1
  <1>2. ASSUME NEW m \in Nat, m \in S PROVE m + 1 \in S
    <2> SUFFICES ASSUME m + 1 <= n PROVE \E f : Trace(f, m + 1)
      OBVIOUS
    <2>1. PICK f : Trace(f, m)
      BY <1>2
    <2> DEFINE last == step[m + 1][f[m]]
               g == [i \in 0 .. m + 1 |-> IF i = m + 1 THEN last ELSE f[i]]
    <2>2. last \in D
      BY <2>1
    <2>3. g \in [0 .. m + 1 -> D]
      BY <2>1, <2>2
    <2>4. g[0] = d /\ \A i \in 0 .. m : g[i] = f[i]
      BY <2>1
    <2>5. g[m + 1] = last /\ last = step[m + 1][g[m]]
      <3> HIDE DEF last
      <3>1. g[m + 1] = last
        OBVIOUS
      <3>2. g[m] = f[m]
        BY <2>4
      <3> QED BY <3>1, <3>2 DEF last
    <2> HIDE DEF g, last
    <2>6. ASSUME NEW i \in 1 .. m + 1 PROVE g[i] = step[i][g[i - 1]]
      <3>1. CASE i = m + 1
        BY <2>5, <3>1
      <3>2. CASE i \in 1 .. m
        BY <2>1, <2>4, <3>2
      <3> QED BY <3>1, <3>2
    <2> QED BY <2>3, <2>4, <2>6
  <1>3. n \in S
    <2> HIDE DEF S
    <2> QED BY <1>1, <1>2, SetInduction
  <1> QED BY <1>3 DEF LoopTrace

-----------------------------------------------------------------------------
(* Total.                                                                     *)

\* The partial sums of w up to n
Sums(f, w, n) ==
    /\ f \in [0 .. n -> Int]
    /\ f[0] = 0
    /\ \A i \in 1 .. n : f[i] = f[i - 1] + w[i]

\* They exist, and their last one is the total
LEMMA TotalHasSums ==
    ASSUME NEW w \in Seq(Int)
    PROVE  \E f : Sums(f, w, Len(w)) /\ Total(w) = f[Len(w)]
  <1> DEFINE n == Len(w)
             F(f) == f = [i \in 0 .. n |-> IF i = 0 THEN 0 ELSE f[i - 1] + w[i]]
             step == [i \in 1 .. n |-> [x \in Int |-> x + w[i]]]
             sum == CHOOSE f : F(f)
  <1>0. n \in Nat /\ \A i \in 1 .. n : w[i] \in Int
    OBVIOUS
  <1>1. step \in [1 .. n -> [Int -> Int]]
    BY <1>0
  <1>2. PICK f : LoopTrace(f, Int, 0, n, step)
    <2> HIDE DEF step, n, F, sum
    <2>1. 0 \in Int /\ n \in Nat
      BY <1>0
    <2> QED BY <1>1, <2>1, LoopExists, Zenon
  <1>3. F(f)
    <2>1. ASSUME NEW i \in 1 .. n PROVE f[i] = f[i - 1] + w[i]
      <3>1. f[i - 1] \in Int
        BY <1>2 DEF LoopTrace
      <3>2. step[i] = [x \in Int |-> x + w[i]]
        OBVIOUS
      <3>3. step[i][f[i - 1]] = f[i - 1] + w[i]
        BY <3>1, <3>2
      <3> QED BY <1>2, <3>3 DEF LoopTrace
    <2> HIDE DEF n, step, sum
    <2> QED BY <1>2, <2>1 DEF LoopTrace
  <1>4. F(sum)
    <2> HIDE DEF F
    <2> QED BY <1>3
  <1>5. Total(w) = sum[n]
    BY DEF Total
  <1>6. Sums(sum, w, n)
    <2> HIDE DEF sum
    <2>0. sum = [i \in 0 .. n |-> IF i = 0 THEN 0 ELSE sum[i - 1] + w[i]]
      BY <1>4
    <2>1. sum[0] = 0 /\ \A i \in 1 .. n : sum[i] = sum[i - 1] + w[i]
      BY <1>0, <2>0
    <2> DEFINE S == {m \in Nat : m <= n => sum[m] \in Int}
    <2>2. 0 \in S
      BY <2>1
    <2>3. \A m \in Nat : m \in S => m + 1 \in S
      <3> SUFFICES ASSUME NEW m \in Nat, m \in S, m + 1 <= n PROVE sum[m + 1] \in Int
        OBVIOUS
      <3>1. sum[m + 1] = sum[m] + w[m + 1]
        BY <1>0, <2>1
      <3> QED BY <1>0, <3>1
    <2>4. Nat \subseteq S
      <3> HIDE DEF S
      <3> QED BY <2>2, <2>3, SetInduction
    <2>5. \A i \in 0 .. n : sum[i] \in Int
      BY <1>0, <2>4
    <2>6. sum \in [0 .. n -> Int]
      BY <2>0, <2>5
    <2> QED BY <2>1, <2>6 DEF Sums
  <1> HIDE DEF sum
  <1> QED BY <1>5, <1>6

\* Partial sums are unique
LEMMA SumsUnique ==
    ASSUME NEW w, NEW n \in Nat, NEW f, NEW g, Sums(f, w, n), Sums(g, w, n)
    PROVE  f[n] = g[n]
  <1> DEFINE S == {m \in Nat : m <= n => f[m] = g[m]}
  <1>1. 0 \in S
    BY DEF Sums
  <1>2. \A m \in Nat : m \in S => m + 1 \in S
    <2> SUFFICES ASSUME NEW m \in Nat, m \in S, m + 1 <= n PROVE f[m + 1] = g[m + 1]
      OBVIOUS
    <2>1. f[m + 1] = f[m] + w[m + 1] /\ g[m + 1] = g[m] + w[m + 1] /\ f[m] = g[m]
      BY DEF Sums
    <2> QED BY <2>1
  <1>3. Nat \subseteq S
    <2> HIDE DEF S
    <2> QED BY <1>1, <1>2, SetInduction
  <1> QED BY <1>3

\* Whatever has the partial sums of w ends with its total
LEMMA TotalIs ==
    ASSUME NEW w \in Seq(Int), NEW f, Sums(f, w, Len(w))
    PROVE  Total(w) = f[Len(w)]
  <1>1. PICK g : Sums(g, w, Len(w)) /\ Total(w) = g[Len(w)]
    BY TotalHasSums
  <1>2. Len(w) \in Nat
    OBVIOUS
  <1> QED BY <1>1, <1>2, SumsUnique

\* The total of nothing
LEMMA TotalEmpty == Total(<<>>) = 0
  <1>1. <<>> \in Seq(Int) /\ Len(<<>>) = 0
    OBVIOUS
  <1>2. PICK f : Sums(f, <<>>, Len(<<>>)) /\ Total(<<>>) = f[Len(<<>>)]
    BY <1>1, TotalHasSums
  <1> QED BY <1>1, <1>2 DEF Sums

\* One more number at the end
LEMMA TotalAppend ==
    ASSUME NEW w \in Seq(Int), NEW x \in Int
    PROVE  Total(Append(w, x)) = Total(w) + x
  <1> DEFINE n == Len(w)
             v == Append(w, x)
  <1>1. n \in Nat /\ v \in Seq(Int) /\ Len(v) = n + 1 /\ v[n + 1] = x
        /\ \A i \in 1 .. n : v[i] = w[i]
    OBVIOUS
  <1> HIDE DEF v
  <1>2. PICK f : Sums(f, v, Len(v)) /\ Total(v) = f[Len(v)]
    BY <1>1, TotalHasSums
  <1> DEFINE g == [i \in 0 .. n |-> f[i]]
  <1>3. Sums(g, w, n)
    <2>1. g \in [0 .. n -> Int] /\ g[0] = 0
      BY <1>1, <1>2 DEF Sums
    <2>2. ASSUME NEW i \in 1 .. n PROVE g[i] = g[i - 1] + w[i]
      <3>1. f[i] = f[i - 1] + v[i] /\ v[i] = w[i]
        BY <1>1, <1>2 DEF Sums
      <3>2. g[i] = f[i] /\ g[i - 1] = f[i - 1]
        BY <1>1
      <3> QED BY <3>1, <3>2
    <2> HIDE DEF g
    <2> QED BY <2>1, <2>2 DEF Sums
  <1>4. Total(w) = f[n]
    <2>1. g[n] = f[n]
      BY <1>1
    <2> HIDE DEF g
    <2> QED BY <1>3, <2>1, TotalIs
  <1>5. f[n + 1] = f[n] + x
    <2> HIDE DEF n, g
    <2>1. \A i \in 1 .. n + 1 : f[i] = f[i - 1] + v[i]
      BY <1>1, <1>2 DEF Sums
    <2>2. f[n + 1] = f[n + 1 - 1] + v[n + 1]
      BY <1>1, <2>1
    <2>3. n + 1 - 1 = n
      BY <1>1
    <2> QED BY <1>1, <2>2, <2>3
  <1> QED BY <1>1, <1>2, <1>4, <1>5 DEF v

\* One number less at the front
LEMMA TotalTail ==
    ASSUME NEW w \in Seq(Int), w # <<>>
    PROVE  Total(Tail(w)) = Total(w) - w[1]
  <1> DEFINE n == Len(w)
             v == Tail(w)
  <1>1. n \in Nat /\ n > 0 /\ v \in Seq(Int) /\ Len(v) = n - 1
        /\ \A i \in 1 .. n - 1 : v[i] = w[i + 1]
    OBVIOUS
  <1> HIDE DEF v
  <1>2. PICK f : Sums(f, w, Len(w)) /\ Total(w) = f[Len(w)]
    BY TotalHasSums
  <1> HIDE DEF n
  <1>3. f \in [0 .. n -> Int] /\ f[1] = w[1] /\ \A i \in 1 .. n : f[i] = f[i - 1] + w[i]
    <2>1. f \in [0 .. n -> Int] /\ f[0] = 0 /\ \A i \in 1 .. n : f[i] = f[i - 1] + w[i]
      BY <1>2 DEF Sums, n
    <2>2. f[1] = f[0] + w[1] /\ w[1] \in Int
      BY <1>1, <2>1
    <2> QED BY <2>1, <2>2
  <1> DEFINE g == [i \in 0 .. n - 1 |-> f[i + 1] - f[1]]
  <1>4. Sums(g, v, n - 1)
    <2>1. \A i \in 0 .. n - 1 : f[i + 1] \in Int /\ f[1] \in Int /\ g[i] = f[i + 1] - f[1]
      BY <1>1, <1>3
    <2>2. g \in [0 .. n - 1 -> Int] /\ g[0] = 0
      <3>1. g \in [0 .. n - 1 -> Int]
        BY <2>1
      <3>2. 0 \in 0 .. n - 1 /\ 0 + 1 = 1
        BY <1>1
      <3>3. g[0] = f[1] - f[1] /\ f[1] \in Int
        <4> HIDE DEF g
        <4> QED BY <2>1, <3>2
      <3> QED BY <3>1, <3>3
    <2>3. ASSUME NEW i \in 1 .. n - 1 PROVE g[i] = g[i - 1] + v[i]
      <3>1. f[i + 1] = f[i] + v[i]
        BY <1>1, <1>3
      <3>2. g[i] = f[i + 1] - f[1] /\ g[i - 1] = f[i] - f[1] /\ f[i] \in Int /\ f[1] \in Int
        <4>1. i \in 0 .. n - 1 /\ i - 1 \in 0 .. n - 1 /\ (i - 1) + 1 = i
          BY <1>1
        <4> HIDE DEF g
        <4> QED BY <2>1, <4>1
      <3>3. v[i] \in Int
        BY <1>1
      <3> QED BY <3>1, <3>2, <3>3
    <2> HIDE DEF g
    <2> QED BY <2>2, <2>3 DEF Sums
  <1>5. Total(v) = g[n - 1] /\ g[n - 1] = f[n] - w[1]
    <2>1. g[n - 1] = f[n] - w[1]
      BY <1>1, <1>3
    <2> HIDE DEF g
    <2> QED BY <1>1, <1>4, <2>1, TotalIs
  <1> QED BY <1>2, <1>5 DEF v, n

\* The same for a sequence that agrees with w but for one number at the end
LEMMA TotalLonger ==
    ASSUME NEW w \in Seq(Int), NEW v \in Seq(Int), Len(v) = Len(w) + 1,
           \A i \in 1 .. Len(w) : v[i] = w[i]
    PROVE  Total(v) = Total(w) + v[Len(w) + 1]
  <1> DEFINE x == v[Len(w) + 1]
             u == Append(w, x)
  <1>1. Len(w) \in Nat /\ x \in Int
    OBVIOUS
  <1>2. u \in Seq(Int) /\ Len(u) = Len(w) + 1 /\ u[Len(w) + 1] = x
        /\ \A i \in 1 .. Len(w) : u[i] = w[i]
    BY <1>1
  <1> HIDE DEF u
  <1>3. ASSUME NEW i \in 1 .. Len(v) PROVE v[i] = u[i]
    <2>1. i \in 1 .. Len(w) \/ i = Len(w) + 1
      BY <1>1
    <2> QED BY <1>2, <2>1
  <1>4. v = u
    BY <1>2, <1>3, SeqEqual
  <1> HIDE DEF x
  <1>5. Total(v) = Total(w) + x
    BY <1>1, <1>4, TotalAppend DEF u
  <1> QED BY <1>5 DEF x

\* And for one that agrees with w but for one number at the front
LEMMA TotalShorter ==
    ASSUME NEW w \in Seq(Int), NEW v \in Seq(Int), Len(w) = Len(v) + 1,
           \A i \in 1 .. Len(v) : v[i] = w[i + 1]
    PROVE  Total(v) = Total(w) - w[1]
  <1>1. w # <<>> /\ Tail(w) \in Seq(Int) /\ Len(Tail(w)) = Len(v)
        /\ \A i \in 1 .. Len(v) : Tail(w)[i] = w[i + 1]
    OBVIOUS
  <1>2. v = Tail(w)
    BY <1>1, SeqEqual
  <1> QED BY <1>1, <1>2, TotalTail

\* A total is a number
LEMMA TotalType ==
    ASSUME NEW w \in Seq(Int)
    PROVE  Total(w) \in Int
  <1>1. PICK f : Sums(f, w, Len(w)) /\ Total(w) = f[Len(w)]
    BY TotalHasSums
  <1>2. Len(w) \in Nat /\ Len(w) \in 0 .. Len(w)
    OBVIOUS
  <1> QED BY <1>1, <1>2 DEF Sums

\* One number changes
LEMMA TotalUpdate ==
    ASSUME NEW w \in Seq(Int), NEW v \in Seq(Int), Len(v) = Len(w), NEW x \in 1 .. Len(w),
           \A i \in 1 .. Len(w) : i # x => v[i] = w[i]
    PROVE  Total(v) = Total(w) + v[x] - w[x]
  <1> DEFINE n == Len(w)
             d == v[x] - w[x]
  <1>1. n \in Nat /\ d \in Int /\ w[x] \in Int /\ v[x] \in Int
        /\ \A i \in 1 .. n : w[i] \in Int /\ v[i] \in Int
    OBVIOUS
  <1>2. PICK f : Sums(f, w, n) /\ Total(w) = f[n]
    BY TotalHasSums
  <1>3. f \in [0 .. n -> Int] /\ f[0] = 0 /\ \A i \in 1 .. n : f[i] = f[i - 1] + w[i]
    <2> HIDE DEF n
    <2> QED BY <1>2 DEF Sums
  <1> DEFINE g == [i \in 0 .. n |-> IF i < x THEN f[i] ELSE f[i] + d]
  <1>4. g \in [0 .. n -> Int] /\ g[0] = 0
    <2> HIDE DEF d, n
    <2>1. 0 \in 0 .. n /\ 0 < x
      BY <1>1 DEF n
    <2> QED BY <1>1, <1>3, <2>1
  <1>5. ASSUME NEW i \in 1 .. n PROVE g[i] = g[i - 1] + v[i]
    <2>1. /\ g[i] = IF i < x THEN f[i] ELSE f[i] + d
          /\ g[i - 1] = IF i - 1 < x THEN f[i - 1] ELSE f[i - 1] + d
      <3>1. i \in 0 .. n /\ i - 1 \in 0 .. n
        BY <1>1
      <3> HIDE DEF d, n
      <3> QED BY <3>1
    <2>2. f[i] = f[i - 1] + w[i] /\ f[i - 1] \in Int /\ w[i] \in Int /\ v[i] \in Int
      <3>1. i - 1 \in 0 .. n
        BY <1>1
      <3> HIDE DEF g, d, n
      <3>2. f[i - 1] \in Int
        BY <1>3, <3>1
      <3> QED BY <1>1, <1>3, <3>2
    <2>3. i # x => v[i] = w[i]
      OBVIOUS
    <2> HIDE DEF g
    <2>4. CASE i < x
      BY <1>1, <2>1, <2>2, <2>3, <2>4
    <2>5. CASE i = x
      <3>1. v[i] = w[i] + d
        BY <1>1, <2>5
      <3> QED BY <1>1, <2>1, <2>2, <2>5, <3>1
    <2>6. CASE i > x
      BY <1>1, <2>1, <2>2, <2>3, <2>6
    <2> QED BY <1>1, <2>4, <2>5, <2>6
  <1>6. g[n] = f[n] + d
    BY <1>1
  <1> HIDE DEF g
  <1>7. Sums(g, v, Len(v))
    BY <1>4, <1>5 DEF Sums
  <1>8. Total(v) = g[n]
    BY <1>7, TotalIs
  <1>9. f[n] \in Int
    BY <1>1, <1>3
  <1> QED BY <1>1, <1>2, <1>6, <1>8, <1>9

-----------------------------------------------------------------------------
(* Chosen.                                                                    *)

\* The prefixes of the chosen indices
Picks(f, K, n) ==
    /\ f \in [0 .. n -> Seq(Nat)]
    /\ f[0] = <<>>
    /\ \A i \in 1 .. n : f[i] = IF i \in K THEN Append(f[i - 1], i) ELSE f[i - 1]

\* They exist, and the last one is Chosen
LEMMA ChosenHasPicks ==
    ASSUME NEW K, NEW n \in Nat
    PROVE  \E f : Picks(f, K, n) /\ Chosen(K, n) = f[n]
  <1> DEFINE D == Seq(Nat)
             F(f) == f = [i \in 0 .. n |->
                            IF i = 0 THEN <<>>
                            ELSE IF i \in K THEN Append(f[i - 1], i) ELSE f[i - 1]]
             step == [i \in 1 .. n |-> [x \in D |-> IF i \in K THEN Append(x, i) ELSE x]]
             kept == CHOOSE f : F(f)
  <1>1. step \in [1 .. n -> [D -> D]]
    <2>1. ASSUME NEW i \in 1 .. n, NEW x \in D
          PROVE  (IF i \in K THEN Append(x, i) ELSE x) \in D
      OBVIOUS
    <2> HIDE DEF D
    <2> QED BY <2>1
  <1>2. PICK f : LoopTrace(f, D, <<>>, n, step)
    <2>1. <<>> \in D
      OBVIOUS
    <2> HIDE DEF step, F, kept, D
    <2> QED BY <1>1, <2>1, LoopExists, Zenon
  <1>3. F(f)
    <2>1. ASSUME NEW i \in 1 .. n PROVE f[i] = IF i \in K THEN Append(f[i - 1], i) ELSE f[i - 1]
      <3>1. f[i - 1] \in D
        BY <1>2 DEF LoopTrace
      <3>2. step[i] = [x \in D |-> IF i \in K THEN Append(x, i) ELSE x]
        OBVIOUS
      <3> HIDE DEF D, step
      <3>3. step[i][f[i - 1]] = IF i \in K THEN Append(f[i - 1], i) ELSE f[i - 1]
        BY <3>1, <3>2
      <3> QED BY <1>2, <3>3 DEF LoopTrace
    <2>2. f \in [0 .. n -> D] /\ f[0] = <<>>
      BY <1>2 DEF LoopTrace
    <2> HIDE DEF step, kept, D
    <2>3. f = [i \in 0 .. n |-> f[i]]
      BY <2>2
    <2>4. ASSUME NEW i \in 0 .. n
          PROVE  f[i] = IF i = 0 THEN <<>>
                        ELSE IF i \in K THEN Append(f[i - 1], i) ELSE f[i - 1]
      <3>1. i = 0 \/ (i # 0 /\ i \in 1 .. n)
        OBVIOUS
      <3> QED BY <2>1, <2>2, <3>1, Zenon
    <2> DEFINE rest(i) == IF i = 0 THEN <<>>
                          ELSE IF i \in K THEN Append(f[i - 1], i) ELSE f[i - 1]
    <2>5. \A i \in 0 .. n : f[i] = rest(i)
      BY <2>4
    <2> HIDE DEF rest
    <2>6. f = [i \in 0 .. n |-> rest(i)]
      BY <2>3, <2>5
    <2> QED BY <2>6 DEF rest
  <1>4. F(kept)
    <2> HIDE DEF F
    <2> QED BY <1>3
  <1>5. Chosen(K, n) = kept[n]
    BY DEF Chosen
  <1>6. Picks(kept, K, n)
    <2> HIDE DEF kept
    <2>0. kept = [i \in 0 .. n |->
                    IF i = 0 THEN <<>>
                    ELSE IF i \in K THEN Append(kept[i - 1], i) ELSE kept[i - 1]]
      BY <1>4
    <2> DEFINE rest(i) == IF i = 0 THEN <<>>
                          ELSE IF i \in K THEN Append(kept[i - 1], i) ELSE kept[i - 1]
    <2>7. \A i \in 0 .. n : kept[i] = rest(i)
      <3>1. kept = [i \in 0 .. n |-> rest(i)]
        BY <2>0
      <3> HIDE DEF rest
      <3> QED BY <3>1
    <2>1. kept[0] = <<>>
          /\ \A i \in 1 .. n : kept[i] = IF i \in K THEN Append(kept[i - 1], i) ELSE kept[i - 1]
      <3>1. 0 \in 0 .. n /\ \A i \in 1 .. n : i \in 0 .. n /\ i # 0
        OBVIOUS
      <3>2. kept[0] = <<>>
        BY <2>7, <3>1, Zenon DEF rest
      <3>3. ASSUME NEW i \in 1 .. n
            PROVE  kept[i] = IF i \in K THEN Append(kept[i - 1], i) ELSE kept[i - 1]
        BY <2>7, <3>1, Zenon DEF rest
      <3> QED BY <3>2, <3>3
    <2> HIDE DEF rest
    <2> DEFINE S == {m \in Nat : m <= n => kept[m] \in Seq(Nat)}
    <2>2. 0 \in S
      <3>1. <<>> \in Seq(Nat) /\ 0 \in Nat
        OBVIOUS
      <3>2. kept[0] \in Seq(Nat)
        BY <2>1, <3>1, Zenon
      <3> QED BY <3>2
    <2>3. \A m \in Nat : m \in S => m + 1 \in S
      <3> SUFFICES ASSUME NEW m \in Nat, m \in S, m + 1 <= n PROVE kept[m + 1] \in Seq(Nat)
        OBVIOUS
      <3>1. m + 1 \in 1 .. n /\ (m + 1) - 1 = m /\ kept[m] \in Seq(Nat)
        OBVIOUS
      <3>2. kept[m + 1] = IF m + 1 \in K THEN Append(kept[m], m + 1) ELSE kept[m]
        BY <2>1, <3>1
      <3> QED BY <3>1, <3>2
    <2>4. Nat \subseteq S
      <3> HIDE DEF S
      <3> QED BY <2>2, <2>3, SetInduction
    <2>5. \A i \in 0 .. n : kept[i] \in Seq(Nat)
      BY <2>4
    <2>6. kept \in [0 .. n -> Seq(Nat)]
      BY <2>0, <2>5
    <2> QED BY <2>1, <2>6 DEF Picks
  <1> HIDE DEF kept
  <1> QED BY <1>5, <1>6

\* Picks are unique
LEMMA PicksUnique ==
    ASSUME NEW K, NEW n \in Nat, NEW f, NEW g, Picks(f, K, n), Picks(g, K, n)
    PROVE  f[n] = g[n]
  <1> DEFINE S == {m \in Nat : m <= n => f[m] = g[m]}
  <1>1. 0 \in S
    BY DEF Picks
  <1>2. \A m \in Nat : m \in S => m + 1 \in S
    <2> SUFFICES ASSUME NEW m \in Nat, m \in S, m + 1 <= n PROVE f[m + 1] = g[m + 1]
      OBVIOUS
    <2>1. m + 1 \in 1 .. n /\ (m + 1) - 1 = m /\ f[m] = g[m]
      OBVIOUS
    <2>2. /\ f[m + 1] = IF m + 1 \in K THEN Append(f[m], m + 1) ELSE f[m]
          /\ g[m + 1] = IF m + 1 \in K THEN Append(g[m], m + 1) ELSE g[m]
      BY <2>1 DEF Picks
    <2> QED BY <2>1, <2>2
  <1>3. Nat \subseteq S
    <2> HIDE DEF S
    <2> QED BY <1>1, <1>2, SetInduction
  <1> QED BY <1>3

\* Nothing is chosen from nothing, and one index more is taken if it is in K
LEMMA ChosenZero == ASSUME NEW K PROVE Chosen(K, 0) = <<>>
  <1>1. 0 \in Nat
    OBVIOUS
  <1>2. PICK f : Picks(f, K, 0) /\ Chosen(K, 0) = f[0]
    BY <1>1, ChosenHasPicks
  <1> QED BY <1>2 DEF Picks

LEMMA ChosenNext ==
    ASSUME NEW K, NEW n \in Nat
    PROVE  /\ Chosen(K, n) \in Seq(Nat)
           /\ Chosen(K, n + 1) = IF n + 1 \in K THEN Append(Chosen(K, n), n + 1)
                                 ELSE Chosen(K, n)
  <1>0. n + 1 \in Nat
    OBVIOUS
  <1>1. PICK f : Picks(f, K, n + 1) /\ Chosen(K, n + 1) = f[n + 1]
    BY <1>0, ChosenHasPicks
  <1>2. PICK h : Picks(h, K, n) /\ Chosen(K, n) = h[n]
    BY ChosenHasPicks
  <1> DEFINE g == [i \in 0 .. n |-> f[i]]
  <1>3. Picks(g, K, n)
    <2>1. g \in [0 .. n -> Seq(Nat)] /\ g[0] = <<>>
      BY <1>1 DEF Picks
    <2>2. ASSUME NEW i \in 1 .. n PROVE g[i] = IF i \in K THEN Append(g[i - 1], i) ELSE g[i - 1]
      <3>1. f[i] = IF i \in K THEN Append(f[i - 1], i) ELSE f[i - 1]
        BY <1>1 DEF Picks
      <3>2. g[i] = f[i] /\ g[i - 1] = f[i - 1]
        OBVIOUS
      <3> HIDE DEF g
      <3> QED BY <3>1, <3>2
    <2> HIDE DEF g
    <2> QED BY <2>1, <2>2 DEF Picks
  <1>4. g[n] = f[n]
    OBVIOUS
  <1> HIDE DEF g
  <1>5. Chosen(K, n) = f[n]
    BY <1>2, <1>3, <1>4, PicksUnique
  <1>6. n + 1 \in 1 .. n + 1 /\ (n + 1) - 1 = n /\ n \in 0 .. n + 1
    OBVIOUS
  <1>7. f[n + 1] = IF n + 1 \in K THEN Append(f[n], n + 1) ELSE f[n]
    BY <1>1, <1>6 DEF Picks
  <1>8. f[n] \in Seq(Nat)
    BY <1>1, <1>6 DEF Picks
  <1> QED BY <1>1, <1>5, <1>7, <1>8

\* c lists the members of K among 1 .. n, each once and in increasing order
Lists(c, K, n) ==
    /\ c \in Seq(Nat)
    /\ \A k \in 1 .. Len(c) : c[k] \in 1 .. n /\ c[k] \in K
    /\ \A k, m \in 1 .. Len(c) : k < m => c[k] < c[m]
    /\ \A i \in 1 .. n : i \in K => \E k \in 1 .. Len(c) : c[k] = i

\* One index more
LEMMA ListsNext ==
    ASSUME NEW K, NEW n \in Nat, NEW c, Lists(c, K, n), n + 1 \in K
    PROVE  Lists(Append(c, n + 1), K, n + 1)
  <1> DEFINE d == Append(c, n + 1)
  <1>1. /\ c \in Seq(Nat) /\ Len(c) \in Nat /\ d \in Seq(Nat) /\ Len(d) = Len(c) + 1
        /\ d[Len(c) + 1] = n + 1 /\ \A k \in 1 .. Len(c) : d[k] = c[k]
    BY DEF Lists
  <1> HIDE DEF d
  <1>2. \A k \in 1 .. Len(d) : k = Len(c) + 1 \/ k \in 1 .. Len(c)
    BY <1>1
  <1>3. \A k \in 1 .. Len(c) : d[k] \in 1 .. n /\ d[k] \in K
    BY <1>1 DEF Lists
  <1>4. \A k \in 1 .. Len(d) : d[k] \in 1 .. n + 1 /\ d[k] \in K
    BY <1>1, <1>2, <1>3
  <1>5. ASSUME NEW k \in 1 .. Len(d), NEW m \in 1 .. Len(d), k < m PROVE d[k] < d[m]
    <2>1. k \in 1 .. Len(c)
      BY <1>1, <1>5
    <2>2. CASE m = Len(c) + 1
      BY <1>1, <1>3, <2>1, <2>2
    <2>3. CASE m \in 1 .. Len(c)
      BY <1>1, <1>5, <2>1, <2>3 DEF Lists
    <2> QED BY <1>2, <2>2, <2>3
  <1>6. ASSUME NEW i \in 1 .. n + 1, i \in K PROVE \E k \in 1 .. Len(d) : d[k] = i
    <2>1. CASE i = n + 1
      <3>1. Len(c) + 1 \in 1 .. Len(d)
        BY <1>1
      <3> QED BY <1>1, <2>1, <3>1
    <2>2. CASE i \in 1 .. n
      <3>1. PICK k \in 1 .. Len(c) : c[k] = i
        BY <1>6, <2>2 DEF Lists
      <3>2. k \in 1 .. Len(d) /\ d[k] = i
        BY <1>1, <3>1
      <3> QED BY <3>2
    <2> QED BY <2>1, <2>2
  <1>7. Lists(d, K, n + 1)
    BY <1>1, <1>4, <1>5, <1>6 DEF Lists
  <1> QED BY <1>7 DEF d

\* Chosen lists what it chooses from
LEMMA ChosenLists ==
    ASSUME NEW K, NEW n \in Nat
    PROVE  Lists(Chosen(K, n), K, n)
  <1> DEFINE S == {m \in Nat : Lists(Chosen(K, m), K, m)}
  <1>1. 0 \in S
    <2>1. Chosen(K, 0) = <<>>
      BY ChosenZero
    <2>2. Lists(<<>>, K, 0)
      BY DEF Lists
    <2> QED BY <2>1, <2>2
  <1>2. ASSUME NEW m \in Nat, m \in S PROVE m + 1 \in S
    <2> DEFINE c == Chosen(K, m)
    <2>1. Lists(c, K, m)
      BY <1>2
    <2>2. Chosen(K, m + 1) = IF m + 1 \in K THEN Append(c, m + 1) ELSE c
      BY ChosenNext
    <2> HIDE DEF c
    <2>3. CASE m + 1 \in K
      <3>1. Lists(Append(c, m + 1), K, m + 1)
        BY <2>1, <2>3, ListsNext
      <3>2. Lists(Chosen(K, m + 1), K, m + 1)
        BY <2>2, <2>3, <3>1, Zenon
      <3> QED BY <3>2
    <2>4. CASE m + 1 \notin K
      <3>1. Lists(c, K, m + 1)
        <4>1. \A i \in 1 .. m + 1 : i = m + 1 \/ i \in 1 .. m
          OBVIOUS
        <4>2. \A i \in 1 .. m : i \in 1 .. m + 1
          OBVIOUS
        <4> QED BY <2>1, <2>4, <4>1, <4>2 DEF Lists
      <3> QED BY <2>2, <2>4, <3>1
    <2> QED BY <2>3, <2>4
  <1>3. Nat \subseteq S
    <2> HIDE DEF S
    <2> QED BY <1>1, <1>2, SetInduction
  <1> QED BY <1>3

\* The indices lo + 1 .. hi, in order
Interval(lo, hi) == [k \in 1 .. hi - lo |-> lo + k]

\* A contiguous choice is an interval
LEMMA ChosenInterval ==
    ASSUME NEW K, NEW n \in Nat, NEW lo \in Nat, NEW hi \in 0 .. n,
           \A i \in 1 .. n : i \in K <=> i \in lo + 1 .. hi
    PROVE  Chosen(K, n) = Interval(lo, hi)
  <1> DEFINE top(m) == IF m < hi THEN m ELSE hi
             part(m) == [k \in 1 .. top(m) - lo |-> lo + k]
             S == {m \in Nat : m <= n => Chosen(K, m) = part(m)}
  <1>1. 0 \in S
    <2>1. part(0) = <<>>
      <3>1. 1 .. top(0) - lo = {}
        OBVIOUS
      <3> QED BY <3>1
    <2> HIDE DEF part
    <2> QED BY <2>1, ChosenZero
  <1>2. ASSUME NEW m \in Nat, m \in S PROVE m + 1 \in S
    <2> SUFFICES ASSUME m + 1 <= n PROVE Chosen(K, m + 1) = part(m + 1)
      OBVIOUS
    <2>1. Chosen(K, m) = part(m)
      BY <1>2
    <2>2. Chosen(K, m + 1) = IF m + 1 \in K THEN Append(Chosen(K, m), m + 1)
                             ELSE Chosen(K, m)
      BY ChosenNext
    <2>3. m + 1 \in K <=> m + 1 \in lo + 1 .. hi
      OBVIOUS
    <2>4. CASE m + 1 \in lo + 1 .. hi
      <3>1. top(m) = m /\ top(m + 1) = m + 1 /\ m - lo \in Nat
        BY <2>4
      <3> DEFINE p == [k \in 1 .. m - lo |-> lo + k]
                 q == [k \in 1 .. (m + 1) - lo |-> lo + k]
      <3>2. part(m) = p /\ part(m + 1) = q
        BY <3>1
      <3>3. p \in Seq(Nat) /\ q \in Seq(Nat) /\ Len(p) = m - lo /\ Len(q) = (m - lo) + 1
            /\ (\A k \in 1 .. m - lo : p[k] = lo + k)
            /\ (\A k \in 1 .. (m - lo) + 1 : q[k] = lo + k)
        BY <3>1
      <3> HIDE DEF p, q
      <3> DEFINE a == Append(p, m + 1)
      <3>4. a \in Seq(Nat) /\ Len(a) = (m - lo) + 1 /\ a[(m - lo) + 1] = m + 1
            /\ \A k \in 1 .. m - lo : a[k] = p[k]
        BY <3>1, <3>3
      <3> HIDE DEF a
      <3>5. ASSUME NEW k \in 1 .. (m - lo) + 1 PROVE a[k] = q[k]
        <4>1. k = (m - lo) + 1 \/ k \in 1 .. m - lo
          BY <3>1
        <4>2. q[k] = lo + k
          BY <3>3
        <4>3. CASE k = (m - lo) + 1
          BY <3>4, <4>2, <4>3
        <4>4. CASE k \in 1 .. m - lo
          BY <3>3, <3>4, <4>2, <4>4
        <4> QED BY <4>1, <4>3, <4>4
      <3>6. a = q
        BY <3>3, <3>4, <3>5, SeqEqual
      <3> QED BY <2>1, <2>2, <2>3, <2>4, <3>2, <3>6 DEF a
    <2>5. CASE m + 1 \notin lo + 1 .. hi
      <3>1. 1 .. top(m + 1) - lo = 1 .. top(m) - lo
        BY <2>5
      <3>2. part(m + 1) = part(m)
        BY <3>1
      <3> HIDE DEF part
      <3> QED BY <2>1, <2>2, <2>3, <2>5, <3>2
    <2> QED BY <2>4, <2>5
  <1>3. Nat \subseteq S
    <2> HIDE DEF S
    <2> QED BY <1>1, <1>2, SetInduction
  <1>4. Chosen(K, n) = part(n)
    BY <1>3
  <1>5. top(n) = hi
    OBVIOUS
  <1> QED BY <1>4, <1>5 DEF Interval

\* q holds the elements of s whose index c lists
Picked(q, s, c) == Len(q) = Len(c) /\ \A k \in 1 .. Len(c) : q[k] = s[c[k]]

\* Keep picks what Chosen lists
LEMMA KeepPicks ==
    ASSUME NEW s, Len(s) \in Nat, NEW K
    PROVE  \E c : Lists(c, K, Len(s)) /\ Picked(Keep(s, K), s, c)
  <1> DEFINE c == Chosen(K, Len(s))
  <1>1. Lists(c, K, Len(s))
    BY ChosenLists
  <1>2. Keep(s, K) = [k \in 1 .. Len(c) |-> s[c[k]]]
    BY DEF Keep
  <1>3. Len(c) \in Nat
    <2> HIDE DEF c
    <2> QED BY <1>1 DEF Lists
  <1> HIDE DEF c
  <1>4. Picked(Keep(s, K), s, c)
    BY <1>2, <1>3 DEF Picked
  <1> QED BY <1>1, <1>4

-----------------------------------------------------------------------------
(* Bisection.                                                                 *)

\* The midpoint of a non-empty interval lies in it
LEMMA Halves ==
    ASSUME NEW lo \in Nat, NEW hi \in Nat, lo < hi
    PROVE  (lo + hi) \div 2 \in Nat /\ lo <= (lo + hi) \div 2 /\ (lo + hi) \div 2 < hi
  OBVIOUS

\* f runs the halving loop
Halving(f, left, n) ==
    \A lo, hi \in 0 .. n :
        f[<<lo, hi>>] =
            IF lo >= hi THEN lo
            ELSE IF (lo + hi) \div 2 + 1 \in left THEN f[<<(lo + hi) \div 2 + 1, hi>>]
                 ELSE f[<<lo, (lo + hi) \div 2>>]

\* When left is a prefix of the indices, the halving loop ends behind it
LEMMA HalvingFinds ==
    ASSUME NEW n \in Nat, NEW P \in 0 .. n, NEW left,
           \A i \in 1 .. n : i \in left <=> i <= P,
           NEW search, Halving(search, left, n)
    PROVE  search[<<0, n>>] = P
  <1> DEFINE A == 0 .. n
             mid(lo, hi) == (lo + hi) \div 2
             S == {d \in Nat : \A lo, hi \in A :
                      lo <= P /\ P <= hi /\ hi - lo <= d => search[<<lo, hi>>] = P}
  <1>1. 0 \in S
    <2> SUFFICES ASSUME NEW lo \in A, NEW hi \in A, lo <= P, P <= hi, hi - lo <= 0
                 PROVE  search[<<lo, hi>>] = P
      OBVIOUS
    <2>1. lo >= hi /\ lo = P
      OBVIOUS
    <2> QED BY <2>1 DEF Halving
  <1>2. \A d \in Nat : d \in S => d + 1 \in S
    <2> SUFFICES ASSUME NEW d \in Nat, d \in S, NEW lo \in A, NEW hi \in A,
                        lo <= P, P <= hi, hi - lo <= d + 1
                 PROVE  search[<<lo, hi>>] = P
      OBVIOUS
    <2>1. CASE lo >= hi
      <3>1. lo = P
        BY <2>1
      <3> QED BY <2>1, <3>1 DEF Halving
    <2>2. CASE lo < hi
      <3> DEFINE m == mid(lo, hi)
      <3>1. m \in A /\ m + 1 \in A /\ lo <= m /\ m < hi
        BY <2>2, Halves
      <3>2. m + 1 \in left <=> m + 1 <= P
        BY <3>1
      <3>3. search[<<lo, hi>>] = IF m + 1 \in left THEN search[<<m + 1, hi>>] ELSE search[<<lo, m>>]
        BY <2>2 DEF Halving
      <3> HIDE DEF m
      <3>4. m + 1 <= P => search[<<m + 1, hi>>] = P
        BY <3>1
      <3>5. ~ (m + 1 <= P) => search[<<lo, m>>] = P
        BY <3>1
      <3> QED BY <3>2, <3>3, <3>4, <3>5
    <2> QED BY <2>1, <2>2
  <1>3. n \in S
    <2> HIDE DEF S
    <2> QED BY <1>1, <1>2, SetInduction
  <1> QED BY <1>3

\* The loop defines such a function, so bisect ends behind the prefix
LEMMA BisectFinds ==
    ASSUME NEW n \in Nat, NEW P \in 0 .. n, NEW left,
           \A i \in 1 .. n : i \in left <=> i <= P
    PROVE  Bisect(left, n) = P
  <1> DEFINE A == 0 .. n
             mid(w) == (w[1] + w[2]) \div 2
             F(f) == f = [w \in A \X A |->
                            IF w[1] >= w[2] THEN w[1]
                            ELSE IF mid(w) + 1 \in left THEN f[<<mid(w) + 1, w[2]>>]
                                 ELSE f[<<w[1], mid(w)>>]]
             ends(w) == IF w[1] >= w[2] \/ P <= w[1] THEN w[1]
                        ELSE IF P >= w[2] THEN w[2] ELSE P
             g == [w \in A \X A |-> ends(w)]
             search == CHOOSE f : F(f)
  <1>1. Bisect(left, n) = search[<<0, n>>]
    BY DEF Bisect
  <1>2. F(g)
    <2> DEFINE body(w) == IF w[1] >= w[2] THEN w[1]
                          ELSE IF mid(w) + 1 \in left THEN g[<<mid(w) + 1, w[2]>>]
                               ELSE g[<<w[1], mid(w)>>]
    <2>1. \A w \in A \X A : g[w] = ends(w)
      OBVIOUS
    <2>2. ASSUME NEW w \in A \X A PROVE ends(w) = body(w)
      <3> HIDE DEF g
      <3> DEFINE lo == w[1]
                 hi == w[2]
                 m == mid(w)
      <3>0. lo \in A /\ hi \in A /\ lo \in Nat /\ hi \in Nat
        OBVIOUS
      <3>1. CASE lo >= hi
        BY <3>1
      <3>2. CASE lo < hi
        <4>1. m \in A /\ m + 1 \in A /\ lo <= m /\ m < hi
          BY <3>0, <3>2, Halves
        <4>2. m + 1 \in left <=> m + 1 <= P
          BY <4>1
        <4>3. body(w) = IF m + 1 \in left THEN g[<<m + 1, hi>>] ELSE g[<<lo, m>>]
          BY <3>0, <3>2
        <4>4. ends(w) = IF P <= lo THEN lo ELSE IF P >= hi THEN hi ELSE P
          BY <3>0, <3>2
        <4>5. g[<<m + 1, hi>>] = IF m + 1 >= hi \/ P <= m + 1 THEN m + 1
                                 ELSE IF P >= hi THEN hi ELSE P
          <5> HIDE DEF m, lo, hi
          <5> DEFINE u == <<m + 1, hi>>
          <5>1. u \in A \X A /\ u[1] = m + 1 /\ u[2] = hi
            BY <3>0, <4>1
          <5> HIDE DEF u
          <5>2. g[u] = ends(u)
            BY <2>1, <5>1
          <5>3. ends(u) = IF m + 1 >= hi \/ P <= m + 1 THEN m + 1
                          ELSE IF P >= hi THEN hi ELSE P
            BY <5>1
          <5> QED BY <5>2, <5>3 DEF u
        <4>6. g[<<lo, m>>] = IF lo >= m \/ P <= lo THEN lo ELSE IF P >= m THEN m ELSE P
          BY <2>1, <3>0, <4>1
        <4> HIDE DEF m, lo, hi, body, ends
        <4> QED BY <3>0, <3>2, <4>1, <4>2, <4>3, <4>4, <4>5, <4>6
      <3> QED BY <3>0, <3>1, <3>2
    <2>3. g = [w \in A \X A |-> body(w)]
      <3> HIDE DEF ends, body, A
      <3>1. \A w \in A \X A : g[w] = body(w)
        BY <2>1, <2>2
      <3>2. g = [w \in A \X A |-> g[w]]
        BY DEF g
      <3> HIDE DEF g
      <3> QED BY <3>1, <3>2
    <2> HIDE DEF g
    <2> QED BY <2>3
  <1>3. F(search)
    <2> HIDE DEF F
    <2> QED BY <1>2
  <1>4. Halving(search, left, n)
    <2> HIDE DEF search
    <2> SUFFICES ASSUME NEW lo \in A, NEW hi \in A
                 PROVE search[<<lo, hi>>] =
            IF lo >= hi THEN lo
            ELSE IF (lo + hi) \div 2 + 1 \in left THEN search[<<(lo + hi) \div 2 + 1, hi>>]
                 ELSE search[<<lo, (lo + hi) \div 2>>]
      BY DEF Halving
    <2>1. <<lo, hi>> \in A \X A /\ <<lo, hi>>[1] = lo /\ <<lo, hi>>[2] = hi
      OBVIOUS
    <2> QED BY <1>3, <2>1
  <1> HIDE DEF search
  <1>5. search[<<0, n>>] = P
    BY <1>4, HalvingFinds
  <1> QED BY <1>1, <1>5

\* A set of indices that is closed downwards is a prefix, and bisect finds its end
LEMMA BisectSplits ==
    ASSUME NEW n \in Nat, NEW left, \A i, j \in 1 .. n : i <= j /\ j \in left => i \in left
    PROVE  /\ Bisect(left, n) \in 0 .. n
           /\ \A i \in 1 .. n : i \in left <=> i <= Bisect(left, n)
  <1> DEFINE T == {i \in 1 .. n + 1 : i = n + 1 \/ i \notin left}
  <1>1. T \in SUBSET Nat /\ n + 1 \in T
    OBVIOUS
  <1>2. PICK x \in T : \A y \in T : x <= y
    <2> HIDE DEF T
    <2> QED BY <1>1, LeastNat
  <1>3. x - 1 \in 0 .. n
    OBVIOUS
  <1>4. ASSUME NEW i \in 1 .. n PROVE i \in left <=> i <= x - 1
    <2>1. CASE i < x
      <3>1. i \notin T
        BY <1>2, <2>1
      <3> QED BY <2>1, <3>1
    <2>2. CASE x <= i
      <3>1. x \in 1 .. n /\ x \notin left
        BY <2>2
      <3> QED BY <2>2, <3>1
    <2> QED BY <2>1, <2>2
  <1>5. Bisect(left, n) = x - 1
    BY <1>3, <1>4, BisectFinds
  <1> QED BY <1>3, <1>4, <1>5
=============================================================================
