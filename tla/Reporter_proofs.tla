--------------------------- MODULE Reporter_proofs ---------------------------
(* For every set of events, options and rounding, and whatever sinks fail:    *)
(* the summary is exact, the streams agree with it, and the exit status is    *)
(* the one the summary implies.                                               *)
EXTENDS Reporter, Accumulation_proofs, FiniteSetTheorems

-----------------------------------------------------------------------------
(* The ranking of the signatures.                                             *)

\* The sort key orders the signatures strictly and totally
LEMMA BeforeOrders ==
    ASSUME signatures \in Seq(Aggregates)
    PROVE  LET sites == 1 .. Len(signatures)
           IN  /\ \A i \in sites : ~ Before(i, i)
               /\ \A i, j \in sites : i # j => Before(i, j) \/ Before(j, i)
               /\ \A i, j, k \in sites : Before(i, j) /\ Before(j, k) => Before(i, k)
  <1> DEFINE sites == 1 .. Len(signatures)
  <1>1. \A i \in sites : signatures[i].total \in Nat /\ signatures[i].max \in Nat /\ i \in Int
    <2> SUFFICES ASSUME NEW i \in sites
                 PROVE  signatures[i].total \in Nat /\ signatures[i].max \in Nat
      OBVIOUS
    <2>1. signatures[i] \in Aggregates
      OBVIOUS
    <2> QED BY <2>1 DEF Aggregates
  <1> QED BY <1>1 DEF Before

\* Whoever comes before has the lower place, so the places are 1 .. n
LEMMA PlacesRank ==
    ASSUME signatures \in Seq(Aggregates)
    PROVE  LET sites == 1 .. Len(signatures)
           IN  /\ \A i \in sites : Place(i) \in sites
               /\ \A i, j \in sites : Before(i, j) => Place(i) < Place(j)
               /\ \A i, j \in sites : Place(i) = Place(j) => i = j
               /\ \A p \in sites : \E i \in sites : Place(i) = p
  <1> DEFINE n == Len(signatures)
             sites == 1 .. n
             above(i) == {j \in sites : Before(j, i)}
  <1>0. n \in Nat /\ \A i \in sites : i \in Int
    OBVIOUS
  <1>1. IsFiniteSet(sites) /\ Cardinality(sites) = n
    <2>1. 1 \in Int /\ n \in Int
      BY <1>0
    <2>2. IsFiniteSet(1 .. n) /\ Cardinality(1 .. n) = IF 1 > n THEN 0 ELSE n - 1 + 1
      BY <2>1, FS_Interval
    <2> QED BY <1>0, <2>2
  <1>2. \A i \in sites : Place(i) = 1 + Cardinality(above(i))
    BY DEF Place
  <1>3. /\ \A i \in sites : ~ Before(i, i)
        /\ \A i, j \in sites : i # j => Before(i, j) \/ Before(j, i)
        /\ \A i, j, k \in sites : Before(i, j) /\ Before(j, k) => Before(i, k)
    BY BeforeOrders
  <1> HIDE DEF n
  <1>4. ASSUME NEW i \in sites
        PROVE  IsFiniteSet(above(i)) /\ Cardinality(above(i)) \in Nat
    <2>1. above(i) \in SUBSET sites
      OBVIOUS
    <2>2. IsFiniteSet(above(i))
      <3> HIDE DEF above, sites
      <3> QED BY <1>1, <2>1, FS_Subset
    <2> HIDE DEF above
    <2> QED BY <2>2, FS_CardinalityType
  <1>5. ASSUME NEW i \in sites PROVE Place(i) \in sites
    <2>1. above(i) \in SUBSET (sites \ {i})
      BY <1>3
    <2>2. IsFiniteSet(sites \ {i}) /\ Cardinality(sites \ {i}) = n - 1
      <3> HIDE DEF sites
      <3> QED BY <1>1, <1>5, FS_RemoveElement
    <2>3. Cardinality(above(i)) <= n - 1
      <3> HIDE DEF above, sites
      <3> QED BY <2>1, <2>2, FS_Subset
    <2> HIDE DEF above
    <2> QED BY <1>0, <1>2, <1>4, <2>3
  <1>6. ASSUME NEW i \in sites, NEW j \in sites, Before(i, j) PROVE Place(i) < Place(j)
    <2>1. above(i) \in SUBSET (above(j) \ {i}) /\ i \in above(j)
      BY <1>3, <1>6
    <2>2. IsFiniteSet(above(j) \ {i}) /\ Cardinality(above(j) \ {i}) = Cardinality(above(j)) - 1
      <3> HIDE DEF above, sites
      <3> QED BY <1>4, <1>6, <2>1, FS_RemoveElement
    <2>3. Cardinality(above(i)) <= Cardinality(above(j)) - 1
      <3> HIDE DEF above, sites
      <3> QED BY <2>1, <2>2, FS_Subset
    <2> HIDE DEF above, sites
    <2> QED BY <1>2, <1>4, <1>6, <2>3
  <1>7. ASSUME NEW i \in sites, NEW j \in sites, Place(i) = Place(j) PROVE i = j
    <2>1. Place(i) \in Int /\ Place(j) \in Int
      BY <1>0, <1>5
    <2>2. ~ Before(i, j) /\ ~ Before(j, i)
      BY <1>6, <1>7, <2>1
    <2> QED BY <1>3, <2>2
  <1>8. ASSUME NEW p \in sites PROVE \E i \in sites : Place(i) = p
    <2> DEFINE f == [i \in sites |-> Place(i)]
    <2>1. f \in [sites -> sites] /\ \A i, j \in sites : f[i] = f[j] => i = j
      <3> HIDE DEF sites
      <3> QED BY <1>5, <1>7
    <2>2. f \in Injection(sites, sites)
      <3> HIDE DEF f, sites
      <3> QED BY <2>1 DEF Injection, IsInjective
    <2>3. f \in Surjection(sites, sites)
      <3> HIDE DEF f, sites
      <3> QED BY <1>1, <2>2, FS_Injection
    <2>4. PICK i \in sites : f[i] = p
      <3> HIDE DEF f, sites
      <3> QED BY <1>8, <2>3 DEF Surjection
    <2> QED BY <2>4
  <1> QED BY <1>5, <1>6, <1>7, <1>8 DEF n

\* No signature that is left out has a larger total than one that is shown
LEMMA TopIsTop ==
    ASSUME signatures \in Seq(Aggregates)
    PROVE  /\ TopSignatures \in Seq(Aggregates)
           /\ \A p \in 1 .. Len(TopSignatures), i \in 1 .. Len(signatures) :
                 \/ TopSignatures[p].total >= signatures[i].total
                 \/ \E q \in 1 .. p : TopSignatures[q].fingerprint = signatures[i].fingerprint
  <1> DEFINE n == Len(signatures)
             sites == 1 .. n
             shown == IF n < TopLimit THEN n ELSE TopLimit
             at(p) == CHOOSE i \in sites : Place(i) = p
             top == TopSignatures
  <1>0. n \in Nat /\ shown \in Nat /\ shown <= n
    BY ReporterAssumption
  <1>1. top = [p \in 1 .. shown |-> signatures[at(p)]]
    BY DEF TopSignatures
  <1>2. /\ \A i \in sites : Place(i) \in sites
        /\ \A i, j \in sites : Before(i, j) => Place(i) < Place(j)
        /\ \A i, j \in sites : Place(i) = Place(j) => i = j
        /\ \A p \in sites : \E i \in sites : Place(i) = p
    BY PlacesRank
  <1>3. \A i \in sites : signatures[i] \in Aggregates /\ signatures[i].total \in Nat
    <2>1. \A i \in sites : signatures[i] \in Aggregates
      OBVIOUS
    <2> QED BY <2>1 DEF Aggregates
  <1> HIDE DEF top, n, shown
  <1>4. ASSUME NEW p \in 1 .. shown PROVE at(p) \in sites /\ Place(at(p)) = p
    <2>1. p \in sites
      BY <1>0
    <2> QED BY <1>2, <2>1
  <1> HIDE DEF at
  <1>5. top \in Seq(Aggregates) /\ Len(top) = shown /\ \A p \in 1 .. shown : top[p] = signatures[at(p)]
    <2> HIDE DEF sites
    <2>1. \A p \in 1 .. shown : signatures[at(p)] \in Aggregates
      BY <1>3, <1>4
    <2>2. top \in [1 .. shown -> Aggregates]
      BY <1>1, <2>1
    <2> QED BY <1>0, <1>1, <2>2
  <1>6. ASSUME NEW p \in 1 .. shown, NEW i \in sites
        PROVE  \/ top[p].total >= signatures[i].total
               \/ \E q \in 1 .. p : top[q].fingerprint = signatures[i].fingerprint
    <2> SUFFICES ASSUME ~ (signatures[at(p)].total >= signatures[i].total)
                 PROVE  \E q \in 1 .. p : top[q].fingerprint = signatures[i].fingerprint
      BY <1>5
    <2>1. Before(i, at(p))
      BY <1>3, <1>4 DEF Before
    <2>2. Place(i) < p /\ Place(i) \in sites
      <3>1. at(p) \in sites /\ Place(at(p)) = p
        BY <1>4
      <3>2. Place(i) < Place(at(p)) /\ Place(i) \in sites
        BY <1>2, <2>1, <3>1
      <3> QED BY <3>1, <3>2
    <2>3. Place(i) \in 1 .. p /\ Place(i) \in 1 .. shown
      BY <1>0, <2>2
    <2>4. at(Place(i)) = i
      BY <1>2, <1>4, <2>3
    <2> QED BY <1>5, <2>3, <2>4
  <1> QED BY <1>5, <1>6 DEF top, n

-----------------------------------------------------------------------------
(* The aggregates.                                                            *)

\* The columns are sequences of numbers
LEMMA Columns ==
    ASSUME NEW q \in Seq(Aggregates)
    PROVE  /\ Len(q) \in Nat
           /\ Counts(q) \in Seq(Int) /\ Len(Counts(q)) = Len(q)
           /\ Totals(q) \in Seq(Int) /\ Len(Totals(q)) = Len(q)
           /\ \A i \in 1 .. Len(q) :
                 /\ q[i] \in Aggregates /\ q[i].count \in Nat /\ q[i].total \in Nat
                 /\ q[i].max \in Nat
                 /\ Counts(q)[i] = q[i].count /\ Totals(q)[i] = q[i].total
  <1>1. Len(q) \in Nat /\ \A i \in 1 .. Len(q) : q[i] \in Aggregates
    OBVIOUS
  <1>2. \A i \in 1 .. Len(q) : q[i].count \in Nat /\ q[i].total \in Nat /\ q[i].max \in Nat
    BY <1>1 DEF Aggregates
  <1>3. Counts(q) \in [1 .. Len(q) -> Int] /\ Totals(q) \in [1 .. Len(q) -> Int]
    BY <1>2 DEF Counts, Totals
  <1>4. \A i \in 1 .. Len(q) : Counts(q)[i] = q[i].count /\ Totals(q)[i] = q[i].total
    BY DEF Counts, Totals
  <1>5. /\ Counts(q) \in Seq(Int) /\ Len(Counts(q)) = Len(q)
        /\ Totals(q) \in Seq(Int) /\ Len(Totals(q)) = Len(q)
    <2> DEFINE c == Counts(q)
               t == Totals(q)
               n == Len(q)
    <2>1. c \in [1 .. n -> Int] /\ t \in [1 .. n -> Int] /\ n \in Nat
      BY <1>1, <1>3
    <2> HIDE DEF c, t, n
    <2>2. c \in Seq(Int) /\ Len(c) = n /\ t \in Seq(Int) /\ Len(t) = n
      BY <2>1
    <2> QED BY <2>2 DEF c, t, n
  <1> QED BY <1>1, <1>2, <1>4, <1>5

\* One event of duration d goes into the aggregate s
Adds(t, s, d) ==
    /\ t \in Aggregates
    /\ t.fingerprint = s.fingerprint
    /\ t.count = s.count + 1 /\ t.total = s.total + d /\ t.max = Larger(s.max, d)

LEMMA AddAdds ==
    ASSUME NEW s \in Aggregates, NEW d \in Nat
    PROVE  Adds([s EXCEPT !.count = @ + 1, !.total = @ + d, !.max = Larger(@, d)], s, d)
  <1> DEFINE c == s.count + 1
             t == s.total + d
             m == Larger(s.max, d)
             u == [s EXCEPT !.count = c, !.total = t, !.max = m]
  <1>1. c \in Nat /\ t \in Nat /\ m \in Nat
    BY DEF Aggregates, Larger
  <1>2. u = [s EXCEPT !.count = @ + 1, !.total = @ + d, !.max = Larger(@, d)]
    BY DEF Aggregates
  <1> HIDE DEF c, t, m
  <1>3. u \in Aggregates /\ u.fingerprint = s.fingerprint /\ u.count = c /\ u.total = t /\ u.max = m
    BY <1>1 DEF Aggregates
  <1> HIDE DEF u
  <1>4. Adds(u, s, d)
    BY <1>3 DEF Adds, c, t, m
  <1> QED BY <1>2, <1>4

\* q books one event of duration d more than p
BooksOne(q, p, d) ==
    /\ q \in Seq(Aggregates) /\ Distinct(q)
    /\ Total(Counts(q)) = Total(Counts(p)) + 1
    /\ Total(Totals(q)) = Total(Totals(p)) + d
    /\ \A m \in Nat : Bounded(p, m) => Bounded(q, Larger(m, d))

LEMMA BooksNew ==
    ASSUME NEW p \in Seq(Aggregates), Distinct(p), NEW d \in Nat, NEW s \in Aggregates, NEW t,
           Adds(t, s, d), s.count = 0, s.total = 0, s.max = 0,
           \A i \in 1 .. Len(p) : p[i].fingerprint # s.fingerprint
    PROVE  BooksOne(Append(p, t), p, d)
  <1> DEFINE q == Append(p, t)
             n == Len(p)
  <1>1. t \in Aggregates /\ t.fingerprint = s.fingerprint /\ t.count = 1 /\ t.total = d /\ t.max = d
    <2>1. Larger(0, d) = d
      BY DEF Larger
    <2> QED BY <2>1 DEF Adds
  <1>2. /\ q \in Seq(Aggregates) /\ Len(q) = n + 1 /\ q[n + 1] = t /\ n \in Nat
        /\ \A i \in 1 .. n : q[i] = p[i]
    BY <1>1, AppendProperties
  <1> HIDE DEF q, n
  <1>3. /\ \A i \in 1 .. n + 1 : i = n + 1 \/ i \in 1 .. n
        /\ n + 1 \in 1 .. n + 1 /\ \A i \in 1 .. n : i \in 1 .. n + 1
    BY <1>2
  <1>4. Distinct(q)
    <2> SUFFICES ASSUME NEW i \in 1 .. n + 1, NEW j \in 1 .. n + 1,
                        q[i].fingerprint = q[j].fingerprint
                 PROVE  i = j
      BY <1>2 DEF Distinct
    <2>1. \A k \in 1 .. n : q[k].fingerprint # t.fingerprint
      BY <1>1, <1>2 DEF n
    <2>2. CASE i \in 1 .. n /\ j \in 1 .. n
      BY <1>2, <2>2 DEF Distinct, n
    <2> QED BY <1>2, <1>3, <2>1, <2>2
  <1>5. /\ Counts(p) \in Seq(Int) /\ Counts(q) \in Seq(Int)
        /\ Len(Counts(p)) = n /\ Len(Counts(q)) = n + 1
        /\ (\A i \in 1 .. n : Counts(q)[i] = Counts(p)[i]) /\ Counts(q)[n + 1] = 1
    <2>1. /\ Counts(p) \in Seq(Int) /\ Len(Counts(p)) = n
          /\ \A i \in 1 .. n : Counts(p)[i] = p[i].count
      BY Columns DEF n
    <2>2. /\ Counts(q) \in Seq(Int) /\ Len(Counts(q)) = n + 1
          /\ \A i \in 1 .. n + 1 : Counts(q)[i] = q[i].count
      BY <1>2, Columns
    <2> QED BY <1>1, <1>2, <1>3, <2>1, <2>2
  <1>6. Total(Counts(q)) = Total(Counts(p)) + 1
    BY <1>5, TotalLonger
  <1>7. /\ Totals(p) \in Seq(Int) /\ Totals(q) \in Seq(Int)
        /\ Len(Totals(p)) = n /\ Len(Totals(q)) = n + 1
        /\ (\A i \in 1 .. n : Totals(q)[i] = Totals(p)[i]) /\ Totals(q)[n + 1] = d
    <2>1. /\ Totals(p) \in Seq(Int) /\ Len(Totals(p)) = n
          /\ \A i \in 1 .. n : Totals(p)[i] = p[i].total
      BY Columns DEF n
    <2>2. /\ Totals(q) \in Seq(Int) /\ Len(Totals(q)) = n + 1
          /\ \A i \in 1 .. n + 1 : Totals(q)[i] = q[i].total
      BY <1>2, Columns
    <2> QED BY <1>1, <1>2, <1>3, <2>1, <2>2
  <1>8. Total(Totals(q)) = Total(Totals(p)) + d
    BY <1>7, TotalLonger
  <1>9. ASSUME NEW m \in Nat, Bounded(p, m) PROVE Bounded(q, Larger(m, d))
    <2>1. \A i \in 1 .. n : p[i].max \in Nat /\ p[i].max <= m
      BY <1>9, Columns DEF Bounded, n
    <2>2. \A i \in 1 .. n + 1 : q[i].max <= Larger(m, d)
      BY <1>1, <1>2, <1>3, <2>1 DEF Larger
    <2> QED BY <1>2, <2>2 DEF Bounded
  <1>10. BooksOne(q, p, d)
    BY <1>2, <1>4, <1>6, <1>8, <1>9 DEF BooksOne
  <1> QED BY <1>10 DEF q

LEMMA BooksKnown ==
    ASSUME NEW p \in Seq(Aggregates), Distinct(p), NEW d \in Nat, NEW x \in 1 .. Len(p),
           NEW q, DOMAIN q = 1 .. Len(p), q = [i \in 1 .. Len(p) |-> q[i]],
           Adds(q[x], p[x], d), \A i \in 1 .. Len(p) : i # x => q[i] = p[i]
    PROVE  BooksOne(q, p, d)
  <1> DEFINE n == Len(p)
  <1>1. n \in Nat /\ \A i \in 1 .. n : p[i] \in Aggregates
    BY Columns
  <1>2. /\ q[x] \in Aggregates /\ q[x].fingerprint = p[x].fingerprint
        /\ q[x].count = p[x].count + 1 /\ q[x].total = p[x].total + d
        /\ q[x].max = Larger(p[x].max, d)
    BY DEF Adds
  <1>3. \A i \in 1 .. n : q[i] \in Aggregates /\ q[i].fingerprint = p[i].fingerprint
    BY <1>1, <1>2
  <1>4. q \in Seq(Aggregates) /\ Len(q) = n
    <2>1. q \in [1 .. n -> Aggregates]
      BY <1>3
    <2> QED BY <1>1, <2>1
  <1>5. Distinct(q)
    BY <1>3, <1>4 DEF Distinct
  <1>6. /\ Counts(p) \in Seq(Int) /\ Counts(q) \in Seq(Int)
        /\ Len(Counts(p)) = n /\ Len(Counts(q)) = n /\ x \in 1 .. n
        /\ (\A i \in 1 .. n : i # x => Counts(q)[i] = Counts(p)[i])
        /\ Counts(q)[x] = Counts(p)[x] + 1 /\ Counts(p)[x] \in Nat
    <2>1. /\ Counts(p) \in Seq(Int) /\ Len(Counts(p)) = n
          /\ \A i \in 1 .. n : Counts(p)[i] = p[i].count /\ p[i].count \in Nat
      BY Columns
    <2>2. /\ Counts(q) \in Seq(Int) /\ Len(Counts(q)) = n
          /\ \A i \in 1 .. n : Counts(q)[i] = q[i].count
      BY <1>4, Columns
    <2> QED BY <1>2, <2>1, <2>2
  <1>7. Total(Counts(q)) = Total(Counts(p)) + 1
    <2>1. Total(Counts(q)) = Total(Counts(p)) + Counts(q)[x] - Counts(p)[x]
      BY <1>6, TotalUpdate
    <2>2. Total(Counts(p)) \in Int
      BY <1>6, TotalType
    <2> QED BY <1>6, <2>1, <2>2
  <1>8. /\ Totals(p) \in Seq(Int) /\ Totals(q) \in Seq(Int)
        /\ Len(Totals(p)) = n /\ Len(Totals(q)) = n /\ x \in 1 .. n
        /\ (\A i \in 1 .. n : i # x => Totals(q)[i] = Totals(p)[i])
        /\ Totals(q)[x] = Totals(p)[x] + d /\ Totals(p)[x] \in Nat
    <2>1. /\ Totals(p) \in Seq(Int) /\ Len(Totals(p)) = n
          /\ \A i \in 1 .. n : Totals(p)[i] = p[i].total /\ p[i].total \in Nat
      BY Columns
    <2>2. /\ Totals(q) \in Seq(Int) /\ Len(Totals(q)) = n
          /\ \A i \in 1 .. n : Totals(q)[i] = q[i].total
      BY <1>4, Columns
    <2> QED BY <1>2, <2>1, <2>2
  <1>9. Total(Totals(q)) = Total(Totals(p)) + d
    <2>1. Total(Totals(q)) = Total(Totals(p)) + Totals(q)[x] - Totals(p)[x]
      BY <1>8, TotalUpdate
    <2>2. Total(Totals(p)) \in Int
      BY <1>8, TotalType
    <2> QED BY <1>8, <2>1, <2>2
  <1>10. ASSUME NEW m \in Nat, Bounded(p, m) PROVE Bounded(q, Larger(m, d))
    <2>1. \A i \in 1 .. n : p[i].max \in Nat /\ p[i].max <= m
      BY <1>10, Columns DEF Bounded
    <2>2. \A i \in 1 .. n : q[i].max <= Larger(m, d)
      BY <1>2, <2>1 DEF Larger
    <2> QED BY <1>4, <2>2 DEF Bounded
  <1> QED BY <1>4, <1>5, <1>7, <1>9, <1>10 DEF BooksOne

\* What report does to the signatures
LEMMA AggregatedBooksOne ==
    ASSUME signatures \in Seq(Aggregates), Distinct(signatures),
           NEW sig \in Signatures, NEW d \in Nat
    PROVE  BooksOne(Aggregated(sig, d), signatures, d)
  <1> DEFINE p == signatures
             n == Len(p)
             add(s) == [s EXCEPT !.count = @ + 1, !.total = @ + d, !.max = Larger(@, d)]
             fresh == [fingerprint |-> sig.fingerprint, location |-> sig.location,
                       count |-> 0, total |-> 0, max |-> 0]
             known == Known(sig.fingerprint)
             q == [i \in 1 .. n |-> IF i \in known THEN add(p[i]) ELSE p[i]]
  <1>1. Aggregated(sig, d) = IF known = {} THEN Append(p, add(fresh)) ELSE q
    BY DEF Aggregated
  <1>2. known = {i \in 1 .. n : p[i].fingerprint = sig.fingerprint}
    BY DEF Known
  <1>3. \A s \in Aggregates : Adds(add(s), s, d)
    BY AddAdds
  <1> HIDE DEF add, known
  <1>4. CASE known = {}
    <2>1. /\ fresh \in Aggregates /\ fresh.fingerprint = sig.fingerprint
          /\ fresh.count = 0 /\ fresh.total = 0 /\ fresh.max = 0
      BY DEF Aggregates
    <2> HIDE DEF fresh
    <2>2. \A i \in 1 .. n : p[i].fingerprint # fresh.fingerprint
      BY <1>2, <1>4, <2>1
    <2>3. BooksOne(Append(p, add(fresh)), p, d)
      BY <1>3, <2>1, <2>2, BooksNew
    <2> QED BY <1>1, <1>4, <2>3
  <1>5. CASE known # {}
    <2>1. PICK x \in known : TRUE
      BY <1>5
    <2>2. x \in 1 .. n /\ p[x] \in Aggregates /\ \A i \in 1 .. n : i \in known <=> i = x
      BY <1>2, <2>1 DEF Distinct
    <2>3. q[x] = add(p[x]) /\ (\A i \in 1 .. n : i # x => q[i] = p[i])
          /\ DOMAIN q = 1 .. n /\ q = [i \in 1 .. n |-> q[i]]
      BY <2>2
    <2> HIDE DEF q
    <2>4. Adds(q[x], p[x], d)
      BY <1>3, <2>2, <2>3
    <2>5. BooksOne(q, p, d)
      BY <2>2, <2>3, <2>4, BooksKnown
    <2> QED BY <1>1, <1>5, <2>5
  <1> QED BY <1>4, <1>5

-----------------------------------------------------------------------------
(* The records of a sink.                                                     *)

\* What a sink shows can be counted, and only events are errors
LEMMA Countable ==
    ASSUME NEW q \in Seq(Records)
    PROVE  /\ IsFiniteSet(EventsIn(q)) /\ Cardinality(EventsIn(q)) \in Nat
           /\ IsFiniteSet(ErrorsIn(q)) /\ Cardinality(ErrorsIn(q)) \in Nat
  <1>1. Len(q) \in Nat /\ 1 \in Int /\ Len(q) \in Int
    OBVIOUS
  <1>2. IsFiniteSet(1 .. Len(q))
    BY <1>1, FS_Interval
  <1>3. EventsIn(q) \in SUBSET (1 .. Len(q)) /\ ErrorsIn(q) \in SUBSET (1 .. Len(q))
    BY DEF EventsIn, ErrorsIn
  <1>4. IsFiniteSet(EventsIn(q)) /\ IsFiniteSet(ErrorsIn(q))
    BY <1>2, <1>3, FS_Subset
  <1> QED BY <1>4, FS_CardinalityType

\* Nothing is in an empty stream
LEMMA EmptyStream ==
    /\ EventsIn(<<>>) = {} /\ ErrorsIn(<<>>) = {} /\ Numbers(<<>>) = {}
    /\ Increasing(<<>>) /\ ~ HasSummary(<<>>)
  <1>1. EventsIn(<<>>) = {}
    BY DEF EventsIn
  <1>2. ErrorsIn(<<>>) = {} /\ Numbers(<<>>) = {} /\ Increasing(<<>>)
    BY <1>1 DEF ErrorsIn, Numbers, Increasing
  <1> QED BY <1>1, <1>2 DEF HasSummary

\* a is q with the event record r at its end
ShowsEvent(a, q, r) ==
    /\ a \in Seq(Records)
    /\ Cardinality(EventsIn(a)) = Cardinality(EventsIn(q)) + 1
    /\ Cardinality(ErrorsIn(a)) = Cardinality(ErrorsIn(q)) + (IF r.level = "error" THEN 1 ELSE 0)
    /\ Numbers(a) = Numbers(q) \cup {r.number}
    /\ Increasing(q) /\ (\A n \in Numbers(q) : n < r.number) => Increasing(a)
    /\ HasSummary(a) <=> HasSummary(q)

LEMMA AppendEvent ==
    ASSUME NEW q \in Seq(Records), NEW r \in Records, r.type = "blocking_event"
    PROVE  ShowsEvent(Append(q, r), q, r)
  <1> DEFINE a == Append(q, r)
             n == Len(q)
  <1>1. /\ a \in Seq(Records) /\ Len(a) = n + 1 /\ a[n + 1] = r /\ n \in Nat
        /\ \A i \in 1 .. n : a[i] = q[i]
    BY AppendProperties
  <1> HIDE DEF a
  <1>2. /\ \A i \in 1 .. n + 1 : i = n + 1 \/ i \in 1 .. n
        /\ n + 1 \in 1 .. n + 1 /\ n + 1 \notin 1 .. n
        /\ \A i \in 1 .. n : i \in 1 .. n + 1 /\ i < n + 1 /\ ~ (n + 1 < i)
    BY <1>1
  <1>3. EventsIn(a) = EventsIn(q) \cup {n + 1}
    <2> HIDE DEF n
    <2> QED BY <1>1, <1>2 DEF EventsIn, n
  <1>4. n + 1 \notin EventsIn(q) /\ n + 1 \notin ErrorsIn(q)
    BY <1>2 DEF EventsIn, ErrorsIn
  <1>5. \A i \in EventsIn(q) : i \in 1 .. n /\ a[i] = q[i]
    BY <1>1 DEF EventsIn
  <1>6. ErrorsIn(a) = IF r.level = "error" THEN ErrorsIn(q) \cup {n + 1} ELSE ErrorsIn(q)
    <2> HIDE DEF n
    <2> QED BY <1>1, <1>3, <1>4, <1>5 DEF ErrorsIn
  <1>7. Numbers(a) = Numbers(q) \cup {r.number}
    <2> HIDE DEF n
    <2> QED BY <1>1, <1>3, <1>5 DEF Numbers
  <1>8. IsFiniteSet(EventsIn(q)) /\ Cardinality(EventsIn(q)) \in Nat
        /\ IsFiniteSet(ErrorsIn(q)) /\ Cardinality(ErrorsIn(q)) \in Nat
    BY Countable
  <1>9. Cardinality(EventsIn(a)) = Cardinality(EventsIn(q)) + 1
    BY <1>3, <1>4, <1>8, FS_AddElement
  <1>10. Cardinality(ErrorsIn(a)) = Cardinality(ErrorsIn(q)) + (IF r.level = "error" THEN 1 ELSE 0)
    <2>1. CASE r.level = "error"
      BY <1>4, <1>6, <1>8, <2>1, FS_AddElement
    <2>2. CASE r.level # "error"
      BY <1>6, <1>8, <2>2
    <2> QED BY <2>1, <2>2
  <1>11. ASSUME Increasing(q), \A m \in Numbers(q) : m < r.number PROVE Increasing(a)
    <2> SUFFICES ASSUME NEW i \in EventsIn(a), NEW j \in EventsIn(a), i < j
                 PROVE  a[i].number < a[j].number
      BY DEF Increasing
    <2>1. (i = n + 1 \/ i \in EventsIn(q)) /\ (j = n + 1 \/ j \in EventsIn(q))
      BY <1>3
    <2>2. i \in EventsIn(q)
      BY <1>2, <1>5, <2>1
    <2>3. a[i].number = q[i].number /\ q[i].number \in Numbers(q)
      BY <1>5, <2>2 DEF Numbers
    <2>4. CASE j = n + 1
      BY <1>1, <1>11, <2>3, <2>4
    <2>5. CASE j \in EventsIn(q)
      BY <1>5, <1>11, <2>2, <2>3, <2>5 DEF Increasing
    <2> QED BY <2>1, <2>4, <2>5
  <1>12. HasSummary(a) <=> HasSummary(q)
    <2> HIDE DEF n
    <2>1. HasSummary(a) <=> \E i \in 1 .. n + 1 : a[i].type = "session_summary"
      BY <1>1 DEF HasSummary
    <2>2. HasSummary(q) <=> \E i \in 1 .. n : q[i].type = "session_summary"
      BY DEF HasSummary, n
    <2>3. "blocking_event" # "session_summary"
      OBVIOUS
    <2> QED BY <1>1, <1>2, <2>1, <2>2, <2>3
  <1>13. ShowsEvent(a, q, r)
    BY <1>1, <1>7, <1>9, <1>10, <1>11, <1>12 DEF ShowsEvent
  <1> QED BY <1>13 DEF a

\* a is q with a record at its end that is no event
ShowsOther(a, q, r) ==
    /\ a \in Seq(Records)
    /\ EventsIn(a) = EventsIn(q) /\ ErrorsIn(a) = ErrorsIn(q) /\ Numbers(a) = Numbers(q)
    /\ Increasing(q) => Increasing(a)
    /\ a[Len(a)] = r
    /\ HasSummary(a) <=> HasSummary(q) \/ r.type = "session_summary"

LEMMA AppendOther ==
    ASSUME NEW q \in Seq(Records), NEW r \in Records, r.type # "blocking_event"
    PROVE  ShowsOther(Append(q, r), q, r)
  <1> DEFINE a == Append(q, r)
             n == Len(q)
  <1>1. /\ a \in Seq(Records) /\ Len(a) = n + 1 /\ a[n + 1] = r /\ n \in Nat
        /\ \A i \in 1 .. n : a[i] = q[i]
    BY AppendProperties
  <1> HIDE DEF a
  <1>2. /\ \A i \in 1 .. n + 1 : i = n + 1 \/ i \in 1 .. n
        /\ n + 1 \in 1 .. n + 1
        /\ \A i \in 1 .. n : i \in 1 .. n + 1
    BY <1>1
  <1>3. EventsIn(a) = EventsIn(q)
    <2> HIDE DEF n
    <2> QED BY <1>1, <1>2 DEF EventsIn, n
  <1>4. \A i \in EventsIn(q) : i \in 1 .. n /\ a[i] = q[i]
    BY <1>1 DEF EventsIn
  <1>5. ErrorsIn(a) = ErrorsIn(q) /\ Numbers(a) = Numbers(q)
    <2> HIDE DEF n
    <2> QED BY <1>3, <1>4 DEF ErrorsIn, Numbers
  <1>6. Increasing(q) => Increasing(a)
    BY <1>3, <1>4 DEF Increasing
  <1>7. HasSummary(a) <=> HasSummary(q) \/ r.type = "session_summary"
    <2> HIDE DEF n
    <2>1. HasSummary(a) <=> \E i \in 1 .. n + 1 : a[i].type = "session_summary"
      BY <1>1 DEF HasSummary
    <2>2. HasSummary(q) <=> \E i \in 1 .. n : q[i].type = "session_summary"
      BY DEF HasSummary, n
    <2> QED BY <1>1, <1>2, <2>1, <2>2
  <1>8. ShowsOther(a, q, r)
    BY <1>1, <1>3, <1>5, <1>6, <1>7 DEF ShowsOther
  <1> QED BY <1>8 DEF a

-----------------------------------------------------------------------------
(* The state of the two threads.                                              *)

\* There is a sink
LEMMA SomeSink ==
    ASSUME args \in Options
    PROVE  /\ Len(args.sinks) \in Nat /\ 1 \in Sinks /\ Len(args.sinks) \in Sinks
           /\ \A k \in Sinks : k \in Nat /\ k <= Len(args.sinks)
           /\ \A k \in Sinks : ~ LastSink(k) => k + 1 \in Sinks
           /\ args.summary_only \in BOOLEAN
  <1>1. args.sinks \in SinkLists /\ args.summary_only \in BOOLEAN
    BY ReporterAssumption
  <1>2. Len(args.sinks) \in {1, 2}
    <2>1. \/ args.sinks = <<"console">> \/ args.sinks = <<"stream">>
          \/ args.sinks = <<"console", "file">> \/ args.sinks = <<"stream", "file">>
      BY <1>1 DEF SinkLists
    <2> QED BY <2>1
  <1> DEFINE n == Len(args.sinks)
  <1>3. n \in Nat /\ n >= 1 /\ Sinks = 1 .. n /\ \A k : LastSink(k) <=> k = n
    BY <1>2 DEF Sinks, LastSink
  <1> HIDE DEF n
  <1>4. /\ 1 \in Sinks /\ n \in Sinks /\ \A k \in Sinks : k \in Nat /\ k <= n
        /\ \A k \in Sinks : ~ LastSink(k) => k + 1 \in Sinks
    BY <1>3
  <1> QED BY <1>1, <1>3, <1>4 DEF n

Resting == [phase : {"idle", "gone"}, record : {None}, next : {1}]
Reporting == [phase : {"aggregate", "emit"}, record : InReport, next : Sinks]

\* The reader rests or reports
LEMMA ReaderShape ==
    ASSUME reader \in Resting \cup Reporting
    PROVE  /\ Idle \in Resting /\ Gone \in Resting
           /\ Idle.phase = "idle" /\ Gone.phase = "gone"
           /\ reader.phase \in {"idle", "gone", "aggregate", "emit"}
           /\ reader.phase = "idle" => reader = Idle
           /\ reader.phase = "gone" => reader = Gone
           /\ reader.phase \in {"aggregate", "emit"} =>
                 /\ reader \in Reporting /\ reader.next \in Sinks
                 /\ reader.record \in InReport
                 /\ reader.record.number \in Nat /\ reader.record.duration_ms \in Nat
                 /\ Signature(reader.record.stacks) \in Signatures
  <1>1. /\ Idle \in Resting /\ Gone \in Resting
        /\ Idle.phase = "idle" /\ Gone.phase = "gone"
    BY DEF Idle, Gone, Resting
  <1>2. CASE reader \in Resting
    BY <1>1, <1>2 DEF Idle, Gone, Resting
  <1>3. CASE reader \in Reporting
    <2>1. /\ reader.phase \in {"aggregate", "emit"}
          /\ reader.record \in InReport /\ reader.next \in Sinks
      BY <1>3 DEF Reporting
    <2>2. reader.record.number \in Nat /\ reader.record.duration_ms \in Nat
      BY <2>1 DEF InReport
    <2>3. PICK event \in Events : reader.record.stacks = event.stacks
      BY <2>1 DEF InReport
    <2>4. Signature(reader.record.stacks) \in Signatures
      BY <2>3 DEF Signatures
    <2> QED BY <1>1, <1>3, <2>1, <2>2, <2>4
  <1> QED BY <1>2, <1>3

\* sink k has the record r at its end, and no other sink is written to
Wrote(k, r) ==
    /\ written' \in [Sinks -> Seq(Records)]
    /\ written'[k] = Append(written[k], r)
    /\ \A j \in Sinks : j # k => written'[j] = written[j]

LEMMA WriteWrites ==
    ASSUME written \in [Sinks -> Seq(Records)], file_open \in BOOLEAN,
           NEW k \in Sinks, NEW r \in Records, Write(k, r)
    PROVE  Wrote(k, r) /\ file_open' \in BOOLEAN
  <1>1. file_open' \in BOOLEAN
    BY DEF Write
  <1>2. Append(written[k], r) \in Seq(Records)
    BY AppendProperties
  <1>3. written' = [written EXCEPT ![k] = Append(written[k], r)]
    BY DEF Write
  <1> DEFINE a == Append(written[k], r)
  <1> HIDE DEF a
  <1>4. a \in Seq(Records) /\ written' = [written EXCEPT ![k] = a]
    BY <1>2, <1>3 DEF a
  <1>5. /\ written' \in [Sinks -> Seq(Records)] /\ written'[k] = a
        /\ \A j \in Sinks : j # k => written'[j] = written[j]
    BY <1>4
  <1> QED BY <1>1, <1>5 DEF Wrote, a

\* The records that the sinks get
LEMMA RecordTypes ==
    /\ [type |-> "session_start"] \in Records
    /\ \A r \in InReport : EventRecord(r) \in Records
    /\ Summaries \subseteq Records
    /\ \A s \in Summaries : s.type = "session_summary"
  <1>1. \A r \in InReport : EventRecord(r) \in Records
    <2> SUFFICES ASSUME NEW r \in InReport PROVE EventRecord(r) \in Records
      OBVIOUS
    <2>1. r.number \in Nat /\ r.duration_ms \in Nat
      BY DEF InReport
    <2>2. Level(r.duration_ms) \in Levels
      BY DEF Level, Levels
    <2> QED BY <2>1, <2>2 DEF EventRecord, Records
  <1>2. \A s \in Summaries : s.type = "session_summary"
    BY DEF Summaries
  <1> QED BY <1>1, <1>2 DEF Records

-----------------------------------------------------------------------------
(* Which step writes what.                                                    *)

Reports == \E event \in Events : Report(event)
ReaderSteps == Reports \/ Aggregate \/ Emit \/ EmitFails \/ Lose \/ ReaderEnds
MainSteps ==
    \/ Start \/ StartFails \/ StartDetector \/ EndSession \/ Join
    \/ BuildSummary \/ EmitSummary \/ EmitSummaryFails \/ Close \/ Exit

\* The reader thread leaves the main thread's variables alone
LEMMA ReaderFrame ==
    ASSUME ReaderSteps
    PROVE  /\ UNCHANGED <<args, main, next, summary, reason, exit, late>>
           /\ reader.phase # "gone"
           /\ UNCHANGED <<written, file_open>> \/ Emit
           /\ UNCHANGED counters \/ Reports \/ Aggregate
           /\ UNCHANGED signatures \/ Aggregate
           /\ UNCHANGED loss_counts \/ Lose
           /\ UNCHANGED failed \/ EmitFails
           /\ UNCHANGED reader \/ ~ Lose
  <1> DEFINE Mine == UNCHANGED <<args, main, next, summary, reason, exit, late>> /\ reader.phase # "gone"
  <1>1. Reports => Mine /\ UNCHANGED <<written, file_open, signatures, loss_counts, failed>>
    BY DEF Reports, Report, outputs, ghosts
  <1>2. Aggregate => Mine /\ UNCHANGED <<written, file_open, loss_counts, failed>>
    BY DEF Aggregate, outputs, ghosts
  <1>3. Emit => Mine /\ UNCHANGED <<counters, signatures, loss_counts, failed>>
    BY DEF Emit, aggregates, ghosts
  <1>4. EmitFails => Mine /\ UNCHANGED <<counters, signatures, loss_counts, written, file_open>>
    BY DEF EmitFails, aggregates, outputs
  <1>5. Lose => Mine /\ UNCHANGED <<counters, signatures, written, file_open, failed, reader>>
    BY DEF Lose, aggregates, outputs, ghosts
  <1>6. ReaderEnds => Mine /\ UNCHANGED <<counters, signatures, loss_counts, written, file_open, failed>>
    BY DEF ReaderEnds, aggregates, outputs, ghosts
  <1> QED BY <1>1, <1>2, <1>3, <1>4, <1>5, <1>6 DEF ReaderSteps

\* The main thread leaves the aggregates and the losses alone, and the reader
\* but for starting it
LEMMA MainFrame ==
    ASSUME MainSteps
    PROVE  /\ UNCHANGED <<args, counters, signatures, loss_counts, failed>>
           /\ UNCHANGED reader \/ StartDetector
           /\ UNCHANGED written \/ Start \/ EmitSummary
           /\ UNCHANGED file_open \/ Start \/ EmitSummary \/ Close
           /\ UNCHANGED next \/ Start \/ StartFails \/ EmitSummary
           /\ UNCHANGED summary \/ BuildSummary
           /\ UNCHANGED reason \/ StartFails \/ EndSession
           /\ UNCHANGED exit \/ EmitSummaryFails \/ Exit
           /\ UNCHANGED late \/ Join
  <1>1. CASE Start
    BY <1>1 DEF Start, aggregates, ghosts
  <1>2. CASE StartFails
    BY <1>2 DEF StartFails, aggregates, outputs, ghosts
  <1>3. CASE StartDetector
    BY <1>3 DEF StartDetector, aggregates, outputs, ghosts
  <1>4. CASE EndSession
    BY <1>4 DEF EndSession, aggregates, outputs, ghosts
  <1>5. CASE Join
    BY <1>5 DEF Join, aggregates, outputs
  <1>6. CASE BuildSummary
    BY <1>6 DEF BuildSummary, aggregates, outputs, ghosts
  <1>7. CASE EmitSummary
    BY <1>7 DEF EmitSummary, aggregates, ghosts
  <1>8. CASE EmitSummaryFails
    BY <1>8 DEF EmitSummaryFails, aggregates, outputs, ghosts
  <1>9. CASE Close
    BY <1>9 DEF Close, aggregates, ghosts
  <1>10. CASE Exit
    BY <1>10 DEF Exit, aggregates, outputs, ghosts
  <1> QED BY <1>1, <1>2, <1>3, <1>4, <1>5, <1>6, <1>7, <1>8, <1>9, <1>10 DEF MainSteps

\* A step is one of the two threads', or leaves everything alone
LEMMA Threads ==
    ASSUME [Next]_vars
    PROVE  ReaderSteps \/ MainSteps \/ UNCHANGED <<args, counters, signatures, loss_counts,
              written, file_open, reader, main, next, summary, reason, exit, failed, late>>
  BY DEF Next, vars, aggregates, outputs, ghosts, ReaderSteps, MainSteps, Reports

-----------------------------------------------------------------------------
(* The inductive invariant, part by part.                                     *)

LEMMA ReporterInit == Init => ReporterInv
  <1> SUFFICES ASSUME Init PROVE ReporterInv
    OBVIOUS
  <1>1. args \in Options /\ signatures = <<>> /\ reader = Gone /\ main = "start" /\ next = 1
        /\ summary = None /\ reason = None /\ exit = "no" /\ late = FALSE /\ failed = {}
        /\ loss_counts = 0 /\ file_open \in BOOLEAN
        /\ counters = [events |-> 0, errors |-> 0, total |-> 0, max |-> 0]
    BY DEF Init
  <1>2. written = [k \in Sinks |-> <<>>]
    BY DEF Init, Sinks
  <1>3. 1 \in Sinks /\ \A k \in Sinks : k \in Nat
    BY <1>1, SomeSink
  <1>4. /\ counters.events = 0 /\ counters.errors = 0 /\ counters.total = 0 /\ counters.max = 0
        /\ counters \in Counters
    BY <1>1 DEF Counters
  <1>5. written \in [Sinks -> Seq(Records)] /\ \A k \in Sinks : written[k] = <<>>
    BY <1>2
  <1>6. Gone \in Resting /\ Gone.phase = "gone" /\ Gone.next = 1
    BY DEF Resting, Gone, Idle
  <1>7. TypeOK
    <2>0. <<>> \in Seq(Aggregates) /\ 0 \in Nat /\ FALSE \in BOOLEAN
      OBVIOUS
    <2>1. signatures \in Seq(Aggregates) /\ loss_counts \in Nat /\ late \in BOOLEAN
      BY <1>1, <2>0, Zenon
    <2>2. reader \in Resting \cup Reporting /\ next \in Sinks
      BY <1>1, <1>3, <1>6
    <2> QED BY <1>1, <1>4, <1>5, <2>1, <2>2 DEF TypeOK, Resting, Reporting
  <1>8. Control
    BY <1>1, <1>6 DEF Control, Summed
  <1>9. Books
    <2>1. Counts(<<>>) = <<>> /\ Totals(<<>>) = <<>>
      BY DEF Counts, Totals
    <2>2. AggregatedCount = 0
      BY <1>1, <1>4, <1>6 DEF AggregatedCount
    <2>3. Bounded(<<>>, 0) /\ Distinct(<<>>)
      BY DEF Bounded, Distinct
    <2> QED BY <1>1, <1>4, <2>1, <2>2, <2>3, TotalEmpty DEF Books
  <1>10. Settled
    BY <1>1 DEF Settled, Summed
  <1>11. Flow
    <2> SUFFICES ASSUME NEW k \in Sinks PROVE Counted(k) /\ Ordered(k) /\ Sealed(k)
      BY DEF Flow
    <2>1. Cardinality(EventsIn(written[k])) = 0 /\ Cardinality(ErrorsIn(written[k])) = 0
      BY <1>5, EmptyStream, FS_EmptySet
    <2>2. Owes(k, "error") = 0 /\ Owes(k, "warning") = 0 /\ AggregatedCount = 0
      BY <1>1, <1>4, <1>6 DEF Owes, AggregatedCount
    <2>3. Counted(k)
      BY <1>4, <2>1, <2>2 DEF Counted
    <2>4. Ordered(k) /\ Sealed(k)
      BY <1>5, EmptyStream DEF Ordered, Sealed
    <2> QED BY <2>3, <2>4
  <1>12. Delivered
    <2>1. Reported = {}
      BY <1>1, <1>4, <1>6 DEF Reported
    <2> QED BY <1>1, <1>6, <2>1 DEF Delivered
  <1> QED BY <1>7, <1>8, <1>9, <1>10, <1>11, <1>12 DEF ReporterInv

\* The counters stay numbers
LEMMA CountersStep ==
    ASSUME counters \in Counters, reader \in Resting \cup Reporting, [Next]_vars
    PROVE  /\ counters' \in Counters
           /\ Reports => /\ counters'.events = counters.events + 1
                         /\ counters'.errors = counters.errors
                         /\ counters'.total = counters.total /\ counters'.max = counters.max
           /\ Aggregate =>
                 LET duration_ms == reader.record.duration_ms
                 IN  /\ counters'.events = counters.events
                     /\ counters'.errors = counters.errors
                                           + (IF Level(duration_ms) = "error" THEN 1 ELSE 0)
                     /\ counters'.total = counters.total + duration_ms
                     /\ counters'.max = Larger(counters.max, duration_ms)
  <1>1. CASE Reports
    <2>1. counters' = [counters EXCEPT !.events = @ + 1] /\ reader.phase = "idle"
      BY <1>1 DEF Reports, Report
    <2>2. ~ Aggregate
      BY <2>1 DEF Aggregate
    <2> QED BY <2>1, <2>2 DEF Counters
  <1>2. CASE Aggregate
    <2> DEFINE d == reader.record.duration_ms
               e == IF d >= ErrorThreshold THEN 1 ELSE 0
               f == IF Level(d) = "error" THEN 1 ELSE 0
               m == Larger(counters.max, d)
               x == counters.errors + e
               t == counters.total + d
    <2>1. reader.phase = "aggregate"
          /\ counters' = [counters EXCEPT !.errors = x, !.total = t, !.max = m]
      BY <1>2 DEF Aggregate, Counters
    <2>2. d \in Nat /\ e = f /\ e \in Nat
      BY <2>1, ReaderShape DEF Level
    <2>3. m \in Nat /\ x \in Nat /\ t \in Nat
      BY <2>2 DEF Larger, Counters
    <2>4. ~ Reports
      BY <2>1 DEF Reports, Report
    <2> HIDE DEF d, e, f, m, x, t
    <2>5. /\ counters' \in Counters /\ counters'.events = counters.events
          /\ counters'.errors = x /\ counters'.total = t /\ counters'.max = m
      BY <2>1, <2>3 DEF Counters
    <2>6. x = counters.errors + f /\ t = counters.total + d
      BY <2>2 DEF x, t
    <2> QED BY <2>4, <2>5, <2>6 DEF d, f, m
  <1>3. CASE ~ Reports /\ ~ Aggregate
    <2>1. counters' = counters
      BY <1>3, Threads, ReaderFrame, MainFrame
    <2> QED BY <1>3, <2>1
  <1> QED BY <1>1, <1>2, <1>3

\* Where the reader goes
LEMMA ReaderStep ==
    ASSUME args \in Options, reader \in Resting \cup Reporting, counters \in Counters, [Next]_vars
    PROVE  /\ reader' \in Resting \cup Reporting
           /\ Reports => /\ reader.phase = "idle" /\ reader'.phase = "aggregate"
                         /\ reader'.record.number = counters.events + 1 /\ reader'.next = 1
           /\ Aggregate => /\ reader.phase = "aggregate"
                           /\ IF args.summary_only THEN reader' = Idle
                              ELSE /\ reader'.phase = "emit" /\ reader'.record = reader.record
                                   /\ reader'.next = reader.next
           /\ Emit \/ EmitFails =>
                 /\ reader.phase = "emit"
                 /\ \/ reader' = Idle
                    \/ /\ ~ LastSink(reader.next) /\ reader'.phase = "emit"
                       /\ reader'.record = reader.record /\ reader'.next = reader.next + 1
           /\ Lose => reader.phase = "idle" /\ reader' = reader
           /\ ReaderEnds => reader.phase = "idle" /\ reader' = Gone
           /\ MainSteps => reader' = reader \/ (main = "detector" /\ reader' = Idle)
  <1>0. Idle \in Resting /\ Gone \in Resting
    BY ReaderShape
  <1>1. ASSUME Reports
        PROVE  /\ reader' \in Reporting /\ reader.phase = "idle" /\ reader'.phase = "aggregate"
               /\ reader'.record.number = counters.events + 1 /\ reader'.next = 1
    <2>1. PICK event \in Events : Report(event)
      BY <1>1 DEF Reports
    <2>2. PICK d \in Rounded(event.duration) :
             reader' = [phase |-> "aggregate", next |-> 1,
                        record |-> [number |-> counters.events + 1, duration |-> event.duration,
                                    duration_ms |-> d, stacks |-> event.stacks]]
      BY <2>1 DEF Report
    <2>3. d \in Nat /\ event.duration \in Nat /\ counters.events + 1 \in Nat
      BY ReporterAssumption DEF Rounded, Counters
    <2> DEFINE r == [number |-> counters.events + 1, duration |-> event.duration,
                     duration_ms |-> d, stacks |-> event.stacks]
    <2>4. r \in InReport /\ r.number = counters.events + 1
      BY <2>3 DEF InReport
    <2>5. 1 \in Sinks
      BY SomeSink
    <2>6. reader' = [phase |-> "aggregate", next |-> 1, record |-> r]
      BY <2>2
    <2> HIDE DEF r
    <2>7. /\ reader' \in Reporting /\ reader'.phase = "aggregate" /\ reader'.record = r
          /\ reader'.next = 1
      BY <2>4, <2>5, <2>6 DEF Reporting
    <2> QED BY <2>1, <2>4, <2>7 DEF Report
  <1>2. ASSUME Aggregate
        PROVE  /\ reader' \in Resting \cup Reporting /\ reader.phase = "aggregate"
               /\ IF args.summary_only THEN reader' = Idle
                  ELSE /\ reader'.phase = "emit" /\ reader'.record = reader.record
                       /\ reader'.next = reader.next
    <2>1. reader.phase = "aggregate"
          /\ reader' = IF args.summary_only THEN Idle ELSE [reader EXCEPT !.phase = "emit"]
      BY <1>2 DEF Aggregate
    <2>2. reader \in Reporting
      BY <2>1, ReaderShape
    <2>3. [reader EXCEPT !.phase = "emit"] \in Reporting
      BY <2>2 DEF Reporting
    <2> QED BY <1>0, <2>1, <2>2, <2>3 DEF Reporting
  <1>3. ASSUME Emit \/ EmitFails
        PROVE  /\ reader' \in Resting \cup Reporting /\ reader.phase = "emit"
               /\ \/ reader' = Idle
                  \/ /\ ~ LastSink(reader.next) /\ reader'.phase = "emit"
                     /\ reader'.record = reader.record /\ reader'.next = reader.next + 1
    <2>1. reader.phase = "emit" /\ (reader' = Idle \/ reader' = AfterSink)
      BY <1>3 DEF Emit, EmitFails
    <2>2. reader \in Reporting
      BY <2>1, ReaderShape
    <2>3. CASE reader' = [reader EXCEPT !.next = @ + 1] /\ ~ LastSink(reader.next)
      <3>1. reader.next + 1 \in Sinks
        BY <2>2, <2>3, SomeSink DEF Reporting
      <3> QED BY <2>1, <2>2, <2>3, <3>1 DEF Reporting
    <2> QED BY <1>0, <2>1, <2>3 DEF AfterSink
  <1>4. Lose => reader.phase = "idle" /\ reader' = reader
    BY DEF Lose
  <1>5. ReaderEnds => reader.phase = "idle" /\ reader' = Gone
    BY DEF ReaderEnds
  <1>6. MainSteps => reader' = reader \/ (main = "detector" /\ reader' = Idle)
    <2>1. StartDetector => main = "detector" /\ reader' = Idle
      BY DEF StartDetector
    <2> QED BY <2>1, MainFrame
  <1>7. reader' \in Resting \cup Reporting
    BY <1>0, <1>1, <1>2, <1>3, <1>4, <1>5, <1>6, Threads DEF ReaderSteps
  <1> QED BY <1>1, <1>2, <1>3, <1>4, <1>5, <1>6, <1>7

\* What the parts of the type invariant say, for the steps below
LEMMA Typed ==
    ASSUME TypeOK
    PROVE  /\ args \in Options /\ counters \in Counters /\ signatures \in Seq(Aggregates)
           /\ loss_counts \in Nat /\ written \in [Sinks -> Seq(Records)]
           /\ file_open \in BOOLEAN /\ late \in BOOLEAN
           /\ reader \in Resting \cup Reporting /\ next \in Sinks
           /\ summary \in Summaries \cup {None} /\ reason \in DOMAIN Status \cup {None}
           /\ exit \in {"no", "ok", "policy", "child", "other", "error"}
  BY DEF TypeOK, Resting, Reporting

\* The options stay, and with them the sinks
LEMMA SameSinks ==
    ASSUME [Next]_vars
    PROVE  args' = args /\ Sinks' = Sinks /\ Reporting' = Reporting
  <1>1. args' = args
    BY Threads, ReaderFrame, MainFrame
  <1> QED BY <1>1 DEF Sinks, Reporting

\* Writing to a sink appends a record of one of the three types
LEMMA WrittenStep ==
    ASSUME TypeOK, Control, [Next]_vars
    PROVE  /\ written' \in [Sinks -> Seq(Records)] /\ file_open' \in BOOLEAN
           /\ \/ UNCHANGED written
              \/ Emit /\ Wrote(reader.next, EventRecord(reader.record))
              \/ Start /\ Wrote(next, [type |-> "session_start"])
              \/ EmitSummary /\ Wrote(next, summary) /\ summary \in Summaries
  <1>0. /\ args \in Options /\ written \in [Sinks -> Seq(Records)] /\ file_open \in BOOLEAN
        /\ reader \in Resting \cup Reporting /\ next \in Sinks
    BY Typed
  <1>1. CASE Emit
    <2>1. reader.phase = "emit" /\ Write(reader.next, EventRecord(reader.record))
      BY <1>1 DEF Emit
    <2>2. reader.next \in Sinks /\ reader.record \in InReport
      BY <1>0, <2>1, ReaderShape
    <2>3. EventRecord(reader.record) \in Records
      BY <2>2, RecordTypes
    <2>4. Wrote(reader.next, EventRecord(reader.record)) /\ file_open' \in BOOLEAN
      BY <1>0, <2>1, <2>2, <2>3, WriteWrites
    <2> QED BY <1>1, <2>4 DEF Wrote
  <1>2. CASE Start
    <2>1. UNCHANGED <<written, file_open>> \/ Write(next, [type |-> "session_start"])
      BY <1>2 DEF Start, outputs
    <2>2. CASE Write(next, [type |-> "session_start"])
      <3>1. Wrote(next, [type |-> "session_start"]) /\ file_open' \in BOOLEAN
        BY <1>0, <2>2, RecordTypes, WriteWrites
      <3> QED BY <1>2, <3>1 DEF Wrote
    <2> QED BY <1>0, <2>1, <2>2
  <1>3. CASE EmitSummary
    <2>1. main = "emit_summary" /\ (UNCHANGED <<written, file_open>> \/ Write(next, summary))
      BY <1>3 DEF EmitSummary, outputs
    <2>2. summary \in Summaries
      BY <2>1 DEF Control, Summed
    <2>3. CASE Write(next, summary)
      <3>1. Wrote(next, summary) /\ file_open' \in BOOLEAN
        BY <1>0, <2>2, <2>3, RecordTypes, WriteWrites
      <3> QED BY <1>3, <2>2, <3>1 DEF Wrote
    <2> QED BY <1>0, <2>1, <2>3
  <1>4. CASE Close
    BY <1>0, <1>4 DEF Close
  <1>5. CASE ~ Emit /\ ~ Start /\ ~ EmitSummary /\ ~ Close
    <2>1. UNCHANGED <<written, file_open>>
      BY <1>5, Threads, ReaderFrame, MainFrame
    <2> QED BY <1>0, <2>1
  <1> QED BY <1>1, <1>2, <1>3, <1>4, <1>5

\* The summary that is built
LEMMA SummaryBuilt ==
    ASSUME TypeOK, Control, BuildSummary
    PROVE  summary' \in Summaries
  <1>1. main = "summary" /\ summary' = [type |-> "session_summary", status |-> Status[reason],
            counters |-> counters, lost_event_count |-> loss_counts, top |-> TopSignatures]
    BY DEF BuildSummary
  <1>2. reason \in DOMAIN Status
    BY <1>1 DEF Control
  <1>3. Status[reason] \in {Status[r] : r \in DOMAIN Status} /\ TopSignatures \in Seq(Aggregates)
    BY <1>2, Typed, TopIsTop
  <1> QED BY <1>1, <1>3, Typed DEF Summaries

LEMMA TypeStep ==
    ASSUME TypeOK, Control, Distinct(signatures), [Next]_vars
    PROVE  TypeOK'
  <1>0. /\ args \in Options /\ counters \in Counters /\ signatures \in Seq(Aggregates)
        /\ loss_counts \in Nat /\ late \in BOOLEAN
        /\ reader \in Resting \cup Reporting /\ next \in Sinks
        /\ summary \in Summaries \cup {None} /\ reason \in DOMAIN Status \cup {None}
        /\ exit \in {"no", "ok", "policy", "child", "other", "error"}
    BY Typed
  <1>1. args' \in Options /\ Sinks' = Sinks /\ Reporting' = Reporting
    BY <1>0, SameSinks
  <1>2. counters' \in Counters /\ reader' \in Resting \cup Reporting
    BY <1>0, CountersStep, ReaderStep
  <1>3. written' \in [Sinks -> Seq(Records)] /\ file_open' \in BOOLEAN
    BY WrittenStep
  <1>4. signatures' \in Seq(Aggregates)
    <2>1. CASE Aggregate
      <3>1. reader.phase = "aggregate"
            /\ signatures' = Aggregated(Signature(reader.record.stacks), reader.record.duration_ms)
        BY <2>1 DEF Aggregate
      <3>2. BooksOne(signatures', signatures, reader.record.duration_ms)
        BY <1>0, <3>1, ReaderShape, AggregatedBooksOne
      <3> QED BY <3>2 DEF BooksOne
    <2>2. ~ Aggregate => UNCHANGED signatures
      BY Threads, ReaderFrame, MainFrame
    <2> QED BY <1>0, <2>1, <2>2
  <1>5. loss_counts' \in Nat
    <2>1. Lose => loss_counts' = loss_counts + 1
      BY DEF Lose
    <2>2. ~ Lose => UNCHANGED loss_counts
      BY Threads, ReaderFrame, MainFrame
    <2> QED BY <1>0, <2>1, <2>2
  <1>6. late' \in BOOLEAN
    <2>1. Join => late' \in BOOLEAN
      BY DEF Join
    <2>2. ~ Join => UNCHANGED late
      BY Threads, ReaderFrame, MainFrame
    <2> QED BY <1>0, <2>1, <2>2
  <1>7. next' \in Sinks
    <2>1. Start \/ EmitSummary => next' \in {1} \cup (IF LastSink(next) THEN {} ELSE {next + 1})
      BY DEF Start, EmitSummary, Advance
    <2>2. StartFails => next' = 1
      BY DEF StartFails
    <2>3. ~ Start /\ ~ EmitSummary /\ ~ StartFails => UNCHANGED next
      BY Threads, ReaderFrame, MainFrame
    <2> QED BY <1>0, <2>1, <2>2, <2>3, SomeSink
  <1>8. summary' \in Summaries \cup {None}
    <2>1. BuildSummary => summary' \in Summaries
      BY SummaryBuilt
    <2>2. ~ BuildSummary => UNCHANGED summary
      BY Threads, ReaderFrame, MainFrame
    <2> QED BY <1>0, <2>1, <2>2
  <1>9. reason' \in DOMAIN Status \cup {None}
    <2>1. StartFails \/ EndSession => reason' \in {"clean", "child_exit", "signal", "runtime_error"}
      BY DEF StartFails, EndSession
    <2>2. ~ StartFails /\ ~ EndSession => UNCHANGED reason
      BY Threads, ReaderFrame, MainFrame
    <2>3. DOMAIN Status = {"clean", "child_exit", "signal", "runtime_error"}
      BY DEF Status
    <2> QED BY <1>0, <2>1, <2>2, <2>3
  <1>10. exit' \in {"no", "ok", "policy", "child", "other", "error"}
    <2>1. EmitSummaryFails => exit' = "error"
      BY DEF EmitSummaryFails
    <2>2. Exit => exit' \in {"ok", "policy", "child", "other"}
      BY DEF Exit
    <2>3. ~ EmitSummaryFails /\ ~ Exit => UNCHANGED exit
      BY Threads, ReaderFrame, MainFrame
    <2> QED BY <1>0, <2>1, <2>2, <2>3
  <1> QED BY <1>1, <1>2, <1>3, <1>4, <1>5, <1>6, <1>7, <1>8, <1>9, <1>10
          DEF TypeOK, Resting, Reporting

LEMMA ControlStep ==
    ASSUME TypeOK, Control, [Next]_vars, TypeOK'
    PROVE  Control'
  <1>0. /\ args \in Options /\ counters \in Counters /\ reader \in Resting \cup Reporting
        /\ reader' \in Resting \cup Reporting /\ late \in BOOLEAN
        /\ summary' \in Summaries \cup {None}
    BY Typed, ReaderStep DEF TypeOK
  <1>1. Idle.phase = "idle" /\ Gone.phase = "gone" /\ (reader.phase = "gone" <=> reader = Gone)
    BY <1>0, ReaderShape
  <1>2. /\ reader'.phase \in {"aggregate", "emit"} => reader'.record.number = counters'.events
        /\ reader'.phase = "aggregate" => reader'.next = 1
    <2>1. CASE Reports
      BY <1>0, <2>1, CountersStep, ReaderStep
    <2>2. CASE Aggregate
      <3>1. reader.record.number = counters.events
        BY <1>0, <2>2, ReaderStep DEF Control
      <3>2. counters'.events = counters.events
        BY <1>0, <2>2, CountersStep
      <3>3. reader' = Idle \/ (reader'.phase = "emit" /\ reader'.record = reader.record)
        BY <1>0, <2>2, ReaderStep
      <3> QED BY <1>1, <3>1, <3>2, <3>3
    <2>3. CASE ~ Reports /\ ~ Aggregate
      <3>1. counters' = counters
        BY <2>3, Threads, ReaderFrame, MainFrame
      <3>2. \/ reader' = reader \/ reader' = Idle \/ reader' = Gone
            \/ /\ reader.phase = "emit" /\ reader'.phase = "emit"
               /\ reader'.record = reader.record
        BY <1>0, <2>3, Threads, ReaderStep DEF ReaderSteps
      <3> QED BY <1>1, <3>1, <3>2 DEF Control
    <2> QED BY <2>1, <2>2, <2>3
  <1>3. CASE ReaderSteps
    <2>1. UNCHANGED <<main, summary, reason, exit, late>> /\ reader # Gone
      BY <1>1, <1>3, ReaderFrame
    <2> QED BY <1>2, <2>1 DEF Control
  <1>4. CASE MainSteps
    <2>1. StartDetector \/ reader' = reader
      BY <1>4, MainFrame
    <2>2. CASE Start
      <3>1. /\ main = "start" /\ main' \in {"start", "detector"} /\ reader' = reader
            /\ UNCHANGED <<summary, reason, exit, late>>
        BY <2>2 DEF Start, Advance, ghosts
      <3> QED BY <1>2, <3>1 DEF Control, Summed
    <2>3. CASE StartFails
      <3>1. /\ main = "start" /\ main' = "summary" /\ reader' = reader
            /\ reason' = "runtime_error" /\ UNCHANGED <<summary, exit, late>>
        BY <2>3 DEF StartFails, ghosts
      <3> QED BY <1>2, <3>1 DEF Control, Summed, Status
    <2>4. CASE StartDetector
      <3>1. /\ main = "detector" /\ main' = "running"
            /\ UNCHANGED <<summary, reason, exit, late>>
        BY <2>4 DEF StartDetector, ghosts
      <3> QED BY <1>2, <3>1 DEF Control, Summed
    <2>5. CASE EndSession
      <3>1. /\ main = "running" /\ main' = "join" /\ reader' = reader
            /\ UNCHANGED <<summary, exit, late>>
        BY <2>5 DEF EndSession, ghosts
      <3>2. reason' \in DOMAIN Status
        BY <2>5 DEF EndSession, Status
      <3> QED BY <1>2, <3>1, <3>2 DEF Control, Summed
    <2>6. CASE Join
      <3>1. /\ main = "join" /\ main' = "summary" /\ reader' = reader
            /\ late' = (reader # Gone) /\ UNCHANGED <<summary, reason, exit>>
        BY <2>6 DEF Join
      <3> QED BY <1>2, <3>1 DEF Control, Summed
    <2>7. CASE BuildSummary
      <3>1. /\ main = "summary" /\ main' = "emit_summary" /\ reader' = reader
            /\ UNCHANGED <<reason, exit, late>>
        BY <2>7 DEF BuildSummary, ghosts
      <3> QED BY <1>2, <2>7, <3>1, SummaryBuilt DEF Control, Summed
    <2>8. CASE EmitSummary \/ EmitSummaryFails \/ Close \/ Exit
      <3>1. /\ main \in Summed /\ main' \in Summed /\ reader' = reader
            /\ UNCHANGED <<summary, reason, late>>
        BY <2>8 DEF EmitSummary, EmitSummaryFails, Close, Exit, Advance, Summed, ghosts
      <3>2. main = "done" => FALSE
        BY <2>8 DEF EmitSummary, EmitSummaryFails, Close, Exit
      <3>3. exit' \in {"ok", "policy"} => main' = "done" /\ reason = "clean"
        <4>1. CASE exit' = exit
          BY <3>2, <4>1 DEF Control
        <4>2. CASE EmitSummaryFails
          BY <4>2 DEF EmitSummaryFails
        <4>3. CASE Exit
          BY <4>3 DEF Exit
        <4> QED BY <1>4, <4>1, <4>2, <4>3, MainFrame
      <3> QED BY <1>2, <3>1, <3>3 DEF Control, Summed
    <2> QED BY <1>4, <2>2, <2>3, <2>4, <2>5, <2>6, <2>7, <2>8 DEF MainSteps
  <1>5. CASE UNCHANGED <<counters, reader, main, summary, reason, exit, late>>
    BY <1>5 DEF Control
  <1> QED BY <1>3, <1>4, <1>5, Threads

LEMMA BooksStep ==
    ASSUME TypeOK, Control, Books, [Next]_vars
    PROVE  Books'
  <1>0. /\ args \in Options /\ counters \in Counters /\ reader \in Resting \cup Reporting
        /\ signatures \in Seq(Aggregates)
    BY Typed
  <1>1. Idle.phase = "idle" /\ Gone.phase = "gone"
    BY <1>0, ReaderShape
  <1>2. counters.events \in Nat /\ counters.total \in Nat /\ counters.max \in Nat
    BY <1>0 DEF Counters
  <1>3. CASE Reports
    <2>1. /\ reader.phase = "idle" /\ reader'.phase = "aggregate"
          /\ counters'.events = counters.events + 1
          /\ counters'.total = counters.total /\ counters'.max = counters.max
      BY <1>0, <1>3, CountersStep, ReaderStep
    <2>2. signatures' = signatures
      BY <1>3 DEF Reports, Report
    <2>3. AggregatedCount' = AggregatedCount
      BY <1>2, <2>1 DEF AggregatedCount
    <2> QED BY <2>1, <2>2, <2>3 DEF Books
  <1>4. CASE Aggregate
    <2> DEFINE d == reader.record.duration_ms
    <2>1. reader.phase = "aggregate"
          /\ signatures' = Aggregated(Signature(reader.record.stacks), d)
      BY <1>4 DEF Aggregate
    <2>2. d \in Nat /\ BooksOne(signatures', signatures, d)
      BY <1>0, <2>1, ReaderShape, AggregatedBooksOne DEF Books
    <2>3. /\ counters'.events = counters.events /\ counters'.total = counters.total + d
          /\ counters'.max = Larger(counters.max, d)
      BY <1>0, <1>4, CountersStep
    <2>4. reader'.phase # "aggregate"
      BY <1>0, <1>1, <1>4, ReaderStep
    <2>5. AggregatedCount' = AggregatedCount + 1
      BY <1>2, <2>1, <2>3, <2>4 DEF AggregatedCount
    <2> HIDE DEF d
    <2> QED BY <1>2, <2>2, <2>3, <2>5 DEF Books, BooksOne
  <1>5. CASE ~ Reports /\ ~ Aggregate
    <2>1. counters' = counters /\ signatures' = signatures
      BY <1>5, Threads, ReaderFrame, MainFrame
    <2>2. reader'.phase = "aggregate" <=> reader.phase = "aggregate"
      <3>1. CASE MainSteps
        <4>1. StartDetector => reader.phase # "aggregate" /\ reader' = Idle
          BY <1>1 DEF StartDetector, Control
        <4> QED BY <1>0, <1>1, <3>1, <4>1, MainFrame
      <3>2. CASE ReaderSteps
        BY <1>0, <1>1, <1>5, <3>2, ReaderStep DEF ReaderSteps
      <3> QED BY <3>1, <3>2, Threads
    <2>3. AggregatedCount' = AggregatedCount
      BY <2>1, <2>2 DEF AggregatedCount
    <2> QED BY <2>1, <2>3 DEF Books
  <1> QED BY <1>3, <1>4, <1>5

LEMMA SettledStep ==
    ASSUME TypeOK, Control, Settled, [Next]_vars
    PROVE  Settled'
  <1>1. CASE BuildSummary
    <2>1. /\ main = "summary" /\ UNCHANGED <<counters, loss_counts, signatures, reason, exit>>
          /\ summary' = [type |-> "session_summary", status |-> Status[reason],
                 counters |-> counters, lost_event_count |-> loss_counts, top |-> TopSignatures]
      BY <1>1 DEF BuildSummary, aggregates
    <2>2. exit' \notin {"ok", "policy"}
      BY <2>1 DEF Control
    <2>3. TopSignatures' = TopSignatures
      BY <2>1 DEF TopSignatures, Place, Before
    <2> QED BY <2>1, <2>2, <2>3 DEF Settled
  <1>2. CASE ~ BuildSummary
    <2> SUFFICES ASSUME main' \in Summed, ~ late'
                 PROVE  /\ summary'.counters = counters'
                        /\ summary'.lost_event_count = loss_counts'
                        /\ summary'.top = TopSignatures'
                        /\ summary'.status = Status[reason']
                        /\ exit' \in {"ok", "policy"} => (exit' = "policy" <=>
                              PolicyFailed(summary.counters, summary.lost_event_count)')
      BY DEF Settled
    <2>1. main \in Summed /\ ~ Join
      <3>1. CASE MainSteps
        <4>1. Start => main' \in {"start", "detector"}
          BY DEF Start, Advance
        <4>2. StartFails => main' = "summary"
          BY DEF StartFails
        <4>3. StartDetector => main' = "running"
          BY DEF StartDetector
        <4>4. EndSession => main' = "join"
          BY DEF EndSession
        <4>5. Join => main' = "summary"
          BY DEF Join
        <4>6. EmitSummary \/ EmitSummaryFails \/ Close \/ Exit => main \in Summed
          BY DEF EmitSummary, EmitSummaryFails, Close, Exit, Summed
        <4> QED BY <1>2, <3>1, <4>1, <4>2, <4>3, <4>4, <4>5, <4>6 DEF MainSteps, Summed
      <3>2. Join => MainSteps
        BY DEF MainSteps
      <3>3. ~ MainSteps => main' = main
        BY Threads, ReaderFrame
      <3> QED BY <3>1, <3>2, <3>3
    <2>2. ~ late
      BY <2>1, Threads, ReaderFrame, MainFrame
    <2>3. ~ ReaderSteps
      <3>1. reader = Gone
        BY <2>1, <2>2 DEF Control
      <3>2. reader.phase = "gone"
        BY <3>1, Typed, ReaderShape
      <3> QED BY <3>2, ReaderFrame
    <2>4. ~ StartFails /\ ~ EndSession
      BY <2>1 DEF StartFails, EndSession, Summed
    <2>5. UNCHANGED <<args, counters, signatures, loss_counts, summary, reason>>
      BY <1>2, <2>3, <2>4, Threads, MainFrame
    <2>6. TopSignatures' = TopSignatures
      BY <2>5 DEF TopSignatures, Place, Before
    <2>7. /\ summary.counters = counters /\ summary.lost_event_count = loss_counts
          /\ summary.top = TopSignatures /\ summary.status = Status[reason]
          /\ exit \in {"ok", "policy"} =>
                (exit = "policy" <=> PolicyFailed(summary.counters, summary.lost_event_count))
      BY <2>1, <2>2 DEF Settled
    <2>8. PolicyFailed(summary.counters, summary.lost_event_count)'
             <=> PolicyFailed(summary.counters, summary.lost_event_count)
      BY <2>5 DEF PolicyFailed
    <2>9. exit' \in {"ok", "policy"} =>
             (exit' = "policy" <=> PolicyFailed(summary.counters, summary.lost_event_count))
      <3>1. CASE Exit
        <4>1. exit' = CASE reason = "clean" ->
                             IF PolicyFailed(counters, summary.lost_event_count)
                             THEN "policy" ELSE "ok"
                        [] reason = "child_exit" -> "child"
                        [] OTHER -> "other"
          BY <3>1 DEF Exit
        <4> QED BY <2>7, <4>1
      <3>2. CASE EmitSummaryFails
        BY <3>2 DEF EmitSummaryFails
      <3>3. CASE exit' = exit
        BY <2>7, <3>3
      <3> QED BY <2>3, <3>1, <3>2, <3>3, Threads, MainFrame
    <2> QED BY <2>5, <2>6, <2>7, <2>8, <2>9
  <1> QED BY <1>1, <1>2

\* What a step does to the records of one sink
LEMMA StreamStep ==
    ASSUME TypeOK, Control, [Next]_vars, NEW k \in Sinks
    PROVE  \/ written'[k] = written[k]
           \/ /\ Emit /\ k = reader.next
              /\ ShowsEvent(written'[k], written[k], EventRecord(reader.record))
           \/ /\ Start
              /\ ShowsOther(written'[k], written[k], [type |-> "session_start"])
           \/ /\ EmitSummary /\ k = next /\ summary.type = "session_summary"
              /\ ShowsOther(written'[k], written[k], summary)
  <1>0. /\ written \in [Sinks -> Seq(Records)] /\ reader \in Resting \cup Reporting
        /\ written[k] \in Seq(Records)
    BY Typed
  <1>1. CASE Emit /\ Wrote(reader.next, EventRecord(reader.record))
    <2>1. reader.record \in InReport
      <3>1. reader.phase = "emit"
        BY <1>1 DEF Emit
      <3> QED BY <1>0, <3>1, ReaderShape
    <2>2. EventRecord(reader.record) \in Records
      BY <2>1, RecordTypes
    <2>3. EventRecord(reader.record).type = "blocking_event"
      BY DEF EventRecord
    <2>4. ShowsEvent(Append(written[k], EventRecord(reader.record)), written[k], EventRecord(reader.record))
      BY <1>0, <2>2, <2>3, AppendEvent
    <2> QED BY <1>1, <2>4 DEF Wrote
  <1>2. CASE Start /\ Wrote(next, [type |-> "session_start"])
    <2> DEFINE r == [type |-> "session_start"]
    <2>1. r \in Records /\ r.type # "blocking_event"
      BY RecordTypes
    <2> HIDE DEF r
    <2>2. ShowsOther(Append(written[k], r), written[k], r)
      BY <1>0, <2>1, AppendOther
    <2>3. Start /\ Wrote(next, r)
      BY <1>2 DEF r
    <2>4. written'[k] = written[k] \/ ShowsOther(written'[k], written[k], r)
      BY <2>2, <2>3 DEF Wrote
    <2> QED BY <2>3, <2>4 DEF r
  <1>3. CASE EmitSummary /\ Wrote(next, summary) /\ summary \in Summaries
    <2>1. summary \in Records /\ summary.type = "session_summary"
      BY <1>3, RecordTypes
    <2>2. ShowsOther(Append(written[k], summary), written[k], summary)
      BY <1>0, <2>1, AppendOther
    <2> QED BY <1>3, <2>1, <2>2 DEF Wrote
  <1> QED BY <1>1, <1>2, <1>3, WrittenStep

\* What is owed, and what a step does to the count of what was aggregated
LEMMA OwesStep ==
    ASSUME TypeOK, Control, [Next]_vars, NEW k \in Sinks, NEW level \in Levels
    PROVE  /\ Owes(k, level) \in {0, 1} /\ Owes(k, level)' \in {0, 1}
           /\ AggregatedCount \in Int
           /\ ~ Aggregate => /\ Owes(k, level)' <= Owes(k, level)
                             /\ AggregatedCount' = AggregatedCount
                             /\ counters'.errors = counters.errors
           /\ Emit /\ k = reader.next => Owes(k, level)' = 0
           /\ reader.phase = "emit" /\ k >= reader.next =>
                 (Owes(k, level) = 1 <=> Level(reader.record.duration_ms) = level)
           /\ Aggregate => /\ Owes(k, level) = 0 /\ AggregatedCount' = AggregatedCount + 1
                           /\ Owes(k, level)' = 1 => Level(reader.record.duration_ms) = level
  <1>0. /\ args \in Options /\ counters \in Counters /\ reader \in Resting \cup Reporting
        /\ k \in Nat
    BY Typed, SomeSink
  <1>1. Idle.phase = "idle" /\ Gone.phase = "gone" /\ counters.events \in Nat
    BY <1>0, ReaderShape DEF Counters
  <1>2. /\ Owes(k, level) \in {0, 1}
        /\ Owes(k, level) = 1 <=> /\ reader.phase = "emit" /\ k >= reader.next
                                  /\ Level(reader.record.duration_ms) = level
        /\ Owes(k, level)' \in {0, 1}
        /\ Owes(k, level)' = 1 <=> /\ reader'.phase = "emit" /\ k >= reader'.next
                                   /\ Level(reader'.record.duration_ms) = level
    BY DEF Owes, Level
  <1>3. AggregatedCount \in Int
    BY <1>1 DEF AggregatedCount
  <1>4. CASE Reports
    <2>1. /\ reader.phase = "idle" /\ reader'.phase = "aggregate" /\ ~ Emit /\ ~ Aggregate
          /\ counters'.events = counters.events + 1 /\ counters'.errors = counters.errors
      BY <1>0, <1>4, CountersStep, ReaderStep
    <2> QED BY <1>1, <1>2, <1>3, <2>1 DEF AggregatedCount
  <1>5. CASE Aggregate
    <2>1. /\ reader.phase = "aggregate" /\ counters'.events = counters.events /\ ~ Emit
          /\ reader' = Idle \/ (reader'.phase = "emit" /\ reader'.record = reader.record)
      BY <1>0, <1>5, CountersStep, ReaderStep
    <2> QED BY <1>1, <1>2, <1>3, <1>5, <2>1 DEF AggregatedCount
  <1>6. CASE Emit \/ EmitFails
    <2>1. /\ reader.phase = "emit" /\ ~ Aggregate
          /\ \/ reader' = Idle
             \/ /\ reader'.phase = "emit"
                /\ reader'.record = reader.record /\ reader'.next = reader.next + 1
      BY <1>0, <1>6, ReaderStep
    <2>2. counters' = counters
      BY <1>6, <2>1, ReaderFrame, ReaderStep, <1>0 DEF ReaderSteps
    <2>3. reader.next \in Nat
      BY <1>0, <2>1, ReaderShape, SomeSink
    <2> QED BY <1>0, <1>1, <1>2, <1>3, <2>1, <2>2, <2>3 DEF AggregatedCount
  <1>7. CASE ~ Reports /\ ~ Aggregate /\ ~ Emit /\ ~ EmitFails
    <2>1. counters' = counters
      BY <1>7, Threads, ReaderFrame, MainFrame
    <2>2. reader' = reader \/ (reader.phase \in {"idle", "gone"} /\ reader'.phase \in {"idle", "gone"})
      <3>1. CASE ReaderSteps
        BY <1>0, <1>1, <1>7, <3>1, ReaderStep DEF ReaderSteps
      <3>2. CASE MainSteps
        <4>1. main = "detector" => reader = Gone
          BY DEF Control
        <4> QED BY <1>0, <1>1, <3>2, <4>1, ReaderStep
      <3> QED BY <3>1, <3>2, Threads
    <2> QED BY <1>2, <1>3, <1>7, <2>1, <2>2 DEF AggregatedCount
  <1> QED BY <1>4, <1>5, <1>6, <1>7

LEMMA CountedStep ==
    ASSUME TypeOK, Control, [Next]_vars, NEW k \in Sinks, Counted(k)
    PROVE  Counted(k)'
  <1> DEFINE q == written[k]
             p == written'[k]
             level == Level(reader.record.duration_ms)
             error == IF level = "error" THEN 1 ELSE 0
  <1>0. /\ args \in Options /\ counters \in Counters /\ reader \in Resting \cup Reporting
        /\ q \in Seq(Records) /\ p \in Seq(Records) /\ counters.errors \in Nat
    BY Typed, WrittenStep DEF Counters
  <1>1. /\ Cardinality(EventsIn(q)) \in Nat /\ Cardinality(ErrorsIn(q)) \in Nat
        /\ Cardinality(EventsIn(p)) \in Nat /\ Cardinality(ErrorsIn(p)) \in Nat
    BY <1>0, Countable
  <1>2. level \in Levels /\ "error" \in Levels /\ "warning" \in Levels
        /\ (level = "error" \/ level = "warning")
    BY DEF Level, Levels
  <1> HIDE DEF level, q, p
  <1>3. /\ Cardinality(ErrorsIn(q)) + Owes(k, "error") <= counters.errors
        /\ counters.errors - Cardinality(ErrorsIn(q)) + Owes(k, "warning")
              <= AggregatedCount - Cardinality(EventsIn(q))
    BY DEF Counted, q
  <1> SUFFICES /\ Cardinality(ErrorsIn(p)) + Owes(k, "error")' <= counters'.errors
               /\ counters'.errors - Cardinality(ErrorsIn(p)) + Owes(k, "warning")'
                     <= AggregatedCount' - Cardinality(EventsIn(p))
    BY DEF Counted, p
  <1>4. /\ Owes(k, "error") \in {0, 1} /\ Owes(k, "error")' \in {0, 1}
        /\ Owes(k, "warning") \in {0, 1} /\ Owes(k, "warning")' \in {0, 1}
        /\ AggregatedCount \in Int
    BY <1>2, OwesStep
  <1>5. CASE Aggregate
    <2>1. p = q
      <3>1. written' = written
        BY <1>5 DEF Aggregate, outputs
      <3> QED BY <3>1 DEF p, q
    <2>2. /\ Owes(k, "error") = 0 /\ Owes(k, "warning") = 0
          /\ AggregatedCount' = AggregatedCount + 1
          /\ Owes(k, "error")' = 1 => level = "error"
          /\ Owes(k, "warning")' = 1 => level = "warning"
      BY <1>2, <1>5, OwesStep DEF level
    <2>3. counters'.errors = counters.errors + error
      BY <1>0, <1>5, CountersStep DEF level
    <2> QED BY <1>0, <1>1, <1>2, <1>3, <1>4, <2>1, <2>2, <2>3
  <1>6. CASE Emit /\ k = reader.next /\ ShowsEvent(p, q, EventRecord(reader.record))
    <2>1. reader.phase = "emit" /\ ~ Aggregate
      BY <1>6 DEF Emit, Aggregate
    <2>2. EventRecord(reader.record).level = level
      BY DEF EventRecord, level
    <2>3. /\ Cardinality(EventsIn(p)) = Cardinality(EventsIn(q)) + 1
          /\ Cardinality(ErrorsIn(p)) = Cardinality(ErrorsIn(q)) + error
      BY <1>6, <2>2 DEF ShowsEvent
    <2>4. k >= reader.next
      BY <1>6, SomeSink, <1>0
    <2>5. /\ Owes(k, "error") = 1 <=> level = "error"
          /\ Owes(k, "warning") = 1 <=> level = "warning"
          /\ Owes(k, "error")' = 0 /\ Owes(k, "warning")' = 0
          /\ AggregatedCount' = AggregatedCount /\ counters'.errors = counters.errors
      BY <1>2, <1>6, <2>1, <2>4, OwesStep DEF level
    <2> QED BY <1>0, <1>1, <1>2, <1>3, <1>4, <2>3, <2>5
  <1>7. CASE ~ Aggregate /\ EventsIn(p) = EventsIn(q) /\ ErrorsIn(p) = ErrorsIn(q)
    <2>1. /\ Owes(k, "error")' <= Owes(k, "error") /\ Owes(k, "warning")' <= Owes(k, "warning")
          /\ AggregatedCount' = AggregatedCount /\ counters'.errors = counters.errors
      BY <1>2, <1>7, OwesStep
    <2> QED BY <1>0, <1>1, <1>3, <1>4, <1>7, <2>1
  <1>8. \/ Emit /\ k = reader.next /\ ShowsEvent(p, q, EventRecord(reader.record))
        \/ EventsIn(p) = EventsIn(q) /\ ErrorsIn(p) = ErrorsIn(q)
    BY StreamStep DEF ShowsOther, p, q
  <1> QED BY <1>5, <1>6, <1>7, <1>8

LEMMA OrderedStep ==
    ASSUME TypeOK, Control, [Next]_vars, NEW k \in Sinks, Ordered(k)
    PROVE  Ordered(k)'
  <1> DEFINE q == written[k]
             p == written'[k]
  <1>0. /\ args \in Options /\ counters \in Counters /\ reader \in Resting \cup Reporting
        /\ q \in Seq(Records) /\ counters.events \in Nat /\ k \in Nat
    BY Typed, SomeSink DEF Counters
  <1>1. Idle.phase = "idle" /\ Gone.phase = "gone"
    BY <1>0, ReaderShape
  <1>2. \A n \in Numbers(q) : n \in Nat
    <2> SUFFICES ASSUME NEW i \in EventsIn(q) PROVE q[i].number \in Nat
      BY DEF Numbers
    <2>1. q[i] \in Records /\ q[i].type = "blocking_event"
      BY <1>0 DEF EventsIn
    <2> QED BY <2>1 DEF Records, Summaries
  <1> HIDE DEF q, p
  <1>3. /\ Increasing(q)
        /\ \A n \in Numbers(q) :
              /\ n <= AggregatedCount
              /\ reader.phase = "emit" /\ k >= reader.next => n < reader.record.number
    BY DEF Ordered, q
  <1> SUFFICES /\ Increasing(p)
               /\ \A n \in Numbers(p) :
                     /\ n <= AggregatedCount'
                     /\ reader'.phase = "emit" /\ k >= reader'.next => n < reader'.record.number
    BY DEF Ordered, p
  <1>4. CASE Aggregate
    <2>1. p = q
      <3>1. written' = written
        BY <1>4 DEF Aggregate, outputs
      <3> QED BY <3>1 DEF p, q
    <2>2. reader.phase = "aggregate" /\ reader.record.number = counters.events
      BY <1>4 DEF Aggregate, Control
    <2>3. AggregatedCount = counters.events - 1
      BY <2>2 DEF AggregatedCount
    <2>4. AggregatedCount' = counters.events
      <3>1. AggregatedCount' = AggregatedCount + 1
        BY <1>4, OwesStep DEF Levels
      <3> QED BY <1>0, <2>3, <3>1
    <2>5. reader' = Idle \/ reader'.record = reader.record
      BY <1>0, <1>4, ReaderStep
    <2> QED BY <1>0, <1>1, <1>2, <1>3, <2>1, <2>2, <2>3, <2>4, <2>5
  <1>5. CASE Emit /\ k = reader.next /\ ShowsEvent(p, q, EventRecord(reader.record))
    <2>1. reader.phase = "emit" /\ reader.record.number = counters.events
      BY <1>5 DEF Emit, Control
    <2>2. EventRecord(reader.record).number = reader.record.number
      BY DEF EventRecord
    <2>3. \A n \in Numbers(q) : n < reader.record.number
      BY <1>0, <1>3, <1>5, <2>1
    <2>4. Increasing(p) /\ Numbers(p) = Numbers(q) \cup {reader.record.number}
      BY <1>3, <1>5, <2>2, <2>3 DEF ShowsEvent
    <2>5. AggregatedCount = counters.events /\ AggregatedCount' = AggregatedCount
      <3>1. ~ Aggregate
        BY <2>1 DEF Aggregate
      <3>2. AggregatedCount' = AggregatedCount
        BY <3>1, OwesStep DEF Levels
      <3>3. AggregatedCount = counters.events
        BY <1>0, <2>1 DEF AggregatedCount
      <3> QED BY <3>2, <3>3
    <2>6. reader'.phase = "emit" => ~ (k >= reader'.next)
      BY <1>0, <1>1, <1>5, ReaderStep
    <2> QED BY <1>0, <1>3, <2>1, <2>4, <2>5, <2>6
  <1>6. CASE ~ Aggregate /\ Numbers(p) = Numbers(q) /\ Increasing(p)
    <2>1. AggregatedCount' = AggregatedCount
      BY <1>6, OwesStep DEF Levels
    <2>2. reader'.phase = "emit" /\ k >= reader'.next =>
             reader.phase = "emit" /\ k >= reader.next /\ reader'.record = reader.record
      <3>1. CASE Emit \/ EmitFails
        <4>1. reader.phase = "emit" /\ reader.next \in Nat
          BY <1>0, <3>1, ReaderStep, ReaderShape, SomeSink
        <4> QED BY <1>0, <1>1, <3>1, <4>1, ReaderStep
      <3>2. CASE ~ Emit /\ ~ EmitFails
        <4>1. reader' = reader \/ reader'.phase # "emit"
          BY <1>0, <1>1, <1>6, <3>2, ReaderStep, Threads DEF ReaderSteps
        <4> QED BY <4>1
      <3> QED BY <3>1, <3>2
    <2> QED BY <1>3, <1>6, <2>1, <2>2
  <1>7. \/ Emit /\ k = reader.next /\ ShowsEvent(p, q, EventRecord(reader.record))
        \/ Numbers(p) = Numbers(q) /\ Increasing(p)
    <2>1. written'[k] = written[k] => p = q
      BY DEF p, q
    <2> QED BY <1>3, <2>1, StreamStep DEF ShowsOther, p, q
  <1> QED BY <1>4, <1>5, <1>6, <1>7

LEMMA SealedStep ==
    ASSUME TypeOK, Control, Control', [Next]_vars, NEW k \in Sinks, Sealed(k)
    PROVE  Sealed(k)'
  <1> DEFINE q == written[k]
             p == written'[k]
             Ends(w) == w[Len(w)].type = "session_summary"
  <1>0. /\ args \in Options /\ reader \in Resting \cup Reporting /\ k \in Nat /\ next \in Nat
    BY Typed, SomeSink
  <1>1. HasSummary(q) =>
            main \in Summed /\ (main = "emit_summary" => k < next) /\ (~ late => Ends(q))
    BY DEF Sealed
  <1> SUFFICES ASSUME HasSummary(p)
               PROVE  main' \in Summed /\ (main' = "emit_summary" => k < next') /\ (~ late' => Ends(p))
    BY DEF Sealed
  <1> HIDE DEF Ends
  <1>2. CASE EmitSummary /\ k = next /\ summary.type = "session_summary" /\ ShowsOther(p, q, summary)
    <2>1. main' = "close" \/ (main' = "emit_summary" /\ next' = next + 1)
      BY <1>2 DEF EmitSummary, Advance
    <2>2. Ends(p)
      BY <1>2 DEF ShowsOther, Ends
    <2> QED BY <1>0, <1>2, <2>1, <2>2 DEF Summed
  <1>3. CASE /\ Emit /\ k = reader.next
             /\ ShowsEvent(p, q, EventRecord(reader.record))
    <2>1. HasSummary(q)
      BY <1>3 DEF ShowsEvent
    <2>2. UNCHANGED <<main, next, late>> /\ reader.phase # "gone"
      BY <1>3, ReaderFrame DEF ReaderSteps
    <2>3. late
      BY <1>0, <1>1, <2>1, <2>2, ReaderShape DEF Control
    <2> QED BY <1>1, <2>1, <2>2, <2>3
  <1>4. CASE Start /\ ShowsOther(p, q, [type |-> "session_start"])
    <2>1. HasSummary(q) /\ main = "start"
      BY <1>4 DEF ShowsOther, Start
    <2> QED BY <1>1, <2>1 DEF Summed
  <1>5. CASE written'[k] = written[k]
    <2>1. HasSummary(q) /\ (Ends(q) <=> Ends(p))
      BY <1>5 DEF Ends
    <2>2. main \in Summed
      BY <1>1, <2>1
    <2>3. CASE MainSteps
      <3>1. EmitSummary \/ EmitSummaryFails \/ Close \/ Exit
        BY <2>2, <2>3 DEF MainSteps, Start, StartFails, StartDetector, EndSession, Join,
                         BuildSummary, Summed
      <3>2. /\ main' \in Summed /\ UNCHANGED late
            /\ main' = "emit_summary" => main = "emit_summary" /\ next' = next + 1
        BY <3>1 DEF EmitSummary, EmitSummaryFails, Close, Exit, Advance, Summed, ghosts
      <3> QED BY <1>0, <1>1, <2>1, <3>2
    <2>4. CASE UNCHANGED <<main, next, late>>
      BY <1>1, <2>1, <2>4
    <2> QED BY <2>3, <2>4, Threads, ReaderFrame
  <1> QED BY <1>2, <1>3, <1>4, <1>5, StreamStep

\* Accounted after the step, for an event that the state before it names
NowAccounted(n, k) == n \in Numbers(written'[k]) \/ \E j \in 1 .. k : <<n, j>> \in failed'

\* A sink or a failure that accounts for an event keeps doing so
LEMMA AccountedStays ==
    ASSUME TypeOK, Control, [Next]_vars, NEW k \in Sinks, NEW n, Accounted(n, k)
    PROVE  NowAccounted(n, k)
  <1>1. Numbers(written[k]) \subseteq Numbers(written'[k])
    BY StreamStep DEF ShowsEvent, ShowsOther
  <1>2. failed \subseteq failed'
    <2>1. EmitFails => failed \subseteq failed'
      BY DEF EmitFails
    <2>2. ~ EmitFails => failed' = failed
      BY Threads, ReaderFrame, MainFrame
    <2> QED BY <2>1, <2>2
  <1> QED BY <1>1, <1>2 DEF Accounted, NowAccounted

\* The write of an event, done or failed, accounts for it at its sink, and at
\* the sinks after it when the reader gives up on them
LEMMA AccountedNow ==
    ASSUME TypeOK, Control, [Next]_vars, Emit \/ EmitFails, NEW k \in Sinks,
           k = reader.next \/ (k > reader.next /\ reader' = Idle)
    PROVE  NowAccounted(reader.record.number, k)
  <1>0. /\ args \in Options /\ reader \in Resting \cup Reporting /\ k \in Nat
        /\ written \in [Sinks -> Seq(Records)]
    BY Typed, SomeSink
  <1>1. reader.phase = "emit"
    BY DEF Emit, EmitFails
  <1>2. reader.next \in Sinks /\ reader.next \in Nat /\ reader.record \in InReport
    BY <1>0, <1>1, ReaderShape, SomeSink
  <1>3. CASE EmitFails
    <2>1. <<reader.record.number, reader.next>> \in failed'
      BY <1>3 DEF EmitFails
    <2>2. reader.next \in 1 .. k
      BY <1>0, <1>2, SomeSink DEF Sinks
    <2> QED BY <2>1, <2>2 DEF NowAccounted
  <1>4. CASE Emit
    <2>1. k = reader.next
      <3>1. reader' = AfterSink
        BY <1>4 DEF Emit
      <3>2. CASE LastSink(reader.next)
        BY <1>0, <1>2, <3>2, SomeSink DEF LastSink
      <3>3. CASE ~ LastSink(reader.next)
        <4>1. reader' = [reader EXCEPT !.next = @ + 1] /\ reader \in Reporting
          BY <1>0, <1>1, <3>1, <3>3, ReaderShape DEF AfterSink
        <4>2. reader'.phase = "emit"
          BY <1>1, <4>1 DEF Reporting
        <4> QED BY <1>0, <4>2, ReaderShape
      <3> QED BY <3>2, <3>3
    <2>2. Write(reader.next, EventRecord(reader.record)) /\ file_open \in BOOLEAN
      BY <1>4, Typed DEF Emit
    <2>3. EventRecord(reader.record) \in Records
      BY <1>2, RecordTypes
    <2>4. written'[k] = Append(written[k], EventRecord(reader.record))
      BY <1>0, <1>2, <2>1, <2>2, <2>3, WriteWrites DEF Wrote
    <2>5. EventRecord(reader.record).type = "blocking_event"
          /\ EventRecord(reader.record).number = reader.record.number
      BY DEF EventRecord
    <2>6. ShowsEvent(written'[k], written[k], EventRecord(reader.record))
      BY <1>0, <2>3, <2>4, <2>5, AppendEvent
    <2> QED BY <2>5, <2>6 DEF ShowsEvent, NowAccounted
  <1> QED BY <1>3, <1>4

LEMMA DeliveredStep ==
    ASSUME TypeOK, Control, Delivered, [Next]_vars
    PROVE  Delivered'
  <1>0. /\ args \in Options /\ counters \in Counters /\ reader \in Resting \cup Reporting
        /\ counters.events \in Nat
    BY Typed DEF Counters
  <1>1. Idle.phase = "idle" /\ Gone.phase = "gone"
    BY <1>0, ReaderShape
  <1>2. args' = args /\ Sinks' = Sinks
    BY SameSinks
  <1> SUFFICES ASSUME ~ args.summary_only, NEW k \in Sinks
               PROVE  /\ \A n \in Reported' : NowAccounted(n, k)
                      /\ reader'.phase = "emit" /\ k < reader'.next =>
                            NowAccounted(reader'.record.number, k)
    BY <1>2 DEF Delivered, Accounted, NowAccounted
  <1>3. /\ \A n \in Reported : NowAccounted(n, k)
        /\ reader.phase = "emit" /\ k < reader.next => NowAccounted(reader.record.number, k)
    BY AccountedStays DEF Delivered
  <1>4. k \in Nat /\ k >= 1
    BY <1>0, SomeSink DEF Sinks
  <1>5. CASE Reports
    <2>1. /\ reader.phase = "idle" /\ reader'.phase = "aggregate"
          /\ reader'.record.number = counters.events + 1
      BY <1>0, <1>5, ReaderStep
    <2>2. Reported' = Reported
      BY <1>0, <2>1 DEF Reported
    <2> QED BY <1>3, <2>1, <2>2
  <1>6. CASE Aggregate
    <2>1. /\ reader.phase = "aggregate" /\ reader'.phase = "emit"
          /\ reader'.record = reader.record /\ reader'.next = reader.next
      BY <1>0, <1>6, ReaderStep
    <2>2. reader'.next = 1
      BY <2>1 DEF Control
    <2>3. Reported' = Reported
      BY <2>1 DEF Reported
    <2> QED BY <1>3, <1>4, <2>2, <2>3
  <1>7. CASE Emit \/ EmitFails
    <2>1. /\ reader.phase = "emit" /\ reader.record.number = counters.events
          /\ Reported = 1 .. counters.events - 1
      BY <1>0, <1>7, ReaderStep DEF Control, Reported
    <2>2. reader.next \in Nat
      BY <1>0, <2>1, ReaderShape, SomeSink
    <2>3. counters' = counters
      BY <1>0, <1>7, <2>1, ReaderStep, ReaderFrame DEF ReaderSteps
    <2>4. CASE reader' = Idle
      <3>1. NowAccounted(reader.record.number, k)
        BY <1>3, <1>4, <1>7, <2>1, <2>2, <2>4, AccountedNow
      <3>2. Reported' = 1 .. counters.events
        BY <1>1, <2>3, <2>4 DEF Reported
      <3>3. \A n \in 1 .. counters.events : n = counters.events \/ n \in 1 .. counters.events - 1
        BY <1>0
      <3> QED BY <1>1, <1>3, <2>1, <2>4, <3>1, <3>2, <3>3
    <2>5. CASE /\ reader'.phase = "emit" /\ reader'.record = reader.record
               /\ reader'.next = reader.next + 1
      <3>1. Reported' = Reported
        BY <2>1, <2>5 DEF Reported
      <3>2. k < reader'.next => k < reader.next \/ k = reader.next
        BY <1>4, <2>2, <2>5
      <3> QED BY <1>3, <1>7, <2>1, <2>5, <3>1, <3>2, AccountedNow
    <2> QED BY <1>0, <1>7, <2>4, <2>5, ReaderStep
  <1>8. CASE ~ Reports /\ ~ Aggregate /\ ~ Emit /\ ~ EmitFails
    <2>1. counters' = counters
      BY <1>8, Threads, ReaderFrame, MainFrame
    <2>2. reader' = reader \/ (reader.phase \in {"idle", "gone"} /\ reader'.phase \in {"idle", "gone"})
      BY <1>0, <1>1, <1>8, Threads, ReaderStep DEF ReaderSteps, Control
    <2>3. Reported' = Reported
      BY <2>1, <2>2 DEF Reported
    <2> QED BY <1>3, <2>2, <2>3
  <1> QED BY <1>5, <1>6, <1>7, <1>8

-----------------------------------------------------------------------------
(* The theorems.                                                              *)

\* For every set of events, every rounding and option, and whichever writes fail
\* or join times out: report, summary and close keep the counters, the
\* signatures, the streams and the two threads in the relation that the
\* properties below need.
THEOREM ReporterInvariant == Spec => []ReporterInv
  <1>1. ASSUME ReporterInv, [Next]_vars PROVE ReporterInv'
    <2>0. /\ TypeOK /\ Control /\ Books /\ Settled /\ Flow /\ Delivered
          /\ Distinct(signatures)
      BY <1>1 DEF ReporterInv, Books
    <2>1. TypeOK'
      BY <1>1, <2>0, TypeStep
    <2>2. Control'
      BY <1>1, <2>0, <2>1, ControlStep
    <2>3. Books' /\ Settled' /\ Delivered'
      BY <1>1, <2>0, BooksStep, SettledStep, DeliveredStep
    <2>4. Flow'
      <3>1. \A k \in Sinks : Counted(k)' /\ Ordered(k)' /\ Sealed(k)'
        BY <1>1, <2>0, <2>2, CountedStep, OrderedStep, SealedStep DEF Flow
      <3>2. Sinks' = Sinks
        BY <1>1, SameSinks
      <3> QED BY <3>1, <3>2 DEF Flow
    <2> QED BY <2>1, <2>2, <2>3, <2>4 DEF ReporterInv
  <1> QED BY <1>1, ReporterInit, PTL DEF Spec

\* Once the reader was joined and the summary built, nothing is in flight
LEMMA AtRest ==
    ASSUME ReporterInv, main \in Summed, ~ late, NEW k \in Sinks
    PROVE  LET events == Cardinality(EventsIn(written[k]))
               errors == Cardinality(ErrorsIn(written[k]))
           IN  /\ summary.counters = counters /\ summary.lost_event_count = loss_counts
               /\ summary.top = TopSignatures /\ summary.status = Status[reason]
               /\ AggregatedCount = counters.events
               /\ counters.events \in Nat /\ counters.errors \in Nat
               /\ errors \in Nat /\ errors <= counters.errors
               /\ events \in Nat /\ counters.errors - errors <= counters.events - events
  <1>0. TypeOK /\ Control /\ Settled /\ Flow
    BY DEF ReporterInv
  <1>1. /\ summary.counters = counters /\ summary.lost_event_count = loss_counts
        /\ summary.top = TopSignatures /\ summary.status = Status[reason]
    BY <1>0 DEF Settled
  <1>2. reader.phase = "gone"
    <2>1. reader = Gone
      BY <1>0 DEF Control
    <2> QED BY <1>0, <2>1, Typed, ReaderShape
  <1>3. counters.events \in Nat /\ counters.errors \in Nat
    BY <1>0, Typed DEF Counters
  <1>4. /\ AggregatedCount = counters.events
        /\ Owes(k, "error") = 0 /\ Owes(k, "warning") = 0
    BY <1>2, <1>3 DEF AggregatedCount, Owes
  <1>5. Cardinality(EventsIn(written[k])) \in Nat /\ Cardinality(ErrorsIn(written[k])) \in Nat
    BY <1>0, Typed, Countable
  <1>6. /\ Cardinality(ErrorsIn(written[k])) + 0 <= counters.errors
        /\ counters.errors - Cardinality(ErrorsIn(written[k])) + 0
              <= counters.events - Cardinality(EventsIn(written[k]))
    BY <1>0, <1>4 DEF Flow, Counted
  <1> QED BY <1>1, <1>3, <1>4, <1>5, <1>6

\* Reporter.summary after a joined reader: its counters are the sums over the
\* signatures that report aggregated, and the top signatures it shows are the
\* largest.
THEOREM SummaryExact == Spec => []SummaryIsExact
  <1>1. ASSUME ReporterInv PROVE SummaryIsExact
    <2> SUFFICES ASSUME summary # None, ~ late
                 PROVE  /\ summary.counters.events = Total(Counts(signatures))
                        /\ summary.counters.total = Total(Totals(signatures))
                        /\ Bounded(signatures, summary.counters.max)
                        /\ \A p \in 1 .. Len(summary.top), i \in 1 .. Len(signatures) :
                              \/ summary.top[p].total >= signatures[i].total
                              \/ \E q \in 1 .. p :
                                    summary.top[q].fingerprint = signatures[i].fingerprint
      BY DEF SummaryIsExact
    <2>0. TypeOK /\ Control /\ Books /\ Settled
      BY <1>1 DEF ReporterInv
    <2>1. main \in Summed
      BY <2>0 DEF Control
    <2>2. 1 \in Sinks
      BY <2>0, Typed, SomeSink
    <2>3. /\ summary.counters = counters /\ summary.top = TopSignatures
          /\ AggregatedCount = counters.events
      BY <1>1, <2>1, <2>2, AtRest
    <2>4. signatures \in Seq(Aggregates)
      BY <2>0, Typed
    <2> QED BY <2>0, <2>3, <2>4, TopIsTop DEF Books
  <1> QED BY <1>1, ReporterInvariant, PTL

\* Reporter.report and the sinks: event numbers increase in every stream, an
\* event is missing only where a write failed, and the summary of a joined reader
\* comes last and counts the errors that the stream shows.
THEOREM StreamsAgreeWithSummary == Spec => []StreamsAgree
  <1>1. ASSUME ReporterInv PROVE StreamsAgree
    <2>0. TypeOK /\ Control /\ Flow /\ Delivered
      BY <1>1 DEF ReporterInv
    <2> SUFFICES ASSUME NEW k \in Sinks
                 PROVE  /\ Increasing(written[k])
                        /\ ~ args.summary_only => \A n \in Reported :
                              n \in Numbers(written[k]) \/ \E j \in 1 .. k : <<n, j>> \in failed
                        /\ ~ late /\ HasSummary(written[k]) =>
                              /\ written[k][Len(written[k])].type = "session_summary"
                              /\ Cardinality(ErrorsIn(written[k])) <= summary.counters.errors
                              /\ Cardinality(EventsIn(written[k])) = summary.counters.events =>
                                    Cardinality(ErrorsIn(written[k])) = summary.counters.errors
      BY DEF StreamsAgree
    <2>1. Increasing(written[k])
      BY <2>0 DEF Flow, Ordered
    <2>2. ~ args.summary_only => \A n \in Reported :
              n \in Numbers(written[k]) \/ \E j \in 1 .. k : <<n, j>> \in failed
      BY <2>0 DEF Delivered, Accounted
    <2>3. ASSUME ~ late, HasSummary(written[k])
          PROVE  /\ written[k][Len(written[k])].type = "session_summary"
                 /\ Cardinality(ErrorsIn(written[k])) <= summary.counters.errors
                 /\ Cardinality(EventsIn(written[k])) = summary.counters.events =>
                       Cardinality(ErrorsIn(written[k])) = summary.counters.errors
      <3>1. main \in Summed /\ written[k][Len(written[k])].type = "session_summary"
        BY <2>0, <2>3 DEF Flow, Sealed
      <3> QED BY <1>1, <2>3, <3>1, AtRest
    <2> QED BY <2>1, <2>2, <2>3
  <1> QED BY <1>1, ReporterInvariant, PTL

\* policy_failed and the exit status in main(): after a joined reader the verdict
\* is the one that the summary implies, and a session that passed its policy has
\* shown no offending record in any stream.
THEOREM PolicyFollowsSummary == Spec => []PolicyAgrees
  <1>1. ASSUME ReporterInv PROVE PolicyAgrees
    <2>0. TypeOK /\ Control /\ Settled
      BY <1>1 DEF ReporterInv
    <2> SUFFICES ASSUME exit \in {"ok", "policy"}, ~ late
                 PROVE  /\ exit = "policy" <=> PolicyFailed(summary.counters, summary.lost_event_count)
                        /\ summary.status = "completed"
                        /\ exit = "ok" /\ args.fail_on = "error" =>
                              \A k \in Sinks : ErrorsIn(written[k]) = {}
                        /\ exit = "ok" /\ args.fail_on = "event" =>
                              \A k \in Sinks : EventsIn(written[k]) = {}
      BY DEF PolicyAgrees
    <2>1. main \in Summed /\ reason = "clean"
      BY <2>0 DEF Control, Summed
    <2>2. exit = "policy" <=> PolicyFailed(summary.counters, summary.lost_event_count)
      BY <2>0, <2>1 DEF Settled
    <2>3. summary.status = "completed"
      <3>1. summary.status = Status["clean"]
        BY <2>0, <2>1 DEF Settled
      <3> QED BY <3>1 DEF Status
    <2>4. ASSUME exit = "ok", args.fail_on = "error", NEW k \in Sinks
          PROVE  ErrorsIn(written[k]) = {}
      <3>1. ~ (summary.counters.errors > 0)
        BY <2>2, <2>4 DEF PolicyFailed
      <3>2. Cardinality(ErrorsIn(written[k])) = 0
        BY <1>1, <2>1, <3>1, AtRest
      <3>3. IsFiniteSet(ErrorsIn(written[k]))
        BY <2>0, Typed, Countable
      <3> QED BY <3>2, <3>3, FS_EmptySet
    <2>5. ASSUME exit = "ok", args.fail_on = "event", NEW k \in Sinks
          PROVE  EventsIn(written[k]) = {}
      <3>1. ~ (summary.counters.events > 0)
        BY <2>2, <2>5 DEF PolicyFailed
      <3>2. Cardinality(EventsIn(written[k])) = 0
        BY <1>1, <2>1, <3>1, AtRest
      <3>3. IsFiniteSet(EventsIn(written[k]))
        BY <2>0, Typed, Countable
      <3> QED BY <3>2, <3>3, FS_EmptySet
    <2> QED BY <2>2, <2>3, <2>4, <2>5
  <1> QED BY <1>1, ReporterInvariant, PTL
=============================================================================
