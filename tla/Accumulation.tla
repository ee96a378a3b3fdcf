---------------------------- MODULE Accumulation ----------------------------
(* Three loops over sequences that several components run: adding up, keeping *)
(* what passes a test, and bisecting.  All are recursive functions, so that   *)
(* the provers can reason about them.                                         *)
EXTENDS Integers, Sequences

\* The sum of the numbers in the sequence w
Total(w) ==
    LET sum[i \in 0 .. Len(w)] == IF i = 0 THEN 0 ELSE sum[i - 1] + w[i]
    IN  sum[Len(w)]

\* The members of K among 1 .. n, in increasing order
Chosen(K, n) ==
    LET kept[i \in 0 .. n] ==
            IF i = 0 THEN <<>>
            ELSE IF i \in K THEN Append(kept[i - 1], i) ELSE kept[i - 1]
    IN  kept[n]

\* The elements of s whose index is in K, in their order
Keep(s, K) == [k \in 1 .. Len(Chosen(K, Len(s))) |-> s[Chosen(K, Len(s))[k]]]

(* Python's bisect module: the loop halves [lo, hi) until it is empty.  left  *)
(* holds the indices whose values belong before the insertion point.          *)
Bisect(left, n) ==
    LET search[window \in (0 .. n) \X (0 .. n)] ==
          LET lo == window[1]
              hi == window[2]
              mid == (lo + hi) \div 2
          IN  IF lo >= hi THEN lo
              ELSE IF mid + 1 \in left THEN search[<<mid + 1, hi>>] ELSE search[<<lo, mid>>]
    IN  search[<<0, n>>]

BisectLeft(ts, x) == Bisect({i \in 1 .. Len(ts) : ts[i] < x}, Len(ts))

BisectRight(ts, x) == Bisect({i \in 1 .. Len(ts) : ~ (x < ts[i])}, Len(ts))
=============================================================================
