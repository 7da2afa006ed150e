-------------------------- MODULE PagerHarness_proofs --------------------------
(***************************************************************************)
(* Proofs about PagerHarness, for every model, pins file, corpus and       *)
(* option: what is recorded and counted, and which pool fill succeeds.     *)
(***************************************************************************)
EXTENDS PagerHarness, FiniteSetTheorems, SequenceTheorems, TLAPS

(***************************************************************************)
(* Sums.  A set of naturals has a least element; in place of an induction  *)
(* over n, the least n a claim fails for is refuted.                       *)
(***************************************************************************)

LEMMA LeastNat ==
    ASSUME NEW T, T \subseteq Nat, T # {}
    PROVE  \E x \in T : \A y \in T : x <= y
<1>. DEFINE R == {ss \in Nat \X Nat : ss[1] < ss[2]}
<1>1. IsWellFoundedOn(R, Nat)
  BY NatLessThanWellFounded, Zenon DEF OpToRel
<1>2. \E x \in T : \A y \in T : <<y, x>> \notin R
  <2>. HIDE DEF R
  <2>. QED BY <1>1, WFMin
<1>3. PICK x \in T : \A y \in T : <<y, x>> \notin R
  BY <1>2
<1>4. ASSUME NEW y \in T PROVE x <= y
  <2>1. x \in Nat /\ y \in Nat OBVIOUS
  <2>2. <<y, x>> \notin R BY <1>3
  <2>3. ~(y < x) BY <2>1, <2>2
  <2>. HIDE DEF R
  <2>. QED BY <2>1, <2>3
<1>. QED BY <1>4

\* A claim about 0..n that holds of 0 and of k when of k-1 holds of all of them. The claim is a
\* set, that of the numbers it holds of.
LEMMA UpTo ==
    ASSUME NEW n \in Nat, NEW C, 0 \in C, \A k \in 1..n : k - 1 \in C => k \in C
    PROVE  0..n \subseteq C
<1>1. SUFFICES ASSUME ~(0..n \subseteq C) PROVE FALSE
  OBVIOUS
<1>. DEFINE T == {k \in 0..n : k \notin C}
<1>2. T \subseteq Nat /\ T # {}
  BY <1>1
<1>3. PICK x \in T : \A y \in T : x <= y
  <2>. HIDE DEF T
  <2>. QED BY <1>2, LeastNat
<1>4. x \in 1..n /\ x - 1 \notin T /\ x - 1 \in 0..n
  BY <1>3
<1>. QED BY <1>3, <1>4

\* A nonempty set of numbers up to n has a largest.
LEMMA LargestIn ==
    ASSUME NEW n \in Nat, NEW S, S \subseteq 0..n, S # {}
    PROVE  \E x \in S : \A y \in S : x >= y
<1>. DEFINE T == {n - x : x \in S}
<1>1. T \subseteq Nat /\ T # {}
  <2>1. \A x \in S : n - x \in Nat
    OBVIOUS
  <2>. QED BY <2>1
<1>2. PICK t \in T : \A y \in T : t <= y
  <2>. HIDE DEF T
  <2>. QED BY <1>1, LeastNat
<1>3. PICK x \in S : t = n - x
  BY <1>2
<1>4. ASSUME NEW y \in S PROVE x >= y
  <2>1. n - y \in T
    OBVIOUS
  <2>2. n - x <= n - y
    BY <1>2, <1>3, <2>1
  <2>. QED BY <2>2, x \in 0..n, y \in 0..n
<1>. QED BY <1>4

LEMMA MaxOf ==
    ASSUME NEW n \in Nat, NEW S, S \subseteq 0..n, S # {}
    PROVE  Max(S) \in S /\ \A y \in S : y <= Max(S)
<1>1. \E x \in S : \A y \in S : x >= y
  BY LargestIn
<1>2. Max(S) \in S /\ \A y \in S : Max(S) >= y
  BY <1>1, Zenon DEF Max
<1>. QED BY <1>2

\* What FoldLeft(+, b, s) computes, as a function of the index set still to be added
FoldOn(g, b, s, k) ==
    g = [S \in SUBSET (1..k) |-> IF S = {} THEN b ELSE g[S \ {Max(S)}] + s[Max(S)]]

LEMMA FoldExists ==
    ASSUME NEW n \in Nat, NEW b, NEW s
    PROVE  \E g : FoldOn(g, b, s, n)
<1>. DEFINE C == {k \in 0..n : \E g : FoldOn(g, b, s, k)}
<1>1. 0 \in C
  <2>. DEFINE g == [S \in SUBSET (1..0) |-> b]
  <2>1. SUBSET (1..0) = {{}}
    OBVIOUS
  <2>2. FoldOn(g, b, s, 0)
    BY <2>1, Zenon DEF FoldOn
  <2>. QED BY <2>2
<1>2. ASSUME NEW k \in 1..n, k - 1 \in C PROVE k \in C
  <2>1. PICK h : FoldOn(h, b, s, k - 1)
    BY <1>2
  <2>. DEFINE g == [S \in SUBSET (1..k) |-> IF S = {} THEN b
                        ELSE IF k \in S THEN h[S \ {k}] + s[k] ELSE h[S]]
  <2>2. ASSUME NEW S \in SUBSET (1..k), S # {}
        PROVE  g[S] = g[S \ {Max(S)}] + s[Max(S)]
    <3>1. Max(S) \in S /\ \A y \in S : y <= Max(S)
      <4>1. S \subseteq 0..k /\ k \in Nat
        BY <2>2
      <4>. QED BY <4>1, <2>2, MaxOf
    <3>0. Max(S) \in 1..k /\ k \in Nat
      <4>1. k \in Nat
        OBVIOUS
      <4>2. Max(S) \in 1..k
        BY <3>1, Zenon
      <4>. QED BY <4>1, <4>2
    <3>2. S \ {Max(S)} \in SUBSET (1..(k - 1)) /\ S \ {Max(S)} \in SUBSET (1..k)
      <4>1. ASSUME NEW m \in 1..k, NEW y \in S \ {m}, y <= m
            PROVE  y \in 1..(k - 1)
        BY <4>1, <2>2, <3>0
      <4>. QED BY <4>1, <3>1, <3>0, <2>2
    <3>3. k \notin S \ {Max(S)}
      BY <3>2
    <3>4. g[S \ {Max(S)}] = h[S \ {Max(S)}]
      <4>1. CASE S \ {Max(S)} = {}
        <5>1. h[{}] = b
          <6>1. {} \in SUBSET (1..(k - 1))
            OBVIOUS
          <6>. QED BY <6>1, <2>1, Zenon DEF FoldOn
        <5>2. g[{}] = b
          OBVIOUS
        <5>. HIDE DEF g
        <5>. QED BY <5>1, <5>2, <4>1
      <4>2. CASE S \ {Max(S)} # {}
        BY <4>2, <3>2, <3>3, Zenon
      <4>. QED BY <4>1, <4>2
    <3>5. CASE k \in S
      <4>1. Max(S) = k
        <5>1. k <= Max(S)
          BY <3>1, <3>5
        <5>. QED BY <5>1, <3>0
      <4>2. g[S] = h[S \ {k}] + s[k]
        BY <3>5, <2>2, Zenon
      <4>. HIDE DEF g
      <4>. QED BY <4>1, <4>2, <3>4
    <3>6. CASE k \notin S
      <4>1. S \in SUBSET (1..(k - 1))
        BY <3>6, <2>2
      <4>2. h[S] = h[S \ {Max(S)}] + s[Max(S)]
        BY <4>1, <2>1, <2>2, Zenon DEF FoldOn
      <4>3. g[S] = h[S]
        BY <3>6, <2>2, Zenon
      <4>. HIDE DEF g
      <4>. QED BY <4>2, <4>3, <3>4
    <3>. QED BY <3>5, <3>6
  <2>3. g[{}] = b
    OBVIOUS
  <2>4. FoldOn(g, b, s, k)
    <3>1. g = [S \in SUBSET (1..k) |-> g[S]]
      BY Zenon
    <3>2. ASSUME NEW S \in SUBSET (1..k)
          PROVE  g[S] = IF S = {} THEN b ELSE g[S \ {Max(S)}] + s[Max(S)]
      <4>1. CASE S = {}
        <5>. HIDE DEF g
        <5>. QED BY <4>1, <2>3
      <4>2. CASE S # {}
        <5>1. g[S] = g[S \ {Max(S)}] + s[Max(S)]
          BY <4>2, <2>2
        <5>. HIDE DEF g
        <5>. QED BY <5>1, <4>2
      <4>. QED BY <4>1, <4>2
    <3>. HIDE DEF g
    <3>. QED BY <3>1, <3>2, Zenon DEF FoldOn
  <2>. QED BY <2>4
<1>3. 0..n \subseteq C
  <2>. HIDE DEF C
  <2>. QED BY <1>1, <1>2, UpTo
<1>. QED BY <1>3

\* FoldLeft(+, b, s) adds the elements of s to b one by one: the sums on the way.
Partial(f, b, s) ==
    /\ f[0] = b
    /\ \A k \in 1..Len(s) : f[k] = f[k - 1] + s[k]

LEMMA FoldSum ==
    ASSUME NEW b \in Nat, NEW s \in Seq(Nat)
    PROVE  \E f \in [0..Len(s) -> Nat] : Partial(f, b, s) /\ FoldLeft(+, b, s) = f[Len(s)]
<1>. DEFINE n == Len(s)
<1>0. n \in Nat /\ DOMAIN s = 1..n /\ \A k \in 1..n : s[k] \in Nat
  OBVIOUS
<1>. DEFINE h == CHOOSE g : g = [S \in SUBSET (DOMAIN s) |->
                                   IF S = {} THEN b ELSE g[S \ {Max(S)}] + s[Max(S)]]
<1>1. FoldLeft(+, b, s) = h[DOMAIN s]
  BY Zenon DEF FoldLeft, MapThenFoldSet
<1>2. h = [S \in SUBSET (DOMAIN s) |-> IF S = {} THEN b ELSE h[S \ {Max(S)}] + s[Max(S)]]
  <2>1. \E g : g = [S \in SUBSET (1..n) |-> IF S = {} THEN b ELSE g[S \ {Max(S)}] + s[Max(S)]]
    <3>1. n \in Nat
      BY <1>0
    <3>. HIDE DEF n
    <3>2. \E g : FoldOn(g, b, s, n)
      BY <3>1, FoldExists
    <3>. QED BY <3>2, Zenon DEF FoldOn
  <2>2. \E g : g = [S \in SUBSET (DOMAIN s) |-> IF S = {} THEN b ELSE g[S \ {Max(S)}] + s[Max(S)]]
    <3>. HIDE DEF n
    <3>. QED BY <2>1, <1>0
  <2>. QED BY <2>2, Zenon
<1>. HIDE DEF h
<1>. DEFINE f == [k \in 0..n |-> h[1..k]]
<1>3. f[0] = b
  <2>1. h[{}] = b
    BY <1>2
  <2>2. 1..0 = {}
    OBVIOUS
  <2>3. f[0] = h[1..0]
    BY <1>0
  <2>. HIDE DEF f
  <2>. QED BY <2>1, <2>2, <2>3
<1>4. ASSUME NEW k \in 1..n PROVE f[k] = f[k - 1] + s[k]
  <2>. HIDE DEF n
  <2>1. 1..k \in SUBSET (DOMAIN s) /\ 1..k # {} /\ k \in Nat
    BY <1>0
  <2>2. Max(1..k) \in 1..k /\ \A y \in 1..k : y <= Max(1..k)
    <3>1. 1..k \subseteq 0..k
      BY <2>1
    <3>. HIDE DEF f
    <3>. QED BY <3>1, <2>1, MaxOf
  <2>3. Max(1..k) = k
    <3>1. k \in 1..k
      BY <2>1, <1>0
    <3>2. k <= Max(1..k)
      BY <3>1, <2>2
    <3>3. \A m \in 1..k : k <= m => m = k
      BY <2>1
    <3>. HIDE DEF f
    <3>. QED BY <3>2, <3>3, <2>2, Zenon
  <2>4. h[1..k] = h[(1..k) \ {k}] + s[k]
    <3>1. h[1..k] = h[(1..k) \ {Max(1..k)}] + s[Max(1..k)]
      BY <2>1, <1>2, Zenon
    <3>. HIDE DEF f
    <3>. QED BY <3>1, <2>3
  <2>5. (1..k) \ {k} = 1..(k - 1)
    BY <2>1
  <2>6. f[k] = h[1..k] /\ f[k - 1] = h[1..(k - 1)]
    BY <1>0
  <2>. HIDE DEF f
  <2>. QED BY <2>4, <2>5, <2>6
<1>5. f \in [0..n -> Nat]
  <2>. DEFINE C == {k \in 0..n : f[k] \in Nat}
  <2>1. 0 \in C
    <3>. HIDE DEF f, n
    <3>. QED BY <1>3, <1>0
  <2>2. ASSUME NEW k \in 1..n, k - 1 \in C PROVE k \in C
    <3>. HIDE DEF f, n
    <3>. QED BY <2>2, <1>4, <1>0
  <2>3. 0..n \subseteq C
    <3>. HIDE DEF C
    <3>. QED BY <2>1, <2>2, <1>0, UpTo
  <2>4. \A k \in 0..n : f[k] \in Nat
    <3>. HIDE DEF f, n
    <3>. QED BY <2>3
  <2>. QED BY <2>4
<1>6. FoldLeft(+, b, s) = f[n]
  <2>1. f[n] = h[1..n]
    BY <1>0
  <2>. HIDE DEF f
  <2>. QED BY <1>1, <2>1, <1>0, Zenon
<1>7. Partial(f, b, s)
  <2>. HIDE DEF f
  <2>. QED BY <1>3, <1>4, Zenon DEF Partial
<1>. HIDE DEF f
<1>. QED BY <1>5, <1>6, <1>7, Zenon

\* Two ways of adding that start d apart and make the same steps end d apart.
LEMMA PartialShift ==
    ASSUME NEW n \in Nat, NEW d \in Nat, NEW f \in [0..n -> Nat], NEW g \in [0..n -> Nat],
           g[0] = f[0] + d,
           \A k \in 1..n : \E e \in Nat : f[k] = f[k - 1] + e /\ g[k] = g[k - 1] + e
    PROVE  g[n] = f[n] + d
<1>. DEFINE C == {k \in 0..n : g[k] = f[k] + d}
<1>1. 0 \in C
  OBVIOUS
<1>2. ASSUME NEW k \in 1..n, k - 1 \in C PROVE k \in C
  <2>1. k \in 0..n /\ k - 1 \in 0..n
    OBVIOUS
  <2>2. PICK e \in Nat : f[k] = f[k - 1] + e /\ g[k] = g[k - 1] + e
    OBVIOUS
  <2>3. f[k - 1] \in Nat /\ g[k - 1] = f[k - 1] + d
    BY <2>1, <1>2
  <2>4. g[k] = f[k] + d
    BY <2>2, <2>3
  <2>. QED BY <2>1, <2>4
<1>3. 0..n \subseteq C
  <2>. HIDE DEF C
  <2>. QED BY <1>1, <1>2, UpTo
<1>. QED BY <1>3

\* A larger base is a larger sum.
LEMMA SumShift ==
    ASSUME NEW b \in Nat, NEW d \in Nat, NEW s \in Seq(Nat)
    PROVE  FoldLeft(+, b + d, s) = FoldLeft(+, b, s) + d
<1>. DEFINE n == Len(s)
<1>0. n \in Nat /\ \A k \in 1..n : s[k] \in Nat
  OBVIOUS
<1>1. PICK f \in [0..n -> Nat] : Partial(f, b, s) /\ FoldLeft(+, b, s) = f[n]
  BY FoldSum, Zenon
<1>2. PICK g \in [0..n -> Nat] : Partial(g, b + d, s) /\ FoldLeft(+, b + d, s) = g[n]
  <2>1. b + d \in Nat
    OBVIOUS
  <2>. QED BY <2>1, FoldSum, Zenon
<1>3. g[0] = f[0] + d
  BY <1>1, <1>2 DEF Partial
<1>4. ASSUME NEW k \in 1..n PROVE \E e \in Nat : f[k] = f[k - 1] + e /\ g[k] = g[k - 1] + e
  <2>1. f[k] = f[k - 1] + s[k] /\ g[k] = g[k - 1] + s[k]
    BY <1>1, <1>2 DEF Partial
  <2>2. f[k - 1] \in Nat /\ g[k - 1] \in Nat /\ s[k] \in Nat
    <3>1. k - 1 \in 0..n
      BY <1>0
    <3>. HIDE DEF n
    <3>. QED BY <3>1, <1>0
  <2>. HIDE DEF n
  <2>. QED BY <2>1, <2>2
<1>5. g[n] = f[n] + d
  <2>. HIDE DEF n
  <2>. QED BY <1>0, <1>3, <1>4, PartialShift
<1>. QED BY <1>1, <1>2, <1>5

\* Closing a micro-batch: what was the base becomes the last element.
LEMMA SumAppend ==
    ASSUME NEW u \in Nat, NEW s \in Seq(Nat)
    PROVE  FoldLeft(+, 0, Append(s, u)) = FoldLeft(+, u, s)
<1>. DEFINE n == Len(s)
<1>. DEFINE t == Append(s, u)
<1>0. /\ n \in Nat /\ \A k \in 1..n : s[k] \in Nat
      /\ t \in Seq(Nat) /\ Len(t) = n + 1 /\ t[n + 1] = u /\ \A k \in 1..n : t[k] = s[k]
  OBVIOUS
<1>1. PICK f \in [0..n -> Nat] : Partial(f, u, s) /\ FoldLeft(+, u, s) = f[n]
  BY FoldSum, Zenon
<1>2. PICK g \in [0..(n + 1) -> Nat] : Partial(g, 0, t) /\ FoldLeft(+, 0, t) = g[n + 1]
  <2>1. \E g \in [0..Len(t) -> Nat] : Partial(g, 0, t) /\ FoldLeft(+, 0, t) = g[Len(t)]
    <3>. HIDE DEF t, n
    <3>. QED BY <1>0, FoldSum
  <2>. HIDE DEF t, n
  <2>. QED BY <2>1, <1>0, Zenon
<1>. HIDE DEF t, n
<1>3. /\ g[0] = 0 /\ \A k \in 1..(n + 1) : g[k] = g[k - 1] + t[k]
      /\ f[0] = u /\ \A k \in 1..n : f[k] = f[k - 1] + s[k]
  <2>1. g[0] = 0 /\ \A k \in 1..(n + 1) : g[k] = g[k - 1] + t[k]
    BY <1>2, <1>0 DEF Partial
  <2>2. f[0] = u /\ \A k \in 1..n : f[k] = f[k - 1] + s[k]
    <3>1. f[0] = u /\ \A k \in 1..Len(s) : f[k] = f[k - 1] + s[k]
      BY <1>1 DEF Partial
    <3>. QED BY <3>1 DEF n
  <2>. QED BY <2>1, <2>2
<1>. DEFINE h == [k \in 0..n |-> g[k] + u]
<1>4. h \in [0..n -> Nat] /\ h[0] = f[0] + 0
  BY SMTT(40), <1>0, <1>3
<1>5. ASSUME NEW k \in 1..n PROVE \E e \in Nat : f[k] = f[k - 1] + e /\ h[k] = h[k - 1] + e
  <2>1. k \in 1..(n + 1) /\ k \in 0..n /\ k - 1 \in 0..n /\ k \in 0..(n + 1) /\ k - 1 \in 0..(n + 1)
    BY <1>0
  <2>2. g[k] = g[k - 1] + s[k] /\ f[k] = f[k - 1] + s[k]
    <3>1. t[k] = s[k]
      BY <1>0
    <3>2. g[k] = g[k - 1] + t[k]
      BY <2>1, <1>3
    <3>3. f[k] = f[k - 1] + s[k]
      BY <1>3
    <3>. QED BY <3>1, <3>2, <3>3
  <2>3. f[k - 1] \in Nat /\ g[k - 1] \in Nat /\ s[k] \in Nat
    BY <2>1, <1>0
  <2>4. h[k] = g[k] + u /\ h[k - 1] = g[k - 1] + u
    BY <2>1
  <2>. HIDE DEF h
  <2>. QED BY <2>2, <2>3, <2>4
<1>6. h[n] = f[n] + 0
  <2>. HIDE DEF h
  <2>. QED BY <1>0, <1>4, <1>5, PartialShift
<1>7. g[n + 1] = f[n]
  <2>1. n \in 0..n /\ n \in 0..(n + 1) /\ n + 1 \in 1..(n + 1)
    BY <1>0
  <2>2. g[n + 1] = g[n] + u
    <3>1. g[n + 1] = g[(n + 1) - 1] + t[n + 1]
      BY <2>1, <1>3
    <3>2. (n + 1) - 1 = n
      BY <1>0
    <3>. QED BY <3>1, <3>2, <1>0
  <2>3. h[n] = g[n] + u
    BY <2>1
  <2>4. f[n] \in Nat
    BY <2>1
  <2>. HIDE DEF h
  <2>. QED BY <2>2, <2>3, <2>4, <1>6
<1>8. FoldLeft(+, 0, t) = FoldLeft(+, u, s)
  BY <1>1, <1>2, <1>7
<1>. QED BY <1>8 DEF t

\* One more observation of layer l adds its draws to the sum over the layers.
LEMMA SumAt ==
    ASSUME NEW n \in Nat, NEW x \in [1..n -> Nat], NEW y \in [1..n -> Nat], NEW l \in 1..n,
           NEW d \in Nat, y[l] = x[l] + d, \A k \in (1..n) \ {l} : y[k] = x[k]
    PROVE  FoldLeft(+, 0, [k \in 1..n |-> y[k]]) = FoldLeft(+, 0, [k \in 1..n |-> x[k]]) + d
<1>. DEFINE s == [k \in 1..n |-> x[k]]
<1>. DEFINE t == [k \in 1..n |-> y[k]]
<1>1. /\ s \in Seq(Nat) /\ Len(s) = n /\ \A k \in 1..n : s[k] = x[k]
      /\ t \in Seq(Nat) /\ Len(t) = n /\ \A k \in 1..n : t[k] = y[k]
  OBVIOUS
<1>2. /\ FoldLeft(+, 0, [k \in 1..n |-> x[k]]) = FoldLeft(+, 0, s)
      /\ FoldLeft(+, 0, [k \in 1..n |-> y[k]]) = FoldLeft(+, 0, t)
  OBVIOUS
<1>. HIDE DEF s, t
<1>3. PICK f \in [0..n -> Nat] : Partial(f, 0, s) /\ FoldLeft(+, 0, s) = f[n]
  <2>1. \E f \in [0..Len(s) -> Nat] : Partial(f, 0, s) /\ FoldLeft(+, 0, s) = f[Len(s)]
    BY <1>1, FoldSum
  <2>. QED BY <2>1, <1>1, Zenon
<1>4. PICK g \in [0..n -> Nat] : Partial(g, 0, t) /\ FoldLeft(+, 0, t) = g[n]
  <2>1. \E g \in [0..Len(t) -> Nat] : Partial(g, 0, t) /\ FoldLeft(+, 0, t) = g[Len(t)]
    BY <1>1, FoldSum
  <2>. QED BY <2>1, <1>1, Zenon
<1>5. /\ f[0] = 0 /\ \A k \in 1..n : f[k] = f[k - 1] + x[k]
      /\ g[0] = 0 /\ \A k \in 1..n : g[k] = g[k - 1] + y[k]
  BY <1>1, <1>3, <1>4 DEF Partial
<1>. DEFINE C == {k \in 0..n : g[k] = f[k] + (IF k >= l THEN d ELSE 0)}
<1>6. 0 \in C
  BY <1>5
<1>7. ASSUME NEW k \in 1..n, k - 1 \in C PROVE k \in C
  <2>1. k \in 0..n /\ k - 1 \in 0..n /\ k \in Nat /\ l \in Nat
    OBVIOUS
  <2>2. f[k] = f[k - 1] + x[k] /\ g[k] = g[k - 1] + y[k]
    BY <1>5
  <2>3. f[k - 1] \in Nat /\ x[k] \in Nat /\ x[l] \in Nat
    BY <2>1
  <2>4. g[k - 1] = f[k - 1] + (IF k - 1 >= l THEN d ELSE 0)
    BY <1>7
  <2>5. y[k] = x[k] + (IF k = l THEN d ELSE 0)
    <3>1. CASE k = l
      BY <2>3, <3>1
    <3>2. CASE k # l
      <4>1. y[k] = x[k]
        BY <3>2
      <4>. QED BY <2>3, <3>2, <4>1
    <3>. QED BY <3>1, <3>2
  <2>6. g[k] = f[k] + (IF k >= l THEN d ELSE 0)
    <3>1. CASE k < l
      BY <3>1, <2>1, <2>2, <2>3, <2>4, <2>5
    <3>2. CASE k = l
      BY <3>2, <2>1, <2>2, <2>3, <2>4, <2>5
    <3>3. CASE k > l
      BY <3>3, <2>1, <2>2, <2>3, <2>4, <2>5
    <3>. QED BY <3>1, <3>2, <3>3, <2>1
  <2>. QED BY <2>1, <2>6
<1>8. 0..n \subseteq C
  <2>. HIDE DEF C
  <2>. QED BY <1>6, <1>7, UpTo
<1>9. g[n] = f[n] + d
  <2>1. n \in 0..n /\ n >= l
    OBVIOUS
  <2>. QED BY <2>1, <1>8
<1>. QED BY <1>2, <1>3, <1>4, <1>9

\* The sum of nothing, and of a base alone.
LEMMA SumEmpty ==
    ASSUME NEW b \in Nat
    PROVE  FoldLeft(+, b, <<>>) = b
<1>1. <<>> \in Seq(Nat) /\ Len(<<>>) = 0
  OBVIOUS
<1>2. PICK f \in [0..0 -> Nat] : Partial(f, b, <<>>) /\ FoldLeft(+, b, <<>>) = f[0]
  <2>1. \E f \in [0..Len(<<>>) -> Nat] : Partial(f, b, <<>>) /\ FoldLeft(+, b, <<>>) = f[Len(<<>>)]
    BY <1>1, FoldSum
  <2>. QED BY <2>1, <1>1
<1>. QED BY <1>2 DEF Partial

LEMMA SumZero ==
    ASSUME NEW n \in Nat
    PROVE  FoldLeft(+, 0, [k \in 1..n |-> [l \in 1..n |-> 0][k]]) = 0
<1>. DEFINE s == [k \in 1..n |-> [l \in 1..n |-> 0][k]]
<1>1. s \in Seq(Nat) /\ Len(s) = n /\ \A k \in 1..n : s[k] = 0
  OBVIOUS
<1>. HIDE DEF s
<1>2. PICK f \in [0..n -> Nat] : Partial(f, 0, s) /\ FoldLeft(+, 0, s) = f[n]
  <2>1. \E f \in [0..Len(s) -> Nat] : Partial(f, 0, s) /\ FoldLeft(+, 0, s) = f[Len(s)]
    BY <1>1, FoldSum
  <2>. QED BY <2>1, <1>1, Zenon
<1>. DEFINE C == {k \in 0..n : f[k] = 0}
<1>3. 0 \in C
  <2>1. f[0] = 0
    BY <1>2 DEF Partial
  <2>2. 0 \in 0..n
    OBVIOUS
  <2>. QED BY <2>1, <2>2
<1>4. ASSUME NEW k \in 1..n, k - 1 \in C PROVE k \in C
  <2>1. f[k] = f[k - 1] + 0
    BY <1>1, <1>2 DEF Partial
  <2>2. f[k - 1] = 0
    BY <1>4
  <2>. QED BY <2>1, <2>2
<1>5. 0..n \subseteq C
  <2>. HIDE DEF C
  <2>. QED BY <1>3, <1>4, UpTo
<1>6. f[n] = 0
  BY <1>5
<1>7. FoldLeft(+, 0, s) = 0
  BY <1>2, <1>6
<1>. QED BY <1>7 DEF s

(***************************************************************************)
(* The constants and the operators                                         *)
(***************************************************************************)

LEMMA Sizes ==
    /\ NLayer \in Nat \ {0} /\ NExpert \in Nat \ {0} /\ NUsed \in Nat \ {0} /\ NUsed <= NExpert
    /\ NPrefill \in Nat /\ NGenLines \in Nat /\ NGen \in Nat
    /\ NCtx \in Nat \ {0} /\ NBatch \in Nat \ {0} /\ NUbatch \in Nat \ {0}
    /\ NPin \in Int /\ Len(Fallbacks) \in Nat /\ DOMAIN Fallbacks = 1..Len(Fallbacks)
    /\ \A k \in DOMAIN Fallbacks : Fallbacks[k] \in Nat \ {0}
    /\ \A i, j \in DOMAIN Fallbacks : i < j => Fallbacks[i] > Fallbacks[j]
<1>1. Fallbacks \in Seq(Nat \ {0})
  BY SizeAssumption
<1>2. /\ Len(Fallbacks) \in Nat /\ DOMAIN Fallbacks = 1..Len(Fallbacks)
      /\ \A k \in DOMAIN Fallbacks : Fallbacks[k] \in Nat \ {0}
  BY <1>1
<1>. QED BY <1>2, SizeAssumption

\* A position of a chunk is a multiple of the chunk size at the chunk's start only.
LEMMA ChunkStart ==
    ASSUME NEW a \in Nat, NEW m \in Nat \ {0}, a % m = 0
    PROVE  /\ (a + m) % m = 0
           /\ \A d \in 0..(m - 1) : (a + d) % m = 0 => d = 0
<1>1. \A d \in 0..(m - 1) : (a + d) % m = d
  OBVIOUS
<1>2. PICK q \in Int : a = m * q
  <2>1. a = m * (a \div m) + (a % m) /\ a \div m \in Int
    OBVIOUS
  <2>. QED BY <2>1
<1>3. (a + m) % m = 0
  <2>1. a + m \in Nat /\ a + m = m * ((a + m) \div m) + ((a + m) % m)
        /\ (a + m) % m \in 0..(m - 1) /\ (a + m) \div m \in Int
    OBVIOUS
  <2>2. a + m = m * (q + 1) + 0
    BY <1>2
  <2>3. \A k, j \in Int, r, s \in 0..(m - 1) : m * k + r = m * j + s => r = s
    OBVIOUS
  <2>. DEFINE k == (a + m) \div m
  <2>. DEFINE s == (a + m) % m
  <2>4. m * k + s = m * (q + 1) + 0 /\ k \in Int /\ s \in 0..(m - 1) /\ q + 1 \in Int /\ 0 \in 0..(m - 1)
    BY <2>1, <2>2
  <2>. HIDE DEF k, s
  <2>5. s = 0
    BY <2>3, <2>4
  <2>. QED BY <2>5 DEF s
<1>. QED BY <1>1, <1>3

LEMMA IdsDomain ==
    ASSUME NEW n \in Nat, NEW r
    PROVE  /\ IsFiniteSet(DOMAIN Ids(r, n))
           /\ DOMAIN Ids(r, n) = 0..(n * NUsed - 1)
<1>1. n * NUsed - 1 \in Int
  BY Sizes
<1>. QED BY <1>1, FS_Interval DEF Ids

\* What is added to the sums is a number, whatever is copied.
LEMMA HitsType ==
    ASSUME NEW n \in Nat, NEW r
    PROVE  /\ Hits(Ids(r, n)) \in Nat /\ HitUnion(Ids(r, n)) \in Nat
           /\ MissUnion(Ids(r, n)) \in Nat
<1>. DEFINE ids == Ids(r, n)
<1>. DEFINE S == DOMAIN ids
<1>. DEFINE T == {ids[i] : i \in S}
<1>1. IsFiniteSet(S)
  BY IdsDomain
<1>. HIDE DEF ids
<1>2. IsFiniteSet(T)
  <2>1. [i \in S |-> ids[i]] \in Surjection(S, T)
    BY DEF Surjection
  <2>. HIDE DEF S, T
  <2>. QED BY <2>1, <1>1, FS_Surjection
<1>3. IsFiniteSet({i \in S : ids[i] \in pinned[at_layer]})
  <2>. HIDE DEF S
  <2>. QED BY <1>1, FS_Subset
<1>4. IsFiniteSet(T \cap pinned[at_layer]) /\ IsFiniteSet(T \ pinned[at_layer])
  <2>. HIDE DEF T
  <2>. QED BY <1>2, FS_Intersection, FS_Difference
<1>5. Hits(ids) \in Nat
  BY <1>3, FS_CardinalityType DEF Hits
<1>6. HitUnion(ids) \in Nat
  BY <1>4, FS_CardinalityType DEF HitUnion
<1>7. MissUnion(ids) \in Nat
  BY <1>4, FS_CardinalityType DEF MissUnion
<1>. QED BY <1>5, <1>6, <1>7 DEF ids

LEMMA TrueHitsType ==
    ASSUME NEW n \in Nat, NEW r
    PROVE  TrueHits(r, n) \in Nat
<1>. DEFINE P == (1..n) \X (1..NUsed)
<1>1. IsFiniteSet(P)
  <2>1. IsFiniteSet(1..n) /\ IsFiniteSet(1..NUsed)
    BY Sizes, FS_Interval
  <2>. QED BY <2>1, FS_Product
<1>2. IsFiniteSet({jk \in P : r[jk[1]][jk[2]] \in pinned[at_layer]})
  <2>. HIDE DEF P
  <2>. QED BY <1>1, FS_Subset
<1>. QED BY <1>2, FS_CardinalityType DEF TrueHits

\* The ids copied of a single row are the ones its router put first: draw k of the row is id
\* k - 1 of the copy.
LEMMA OneRow ==
    ASSUME NEW r
    PROVE  Hits(Ids(r, 1)) = TrueHits(r, 1)
<1>. DEFINE ids == Ids(r, 1)
<1>. DEFINE S == {i \in DOMAIN ids : ids[i] \in pinned[at_layer]}
<1>. DEFINE T == {jk \in (1..1) \X (1..NUsed) : r[jk[1]][jk[2]] \in pinned[at_layer]}
<1>1. DOMAIN ids = 0..(NUsed - 1)
  <2>1. 1 * NUsed - 1 = NUsed - 1
    BY Sizes
  <2>. QED BY <2>1, IdsDomain
<1>2. ASSUME NEW i \in 0..(NUsed - 1) PROVE ids[i] = r[1][i + 1]
  <2>1. i \in Nat /\ i < NExpert /\ i \in 0..(1 * NUsed - 1)
    BY Sizes
  <2>2. i \div NExpert = 0 /\ i % NExpert = i
    BY <2>1, Sizes
  <2>3. ids[i] = IdAt(r, i)
    BY <2>1 DEF Ids
  <2>4. IdAt(r, i) = r[0 + 1][i + 1]
    BY <2>2 DEF IdAt
  <2>. QED BY <2>3, <2>4
<1>. HIDE DEF ids
<1>3. IsFiniteSet(S)
  <2>1. IsFiniteSet(DOMAIN ids)
    BY IdsDomain DEF ids
  <2>. QED BY <2>1, FS_Subset
<1>. DEFINE f == [i \in S |-> <<1, i + 1>>]
<1>4. \A i \in S : i \in 0..(NUsed - 1) /\ r[1][i + 1] \in pinned[at_layer]
  BY <1>1, <1>2
<1>5. f \in [S -> T]
  <2>1. ASSUME NEW i \in S PROVE <<1, i + 1>> \in T
    <3>1. i + 1 \in 1..NUsed
      BY <1>4, Sizes
    <3>. QED BY <3>1, <1>4
  <2>. HIDE DEF S, T
  <2>. QED BY <2>1
<1>6. f \in Injection(S, T)
  <2>1. ASSUME NEW i \in S, NEW j \in S, f[i] = f[j] PROVE i = j
    <3>1. i \in Int /\ j \in Int
      BY <1>4, Sizes
    <3>2. i + 1 = j + 1
      BY <2>1
    <3>. QED BY <3>1, <3>2
  <2>. HIDE DEF f, S, T
  <2>2. \A i, j \in S : f[i] = f[j] => i = j
    BY <2>1
  <2>. QED BY <1>5, <2>2 DEF Injection, IsInjective
<1>7. f \in Surjection(S, T)
  <2>1. ASSUME NEW t \in T PROVE \E i \in S : f[i] = t
    <3>1. PICK k \in 1..NUsed : t = <<1, k>>
      OBVIOUS
    <3>2. k - 1 \in 0..(NUsed - 1) /\ (k - 1) + 1 = k
      BY Sizes
    <3>3. r[1][k] \in pinned[at_layer]
      BY <3>1
    <3>4. k - 1 \in S
      BY <3>2, <3>3, <1>1, <1>2
    <3>5. f[k - 1] = t
      BY <3>1, <3>2, <3>4
    <3>. QED BY <3>4, <3>5
  <2>. HIDE DEF f, S, T
  <2>. QED BY <1>5, <2>1 DEF Surjection
<1>8. ExistsBijection(S, T)
  <2>. HIDE DEF f, S, T
  <2>. QED BY <1>6, <1>7 DEF ExistsBijection, Bijection
<1>9. Cardinality(T) = Cardinality(S)
  <2>. HIDE DEF S, T
  <2>. QED BY <1>3, <1>8, FS_Bijection
<1>. QED BY <1>9 DEF Hits, TrueHits, ids

(***************************************************************************)
(* The pool fill.  While it is tried, every candidate looked at was passed *)
(* over or refused, and those still ahead ask for less; when it succeeds,  *)
(* that is so of all candidates but the last one.                          *)
(***************************************************************************)

InputInv == lines \in Corpora /\ pinned \in PinTables /\ capacity \in Capacities

Refused(k) == Skipped(k) \/ Limited(Candidate(k)) > capacity

FillInv ==
    /\ ci \in 0..(Len(Fallbacks) + 1) /\ tried \in Seq(Int) /\ pool \in -1..NExpert
    /\ ci = 0 => tried = <<>>
    /\ \A i, j \in DOMAIN tried : i < j => tried[i] > tried[j]
    /\ \A i \in DOMAIN tried, k \in DOMAIN Fallbacks :
         k >= ci /\ ~Skipped(k) => tried[i] > Fallbacks[k]
    /\ pool = -1 => \A k \in 0..(ci - 1) : Refused(k)
    /\ pool # -1 => /\ ci > 0 /\ ~Skipped(ci - 1) /\ \A k \in 0..(ci - 2) : Refused(k)
                    /\ pool = Limited(Candidate(ci - 1)) /\ pool <= capacity

LEMMA LongestType ==
    ASSUME InputInv
    PROVE  Longest \in 0..NExpert
<1>. DEFINE S == {Cardinality(pinned[l]) : l \in DOMAIN pinned}
<1>1. DOMAIN pinned # {} /\ \A l \in DOMAIN pinned : pinned[l] \subseteq Expert
  BY InputAssumption DEF InputInv
<1>2. IsFiniteSet(Expert) /\ Cardinality(Expert) = NExpert
  BY Sizes, FS_Interval DEF Expert
<1>3. ASSUME NEW l \in DOMAIN pinned PROVE Cardinality(pinned[l]) \in 0..NExpert
  <2>1. IsFiniteSet(pinned[l]) /\ Cardinality(pinned[l]) <= NExpert
    BY <1>1, <1>2, FS_Subset
  <2>. QED BY <2>1, FS_CardinalityType, Sizes
<1>4. S \subseteq 0..NExpert /\ S # {}
  BY <1>1, <1>3
<1>5. PICK n \in S : \A y \in S : n >= y
  <2>. HIDE DEF S
  <2>. QED BY <1>4, LargestIn, Sizes
<1>6. n \in 0..NExpert /\ \E l \in DOMAIN pinned : Cardinality(pinned[l]) = n
  BY <1>4, <1>5
<1>7. \A l \in DOMAIN pinned : Cardinality(pinned[l]) <= n
  BY <1>5
<1>. QED BY <1>6, <1>7, Zenon DEF Longest

LEMMA LimitedType ==
    ASSUME InputInv, NEW np \in Int
    PROVE  /\ Limited(np) \in 0..NExpert
           /\ \A nq \in Int : 0 < nq /\ nq <= np => Limited(nq) <= Limited(np)
<1>1. Longest \in 0..NExpert
  BY LongestType
<1>. QED BY <1>1, Sizes DEF Limited, AtMost

LEMMA CandidateType ==
    /\ \A k \in 0..Len(Fallbacks) : Candidate(k) \in Int
    /\ \A k \in 1..Len(Fallbacks) : Candidate(k) = Fallbacks[k] /\ Candidate(k) > 0
    /\ Candidate(0) = NPin /\ ~Skipped(0)
    /\ \A i, k \in 0..Len(Fallbacks) : i < k /\ ~Skipped(k) => Candidate(i) > Candidate(k) \/ Skipped(i)
BY Sizes DEF Candidate, Skipped

LEMMA LimitedKept ==
    ASSUME pinned' = pinned
    PROVE  \A k : Limited(k)' = Limited(k)
<1>1. Longest' = Longest
  BY DEF Longest
<1>. QED BY <1>1 DEF Limited

LEMMA LimitedAt ==
    ASSUME pinned' = pinned, NEW np, Candidate(ci - 1)' = np
    PROVE  Limited(Candidate(ci - 1))' = Limited(np)
<1>1. Longest' = Longest
  BY DEF Longest
<1>. QED BY <1>1 DEF Limited

\* Nothing but the fill's own steps touches it.
LEMMA FillKept ==
    ASSUME FillInv, UNCHANGED <<input, fill>>
    PROVE  FillInv'
<1>1. /\ lines' = lines /\ pinned' = pinned /\ capacity' = capacity
      /\ ci' = ci /\ tried' = tried /\ pool' = pool
  BY DEF input, fill
<1>2. \A k : Limited(k)' = Limited(k)
  BY <1>1, LimitedKept
<1>3. \A k : Refused(k)' = Refused(k) /\ Skipped(k)' = Skipped(k)
  BY <1>1, <1>2, Zenon DEF Refused, Skipped, Candidate
<1>. QED BY <1>1, <1>2, <1>3 DEF FillInv, Candidate

LEMMA FillInit ==
    ASSUME Init
    PROVE  FillInv
BY Sizes DEF Init, FillInv

LEMMA FillSkips ==
    ASSUME FillInv, SkipCandidate
    PROVE  FillInv'
<1>1. /\ pinned' = pinned /\ capacity' = capacity /\ ci' = ci + 1 /\ tried' = tried /\ pool' = pool
      /\ pool = -1 /\ ci \in 0..Len(Fallbacks) /\ Skipped(ci) /\ ci > 0
  BY Sizes DEF SkipCandidate, input, Skipped, FillInv
<1>2. \A k : Limited(k)' = Limited(k)
  BY <1>1, LimitedKept
<1>3. \A k : Refused(k)' = Refused(k) /\ Skipped(k)' = Skipped(k)
  BY <1>1, <1>2, Zenon DEF Refused, Skipped, Candidate
<1>4. \A k \in 0..(ci' - 1) : Refused(k)
  <2>1. \A k \in 0..(ci - 1) : Refused(k)
    BY <1>1 DEF FillInv
  <2>2. Refused(ci)
    BY <1>1 DEF Refused
  <2>. QED BY <2>1, <2>2, <1>1, Sizes
<1>5. \A i \in DOMAIN tried, k \in DOMAIN Fallbacks :
         k >= ci' /\ ~Skipped(k) => tried[i] > Fallbacks[k]
  BY <1>1, Sizes DEF FillInv
<1>. QED BY <1>1, <1>3, <1>4, <1>5, Sizes DEF FillInv

LEMMA FillTries ==
    ASSUME InputInv, FillInv, TryFill
    PROVE  FillInv'
<1>. DEFINE np == Candidate(ci)
<1>1. /\ pinned' = pinned /\ capacity' = capacity /\ ci' = ci + 1 /\ tried' = Append(tried, np)
      /\ pool' = IF Limited(np) <= capacity THEN Limited(np) ELSE -1
      /\ pool = -1 /\ ci \in 0..Len(Fallbacks) /\ ~Skipped(ci)
  BY Sizes DEF TryFill, input, FillInv
<1>2. \A k : Limited(k)' = Limited(k)
  BY <1>1, LimitedKept
<1>3. \A k : Refused(k)' = Refused(k) /\ Skipped(k)' = Skipped(k)
  BY <1>1, <1>2, Zenon DEF Refused, Skipped, Candidate
<1>4. np \in Int /\ capacity \in Int /\ Limited(np) \in 0..NExpert
  BY <1>1, CandidateType, LimitedType, InputAssumption DEF InputInv
<1>5. \A k \in 0..(ci - 1) : Refused(k)
  BY <1>1 DEF FillInv
<1>6. /\ Len(tried) \in Nat /\ DOMAIN tried = 1..Len(tried) /\ \A i \in 1..Len(tried) : tried[i] \in Int
      /\ tried' \in Seq(Int) /\ DOMAIN tried' = 1..(Len(tried) + 1)
      /\ \A i \in 1..Len(tried) : tried'[i] = tried[i]
      /\ tried'[Len(tried) + 1] = np
  <2>1. tried \in Seq(Int)
    BY DEF FillInv
  <2>. HIDE DEF np
  <2>. QED BY <2>1, <1>1, <1>4
<1>7. \A i \in DOMAIN tried : tried[i] > np
  <2>1. CASE ci = 0
    <3>1. tried = <<>>
      BY <2>1 DEF FillInv
    <3>. QED BY <3>1
  <2>2. CASE ci # 0
    <3>1. ci \in DOMAIN Fallbacks /\ np = Fallbacks[ci]
      BY <2>2, <1>1, Sizes, CandidateType
    <3>. HIDE DEF np
    <3>. QED BY <3>1, <1>1, Sizes DEF FillInv
  <2>. QED BY <2>1, <2>2
<1>8. \A i, j \in DOMAIN tried' : i < j => tried'[i] > tried'[j]
  <2>1. \A i, j \in 1..Len(tried) : i < j => tried[i] > tried[j]
    BY <1>6 DEF FillInv
  <2>. HIDE DEF np
  <2>. QED BY <2>1, <1>6, <1>7
<1>9. \A i \in DOMAIN tried', k \in DOMAIN Fallbacks :
         k >= ci' /\ ~Skipped(k) => tried'[i] > Fallbacks[k]
  <2>1. \A i \in 1..Len(tried), k \in DOMAIN Fallbacks :
          k >= ci /\ ~Skipped(k) => tried[i] > Fallbacks[k]
    BY <1>6 DEF FillInv
  <2>2. \A k \in DOMAIN Fallbacks : k >= ci' /\ ~Skipped(k) => np > Fallbacks[k]
    BY <1>1, CandidateType, Sizes
  <2>. HIDE DEF np
  <2>. QED BY <2>1, <2>2, <1>6, <1>1, Sizes
<1>10. CASE Limited(np) <= capacity
  <2>1. pool' = Limited(np) /\ pool' # -1 /\ pool' \in -1..NExpert /\ pool' <= capacity'
    BY <1>10, <1>1, <1>4
  <2>2. ci' - 1 = ci /\ ci' - 2 = ci - 1 /\ ci' > 0 /\ ci' \in 0..(Len(Fallbacks) + 1)
    BY <1>1, Sizes
  <2>3. /\ ci' > 0 /\ ~Skipped(ci - 1)' /\ \A k \in 0..(ci' - 2) : Refused(k)'
        /\ pool' = Limited(Candidate(ci - 1))' /\ pool' <= capacity'
    <3>1. Candidate(ci - 1)' = np /\ (Skipped(ci - 1)' <=> Skipped(ci))
      BY <2>2 DEF Candidate, Skipped
    <3>2. Limited(Candidate(ci - 1))' = Limited(np)
      <4>. HIDE DEF np
      <4>. QED BY <3>1, <1>1, LimitedAt
    <3>3. \A k \in 0..(ci' - 2) : Refused(k)'
      BY <2>2, <1>5, <1>3
    <3>. HIDE DEF np
    <3>. QED BY <3>1, <3>2, <3>3, <2>1, <2>2, <1>1
  <2>4. ci' # 0
    BY <2>2
  <2>. HIDE DEF np
  <2>5. \A i \in DOMAIN tried', k \in DOMAIN Fallbacks :
         k >= ci' /\ ~Skipped(k)' => tried'[i] > Fallbacks[k]
    BY <1>9, <1>3
  <2>. QED BY <2>1, <2>2, <2>3, <2>4, <2>5, <1>6, <1>8, Zenon DEF FillInv
<1>11. CASE ~(Limited(np) <= capacity)
  <2>1. pool' = -1 /\ pool' \in -1..NExpert
    BY <1>11, <1>1, Sizes
  <2>2. ci' # 0 /\ ci' - 1 = ci /\ ci' \in 0..(Len(Fallbacks) + 1)
    BY <1>1, Sizes
  <2>3. \A k \in 0..(ci' - 1) : Refused(k)'
    <3>1. Refused(ci)
      BY <1>11, <1>4 DEF Refused
    <3>2. \A k \in 0..ci : Refused(k)
      BY <3>1, <1>5, <1>1
    <3>. QED BY <3>2, <2>2, <1>3
  <2>. HIDE DEF np
  <2>4. \A i \in DOMAIN tried', k \in DOMAIN Fallbacks :
         k >= ci' /\ ~Skipped(k)' => tried'[i] > Fallbacks[k]
    BY <1>9, <1>3
  <2>. QED BY <2>1, <2>2, <2>3, <2>4, <1>6, <1>8, Zenon DEF FillInv
<1>. QED BY <1>10, <1>11

\* A candidate that is not above --n-pin and fits is no larger than the pool in place.
LEMMA FillLargest ==
    ASSUME InputInv, FillInv
    PROVE  FillsLargest
<1>1. \A i, j \in DOMAIN tried : i < j => tried[i] > tried[j]
  BY DEF FillInv
<1>2. ASSUME pool # -1 PROVE pool <= capacity
  BY <1>2 DEF FillInv
<1>3. ASSUME pool # -1, NEW np \in {NPin} \cup {Fallbacks[i] : i \in DOMAIN Fallbacks},
             np <= NPin, Limited(np) <= capacity
      PROVE  Limited(np) <= pool
  <2>1. capacity \in Int /\ np \in Int /\ Limited(np) \in Int /\ pool \in Int
    BY <1>3, Sizes, LimitedType, InputAssumption DEF InputInv, FillInv
  <2>2. PICK k \in 0..Len(Fallbacks) : np = Candidate(k) /\ ~Skipped(k)
    <3>1. CASE np = NPin
      BY <3>1, CandidateType, Sizes
    <3>2. CASE np # NPin
      <4>1. PICK i \in DOMAIN Fallbacks : np = Fallbacks[i]
        BY <3>2
      <4>. QED BY <4>1, <3>2, <1>3, CandidateType, Sizes DEF Skipped
    <3>. QED BY <3>1, <3>2
  <2>3. /\ ci - 1 \in 0..Len(Fallbacks) /\ ~Skipped(ci - 1) /\ pool = Limited(Candidate(ci - 1))
        /\ \A j \in 0..(ci - 2) : Refused(j)
    BY <1>3, Sizes DEF FillInv
  <2>4. k >= ci - 1
    <3>1. ~Refused(k)
      BY <2>1, <2>2, <1>3 DEF Refused
    <3>2. ci \in Nat /\ k \in Nat
      BY <2>2, Sizes DEF FillInv
    <3>. QED BY <3>1, <3>2, <2>3
  <2>5. CASE k = ci - 1
    BY <2>5, <2>2, <2>3, <2>1
  <2>6. CASE k > ci - 1
    <3>1. Candidate(k) > 0 /\ Candidate(ci - 1) > Candidate(k) /\ Candidate(ci - 1) \in Int
      BY <2>6, <2>2, <2>3, CandidateType
    <3>. QED BY <3>1, <2>1, <2>2, <2>3, LimitedType
  <2>. QED BY <2>4, <2>5, <2>6, <2>3
<1>. QED BY <1>1, <1>2, <1>3 DEF FillsLargest

(***************************************************************************)
(* The main loop: the names requests are given, and where in a request the *)
(* harness is.                                                             *)
(***************************************************************************)

InFlight == pc \in {"chunk", "layer", "sample"}

\* What the request in flight is called
Name == IF Continued THEN gen_idx ELSE at_line - 1

NamesInv ==
    /\ at_line \in 0..(PrefillLines + GenLines)
    /\ gen_idx \in Nat /\ gen_idx >= PrefillLines
    /\ ~Continued => gen_idx = PrefillLines
    /\ Continued => gen_idx <= at_line
    /\ req_idx \in -1..Len(lines)
    /\ InFlight => /\ req_idx = Name /\ req_idx \in Nat
                   /\ Continued => gen_idx < at_line

PlaceInv ==
    /\ pc \in {"fill", "line", "chunk", "layer", "sample", "done", "failed"}
    /\ req_len \in 0..AtMost(NCtx, NBatch)
    /\ chunk_pos \in Nat /\ expected_tok \in Nat /\ decode_idx \in Nat
    /\ in_decode \in BOOLEAN /\ at_layer \in 1..(NLayer + 1)
    /\ pc \in {"fill", "line", "chunk"} => ~in_decode
    /\ InFlight => chunk_pos < req_len /\ chunk_pos % NUbatch = 0
    /\ pc \in {"layer", "sample"} => expected_tok = AtMost(NUbatch, req_len - chunk_pos)
    /\ pc = "sample" => /\ at_layer = NLayer + 1
                        /\ ~in_decode => chunk_pos + expected_tok = req_len
    /\ pc = "layer" /\ in_decode => req_len + decode_idx < NCtx

PassInv ==
    /\ in_decode => Continued
    /\ pc = "sample" => Continued

LEMMA LinesType ==
    ASSUME InputInv
    PROVE  /\ Len(lines) \in Nat /\ PrefillLines \in Nat /\ GenLines \in Nat
           /\ PrefillLines + GenLines <= Len(lines)
           /\ \A i \in 1..Len(lines) : lines[i] \in Nat
<1>1. lines \in Seq(Nat)
  BY InputAssumption DEF InputInv
<1>2. Len(lines) \in Nat /\ \A i \in 1..Len(lines) : lines[i] \in Nat
  BY <1>1
<1>3. PrefillLines \in Nat /\ PrefillLines <= Len(lines)
  BY <1>2, Sizes DEF PrefillLines, AtMost
<1>4. GenLines \in Nat /\ GenLines <= Len(lines) - PrefillLines
  BY <1>2, <1>3, Sizes DEF GenLines, AtMost
<1>. QED BY <1>2, <1>3, <1>4

LEMMA CorpusKept ==
    ASSUME UNCHANGED input
    PROVE  /\ lines' = lines /\ pinned' = pinned /\ capacity' = capacity
           /\ PrefillLines' = PrefillLines /\ GenLines' = GenLines
BY DEF input, PrefillLines, GenLines

LEMMA InputKept ==
    ASSUME Next
    PROVE  UNCHANGED input
BY DEF Next, SkipCandidate, TryFill, RunCorpus, EmptyLine, Request, Chunk, Route, DecodeReturns,
       DecodeFails, Generate, EndOfText, Summary

LEMMA FlowInit ==
    ASSUME Init
    PROVE  InputInv /\ NamesInv /\ PlaceInv /\ PassInv
<1>1. InputInv
  BY DEF Init, InputInv
<1>2. /\ Len(lines) \in Nat /\ PrefillLines \in Nat /\ GenLines \in Nat
  BY <1>1, LinesType
<1>3. NamesInv
  BY <1>2 DEF Init, NamesInv, InFlight, Continued
<1>4. PlaceInv
  <2>1. 0 \in 0..AtMost(NCtx, NBatch) /\ 1 \in 1..(NLayer + 1)
    BY Sizes DEF AtMost
  <2>. QED BY <2>1 DEF Init, PlaceInv, InFlight
<1>. QED BY <1>1, <1>3, <1>4 DEF Init, PassInv

\* A step that moves none of these but pc, and not to a later place of a request.
LEMMA FlowKept ==
    ASSUME InputInv, NamesInv, PlaceInv, PassInv, UNCHANGED <<input, at_line, req, at_layer>>,
           pc' \in {"fill", "line", "done", "failed"}, pc' \in {"fill", "line"} => ~in_decode
    PROVE  NamesInv' /\ PlaceInv' /\ PassInv'
<1>1. /\ lines' = lines /\ PrefillLines' = PrefillLines /\ GenLines' = GenLines
      /\ at_line' = at_line /\ at_layer' = at_layer
      /\ req_idx' = req_idx /\ gen_idx' = gen_idx /\ req_len' = req_len /\ chunk_pos' = chunk_pos
      /\ expected_tok' = expected_tok /\ decode_idx' = decode_idx /\ in_decode' = in_decode
  BY CorpusKept DEF req
<1>2. NamesInv'
  BY <1>1 DEF NamesInv, InFlight, Continued
<1>3. PlaceInv'
  BY <1>1 DEF PlaceInv, InFlight
<1>4. PassInv'
  BY <1>1 DEF PassInv, Continued
<1>. QED BY <1>2, <1>3, <1>4

LEMMA FlowEmptyLine ==
    ASSUME InputInv, NamesInv, PlaceInv, PassInv, EmptyLine
    PROVE  NamesInv' /\ PlaceInv' /\ PassInv'
<1>1. /\ lines' = lines /\ PrefillLines' = PrefillLines /\ GenLines' = GenLines
      /\ pc = "line" /\ pc' = pc /\ at_line < PrefillLines + GenLines /\ at_line' = at_line + 1
      /\ at_layer' = at_layer
      /\ req_idx' = req_idx /\ gen_idx' = gen_idx /\ req_len' = req_len /\ chunk_pos' = chunk_pos
      /\ expected_tok' = expected_tok /\ decode_idx' = decode_idx /\ in_decode' = in_decode
  BY CorpusKept DEF EmptyLine, req
<1>2. NamesInv'
  BY <1>1, LinesType DEF NamesInv, InFlight, Continued
<1>3. PlaceInv'
  BY <1>1 DEF PlaceInv, InFlight
<1>4. PassInv'
  BY <1>1 DEF PassInv, PlaceInv
<1>. QED BY <1>2, <1>3, <1>4

LEMMA FlowRequest ==
    ASSUME InputInv, NamesInv, PlaceInv, PassInv, Request
    PROVE  NamesInv' /\ PlaceInv' /\ PassInv'
<1>1. /\ lines' = lines /\ PrefillLines' = PrefillLines /\ GenLines' = GenLines
      /\ pc = "line" /\ pc' = "chunk" /\ at_line < PrefillLines + GenLines /\ at_line' = at_line + 1
      /\ at_layer' = at_layer /\ req_idx' = (IF at_line < PrefillLines THEN at_line ELSE gen_idx)
      /\ gen_idx' = gen_idx /\ req_len' = PromptTokens(lines[at_line + 1])
      /\ chunk_pos' = 0 /\ decode_idx' = 0 /\ in_decode' = FALSE /\ expected_tok' = expected_tok
      /\ lines[at_line + 1] > 0
  BY CorpusKept DEF Request
<1>2. /\ Len(lines) \in Nat /\ PrefillLines \in Nat /\ GenLines \in Nat
      /\ PrefillLines + GenLines <= Len(lines) /\ lines[at_line + 1] \in Nat
  BY <1>1, LinesType DEF NamesInv
<1>3. NamesInv'
  BY <1>1, <1>2 DEF NamesInv, InFlight, Continued, Name
<1>4. req_len' \in 1..AtMost(NCtx, NBatch)
  BY <1>1, <1>2, Sizes DEF PromptTokens, AtMost
<1>5. 0 % NUbatch = 0
  BY Sizes
<1>6. PlaceInv'
  <2>1. req_len' \in 0..AtMost(NCtx, NBatch) /\ 0 < req_len'
    BY <1>4, Sizes DEF AtMost
  <2>. QED BY <1>1, <2>1, <1>5 DEF PlaceInv, InFlight
<1>7. PassInv'
  BY <1>1 DEF PassInv
<1>. QED BY <1>3, <1>6, <1>7

LEMMA FlowChunk ==
    ASSUME InputInv, NamesInv, PlaceInv, PassInv, Chunk
    PROVE  NamesInv' /\ PlaceInv' /\ PassInv'
<1>1. /\ lines' = lines /\ PrefillLines' = PrefillLines /\ GenLines' = GenLines
      /\ pc = "chunk" /\ pc' = "layer" /\ at_line' = at_line
      /\ at_layer' = 1 /\ req_idx' = req_idx /\ gen_idx' = gen_idx /\ req_len' = req_len
      /\ chunk_pos' = chunk_pos /\ decode_idx' = decode_idx /\ in_decode' = in_decode
      /\ expected_tok' = AtMost(NUbatch, req_len - chunk_pos)
  BY CorpusKept DEF Chunk
<1>2. NamesInv'
  BY <1>1 DEF NamesInv, InFlight, Continued, Name
<1>3. req_len \in Nat /\ chunk_pos \in Nat /\ chunk_pos < req_len
  BY <1>1, Sizes DEF PlaceInv, InFlight, AtMost
<1>4. expected_tok' \in Nat
  BY <1>1, <1>3, Sizes DEF AtMost
<1>5. PlaceInv'
  BY <1>1, <1>3, <1>4, Sizes DEF PlaceInv, InFlight
<1>6. PassInv'
  BY <1>1 DEF PassInv, PlaceInv, Continued
<1>. QED BY <1>2, <1>5, <1>6

LEMMA FlowRoute ==
    ASSUME InputInv, NamesInv, PlaceInv, PassInv, Route
    PROVE  NamesInv' /\ PlaceInv' /\ PassInv'
<1>1. /\ lines' = lines /\ PrefillLines' = PrefillLines /\ GenLines' = GenLines
      /\ pc = "layer" /\ pc' = pc /\ at_line' = at_line /\ at_layer <= NLayer
      /\ at_layer' = at_layer + 1 /\ req_idx' = req_idx /\ gen_idx' = gen_idx /\ req_len' = req_len
      /\ chunk_pos' = chunk_pos /\ decode_idx' = decode_idx /\ in_decode' = in_decode
      /\ expected_tok' = expected_tok
  BY CorpusKept DEF Route, req
<1>2. NamesInv'
  BY <1>1 DEF NamesInv, InFlight, Continued, Name
<1>3. PlaceInv'
  BY <1>1, Sizes DEF PlaceInv, InFlight
<1>4. PassInv'
  BY <1>1 DEF PassInv, Continued
<1>. QED BY <1>2, <1>3, <1>4

LEMMA FlowReturns ==
    ASSUME InputInv, NamesInv, PlaceInv, PassInv, DecodeReturns
    PROVE  NamesInv' /\ PlaceInv' /\ PassInv'
<1>1. /\ lines' = lines /\ PrefillLines' = PrefillLines /\ GenLines' = GenLines
      /\ pc = "layer" /\ at_line' = at_line /\ at_layer > NLayer
      /\ at_layer' = at_layer /\ req_idx' = req_idx /\ gen_idx' = gen_idx /\ req_len' = req_len
      /\ decode_idx' = decode_idx /\ in_decode' = in_decode /\ expected_tok' = expected_tok
  BY CorpusKept DEF DecodeReturns
<1>2. /\ req_len \in Nat /\ chunk_pos \in Nat /\ chunk_pos < req_len /\ at_layer = NLayer + 1
      /\ expected_tok = AtMost(NUbatch, req_len - chunk_pos) /\ expected_tok \in Nat
      /\ chunk_pos + expected_tok <= req_len /\ chunk_pos % NUbatch = 0
  BY <1>1, Sizes DEF PlaceInv, InFlight, AtMost
<1>3. CASE ~in_decode /\ chunk_pos + expected_tok < req_len
  <2>1. chunk_pos' = chunk_pos + NUbatch /\ pc' = "chunk"
    BY <1>3 DEF DecodeReturns
  <2>2. chunk_pos' \in Nat /\ chunk_pos' < req_len /\ chunk_pos' % NUbatch = 0
    <3>1. chunk_pos' \in Nat /\ chunk_pos' < req_len
      BY <1>2, <1>3, <2>1, Sizes DEF AtMost
    <3>2. (chunk_pos + NUbatch) % NUbatch = 0
      BY <1>2, Sizes, ChunkStart
    <3>. QED BY <3>1, <3>2, <2>1
  <2>3. NamesInv'
    BY <1>1, <2>1 DEF NamesInv, InFlight, Continued, Name
  <2>4. PlaceInv'
    BY <1>1, <1>3, <2>1, <2>2 DEF PlaceInv, InFlight
  <2>5. PassInv'
    BY <1>1, <1>3, <2>1 DEF PassInv
  <2>. QED BY <2>3, <2>4, <2>5
<1>4. CASE ~(~in_decode /\ chunk_pos + expected_tok < req_len)
  <2>1. chunk_pos' = chunk_pos /\ pc' = (IF Continued THEN "sample" ELSE "line")
    BY <1>4 DEF DecodeReturns
  <2>2. ~in_decode => chunk_pos + expected_tok = req_len
    BY <1>2, <1>4
  <2>3. NamesInv'
    BY <1>1, <2>1 DEF NamesInv, InFlight, Continued, Name
  <2>4. in_decode => Continued
    BY DEF PassInv
  <2>5. PlaceInv'
    BY <1>1, <1>2, <2>1, <2>2, <2>4 DEF PlaceInv, InFlight
  <2>6. PassInv'
    BY <1>1, <2>1 DEF PassInv, Continued
  <2>. QED BY <2>3, <2>5, <2>6
<1>. QED BY <1>3, <1>4

LEMMA FlowGenerate ==
    ASSUME InputInv, NamesInv, PlaceInv, PassInv, Generate
    PROVE  NamesInv' /\ PlaceInv' /\ PassInv'
<1>1. /\ lines' = lines /\ PrefillLines' = PrefillLines /\ GenLines' = GenLines
      /\ pc = "sample" /\ at_line' = at_line /\ pc' \in {"layer", "failed"}
      /\ req_idx' = req_idx /\ gen_idx' = gen_idx /\ req_len' = req_len
      /\ decode_idx' = Produced /\ in_decode' = TRUE /\ expected_tok' = expected_tok
      /\ chunk_pos' = chunk_pos
      /\ at_layer' \in {1, at_layer} /\ (pc' = "layer" => req_len + Produced < NCtx)
  BY CorpusKept DEF Generate
<1>2. Produced \in Nat
  BY DEF Produced, PlaceInv
<1>3. NamesInv'
  BY <1>1 DEF NamesInv, InFlight, Continued, Name
<1>4. PlaceInv'
  BY <1>1, <1>2, Sizes DEF PlaceInv, InFlight
<1>5. PassInv'
  BY <1>1 DEF PassInv, Continued
<1>. QED BY <1>3, <1>4, <1>5

LEMMA FlowEndOfText ==
    ASSUME InputInv, NamesInv, PlaceInv, PassInv, EndOfText
    PROVE  NamesInv' /\ PlaceInv' /\ PassInv'
<1>1. /\ lines' = lines /\ PrefillLines' = PrefillLines /\ GenLines' = GenLines
      /\ pc = "sample" /\ at_line' = at_line /\ pc' = "line"
      /\ req_idx' = req_idx /\ gen_idx' = gen_idx + 1 /\ req_len' = req_len
      /\ decode_idx' = decode_idx /\ in_decode' = FALSE /\ expected_tok' = expected_tok
      /\ chunk_pos' = chunk_pos /\ at_layer' = at_layer
  BY CorpusKept DEF EndOfText
<1>2. NamesInv'
  BY <1>1, LinesType DEF NamesInv, InFlight, Continued, Name, PassInv
<1>3. PlaceInv'
  BY <1>1 DEF PlaceInv, InFlight
<1>4. PassInv'
  BY <1>1 DEF PassInv
<1>. QED BY <1>2, <1>3, <1>4

LEMMA FlowStep ==
    ASSUME InputInv, NamesInv, PlaceInv, PassInv, Next
    PROVE  InputInv' /\ NamesInv' /\ PlaceInv' /\ PassInv'
<1>1. InputInv'
  BY InputKept, CorpusKept DEF InputInv
<1>2. CASE SkipCandidate \/ TryFill
  <2>1. UNCHANGED <<input, at_line, req, at_layer>> /\ pc = "fill" /\ pc' = "fill"
    BY <1>2 DEF SkipCandidate, TryFill
  <2>2. ~in_decode
    BY <2>1 DEF PlaceInv
  <2>. QED BY <2>1, <2>2, <1>1, FlowKept
<1>3. CASE RunCorpus \/ DecodeFails \/ Summary
  <2>1. UNCHANGED <<input, at_line, req, at_layer>> /\ pc' \in {"line", "failed", "done"}
        /\ (pc' = "line" => pc = "fill")
    BY <1>3 DEF RunCorpus, DecodeFails, Summary
  <2>2. pc' = "line" => ~in_decode
    BY <2>1 DEF PlaceInv
  <2>. QED BY <2>1, <2>2, <1>1, FlowKept
<1>4. CASE EmptyLine
  BY <1>4, <1>1, FlowEmptyLine
<1>5. CASE Request
  BY <1>5, <1>1, FlowRequest
<1>6. CASE Chunk
  BY <1>6, <1>1, FlowChunk
<1>7. CASE Route
  BY <1>7, <1>1, FlowRoute
<1>8. CASE DecodeReturns
  BY <1>8, <1>1, FlowReturns
<1>9. CASE Generate
  BY <1>9, <1>1, FlowGenerate
<1>10. CASE EndOfText
  BY <1>10, <1>1, FlowEndOfText
<1>. QED BY <1>2, <1>3, <1>4, <1>5, <1>6, <1>7, <1>8, <1>9, <1>10 DEF Next

(***************************************************************************)
(* The counts.  While a micro-batch is computed, the layers behind have    *)
(* its tokens counted and those ahead have not; the fields for the micro-  *)
(* batch under way are zero in the other phase, and in both between        *)
(* micro-batches.                                                          *)
(***************************************************************************)

StatsRec ==
    [draws : Nat, hits : Nat, obs : Nat, aux_skipped : Nat, mismatched : Nat,
     layers : [Layer -> Nat], miss_union_sum : Nat, hit_union_sum : Nat,
     ub_miss : Nat, ub_hit : Nat, ub_miss_hist : Seq(Nat), ub_hit_hist : Seq(Nat)]

StatsInv ==
    /\ stats \in [Phase -> StatsRec] /\ fed \in [Phase -> Nat] /\ true_hits \in [Phase -> Nat]

\* The layers a phase leaves nothing out of
Due(ph) == IF ph = "decode" THEN Served ELSE Served \ {NLayer}

\* Tokens of the micro-batch under way that are counted for a layer and not in "fed" yet
Pending(ph, l) == IF pc = "layer" /\ ph = Cur /\ l < at_layer THEN UbatchTokens ELSE 0

LayersInv ==
    pc # "failed" =>
        \A ph \in Phase :
            /\ \A l \in Due(ph) : stats[ph].layers[l] = NUsed * (fed[ph] + Pending(ph, l))
            /\ ~(pc = "layer" /\ ph = Cur) => stats[ph].ub_miss = 0 /\ stats[ph].ub_hit = 0

MismatchInv ==
    /\ stats["decode"].mismatched = 0
    /\ NLayer \notin Served => stats["prefill"].mismatched = 0

SumsInv ==
    /\ \A ph \in Phase : TotalsAddUp(stats[ph])
    /\ stats["decode"].hits = true_hits["decode"]

CountInv == StatsInv /\ LayersInv /\ MismatchInv /\ SumsInv

\* Nothing that is summed differs
SameCounts(s, t) ==
    /\ t.draws = s.draws /\ t.hits = s.hits /\ t.layers = s.layers
    /\ t.miss_union_sum = s.miss_union_sum /\ t.hit_union_sum = s.hit_union_sum
    /\ t.ub_miss = s.ub_miss /\ t.ub_hit = s.ub_hit
    /\ t.ub_miss_hist = s.ub_miss_hist /\ t.ub_hit_hist = s.ub_hit_hist

LEMMA ServedLayers ==
    ASSUME InputInv
    PROVE  Served \subseteq Layer /\ \A l \in Layer : l \in Nat /\ 1 <= l /\ l <= NLayer
<1>1. DOMAIN pinned \subseteq Layer
  BY InputAssumption DEF InputInv
<1>. QED BY <1>1, Sizes DEF Served, Layer

LEMMA CountsInit ==
    ASSUME Init
    PROVE  CountInv
<1>1. NoStats \in StatsRec
  <2>1. <<>> \in Seq(Nat) /\ [l \in Layer |-> 0] \in [Layer -> Nat]
    OBVIOUS
  <2>. QED BY <2>1 DEF NoStats, StatsRec
<1>2. /\ NoStats.draws = 0 /\ NoStats.hits = 0 /\ NoStats.mismatched = 0
      /\ NoStats.layers = [l \in Layer |-> 0]
      /\ NoStats.ub_miss = 0 /\ NoStats.ub_hit = 0
      /\ NoStats.miss_union_sum = 0 /\ NoStats.hit_union_sum = 0
      /\ NoStats.ub_miss_hist = <<>> /\ NoStats.ub_hit_hist = <<>>
  BY DEF NoStats
<1>3. /\ pc = "fill" /\ \A ph \in Phase : stats[ph] = NoStats /\ fed[ph] = 0 /\ true_hits[ph] = 0
      /\ "decode" \in Phase /\ "prefill" \in Phase
  BY DEF Init, Phase
<1>4. StatsInv
  BY <1>1 DEF Init, StatsInv
<1>5. LayersInv
  <2>1. InputInv
    BY DEF Init, InputInv
  <2>2. \A ph \in Phase : \A l \in Due(ph) : stats[ph].layers[l] = 0 /\ Pending(ph, l) = 0
    BY <2>1, <1>2, <1>3, ServedLayers DEF Due, Pending
  <2>3. NUsed * (0 + 0) = 0
    BY Sizes
  <2>. QED BY <2>2, <2>3, <1>2, <1>3 DEF LayersInv
<1>6. MismatchInv
  BY <1>2, <1>3 DEF MismatchInv
<1>7. SumsInv
  <2>1. TotalsAddUp(NoStats)
    <3>1. FoldLeft(+, 0, [l \in 1..NLayer |-> [k \in 1..NLayer |-> 0][l]]) = 0
      BY SumZero, Sizes
    <3>2. FoldLeft(+, 0, <<>>) = 0
      BY SumEmpty
    <3>. QED BY <3>1, <3>2, <1>2, Zenon DEF TotalsAddUp, Layer
  <2>2. stats["decode"].hits = 0 /\ true_hits["decode"] = 0
    BY <1>2, <1>3
  <2>3. \A ph \in Phase : TotalsAddUp(stats[ph])
    BY <2>1, <1>3, Zenon
  <2>. QED BY <2>2, <2>3 DEF SumsInv
<1>. QED BY <1>4, <1>5, <1>6, <1>7 DEF CountInv

\* Sums that add up still do when what they are of is the same.
LEMMA TotalsSame ==
    ASSUME NEW s, NEW t, SameCounts(s, t), TotalsAddUp(s)
    PROVE  TotalsAddUp(t)
BY Zenon DEF SameCounts, TotalsAddUp

\* flush_ub: what the micro-batch has summed up becomes an entry of the history.
LEMMA FlushEffect ==
    ASSUME NEW s \in StatsRec
    PROVE  /\ Flushed(s) \in StatsRec
           /\ Flushed(s).ub_miss = 0 /\ Flushed(s).ub_hit = 0
           /\ Flushed(s).layers = s.layers /\ Flushed(s).hits = s.hits
           /\ Flushed(s).mismatched = s.mismatched
           /\ TotalsAddUp(s) => TotalsAddUp(Flushed(s))
<1>. DEFINE t == Flushed(s)
<1>1. /\ s.ub_miss \in Nat /\ s.ub_hit \in Nat
      /\ s.ub_miss_hist \in Seq(Nat) /\ s.ub_hit_hist \in Seq(Nat)
  BY DEF StatsRec
<1>2. Append(s.ub_miss_hist, s.ub_miss) \in Seq(Nat) /\ Append(s.ub_hit_hist, s.ub_hit) \in Seq(Nat)
  BY <1>1
<1>3. /\ t.draws = s.draws /\ t.layers = s.layers /\ t.hits = s.hits /\ t.mismatched = s.mismatched
      /\ t.miss_union_sum = s.miss_union_sum /\ t.hit_union_sum = s.hit_union_sum
      /\ t.ub_miss = 0 /\ t.ub_hit = 0
      /\ t.ub_miss_hist = Append(s.ub_miss_hist, s.ub_miss)
      /\ t.ub_hit_hist = Append(s.ub_hit_hist, s.ub_hit)
  BY DEF StatsRec, Flushed
<1>4. t \in StatsRec
  BY <1>2 DEF StatsRec, Flushed
<1>. HIDE DEF t
<1>5. ASSUME TotalsAddUp(s) PROVE TotalsAddUp(t)
  <2>1. /\ FoldLeft(+, 0, t.ub_miss_hist) = FoldLeft(+, s.ub_miss, s.ub_miss_hist)
        /\ FoldLeft(+, 0, t.ub_hit_hist) = FoldLeft(+, s.ub_hit, s.ub_hit_hist)
    BY <1>1, <1>3, SumAppend
  <2>. QED BY <2>1, <1>3, <1>5, Zenon DEF TotalsAddUp
<1>. QED BY <1>3, <1>4, <1>5 DEF t

LEMMA RaisedAt ==
    ASSUME NEW S, NEW f \in [S -> Nat], NEW l \in S, NEW d \in Nat,
           NEW g, g = [f EXCEPT ![l] = @ + d]
    PROVE  g \in [S -> Nat] /\ g[l] = f[l] + d /\ \A k \in S \ {l} : g[k] = f[k]
<1>1. f[l] + d \in Nat
  OBVIOUS
<1>. QED BY <1>1

\* n rows of a layer, counted: its draws are added, and what added up still does.
LEMMA CountedEffect ==
    ASSUME NEW s \in StatsRec, at_layer \in Layer, NEW n \in Nat, NEW ids,
           Hits(ids) \in Nat, MissUnion(ids) \in Nat, HitUnion(ids) \in Nat,
           NEW t, t = Counted(s, n, ids)
    PROVE  /\ t \in StatsRec
           /\ t.hits = s.hits + Hits(ids) /\ t.mismatched = s.mismatched
           /\ t.layers[at_layer] = s.layers[at_layer] + n * NUsed
           /\ \A k \in Layer \ {at_layer} : t.layers[k] = s.layers[k]
           /\ TotalsAddUp(s) => TotalsAddUp(t)
<1>. DEFINE l == at_layer
<1>. DEFINE h == Hits(ids)
<1>. DEFINE mu == MissUnion(ids)
<1>. DEFINE hu == HitUnion(ids)
<1>. DEFINE d == n * NUsed
<1>1. /\ s.draws \in Nat /\ s.hits \in Nat /\ s.obs \in Nat /\ s.layers \in [Layer -> Nat]
      /\ s.miss_union_sum \in Nat /\ s.hit_union_sum \in Nat /\ s.ub_miss \in Nat /\ s.ub_hit \in Nat
      /\ s.ub_miss_hist \in Seq(Nat) /\ s.ub_hit_hist \in Seq(Nat) /\ d \in Nat
      /\ l \in Layer /\ h \in Nat /\ mu \in Nat /\ hu \in Nat
  BY Sizes DEF StatsRec
<1>0. t = [s EXCEPT !.draws = @ + d, !.hits = @ + h, !.obs = @ + 1, !.layers[l] = @ + d,
                    !.miss_union_sum = @ + mu, !.hit_union_sum = @ + hu,
                    !.ub_miss = @ + mu, !.ub_hit = @ + hu]
  BY DEF Counted
<1>. HIDE DEF d, l, h, mu, hu
<1>2. /\ t.draws = s.draws + d /\ t.hits = s.hits + h /\ t.mismatched = s.mismatched
      /\ t.layers = [s.layers EXCEPT ![l] = @ + d]
      /\ t.miss_union_sum = s.miss_union_sum + mu /\ t.hit_union_sum = s.hit_union_sum + hu
      /\ t.ub_miss = s.ub_miss + mu /\ t.ub_hit = s.ub_hit + hu
      /\ t.ub_miss_hist = s.ub_miss_hist /\ t.ub_hit_hist = s.ub_hit_hist
  BY <1>0 DEF StatsRec
<1>3. t \in StatsRec
  <2>1. [s.layers EXCEPT ![l] = @ + d] \in [Layer -> Nat]
    BY <1>1, RaisedAt
  <2>2. /\ s.draws + d \in Nat /\ s.hits + h \in Nat /\ s.obs + 1 \in Nat
        /\ s.miss_union_sum + mu \in Nat /\ s.hit_union_sum + hu \in Nat
        /\ s.ub_miss + mu \in Nat /\ s.ub_hit + hu \in Nat
    <3>1. 1 \in Nat /\ \A a, b \in Nat : a + b \in Nat
      OBVIOUS
    <3>. QED BY <3>1, <1>1, Zenon
  <2>3. t = [draws |-> s.draws + d, hits |-> s.hits + h, obs |-> s.obs + 1,
             aux_skipped |-> s.aux_skipped, mismatched |-> s.mismatched,
             layers |-> [s.layers EXCEPT ![l] = @ + d],
             miss_union_sum |-> s.miss_union_sum + mu, hit_union_sum |-> s.hit_union_sum + hu,
             ub_miss |-> s.ub_miss + mu, ub_hit |-> s.ub_hit + hu,
             ub_miss_hist |-> s.ub_miss_hist, ub_hit_hist |-> s.ub_hit_hist]
    BY <1>0 DEF StatsRec
  <2>4. s.aux_skipped \in Nat /\ s.mismatched \in Nat
    BY DEF StatsRec
  <2>. QED BY <1>1, <2>1, <2>2, <2>3, <2>4 DEF StatsRec
<1>4. /\ t.layers[l] = s.layers[l] + d /\ \A k \in Layer \ {l} : t.layers[k] = s.layers[k]
      /\ t.layers \in [Layer -> Nat]
  <2>1. s.layers \in [Layer -> Nat] /\ t.layers = [s.layers EXCEPT ![l] = @ + d] /\ d \in Nat
    BY <1>1, <1>2
  <2>2. l \in Layer
    BY <1>1
  <2>. DEFINE f == s.layers
  <2>. DEFINE g == t.layers
  <2>3. g = [f EXCEPT ![l] = @ + d] /\ f \in [Layer -> Nat]
    BY <2>1
  <2>. HIDE DEF f, g
  <2>4. g \in [Layer -> Nat] /\ g[l] = f[l] + d /\ \A k \in Layer \ {l} : g[k] = f[k]
    BY ONLY <2>1, <2>2, <2>3, RaisedAt
  <2>. QED BY <2>4 DEF f, g
<1>5. ASSUME TotalsAddUp(s) PROVE TotalsAddUp(t)
  <2>1. FoldLeft(+, 0, [k \in 1..NLayer |-> t.layers[k]])
        = FoldLeft(+, 0, [k \in 1..NLayer |-> s.layers[k]]) + d
    <3>. DEFINE x == s.layers
    <3>. DEFINE y == t.layers
    <3>1. /\ x \in [1..NLayer -> Nat] /\ y \in [1..NLayer -> Nat] /\ l \in 1..NLayer /\ NLayer \in Nat
          /\ y[l] = x[l] + d /\ \A k \in (1..NLayer) \ {l} : y[k] = x[k]
      BY <1>1, <1>4, Sizes DEF Layer
    <3>. HIDE DEF x, y
    <3>2. FoldLeft(+, 0, [k \in 1..NLayer |-> y[k]]) = FoldLeft(+, 0, [k \in 1..NLayer |-> x[k]]) + d
      <4>1. d \in Nat
        BY <1>1
      <4>. QED BY ONLY <3>1, <4>1, SumAt, ZenonT(60)
    <3>. QED BY <3>2 DEF x, y
  <2>2. /\ FoldLeft(+, s.ub_miss + mu, s.ub_miss_hist) = FoldLeft(+, s.ub_miss, s.ub_miss_hist) + mu
        /\ FoldLeft(+, s.ub_hit + hu, s.ub_hit_hist) = FoldLeft(+, s.ub_hit, s.ub_hit_hist) + hu
    BY <1>1, SumShift
  <2>3. t.draws = FoldLeft(+, 0, [k \in 1..NLayer |-> t.layers[k]])
    <3>1. s.draws = FoldLeft(+, 0, [k \in 1..NLayer |-> s.layers[k]])
      BY <1>5, Zenon DEF TotalsAddUp
    <3>. QED BY <3>1, <2>1, <1>2, Zenon
  <2>4. FoldLeft(+, t.ub_miss, t.ub_miss_hist) = t.miss_union_sum
    <3>1. FoldLeft(+, s.ub_miss, s.ub_miss_hist) = s.miss_union_sum
      BY <1>5, Zenon DEF TotalsAddUp
    <3>. QED BY <3>1, <2>2, <1>2, Zenon
  <2>5. FoldLeft(+, t.ub_hit, t.ub_hit_hist) = t.hit_union_sum
    <3>1. FoldLeft(+, s.ub_hit, s.ub_hit_hist) = s.hit_union_sum
      BY <1>5, Zenon DEF TotalsAddUp
    <3>. QED BY <3>1, <2>2, <1>2, Zenon
  <2>. QED BY <2>3, <2>4, <2>5, Zenon DEF TotalsAddUp
<1>. QED BY <1>2, <1>3, <1>4, <1>5 DEF d, l, h, mu, hu

LEMMA SumsNext ==
    ASSUME \A ph \in Phase : TotalsAddUp(stats'[ph]), stats'["decode"].hits = true_hits'["decode"]
    PROVE  SumsInv'
<1>1. ASSUME NEW ph \in Phase PROVE TotalsAddUp(stats[ph])'
  <2>1. TotalsAddUp(stats'[ph])
    OBVIOUS
  <2>. QED BY ONLY <2>1, Zenon DEF TotalsAddUp, FoldLeft, MapThenFoldSet
<1>. QED BY <1>1, Zenon DEF SumsInv

\* No count moves, and no micro-batch is under way before or it only starts now.
LEMMA CountsQuiet ==
    ASSUME InputInv, CountInv, UNCHANGED <<input, stats, fed, true_hits>>,
           \/ pc' = "failed"
           \/ pc \notin {"layer", "failed"} /\ (pc' # "layer" \/ at_layer' = 1)
    PROVE  CountInv'
<1>1. /\ pinned' = pinned /\ stats' = stats /\ fed' = fed /\ true_hits' = true_hits
      /\ Served' = Served /\ \A ph : Due(ph)' = Due(ph)
  BY CorpusKept DEF Served, Due
<1>2. StatsInv' /\ MismatchInv'
  BY <1>1 DEF CountInv, StatsInv, MismatchInv
<1>3. SumsInv'
  <2>1. /\ \A ph \in Phase : TotalsAddUp(stats'[ph])
        /\ stats'["decode"].hits = true_hits'["decode"]
    BY <1>1, Zenon DEF CountInv, SumsInv
  <2>. QED BY <2>1, SumsNext
<1>4. LayersInv'
  <2>1. CASE pc' = "failed"
    BY <2>1 DEF LayersInv
  <2>2. CASE pc \notin {"layer", "failed"} /\ (pc' # "layer" \/ at_layer' = 1)
    <3>1. ASSUME NEW ph \in Phase, NEW l \in Due(ph)
          PROVE  Pending(ph, l) = 0 /\ Pending(ph, l)' = 0
      <4>1. l \in Nat /\ 1 <= l
        BY ServedLayers DEF Due
      <4>. QED BY <2>2, <4>1 DEF Pending
    <3>2. \A ph \in Phase : /\ \A l \in Due(ph) : stats[ph].layers[l] = NUsed * (fed[ph] + Pending(ph, l))
                            /\ stats[ph].ub_miss = 0 /\ stats[ph].ub_hit = 0
      BY <2>2 DEF CountInv, LayersInv
    <3>3. \A ph \in Phase : /\ \A l \in Due(ph) : stats'[ph].layers[l] = NUsed * (fed'[ph] + Pending(ph, l)')
                            /\ stats'[ph].ub_miss = 0 /\ stats'[ph].ub_hit = 0
      BY <3>1, <3>2, <1>1
    <3>. QED BY <3>3, <1>1 DEF LayersInv
  <2>. QED BY <2>1, <2>2
<1>. QED BY <1>2, <1>3, <1>4 DEF CountInv

LEMMA CurType ==
    /\ Cur \in Phase /\ Phase = {"prefill", "decode"}
    /\ Cur = "decode" <=> in_decode
BY DEF Cur, Phase

LEMMA CountsReturns ==
    ASSUME InputInv, PlaceInv, CountInv, DecodeReturns
    PROVE  CountInv'
<1>1. /\ pc = "layer" /\ at_layer > NLayer /\ at_layer' = at_layer /\ true_hits' = true_hits
      /\ in_decode' = in_decode
      /\ stats' = [stats EXCEPT ![Cur] = Flushed(@)]
      /\ fed' = [fed EXCEPT ![Cur] = @ + UbatchTokens]
      /\ pc' \in {"chunk", "sample", "line"}
  BY DEF DecodeReturns
<1>2. UNCHANGED input
  BY DEF DecodeReturns
<1>3. /\ Served' = Served /\ \A ph : Due(ph)' = Due(ph)
  BY <1>2, CorpusKept DEF Served, Due
<1>4. /\ \A ph \in Phase : stats[ph] \in StatsRec /\ fed[ph] \in Nat
      /\ stats'[Cur] = Flushed(stats[Cur]) /\ fed'[Cur] = fed[Cur] + UbatchTokens
      /\ \A ph \in Phase \ {Cur} : stats'[ph] = stats[ph] /\ fed'[ph] = fed[ph]
  BY <1>1, CurType DEF CountInv, StatsInv
<1>5. UbatchTokens \in Nat
  BY DEF UbatchTokens, PlaceInv
<1>6. /\ stats'[Cur] \in StatsRec
      /\ stats'[Cur].ub_miss = 0 /\ stats'[Cur].ub_hit = 0
      /\ stats'[Cur].layers = stats[Cur].layers /\ stats'[Cur].hits = stats[Cur].hits
      /\ stats'[Cur].mismatched = stats[Cur].mismatched
      /\ TotalsAddUp(stats'[Cur])
  <2>1. TotalsAddUp(stats[Cur])
    BY CurType, Zenon DEF CountInv, SumsInv
  <2>. QED BY <2>1, <1>4, CurType, FlushEffect
<1>7. StatsInv'
  <2>1. stats' \in [Phase -> StatsRec]
    BY <1>1, <1>4, <1>6, CurType DEF CountInv, StatsInv
  <2>2. fed' \in [Phase -> Nat]
    BY <1>1, <1>4, <1>5, CurType DEF CountInv, StatsInv
  <2>. QED BY <2>1, <2>2, <1>1 DEF CountInv, StatsInv
<1>8. MismatchInv'
  <2>1. \A ph \in Phase : stats'[ph].mismatched = stats[ph].mismatched
    BY <1>4, <1>6
  <2>. QED BY <2>1, <1>3, CurType DEF CountInv, MismatchInv
<1>9. SumsInv'
  <2>1. \A ph \in Phase : TotalsAddUp(stats'[ph])
    <3>1. ASSUME NEW ph \in Phase PROVE TotalsAddUp(stats'[ph])
      <4>1. CASE ph = Cur
        BY <4>1, <1>6, Zenon
      <4>2. CASE ph # Cur
        <5>1. stats'[ph] = stats[ph]
          BY <4>2, <1>4
        <5>. QED BY <5>1, Zenon DEF CountInv, SumsInv
      <4>. QED BY <4>1, <4>2
    <3>. QED BY <3>1
  <2>2. stats'["decode"].hits = stats["decode"].hits
    BY <1>4, <1>6, CurType
  <2>3. stats["decode"].hits = true_hits["decode"]
    BY Zenon DEF CountInv, SumsInv
  <2>4. stats'["decode"].hits = true_hits'["decode"]
    BY <2>2, <2>3, <1>1
  <2>. QED BY <2>1, <2>4, SumsNext
<1>10. LayersInv'
  <2>1. ASSUME NEW ph \in Phase, NEW l \in Due(ph)
        PROVE  stats'[ph].layers[l] = NUsed * (fed'[ph] + Pending(ph, l)')
    <3>1. Pending(ph, l)' = 0
      BY <1>1 DEF Pending
    <3>2. stats[ph].layers[l] = NUsed * (fed[ph] + Pending(ph, l))
      BY <1>1 DEF CountInv, LayersInv
    <3>3. l < at_layer
      BY <1>1, ServedLayers, Sizes DEF Due, PlaceInv
    <3>4. stats'[ph].layers = stats[ph].layers /\ fed'[ph] = fed[ph] + Pending(ph, l)
      BY <3>3, <1>1, <1>4, <1>6 DEF Pending
    <3>5. fed'[ph] + 0 = fed[ph] + Pending(ph, l)
      BY <3>4, <1>4, <1>5 DEF Pending
    <3>. QED BY <3>1, <3>2, <3>4, <3>5
  <2>2. ASSUME NEW ph \in Phase PROVE stats'[ph].ub_miss = 0 /\ stats'[ph].ub_hit = 0
    BY <1>1, <1>4, <1>6 DEF CountInv, LayersInv
  <2>. QED BY <2>1, <2>2, <1>3 DEF LayersInv
<1>. QED BY <1>7, <1>8, <1>9, <1>10 DEF CountInv

LEMMA RowsType ==
    ASSUME PlaceInv, pc = "layer", at_layer <= NLayer
    PROVE  /\ Rows \in Nat \ {0} /\ UbatchTokens \in Nat \ {0}
           /\ in_decode => Rows = 1 /\ UbatchTokens = 1
           /\ ~in_decode => UbatchTokens = expected_tok
           /\ at_layer # NLayer => Rows = UbatchTokens
           /\ at_layer = NLayer => Rows = 1
<1>1. expected_tok \in Nat \ {0}
  BY Sizes DEF PlaceInv, InFlight, AtMost
<1>. QED BY <1>1, Sizes DEF Rows, UbatchTokens, PlaceInv

\* What the callback does with a layer's rows: nothing is summed of a layer without pins, nor of
\* the last layer's one row for a longer chunk; all else is counted.
LEMMA Observed ==
    ASSUME InputInv, PlaceInv, Route
    PROVE  /\ pc = "layer" /\ at_layer <= NLayer /\ at_layer \in Layer
           /\ \/ /\ at_layer \notin Served
                 /\ stats' = [stats EXCEPT ![Cur].aux_skipped = @ + 1]
                 /\ UNCHANGED <<out, n_out, true_hits>>
              \/ /\ at_layer \in Served /\ at_layer = NLayer /\ ~in_decode /\ expected_tok # 1
                 /\ stats' = [stats EXCEPT !["prefill"].mismatched = @ + 1]
                 /\ UNCHANGED <<out, n_out, true_hits>>
              \/ /\ at_layer \in Served /\ Rows = UbatchTokens
                 /\ \E r \in [1..Rows -> Rankings] : Count(r, Rows)
<1>1. /\ pc = "layer" /\ at_layer <= NLayer /\ \E r \in [1..Rows -> Rankings] : PagerCb(r, Rows)
  BY DEF Route
<1>2. at_layer \in Layer
  BY <1>1, Sizes DEF PlaceInv, Layer
<1>3. PICK r \in [1..Rows -> Rankings] : PagerCb(r, Rows)
  BY <1>1
<1>4. CASE at_layer \notin DOMAIN pinned
  BY <1>1, <1>2, <1>3, <1>4 DEF PagerCb, Served
<1>5. CASE at_layer \in DOMAIN pinned /\ ~in_decode /\ Rows # expected_tok
  BY <1>1, <1>2, <1>3, <1>5, RowsType DEF PagerCb, Served
<1>6. CASE at_layer \in DOMAIN pinned /\ ~(~in_decode /\ Rows # expected_tok)
  BY <1>1, <1>2, <1>3, <1>6, RowsType DEF PagerCb, Served
<1>. QED BY <1>4, <1>5, <1>6

\* Exactly the draws of a row's ids are added, by a layer that is counted.
LEMMA CountEffect ==
    ASSUME StatsInv, at_layer \in Layer, NEW n \in Nat, NEW r, Count(r, n)
    PROVE  /\ stats'[Cur] = Counted(stats[Cur], n, Ids(r, n))
           /\ \A ph \in Phase \ {Cur} : stats'[ph] = stats[ph] /\ true_hits'[ph] = true_hits[ph]
           /\ true_hits'[Cur] = true_hits[Cur] + TrueHits(r, n)
           /\ DOMAIN stats' = Phase /\ DOMAIN true_hits' = Phase
           /\ stats' = [ph \in Phase |-> stats'[ph]] /\ true_hits' = [ph \in Phase |-> true_hits'[ph]]
<1>1. Cur \in Phase
  BY CurType
<1>2. stats \in [Phase -> StatsRec] /\ true_hits \in [Phase -> Nat]
  BY DEF StatsInv
<1>3. /\ stats' = [stats EXCEPT ![Cur] = Counted(@, n, Ids(r, n))]
      /\ true_hits' = [true_hits EXCEPT ![Cur] = @ + TrueHits(r, n)]
  BY DEF Count
<1>. QED BY <1>1, <1>2, <1>3

LEMMA CountsCounted ==
    ASSUME InputInv, PlaceInv, CountInv, pc = "layer", pc' = "layer", at_layer \in Served,
           at_layer \in Layer, at_layer' = at_layer + 1, Rows = UbatchTokens,
           UNCHANGED <<input, fed, in_decode, expected_tok>>,
           NEW r, Count(r, Rows)
    PROVE  CountInv'
<1>. DEFINE ids == Ids(r, Rows)
<1>. DEFINE h == Hits(ids)
<1>. DEFINE s == stats[Cur]
<1>. DEFINE t == stats'[Cur]
<1>0. /\ Rows \in Nat /\ (in_decode => Rows = 1)
      /\ Cur \in Phase /\ StatsInv /\ at_layer \in Nat /\ at_layer <= NLayer
  BY RowsType, CurType, Sizes DEF CountInv, Layer
<1>1. h \in Nat /\ MissUnion(ids) \in Nat /\ HitUnion(ids) \in Nat /\ TrueHits(r, Rows) \in Nat
  BY <1>0, HitsType, TrueHitsType
<1>2. /\ t = Counted(s, Rows, ids)
      /\ \A ph \in Phase \ {Cur} : stats'[ph] = stats[ph] /\ true_hits'[ph] = true_hits[ph]
      /\ true_hits'[Cur] = true_hits[Cur] + TrueHits(r, Rows)
      /\ DOMAIN stats' = Phase /\ DOMAIN true_hits' = Phase
      /\ stats' = [ph \in Phase |-> stats'[ph]] /\ true_hits' = [ph \in Phase |-> true_hits'[ph]]
  BY <1>0, CountEffect
<1>. HIDE DEF ids
<1>3. s \in StatsRec /\ TotalsAddUp(s) /\ fed \in [Phase -> Nat]
  BY <1>0, Zenon DEF StatsInv, CountInv, SumsInv
<1>4. /\ t \in StatsRec
      /\ t.hits = s.hits + h /\ t.mismatched = s.mismatched
      /\ t.layers[at_layer] = s.layers[at_layer] + Rows * NUsed
      /\ \A k \in Layer \ {at_layer} : t.layers[k] = s.layers[k]
      /\ TotalsAddUp(t)
  <2>. HIDE DEF s, t
  <2>1. t = Counted(s, Rows, ids) /\ s \in StatsRec /\ TotalsAddUp(s) /\ at_layer \in Layer
    BY <1>2, <1>3
  <2>2. Rows \in Nat /\ Hits(ids) \in Nat /\ MissUnion(ids) \in Nat /\ HitUnion(ids) \in Nat
    BY <1>0, <1>1
  <2>. HIDE DEF h
  <2>3. t \in StatsRec
    BY ONLY <2>1, <2>2, CountedEffect
  <2>4. t.hits = s.hits + Hits(ids) /\ t.mismatched = s.mismatched
    BY ONLY <2>1, <2>2, CountedEffect
  <2>5. t.layers[at_layer] = s.layers[at_layer] + Rows * NUsed
    BY ONLY <2>1, <2>2, CountedEffect
  <2>6. ASSUME NEW k \in Layer \ {at_layer} PROVE t.layers[k] = s.layers[k]
    BY ONLY <2>1, <2>2, CountedEffect
  <2>7. TotalsAddUp(t)
    BY ONLY <2>1, <2>2, CountedEffect
  <2>. QED BY <2>3, <2>4, <2>5, <2>6, <2>7 DEF h
<1>5. /\ Served' = Served /\ \A ph : Due(ph)' = Due(ph)
      /\ Cur' = Cur /\ UbatchTokens' = UbatchTokens
  BY CorpusKept DEF Served, Due, Cur, UbatchTokens
<1>6. StatsInv'
  <2>1. \A ph \in Phase : stats'[ph] \in StatsRec /\ true_hits'[ph] \in Nat
    BY <1>0, <1>1, <1>2, <1>4 DEF StatsInv
  <2>. QED BY <2>1, <1>2, <1>3 DEF StatsInv
<1>7. MismatchInv'
  <2>1. \A ph \in Phase : stats'[ph].mismatched = stats[ph].mismatched
    BY <1>2, <1>4
  <2>. QED BY <2>1, <1>5, CurType DEF CountInv, MismatchInv
<1>8. SumsInv'
  <2>1. \A ph \in Phase : TotalsAddUp(stats'[ph])
    <3>1. ASSUME NEW ph \in Phase PROVE TotalsAddUp(stats'[ph])
      <4>1. CASE ph = Cur
        BY <4>1, <1>4, Zenon
      <4>2. CASE ph # Cur
        <5>1. stats'[ph] = stats[ph]
          BY <4>2, <1>2
        <5>. HIDE DEF s, t
        <5>. QED BY <5>1, Zenon DEF CountInv, SumsInv
      <4>. QED BY <4>1, <4>2
    <3>. QED BY <3>1
  <2>2. stats["decode"].hits = true_hits["decode"]
    BY Zenon DEF CountInv, SumsInv
  <2>3. stats'["decode"].hits = true_hits'["decode"]
    <3>1. CASE in_decode
      <4>1. h = TrueHits(r, Rows)
        BY <3>1, <1>0, OneRow DEF ids
      <4>2. Cur = "decode"
        BY <3>1, CurType
      <4>. QED BY <4>1, <4>2, <1>2, <1>4, <2>2
    <3>2. CASE ~in_decode
      BY <3>2, <2>2, <1>2, CurType
    <3>. QED BY <3>1, <3>2
  <2>. QED BY <2>1, <2>3, SumsNext
<1>9. LayersInv'
  <2>1. ASSUME NEW ph \in Phase, NEW l \in Due(ph)
        PROVE  stats'[ph].layers[l] = NUsed * (fed[ph] + Pending(ph, l)')
    <3>1. stats[ph].layers[l] = NUsed * (fed[ph] + Pending(ph, l)) /\ l \in Layer /\ l \in Nat
      BY ServedLayers DEF CountInv, LayersInv, Due
    <3>2. CASE ph # Cur
      BY <3>1, <3>2, <1>2, <1>5 DEF Pending
    <3>3. CASE ph = Cur /\ l # at_layer
      <4>1. Pending(ph, l)' = Pending(ph, l)
        BY <3>1, <3>3, <1>0, <1>5 DEF Pending
      <4>. QED BY <4>1, <3>1, <3>3, <1>4
    <3>4. CASE ph = Cur /\ l = at_layer
      <4>1. Pending(ph, l)' = Rows /\ Pending(ph, l) = 0
        BY <3>1, <3>4, <1>0, <1>5 DEF Pending
      <4>2. stats'[ph].layers[l] = stats[ph].layers[l] + Rows * NUsed
        BY <3>4, <1>4
      <4>3. \A a, b, c \in Nat : c * (a + 0) + b * c = c * (a + b)
        OBVIOUS
      <4>4. fed[ph] \in Nat /\ Rows \in Nat /\ NUsed \in Nat
        BY <1>0, <1>3, Sizes
      <4>5. NUsed * (fed[ph] + 0) + Rows * NUsed = NUsed * (fed[ph] + Rows)
        BY <4>3, <4>4
      <4>. QED BY <4>1, <4>2, <4>5, <3>1
    <3>. QED BY <3>2, <3>3, <3>4
  <2>2. ASSUME NEW ph \in Phase, ph # Cur PROVE stats'[ph].ub_miss = 0 /\ stats'[ph].ub_hit = 0
    BY <2>2, <1>2 DEF CountInv, LayersInv
  <2>3. fed' = fed
    OBVIOUS
  <2>. HIDE DEF t, s
  <2>. QED BY <2>1, <2>2, <2>3, <1>5 DEF LayersInv
<1>. QED BY <1>6, <1>7, <1>8, <1>9 DEF CountInv

\* A callback that returns early moves only its own counter.
LEMMA CountsSkipped ==
    ASSUME InputInv, PlaceInv, CountInv, pc = "layer", pc' = "layer", at_layer \in Layer,
           at_layer' = at_layer + 1, UNCHANGED <<input, fed, true_hits, in_decode, expected_tok>>,
           \/ /\ at_layer \notin Served
              /\ stats' = [stats EXCEPT ![Cur].aux_skipped = @ + 1]
           \/ /\ at_layer \in Served /\ at_layer = NLayer /\ ~in_decode
              /\ stats' = [stats EXCEPT !["prefill"].mismatched = @ + 1]
    PROVE  CountInv'
<1>0. /\ Cur \in Phase /\ (~in_decode => Cur = "prefill") /\ stats \in [Phase -> StatsRec]
      /\ "prefill" \in Phase
  BY CurType DEF CountInv, StatsInv, Cur
<1>1. stats' \in [Phase -> StatsRec]
  <2>1. ASSUME NEW s \in StatsRec
        PROVE  /\ [s EXCEPT !.aux_skipped = @ + 1] \in StatsRec
               /\ [s EXCEPT !.mismatched = @ + 1] \in StatsRec
    <3>1. s.aux_skipped + 1 \in Nat /\ s.mismatched + 1 \in Nat
      BY DEF StatsRec
    <3>2. \A n \in Nat : [s EXCEPT !.aux_skipped = n] \in StatsRec /\ [s EXCEPT !.mismatched = n] \in StatsRec
      BY DEF StatsRec
    <3>. QED BY <3>1, <3>2
  <2>. QED BY <2>1, <1>0
<1>2. /\ \A ph \in Phase : SameCounts(stats[ph], stats'[ph])
      /\ stats'["decode"].mismatched = stats["decode"].mismatched
      /\ NLayer \notin Served => stats'["prefill"].mismatched = stats["prefill"].mismatched
  <2>1. \A s \in StatsRec : /\ SameCounts(s, [s EXCEPT !.aux_skipped = @ + 1])
                            /\ SameCounts(s, [s EXCEPT !.mismatched = @ + 1])
                            /\ SameCounts(s, s)
                            /\ [s EXCEPT !.aux_skipped = @ + 1].mismatched = s.mismatched
    BY DEF StatsRec, SameCounts
  <2>2. \A ph \in Phase : /\ stats[ph] \in StatsRec
                          /\ \/ stats'[ph] = stats[ph]
                             \/ stats'[ph] = [stats[ph] EXCEPT !.aux_skipped = @ + 1]
                             \/ /\ stats'[ph] = [stats[ph] EXCEPT !.mismatched = @ + 1]
                                /\ ph = "prefill" /\ NLayer \in Served
    BY <1>0, CurType
  <2>3. \A ph \in Phase : SameCounts(stats[ph], stats'[ph])
    BY <2>1, <2>2
  <2>4. \A ph \in Phase : ph # "prefill" \/ NLayer \notin Served => stats'[ph].mismatched = stats[ph].mismatched
    BY <2>1, <2>2
  <2>. QED BY <2>3, <2>4, CurType
<1>3. /\ Served' = Served /\ \A ph : Due(ph)' = Due(ph)
      /\ Cur' = Cur /\ UbatchTokens' = UbatchTokens
  BY CorpusKept DEF Served, Due, Cur, UbatchTokens
<1>4. StatsInv' /\ MismatchInv'
  BY <1>1, <1>2, <1>3 DEF CountInv, StatsInv, MismatchInv
<1>5. SumsInv'
  <2>1. \A ph \in Phase : TotalsAddUp(stats'[ph])
    <3>1. ASSUME NEW ph \in Phase PROVE TotalsAddUp(stats'[ph])
      <4>1. TotalsAddUp(stats[ph])
        BY Zenon DEF CountInv, SumsInv
      <4>2. SameCounts(stats[ph], stats'[ph])
        BY <1>2
      <4>. QED BY <4>1, <4>2, TotalsSame
    <3>. QED BY <3>1
  <2>2. stats["decode"].hits = true_hits["decode"]
    BY Zenon DEF CountInv, SumsInv
  <2>3. stats'["decode"].hits = true_hits'["decode"]
    BY <2>2, <1>2, CurType DEF SameCounts
  <2>. QED BY <2>1, <2>3, SumsNext
<1>6. LayersInv'
  <2>1. ASSUME NEW ph \in Phase, NEW l \in Due(ph)
        PROVE  Pending(ph, l)' = Pending(ph, l)
    <3>1. l \in Nat /\ at_layer \in Nat
      BY ServedLayers DEF Due
    <3>2. ph = Cur => l # at_layer
      BY <1>0 DEF Due, Cur
    <3>. QED BY <3>1, <3>2, <1>3 DEF Pending
  <2>2. \A ph \in Phase : /\ stats'[ph].layers = stats[ph].layers
                          /\ stats'[ph].ub_miss = stats[ph].ub_miss /\ stats'[ph].ub_hit = stats[ph].ub_hit
    BY <1>2 DEF SameCounts
  <2>. QED BY <2>1, <2>2, <1>3 DEF CountInv, LayersInv
<1>. QED BY <1>4, <1>5, <1>6 DEF CountInv

LEMMA CountsStep ==
    ASSUME InputInv, PlaceInv, CountInv, Next
    PROVE  CountInv'
<1>1. CASE SkipCandidate \/ TryFill \/ RunCorpus \/ EmptyLine \/ Request \/ EndOfText \/ Summary
  BY <1>1, CountsQuiet DEF SkipCandidate, TryFill, RunCorpus, EmptyLine, Request, EndOfText, Summary, acct
<1>2. CASE Chunk \/ DecodeFails \/ Generate
  BY <1>2, CountsQuiet DEF Chunk, DecodeFails, Generate, acct
<1>3. CASE DecodeReturns
  BY <1>3, CountsReturns
<1>4. CASE Route
  <2>1. /\ pc = "layer" /\ pc' = "layer" /\ at_layer' = at_layer + 1 /\ at_layer \in Layer
        /\ UNCHANGED <<input, fed, in_decode, expected_tok>>
    BY <1>4, Observed DEF Route, req
  <2>2. CASE at_layer \in Served /\ Rows = UbatchTokens /\ \E r \in [1..Rows -> Rankings] : Count(r, Rows)
    BY <2>1, <2>2, CountsCounted
  <2>3. CASE at_layer \notin Served /\ stats' = [stats EXCEPT ![Cur].aux_skipped = @ + 1] /\ true_hits' = true_hits
    BY <2>1, <2>3, CountsSkipped
  <2>4. CASE at_layer \in Served /\ at_layer = NLayer /\ ~in_decode
             /\ stats' = [stats EXCEPT !["prefill"].mismatched = @ + 1] /\ true_hits' = true_hits
    BY <2>1, <2>4, CountsSkipped
  <2>. QED BY <1>4, <2>2, <2>3, <2>4, Observed
<1>. QED BY <1>1, <1>2, <1>3, <1>4 DEF Next

(***************************************************************************)
(* The detail records.  A request's records are, layer by layer, those of  *)
(* the positions observed so far; no other request has its name.           *)
(***************************************************************************)

Positions(ph, q, l) == {rec.pos : rec \in Records(ph, q, l)}

\* Prompt positions that are recorded when a request of "len" tokens was seen up to "seen"
Wanted(l, len, seen) ==
    {p \in 0..(seen - 1) : l = NLayer => p % NUbatch = 0 /\ (NUbatch = 1 \/ p = len - 1)}

\* How far the request in flight was seen by a layer, in its prompt and past it
PrefillSeen(l) ==
    IF in_decode THEN req_len
    ELSE IF pc = "chunk" \/ l >= at_layer THEN chunk_pos
    ELSE chunk_pos + expected_tok

DecodeSeen(l) == IF ~in_decode THEN 0 ELSE IF l < at_layer THEN decode_idx + 1 ELSE decode_idx

\* What the next request is called
NextName == IF at_line < PrefillLines THEN at_line ELSE gen_idx

Complete(f) ==
    /\ f.req \in Nat /\ f.len \in Nat /\ f.gen \in Nat
    /\ \A l \in Served :
         /\ Positions("prefill", f.req, l) = Wanted(l, f.len, f.len)
         /\ Positions("decode", f.req, l) = f.len..(f.len + f.gen - 1)

RecordsInv ==
    /\ IsFiniteSet(out) /\ n_out = Cardinality(out)
    /\ \A rec \in out : rec.req \in Nat

NamedInv ==
    /\ pc \in {"fill", "line"} =>
         (\A rec \in out : rec.req < NextName) /\ (\A f \in finished : f.req < NextName)
    /\ InFlight =>
         (\A rec \in out : rec.req <= req_idx) /\ (\A f \in finished : f.req < req_idx)

SeenInv ==
    InFlight =>
        \A l \in Served :
            /\ Positions("prefill", req_idx, l) = Wanted(l, req_len, PrefillSeen(l))
            /\ Positions("decode", req_idx, l) = req_len..(req_len + DecodeSeen(l) - 1)

OutInv == RecordsInv /\ NamedInv /\ SeenInv /\ \A f \in finished : Complete(f)

LEMMA OutInit ==
    ASSUME Init
    PROVE  OutInv
BY FS_EmptySet DEF Init, OutInv, RecordsInv, NamedInv, SeenInv, InFlight

LEMMA PositionsKept ==
    ASSUME out' = out
    PROVE  \A ph, q, l : Positions(ph, q, l)' = Positions(ph, q, l)
BY DEF Positions, Records

LEMMA CompleteKept ==
    ASSUME InputInv, UNCHANGED input, out' = out, NEW f, Complete(f)
    PROVE  Complete(f)'
<1>1. Served' = Served
  BY CorpusKept DEF Served
<1>. QED BY <1>1, PositionsKept DEF Complete, Wanted

\* Between requests, where nothing is written: a name not used yet stays unused.
LEMMA OutQuiet ==
    ASSUME InputInv, NamesInv, OutInv, UNCHANGED <<input, out, n_out, finished>>,
           \/ pc' \in {"failed", "done"}
           \/ /\ pc \in {"fill", "line"} /\ pc' \in {"fill", "line"} /\ gen_idx' = gen_idx
              /\ \/ at_line' = at_line
                 \/ at_line' = at_line + 1 /\ at_line' <= PrefillLines + GenLines
    PROVE  OutInv'
<1>1. RecordsInv' /\ SeenInv'
  BY DEF OutInv, RecordsInv, SeenInv, InFlight
<1>2. \A f \in finished' : Complete(f)'
  BY CompleteKept DEF OutInv
<1>3. NamedInv'
  <2>1. CASE pc' \in {"failed", "done"}
    BY <2>1 DEF NamedInv, InFlight
  <2>2. CASE /\ pc \in {"fill", "line"} /\ pc' \in {"fill", "line"} /\ gen_idx' = gen_idx
             /\ \/ at_line' = at_line
                \/ at_line' = at_line + 1 /\ at_line' <= PrefillLines + GenLines
    <3>1. NextName' \in Nat /\ NextName \in Nat /\ NextName <= NextName'
      BY <2>2, CorpusKept, LinesType DEF NextName, NamesInv, Continued
    <3>2. (\A rec \in out : rec.req < NextName) /\ (\A f \in finished : f.req < NextName)
      BY <2>2 DEF OutInv, NamedInv
    <3>3. (\A rec \in out : rec.req \in Nat) /\ (\A f \in finished : f.req \in Nat)
      BY DEF OutInv, RecordsInv, Complete
    <3>. QED BY <3>1, <3>2, <3>3, <2>2 DEF NamedInv, InFlight
  <2>. QED BY <2>1, <2>2
<1>. QED BY <1>1, <1>2, <1>3 DEF OutInv

\* A request starts under a name no record has.
LEMMA OutRequest ==
    ASSUME InputInv, NamesInv, PlaceInv, OutInv, Request, NamesInv', PlaceInv'
    PROVE  OutInv'
<1>1. /\ pc = "line" /\ pc' = "chunk" /\ req_idx' = NextName /\ chunk_pos' = 0 /\ in_decode' = FALSE
      /\ out' = out /\ n_out' = n_out /\ finished' = finished
      /\ UNCHANGED input
  BY DEF Request, NextName, acct
<1>2. \A f \in finished' : Complete(f)'
  BY <1>1, CompleteKept DEF OutInv
<1>3. RecordsInv'
  BY <1>1 DEF OutInv, RecordsInv
<1>4. (\A rec \in out : rec.req < NextName) /\ (\A f \in finished : f.req < NextName)
  BY <1>1 DEF OutInv, NamedInv
<1>5. NextName \in Nat /\ req_len' \in Nat
  <2>1. NextName \in Nat
    BY LinesType DEF NextName, NamesInv
  <2>2. AtMost(NCtx, NBatch) \in Nat
    BY Sizes DEF AtMost
  <2>. QED BY <2>1, <2>2 DEF PlaceInv
<1>6. NamedInv'
  <2>1. \A rec \in out : rec.req \in Nat
    BY DEF OutInv, RecordsInv
  <2>. QED BY <1>1, <1>4, <1>5, <2>1 DEF NamedInv, InFlight
<1>7. SeenInv'
  <2>1. ASSUME NEW ph, NEW l PROVE Positions(ph, NextName, l) = {}
    <3>1. \A rec \in out : rec.req # NextName
      BY <1>4, <1>5
    <3>. QED BY <3>1 DEF Positions, Records
  <2>2. \A ph, l : Positions(ph, req_idx, l)' = {}
    BY <1>1, <2>1 DEF Positions, Records
  <2>3. \A l : PrefillSeen(l)' = 0 /\ DecodeSeen(l)' = 0
    BY <1>1 DEF PrefillSeen, DecodeSeen
  <2>4. \A l : Wanted(l, req_len, PrefillSeen(l))' = {}
    BY <2>3 DEF Wanted
  <2>5. \A l : (req_len..(req_len + DecodeSeen(l) - 1))' = {}
    BY <2>3, <1>5
  <2>. QED BY <2>2, <2>4, <2>5 DEF SeenInv
<1>. QED BY <1>2, <1>3, <1>6, <1>7 DEF OutInv

\* Inside a request, where nothing is written and what a layer has seen is only called otherwise.
LEMMA OutSeen ==
    ASSUME InputInv, OutInv, UNCHANGED <<input, out, n_out, finished, req_idx, req_len>>,
           InFlight, InFlight' \/ pc' = "failed",
           InFlight' => \A l \in Served : PrefillSeen(l)' = PrefillSeen(l) /\ DecodeSeen(l)' = DecodeSeen(l)
    PROVE  OutInv'
<1>1. Served' = Served
  BY CorpusKept DEF Served
<1>2. RecordsInv' /\ \A f \in finished' : Complete(f)'
  BY CompleteKept DEF OutInv, RecordsInv
<1>3. NamedInv'
  BY DEF OutInv, NamedInv, InFlight
<1>4. SeenInv'
  <2>1. CASE ~InFlight'
    BY <2>1 DEF SeenInv
  <2>2. CASE InFlight'
    <3>1. ASSUME NEW l \in Served
          PROVE  /\ Positions("prefill", req_idx, l)' = Wanted(l, req_len, PrefillSeen(l))'
                 /\ Positions("decode", req_idx, l)' = (req_len..(req_len + DecodeSeen(l) - 1))'
      <4>1. PrefillSeen(l)' = PrefillSeen(l) /\ DecodeSeen(l)' = DecodeSeen(l)
        BY <2>2
      <4>2. /\ Wanted(l, req_len, PrefillSeen(l))' = Wanted(l, req_len, PrefillSeen(l))
            /\ (req_len..(req_len + DecodeSeen(l) - 1))' = req_len..(req_len + DecodeSeen(l) - 1)
        BY <4>1 DEF Wanted
      <4>3. \A ph : Positions(ph, req_idx, l)' = Positions(ph, req_idx, l)
        BY DEF Positions, Records
      <4>. QED BY <4>2, <4>3 DEF OutInv, SeenInv
    <3>. QED BY <3>1, <1>1 DEF SeenInv
  <2>. QED BY <2>1, <2>2
<1>. QED BY <1>2, <1>3, <1>4 DEF OutInv

\* A request is over once every position that is wanted was seen.
LEMMA OutFinished ==
    ASSUME InputInv, OutInv, UNCHANGED <<input, out, n_out>>, InFlight, pc' = "line",
           req_idx \in Nat, req_len \in Nat, NextName' \in Nat, req_idx < NextName',
           NEW gen \in Nat, finished' = finished \cup {[req |-> req_idx, len |-> req_len, gen |-> gen]},
           \A l \in Served : PrefillSeen(l) = req_len /\ DecodeSeen(l) = gen
    PROVE  OutInv'
<1>. DEFINE f == [req |-> req_idx, len |-> req_len, gen |-> gen]
<1>1. f.req = req_idx /\ f.len = req_len /\ f.gen = gen
  OBVIOUS
<1>2. Complete(f)
  <2>1. \A l \in Served : /\ Positions("prefill", req_idx, l) = Wanted(l, req_len, req_len)
                          /\ Positions("decode", req_idx, l) = req_len..(req_len + gen - 1)
    BY DEF OutInv, SeenInv
  <2>. HIDE DEF f
  <2>. QED BY <1>1, <2>1 DEF Complete
<1>. HIDE DEF f
<1>3. \A g \in finished' : Complete(g)
  BY <1>2 DEF OutInv, f
<1>4. \A g \in finished' : Complete(g)'
  BY <1>3, CompleteKept
<1>5. RecordsInv' /\ SeenInv'
  BY DEF OutInv, RecordsInv, SeenInv, InFlight
<1>6. NamedInv'
  <2>1. \A rec \in out : rec.req \in Nat /\ rec.req <= req_idx
    BY DEF OutInv, RecordsInv, NamedInv
  <2>2. \A rec \in out : rec.req < NextName'
    BY <2>1
  <2>3. \A g \in finished : g.req \in Nat /\ g.req < req_idx
    BY DEF OutInv, NamedInv, Complete
  <2>4. \A g \in finished' : g.req < NextName'
    <3>1. \A g \in finished : g.req < NextName'
      BY <2>3
    <3>. QED BY <3>1, <1>1 DEF f
  <2>. QED BY <2>2, <2>4 DEF NamedInv, InFlight
<1>. QED BY <1>4, <1>5, <1>6 DEF OutInv

LEMMA OutReturns ==
    ASSUME InputInv, NamesInv, PlaceInv, PassInv, OutInv, DecodeReturns, NamesInv'
    PROVE  OutInv'
<1>1. /\ pc = "layer" /\ at_layer > NLayer /\ at_layer' = at_layer /\ InFlight
      /\ UNCHANGED <<input, out, n_out, req_idx, req_len, in_decode, decode_idx, expected_tok,
                     at_line, gen_idx>>
  BY DEF DecodeReturns, InFlight
<1>2. /\ req_len \in Nat /\ chunk_pos \in Nat /\ at_layer = NLayer + 1 /\ req_idx \in Nat
      /\ expected_tok = AtMost(NUbatch, req_len - chunk_pos) /\ expected_tok \in Nat
      /\ chunk_pos + expected_tok <= req_len
  BY <1>1, Sizes DEF PlaceInv, InFlight, AtMost, NamesInv
<1>3. \A l \in Served : l < at_layer /\ ~(l >= at_layer) /\ l < at_layer'
  BY <1>1, <1>2, ServedLayers, Sizes
<1>4. \A l \in Served : /\ PrefillSeen(l) = (IF in_decode THEN req_len ELSE chunk_pos + expected_tok)
                        /\ DecodeSeen(l) = (IF in_decode THEN decode_idx + 1 ELSE 0)
  BY <1>1, <1>3 DEF PrefillSeen, DecodeSeen
<1>5. CASE ~in_decode /\ chunk_pos + expected_tok < req_len
  <2>1. chunk_pos' = chunk_pos + NUbatch /\ pc' = "chunk" /\ finished' = finished
    BY <1>5 DEF DecodeReturns
  <2>2. chunk_pos + NUbatch = chunk_pos + expected_tok
    BY <1>2, <1>5, Sizes DEF AtMost
  <2>3. \A l \in Served : PrefillSeen(l)' = PrefillSeen(l) /\ DecodeSeen(l)' = DecodeSeen(l)
    BY <1>1, <1>4, <1>5, <2>1, <2>2 DEF PrefillSeen, DecodeSeen
  <2>. QED BY <1>1, <2>1, <2>3, OutSeen DEF InFlight
<1>6. CASE ~(~in_decode /\ chunk_pos + expected_tok < req_len) /\ Continued
  <2>1. pc' = "sample" /\ finished' = finished /\ chunk_pos' = chunk_pos
    BY <1>6 DEF DecodeReturns
  <2>2. \A l \in Served : PrefillSeen(l)' = PrefillSeen(l) /\ DecodeSeen(l)' = DecodeSeen(l)
    BY <1>1, <1>3, <1>4, <2>1 DEF PrefillSeen, DecodeSeen
  <2>. QED BY <1>1, <2>1, <2>2, OutSeen DEF InFlight
<1>7. CASE ~(~in_decode /\ chunk_pos + expected_tok < req_len) /\ ~Continued
  <2>1. /\ pc' = "line"
        /\ finished' = finished \cup {[req |-> req_idx, len |-> req_len, gen |-> 0]}
    BY <1>7 DEF DecodeReturns
  <2>2. ~in_decode /\ chunk_pos + expected_tok = req_len
    BY <1>2, <1>7 DEF PassInv
  <2>3. \A l \in Served : PrefillSeen(l) = req_len /\ DecodeSeen(l) = 0
    BY <1>4, <2>2
  <2>4. NextName' \in Nat /\ req_idx < NextName'
    BY <1>1, <1>2, <1>7, LinesType, CorpusKept DEF NextName, NamesInv, InFlight, Name, Continued
  <2>. QED BY <1>1, <1>2, <2>1, <2>3, <2>4, OutFinished
<1>. QED BY <1>5, <1>6, <1>7

LEMMA OutGenerate ==
    ASSUME InputInv, NamesInv, PlaceInv, OutInv, Generate
    PROVE  OutInv'
<1>1. /\ pc = "sample" /\ InFlight /\ in_decode' = TRUE /\ decode_idx' = Produced
      /\ (pc' = "layer" /\ at_layer' = 1) \/ pc' = "failed"
      /\ UNCHANGED <<input, out, n_out, finished, req_idx, req_len>>
  BY DEF Generate, InFlight, acct
<1>2. /\ at_layer = NLayer + 1 /\ in_decode \in BOOLEAN /\ decode_idx \in Nat
      /\ (~in_decode => chunk_pos + expected_tok = req_len)
  BY <1>1 DEF PlaceInv
<1>3. \A l \in Served : l < at_layer /\ ~(l >= at_layer) /\ ~(l < 1)
  BY <1>2, ServedLayers, Sizes
<1>4. ASSUME pc' = "layer", NEW l \in Served
      PROVE  PrefillSeen(l)' = PrefillSeen(l) /\ DecodeSeen(l)' = DecodeSeen(l)
  <2>1. at_layer' = 1
    BY <1>1, <1>4
  <2>. QED BY <2>1, <1>1, <1>2, <1>3 DEF PrefillSeen, DecodeSeen, Produced
<1>. QED BY <1>1, <1>4, OutSeen DEF InFlight

LEMMA OutEndOfText ==
    ASSUME InputInv, NamesInv, PlaceInv, PassInv, OutInv, EndOfText
    PROVE  OutInv'
<1>1. /\ pc = "sample" /\ InFlight /\ pc' = "line" /\ gen_idx' = gen_idx + 1 /\ at_line' = at_line
      /\ finished' = finished \cup {[req |-> req_idx, len |-> req_len, gen |-> Produced]}
      /\ UNCHANGED <<input, out, n_out>>
  BY DEF EndOfText, InFlight, acct
<1>2. /\ at_layer = NLayer + 1 /\ in_decode \in BOOLEAN /\ decode_idx \in Nat
      /\ (~in_decode => chunk_pos + expected_tok = req_len) /\ req_len \in Nat
  BY <1>1, Sizes DEF PlaceInv, AtMost
<1>3. \A l \in Served : l < at_layer /\ ~(l >= at_layer)
  BY <1>2, ServedLayers, Sizes
<1>4. Produced \in Nat
  BY <1>2 DEF Produced
<1>5. \A l \in Served : PrefillSeen(l) = req_len /\ DecodeSeen(l) = Produced
  BY <1>1, <1>2, <1>3 DEF PrefillSeen, DecodeSeen, Produced
<1>6. req_idx \in Nat /\ NextName' \in Nat /\ req_idx < NextName'
  BY <1>1, LinesType, CorpusKept DEF NextName, NamesInv, PassInv, InFlight, Name, Continued
<1>. QED BY <1>1, <1>2, <1>4, <1>5, <1>6, OutFinished

\* The records one callback writes, and their positions
NewRecords(n) ==
    {[ph |-> Cur, req |-> req_idx, pos |-> Position(j), layer |-> at_layer] : j \in 0..(n - 1)}
NewPositions(n) == {Position(j) : j \in 0..(n - 1)}

LEMMA AddsPositions ==
    ASSUME NEW n, out' = out \cup NewRecords(n), NEW ph, NEW q, NEW l
    PROVE  Positions(ph, q, l)' =
               Positions(ph, q, l) \cup (IF ph = Cur /\ q = req_idx /\ l = at_layer
                                         THEN NewPositions(n) ELSE {})
<1>1. \A rec \in NewRecords(n) : rec.ph = Cur /\ rec.req = req_idx /\ rec.layer = at_layer
  BY DEF NewRecords
<1>2. ASSUME NEW rec \in NewRecords(n) PROVE rec.pos \in NewPositions(n)
  <2>1. PICK j \in 0..(n - 1) :
          rec = [ph |-> Cur, req |-> req_idx, pos |-> Position(j), layer |-> at_layer]
    BY DEF NewRecords
  <2>2. rec.pos = Position(j)
    BY <2>1
  <2>. QED BY <2>2, Zenon DEF NewPositions
<1>3. ASSUME NEW p \in NewPositions(n) PROVE \E rec \in NewRecords(n) : rec.pos = p
  <2>1. PICK j \in 0..(n - 1) : p = Position(j)
    BY Zenon DEF NewPositions
  <2>. DEFINE rec == [ph |-> Cur, req |-> req_idx, pos |-> Position(j), layer |-> at_layer]
  <2>2. rec \in NewRecords(n)
    BY Zenon DEF NewRecords
  <2>3. rec.pos = p
    BY <2>1
  <2>. QED BY <2>2, <2>3, Zenon
<1>. DEFINE R == Records(ph, q, l)  N == {rec \in NewRecords(n) : rec.ph = ph /\ rec.req = q /\ rec.layer = l}
<1>4. Records(ph, q, l)' = R \cup N
  BY DEF Records
<1>5. Positions(ph, q, l)' = {rec.pos : rec \in R} \cup {rec.pos : rec \in N}
  <2>1. Positions(ph, q, l)' = {rec.pos : rec \in R \cup N}
    BY <1>4, Zenon DEF Positions
  <2>. HIDE DEF R, N
  <2>. QED BY <2>1
<1>6. CASE ph = Cur /\ q = req_idx /\ l = at_layer
  <2>1. N = NewRecords(n)
    BY <1>1, <1>6
  <2>2. {rec.pos : rec \in N} = NewPositions(n)
    BY <2>1, <1>2, <1>3
  <2>. HIDE DEF N
  <2>. QED BY <1>5, <1>6, <2>2, Zenon DEF Positions
<1>7. CASE ~(ph = Cur /\ q = req_idx /\ l = at_layer)
  <2>1. N = {}
    BY <1>1, <1>7
  <2>2. {rec.pos : rec \in N} = {}
    BY <2>1
  <2>. HIDE DEF N
  <2>. QED BY <1>5, <1>7, <2>2, Zenon DEF Positions
<1>. QED BY <1>6, <1>7

\* They are as many as the rows, and the rows are the micro-batch's tokens.
LEMMA NewOnes ==
    ASSUME PlaceInv, pc = "layer", at_layer <= NLayer, NEW n, n = UbatchTokens, req_idx \in Nat
    PROVE  /\ IsFiniteSet(NewRecords(n)) /\ Cardinality(NewRecords(n)) = n
           /\ NewPositions(n) = IF in_decode THEN {req_len + decode_idx}
                                ELSE chunk_pos..(chunk_pos + expected_tok - 1)
           /\ \A rec \in NewRecords(n) : rec.req = req_idx
<1>1. /\ n \in Nat \ {0} /\ (in_decode => n = 1) /\ (~in_decode => n = expected_tok)
      /\ chunk_pos \in Nat /\ req_len \in Nat /\ decode_idx \in Nat
  <2>1. AtMost(NCtx, NBatch) \in Nat
    BY Sizes DEF AtMost
  <2>. QED BY <2>1, RowsType DEF PlaceInv
<1>. DEFINE f == [j \in 0..(n - 1) |->
                    [ph |-> Cur, req |-> req_idx, pos |-> Position(j), layer |-> at_layer]]
<1>2. f \in [0..(n - 1) -> NewRecords(n)]
  BY DEF NewRecords
<1>3. ASSUME NEW i \in 0..(n - 1), NEW j \in 0..(n - 1), f[i] = f[j] PROVE i = j
  <2>1. Position(i) = Position(j)
    <3>1. f[i].pos = Position(i) /\ f[j].pos = Position(j)
      OBVIOUS
    <3>. HIDE DEF f
    <3>. QED BY <3>1, <1>3
  <2>. QED BY <2>1, <1>1 DEF Position
<1>4. \A rec \in NewRecords(n) : \E j \in 0..(n - 1) : f[j] = rec
  BY DEF NewRecords
<1>5. ExistsBijection(0..(n - 1), NewRecords(n))
  <2>. HIDE DEF f
  <2>1. \A i, j \in 0..(n - 1) : f[i] = f[j] => i = j
    BY <1>3
  <2>2. f \in Injection(0..(n - 1), NewRecords(n))
    BY <1>2, <2>1 DEF Injection, IsInjective
  <2>3. f \in Surjection(0..(n - 1), NewRecords(n))
    BY <1>2, <1>4 DEF Surjection
  <2>. QED BY <2>2, <2>3 DEF ExistsBijection, Bijection
<1>6. IsFiniteSet(0..(n - 1)) /\ Cardinality(0..(n - 1)) = n
  BY <1>1, FS_Interval
<1>7. IsFiniteSet(NewRecords(n)) /\ Cardinality(NewRecords(n)) = n
  BY <1>5, <1>6, FS_Bijection
<1>8. CASE in_decode
  <2>1. NewPositions(n) = {req_len + decode_idx}
    BY <1>1, <1>8 DEF NewPositions, Position
  <2>. QED BY <2>1, <1>7, <1>8 DEF NewRecords
<1>9. CASE ~in_decode
  <2>1. NewPositions(n) = {chunk_pos + j : j \in 0..(expected_tok - 1)}
    BY <1>1, <1>9 DEF NewPositions, Position
  <2>2. ASSUME NEW p \in chunk_pos..(chunk_pos + expected_tok - 1)
        PROVE  p \in {chunk_pos + j : j \in 0..(expected_tok - 1)}
    <3>1. p - chunk_pos \in 0..(expected_tok - 1) /\ p = chunk_pos + (p - chunk_pos)
      BY <1>1, <1>9
    <3>. QED BY <3>1
  <2>3. \A j \in 0..(expected_tok - 1) : chunk_pos + j \in chunk_pos..(chunk_pos + expected_tok - 1)
    BY <1>1, <1>9
  <2>. QED BY <2>1, <2>2, <2>3, <1>7, <1>9 DEF NewRecords
<1>. QED BY <1>8, <1>9

LEMMA InWanted ==
    ASSUME NEW l, NEW len, NEW seen
    PROVE  /\ l # NLayer => Wanted(l, len, seen) = 0..(seen - 1)
           /\ l = NLayer => Wanted(l, len, seen) = {p \in 0..(seen - 1) : p % NUbatch = 0 /\ (NUbatch = 1 \/ p = len - 1)}
<1>1. ASSUME l # NLayer PROVE Wanted(l, len, seen) = 0..(seen - 1)
  <2>1. \A p : p \in Wanted(l, len, seen) <=> p \in 0..(seen - 1)
    BY <1>1, Zenon DEF Wanted
  <2>. QED BY <2>1
<1>2. ASSUME l = NLayer
      PROVE  Wanted(l, len, seen) = {p \in 0..(seen - 1) : p % NUbatch = 0 /\ (NUbatch = 1 \/ p = len - 1)}
  BY <1>2, Zenon DEF Wanted
<1>. QED BY <1>1, <1>2

\* What a chunk adds to the wanted positions: all of it; of the last layer, the one position of
\* a chunk of one token, and nothing of a longer one.
LEMMA WantedGrows ==
    ASSUME PlaceInv, pc = "layer", ~in_decode, NEW l
    PROVE  /\ l # NLayer \/ expected_tok = 1 =>
                Wanted(l, req_len, chunk_pos + expected_tok)
                = Wanted(l, req_len, chunk_pos) \cup (chunk_pos..(chunk_pos + expected_tok - 1))
           /\ l = NLayer /\ expected_tok # 1 =>
                Wanted(l, req_len, chunk_pos + expected_tok) = Wanted(l, req_len, chunk_pos)
<1>1. /\ req_len \in Nat /\ chunk_pos \in Nat /\ chunk_pos < req_len /\ chunk_pos % NUbatch = 0
      /\ expected_tok = AtMost(NUbatch, req_len - chunk_pos) /\ expected_tok \in Nat \ {0}
      /\ expected_tok <= NUbatch /\ NUbatch \in Nat \ {0}
  BY Sizes DEF PlaceInv, InFlight, AtMost
<1>. DEFINE W(p) == p % NUbatch = 0 /\ (NUbatch = 1 \/ p = req_len - 1)
<1>2. 0..(chunk_pos + expected_tok - 1) = (0..(chunk_pos - 1)) \cup (chunk_pos..(chunk_pos + expected_tok - 1))
  BY <1>1
<1>3. CASE l # NLayer
  <2>1. Wanted(l, req_len, chunk_pos) = 0..(chunk_pos - 1)
    BY <1>3, InWanted
  <2>2. Wanted(l, req_len, chunk_pos + expected_tok) = 0..(chunk_pos + expected_tok - 1)
    <3>. DEFINE up == chunk_pos + expected_tok
    <3>. HIDE DEF up
    <3>1. Wanted(l, req_len, up) = 0..(up - 1)
      BY <1>3, InWanted
    <3>. QED BY <1>1, <3>1 DEF up
  <2>. QED BY <2>1, <2>2, <1>2, <1>3, Zenon
<1>4. ASSUME expected_tok = 1 PROVE \A p \in chunk_pos..(chunk_pos + expected_tok - 1) : W(p)
  <2>1. NUbatch = 1 \/ chunk_pos = req_len - 1
    BY <1>1, <1>4 DEF AtMost
  <2>2. \A p \in chunk_pos..(chunk_pos + expected_tok - 1) : p = chunk_pos
    BY <1>1, <1>4
  <2>. QED BY <2>1, <2>2, <1>1
<1>5. ASSUME expected_tok # 1, NEW p \in chunk_pos..(chunk_pos + expected_tok - 1) PROVE ~W(p)
  <2>1. NUbatch # 1 /\ chunk_pos # req_len - 1
    BY <1>1, <1>5, Sizes DEF AtMost
  <2>2. SUFFICES ASSUME p % NUbatch = 0 PROVE p = chunk_pos
    BY <2>1
  <2>3. p - chunk_pos \in 0..(NUbatch - 1) /\ chunk_pos + (p - chunk_pos) = p
    BY <1>1
  <2>4. \A d \in 0..(NUbatch - 1) : (chunk_pos + d) % NUbatch = 0 => d = 0
    BY <1>1, ChunkStart
  <2>5. p - chunk_pos = 0
    BY <2>2, <2>3, <2>4
  <2>. QED BY <2>5, <1>1
<1>6. CASE l = NLayer
  <2>. DEFINE Old == Wanted(l, req_len, chunk_pos)
  <2>. DEFINE New == Wanted(l, req_len, chunk_pos + expected_tok)
  <2>. DEFINE Rest == chunk_pos..(chunk_pos + expected_tok - 1)
  <2>1. \A p : (p \in Old <=> p \in 0..(chunk_pos - 1) /\ W(p))
               /\ (p \in New <=> p \in 0..(chunk_pos + expected_tok - 1) /\ W(p))
    <3>1. Old = {p \in 0..(chunk_pos - 1) : W(p)}
      BY <1>6, InWanted
    <3>2. New = {p \in 0..(chunk_pos + expected_tok - 1) : W(p)}
      <4>. DEFINE up == chunk_pos + expected_tok
      <4>. HIDE DEF up
      <4>1. Wanted(l, req_len, up) = {p \in 0..(up - 1) : W(p)}
        BY <1>6, InWanted
      <4>. HIDE DEF W
      <4>. QED BY <1>1, <4>1 DEF up, New
    <3>. HIDE DEF Old, New, W
    <3>. QED BY <3>1, <3>2
  <2>4. \A p : p \in 0..(chunk_pos + expected_tok - 1) <=> p \in 0..(chunk_pos - 1) \/ p \in Rest
    BY <1>2
  <2>. HIDE DEF W, Old, New
  <2>2. ASSUME expected_tok = 1
        PROVE  New = Old \cup Rest
    <3>1. \A p \in Rest : W(p)
      BY <1>4, <2>2
    <3>. HIDE DEF Rest
    <3>. QED BY <3>1, <2>1, <2>4, Zenon
  <2>3. ASSUME expected_tok # 1
        PROVE  New = Old
    <3>1. \A p \in Rest : ~W(p)
      BY <1>5, <2>3
    <3>. HIDE DEF Rest
    <3>. QED BY <3>1, <2>1, <2>4, Zenon
  <2>. QED BY <2>2, <2>3, <1>6 DEF Old, New
<1>. QED BY <1>3, <1>6


\* What a layer has seen once it was observed; the others have seen what they had.
LEMMA SeenMoves ==
    ASSUME InputInv, PlaceInv, Route, NEW l \in Served
    PROVE  /\ l # at_layer => PrefillSeen(l)' = PrefillSeen(l) /\ DecodeSeen(l)' = DecodeSeen(l)
           /\ l = at_layer /\ in_decode =>
                /\ PrefillSeen(l)' = PrefillSeen(l)
                /\ DecodeSeen(l) = decode_idx /\ DecodeSeen(l)' = decode_idx + 1
           /\ l = at_layer /\ ~in_decode =>
                /\ PrefillSeen(l) = chunk_pos /\ PrefillSeen(l)' = chunk_pos + expected_tok
                /\ DecodeSeen(l)' = DecodeSeen(l)
<1>1. /\ pc = "layer" /\ pc' = "layer" /\ at_layer' = at_layer + 1 /\ in_decode' = in_decode
      /\ chunk_pos' = chunk_pos /\ expected_tok' = expected_tok /\ req_len' = req_len
      /\ decode_idx' = decode_idx
  BY DEF Route, req
<1>2. l \in Nat /\ at_layer \in Nat /\ in_decode \in BOOLEAN
  BY ServedLayers, Sizes DEF PlaceInv
<1>. QED BY <1>1, <1>2 DEF PrefillSeen, DecodeSeen

\* A callback that writes nothing: its layer has no pins, or is the last one and nothing of a
\* chunk this long is wanted of it.
LEMMA OutSkipped ==
    ASSUME InputInv, PlaceInv, OutInv, Route, UNCHANGED <<out, n_out>>,
           at_layer \in Served => at_layer = NLayer /\ ~in_decode /\ expected_tok # 1
    PROVE  OutInv'
<1>1. /\ pc = "layer" /\ pc' = "layer" /\ InFlight
      /\ UNCHANGED <<input, finished, req_idx, req_len>>
  BY DEF Route, req, InFlight
<1>2. Served' = Served
  BY <1>1, CorpusKept DEF Served
<1>3. RecordsInv' /\ \A f \in finished' : Complete(f)'
  BY <1>1, CompleteKept DEF OutInv, RecordsInv
<1>4. NamedInv'
  BY <1>1 DEF OutInv, NamedInv, InFlight
<1>5. ASSUME NEW l \in Served
      PROVE  /\ Positions("prefill", req_idx, l)' = Wanted(l, req_len, PrefillSeen(l))'
             /\ Positions("decode", req_idx, l)' = (req_len..(req_len + DecodeSeen(l) - 1))'
  <2>1. /\ Positions("prefill", req_idx, l) = Wanted(l, req_len, PrefillSeen(l))
        /\ Positions("decode", req_idx, l) = req_len..(req_len + DecodeSeen(l) - 1)
    BY <1>1 DEF OutInv, SeenInv
  <2>2. \A ph : Positions(ph, req_idx, l)' = Positions(ph, req_idx, l)
    BY <1>1 DEF Positions, Records
  <2>3. /\ Wanted(l, req_len, PrefillSeen(l)') = Wanted(l, req_len, PrefillSeen(l))
        /\ DecodeSeen(l)' = DecodeSeen(l)
    <3>1. CASE l # at_layer
      BY <3>1, SeenMoves
    <3>2. CASE l = at_layer
      <4>1. l = NLayer /\ ~in_decode /\ expected_tok # 1
        BY <3>2
      <4>2. Wanted(l, req_len, chunk_pos + expected_tok) = Wanted(l, req_len, chunk_pos)
        BY <4>1, <1>1, WantedGrows
      <4>. QED BY <3>2, <4>1, <4>2, SeenMoves
    <3>. QED BY <3>1, <3>2
  <2>4. Wanted(l, req_len, PrefillSeen(l))' = Wanted(l, req_len, PrefillSeen(l)')
    BY <1>1, Zenon DEF Wanted
  <2>. QED BY <2>1, <2>2, <2>3, <2>4, <1>1
<1>6. SeenInv'
  BY <1>5, <1>2 DEF SeenInv
<1>. QED BY <1>3, <1>4, <1>6 DEF OutInv

\* A callback that writes: the records are new, and its layer has seen as much more as they say.
LEMMA OutCounted ==
    ASSUME InputInv, NamesInv, PlaceInv, OutInv, Route, at_layer \in Served, at_layer <= NLayer,
           NEW n, n = Rows, n = UbatchTokens, out' = out \cup NewRecords(n), n_out' = n_out + n
    PROVE  OutInv'
<1>1. /\ pc = "layer" /\ pc' = "layer" /\ InFlight
      /\ UNCHANGED <<input, finished, req_idx, req_len>>
  BY DEF Route, req, InFlight
<1>2. Served' = Served /\ req_idx \in Nat
  BY <1>1, CorpusKept DEF Served, NamesInv
<1>3. /\ IsFiniteSet(NewRecords(n)) /\ Cardinality(NewRecords(n)) = n
      /\ NewPositions(n) = IF in_decode THEN {req_len + decode_idx}
                           ELSE chunk_pos..(chunk_pos + expected_tok - 1)
      /\ \A rec \in NewRecords(n) : rec.req = req_idx
  BY <1>1, <1>2, NewOnes
<1>4. /\ chunk_pos \in Nat /\ req_len \in Nat /\ decode_idx \in Nat /\ in_decode \in BOOLEAN
      /\ n \in Nat \ {0} /\ (~in_decode => n = expected_tok)
      /\ at_layer # NLayer \/ n = 1
  <2>1. AtMost(NCtx, NBatch) \in Nat
    BY Sizes DEF AtMost
  <2>. QED BY <2>1, <1>1, RowsType DEF PlaceInv
<1>5. \A l \in Served : /\ Positions("prefill", req_idx, l) = Wanted(l, req_len, PrefillSeen(l))
                        /\ Positions("decode", req_idx, l) = req_len..(req_len + DecodeSeen(l) - 1)
  BY <1>1 DEF OutInv, SeenInv
<1>6. NewRecords(n) \cap out = {}
  <2>1. ASSUME NEW rec \in NewRecords(n), rec \in out PROVE FALSE
    <3>1. PICK j \in 0..(n - 1) :
            rec = [ph |-> Cur, req |-> req_idx, pos |-> Position(j), layer |-> at_layer]
      BY DEF NewRecords
    <3>2. rec.ph = Cur /\ rec.req = req_idx /\ rec.layer = at_layer /\ rec.pos = Position(j)
      BY <3>1
    <3>3. rec.pos \in Positions(Cur, req_idx, at_layer)
      BY <2>1, <3>2 DEF Positions, Records
    <3>4. CASE in_decode
      <4>1. rec.pos \in req_len..(req_len + decode_idx - 1)
        BY <3>3, <3>4, <1>5, SeenMoves DEF Cur
      <4>2. rec.pos = req_len + decode_idx
        BY <3>2, <3>4 DEF Position
      <4>. QED BY <4>1, <4>2, <1>4
    <3>5. CASE ~in_decode
      <4>1. rec.pos \in Wanted(at_layer, req_len, chunk_pos)
        BY <3>3, <3>5, <1>5, SeenMoves DEF Cur
      <4>2. rec.pos \in 0..(chunk_pos - 1)
        BY <4>1, Zenon DEF Wanted
      <4>3. rec.pos = chunk_pos + j
        BY <3>2, <3>5 DEF Position
      <4>. QED BY <4>2, <4>3, <1>4
    <3>. QED BY <3>4, <3>5
  <2>. QED BY <2>1
<1>7. RecordsInv'
  <2>1. IsFiniteSet(out) /\ n_out = Cardinality(out) /\ \A rec \in out : rec.req \in Nat
    BY DEF OutInv, RecordsInv
  <2>2. /\ IsFiniteSet(out \cup NewRecords(n))
        /\ Cardinality(out \cup NewRecords(n)) =
             Cardinality(out) + Cardinality(NewRecords(n)) - Cardinality(out \cap NewRecords(n))
    BY <2>1, <1>3, FS_Union
  <2>3. Cardinality(out \cap NewRecords(n)) = 0
    BY <1>6, FS_EmptySet
  <2>4. Cardinality(out) \in Nat
    BY <2>1, FS_CardinalityType
  <2>5. IsFiniteSet(out') /\ n_out' = Cardinality(out')
    BY <2>1, <2>2, <2>3, <2>4, <1>3, <1>4
  <2>6. \A rec \in out' : rec.req \in Nat
    BY <2>1, <1>2, <1>3
  <2>. QED BY <2>5, <2>6 DEF RecordsInv
<1>8. NamedInv'
  <2>1. (\A rec \in out : rec.req <= req_idx) /\ (\A f \in finished : f.req < req_idx)
    BY <1>1 DEF OutInv, NamedInv
  <2>2. \A rec \in out' : rec.req <= req_idx
    BY <2>1, <1>2, <1>3
  <2>. QED BY <2>1, <2>2, <1>1 DEF NamedInv, InFlight
<1>9. ASSUME NEW f \in finished PROVE Complete(f)'
  <2>1. Complete(f) /\ f.req # req_idx
    BY <1>1, <1>2 DEF OutInv, NamedInv, Complete
  <2>2. \A ph, l : Positions(ph, f.req, l)' = Positions(ph, f.req, l)
    <3>. DEFINE q == f.req
    <3>. HIDE DEF q
    <3>1. q # req_idx
      BY <2>1 DEF q
    <3>2. \A ph, l : Positions(ph, q, l)' = Positions(ph, q, l)
      <4>1. ASSUME NEW ph, NEW l PROVE Positions(ph, q, l)' = Positions(ph, q, l)
        <5>1. Positions(ph, q, l)' = Positions(ph, q, l)
                  \cup (IF ph = Cur /\ q = req_idx /\ l = at_layer THEN NewPositions(n) ELSE {})
          BY AddsPositions
        <5>. QED BY <5>1, <3>1
      <4>. QED BY <4>1
    <3>. QED BY <3>2 DEF q
  <2>. QED BY <2>1, <2>2, <1>2 DEF Complete, Wanted
<1>10. ASSUME NEW l \in Served
       PROVE  /\ Positions("prefill", req_idx, l)' = Wanted(l, req_len, PrefillSeen(l)')
              /\ Positions("decode", req_idx, l)' = req_len..(req_len + DecodeSeen(l)' - 1)
  <2>1. \A ph : Positions(ph, req_idx, l)' = Positions(ph, req_idx, l)
                  \cup (IF ph = Cur /\ l = at_layer THEN NewPositions(n) ELSE {})
    BY <1>1, AddsPositions
  <2>2. CASE l # at_layer
    BY <2>1, <2>2, <1>5, SeenMoves
  <2>3. CASE l = at_layer /\ in_decode
    <3>1. Positions("prefill", req_idx, l)' = Positions("prefill", req_idx, l)
      BY <2>1, <2>3 DEF Cur
    <3>2. Positions("decode", req_idx, l)' = (req_len..(req_len + decode_idx - 1)) \cup {req_len + decode_idx}
      BY <2>1, <2>3, <1>3, <1>5, SeenMoves DEF Cur
    <3>3. (req_len..(req_len + decode_idx - 1)) \cup {req_len + decode_idx}
          = req_len..(req_len + (decode_idx + 1) - 1)
      BY <1>4
    <3>. QED BY <3>1, <3>2, <3>3, <2>3, <1>5, SeenMoves
  <2>4. CASE l = at_layer /\ ~in_decode
    <3>1. Positions("decode", req_idx, l)' = Positions("decode", req_idx, l)
      BY <2>1, <2>4 DEF Cur
    <3>2. Positions("prefill", req_idx, l)' = Wanted(l, req_len, chunk_pos)
                                               \cup (chunk_pos..(chunk_pos + expected_tok - 1))
      BY <2>1, <2>4, <1>3, <1>5, SeenMoves DEF Cur
    <3>3. Wanted(l, req_len, chunk_pos + expected_tok)
          = Wanted(l, req_len, chunk_pos) \cup (chunk_pos..(chunk_pos + expected_tok - 1))
      <4>1. l # NLayer \/ expected_tok = 1
        BY <2>4, <1>4
      <4>. QED BY <4>1, <2>4, <1>1, WantedGrows
    <3>. QED BY <3>1, <3>2, <3>3, <2>4, <1>5, SeenMoves
  <2>. QED BY <2>2, <2>3, <2>4, <1>4
<1>11. SeenInv'
  <2>1. \A l : Wanted(l, req_len, PrefillSeen(l))' = Wanted(l, req_len, PrefillSeen(l)')
    BY <1>1, Zenon DEF Wanted
  <2>. QED BY <2>1, <1>10, <1>1, <1>2 DEF SeenInv
<1>. QED BY <1>1, <1>7, <1>8, <1>9, <1>11 DEF OutInv

LEMMA OutRoute ==
    ASSUME InputInv, NamesInv, PlaceInv, OutInv, Route
    PROVE  OutInv'
<1>1. CASE at_layer \notin Served /\ UNCHANGED <<out, n_out>>
  BY <1>1, OutSkipped
<1>2. CASE at_layer = NLayer /\ ~in_decode /\ expected_tok # 1 /\ UNCHANGED <<out, n_out>>
  BY <1>2, OutSkipped
<1>3. ASSUME at_layer \in Served, Rows = UbatchTokens, NEW r, Count(r, Rows)
      PROVE  OutInv'
  <2>1. at_layer <= NLayer
    BY DEF Route
  <2>2. out' = out \cup NewRecords(Rows) /\ n_out' = n_out + Rows
    BY <1>3, Zenon DEF Count, NewRecords
  <2>. QED BY <1>3, <2>1, <2>2, OutCounted
<1>. QED BY <1>1, <1>2, <1>3, Observed

LEMMA OutStep ==
    ASSUME InputInv, NamesInv, PlaceInv, PassInv, OutInv, Next, NamesInv', PlaceInv'
    PROVE  OutInv'
<1>1. CASE SkipCandidate \/ TryFill \/ RunCorpus
  <2>1. /\ UNCHANGED <<input, out, n_out, finished>> /\ pc = "fill" /\ pc' \in {"fill", "line"}
        /\ gen_idx' = gen_idx /\ at_line' = at_line
    BY <1>1 DEF SkipCandidate, TryFill, RunCorpus, acct, req
  <2>. QED BY <2>1, OutQuiet
<1>2. CASE EmptyLine
  <2>1. /\ UNCHANGED <<input, out, n_out, finished>> /\ pc = "line" /\ pc' = "line"
        /\ gen_idx' = gen_idx /\ at_line' = at_line + 1
    BY <1>2 DEF EmptyLine, acct, req
  <2>2. at_line' <= PrefillLines + GenLines
    BY <1>2, LinesType DEF EmptyLine, NamesInv
  <2>. QED BY <2>1, <2>2, OutQuiet
<1>3. CASE DecodeFails \/ Summary
  <2>1. UNCHANGED <<input, out, n_out, finished>> /\ pc' \in {"failed", "done"}
    BY <1>3 DEF DecodeFails, Summary, acct
  <2>. QED BY <2>1, OutQuiet
<1>4. CASE Request
  BY <1>4, OutRequest
<1>5. CASE Chunk
  <2>1. /\ UNCHANGED <<input, out, n_out, finished, req_idx, req_len>> /\ pc = "chunk" /\ pc' = "layer"
        /\ at_layer' = 1 /\ chunk_pos' = chunk_pos /\ in_decode' = in_decode
    BY <1>5 DEF Chunk, acct
  <2>2. ~in_decode
    BY <2>1 DEF PlaceInv
  <2>3. \A l \in Served : l >= at_layer'
    BY <2>1, ServedLayers
  <2>4. \A l \in Served : PrefillSeen(l)' = PrefillSeen(l) /\ DecodeSeen(l)' = DecodeSeen(l)
    BY <2>1, <2>2, <2>3 DEF PrefillSeen, DecodeSeen
  <2>. QED BY <2>1, <2>4, OutSeen DEF InFlight
<1>6. CASE Route
  BY <1>6, OutRoute
<1>7. CASE DecodeReturns
  BY <1>7, OutReturns
<1>8. CASE Generate
  BY <1>8, OutGenerate
<1>9. CASE EndOfText
  BY <1>9, OutEndOfText
<1>. QED BY <1>1, <1>2, <1>3, <1>4, <1>5, <1>6, <1>7, <1>8, <1>9 DEF Next

LEMMA FillStep ==
    ASSUME InputInv, FillInv, Next
    PROVE  FillInv'
<1>1. CASE SkipCandidate
  BY <1>1, FillSkips
<1>2. CASE TryFill
  BY <1>2, FillTries
<1>3. CASE RunCorpus \/ EmptyLine \/ Request \/ Chunk \/ Route \/ DecodeReturns
           \/ DecodeFails \/ Generate \/ EndOfText \/ Summary
  <2>1. UNCHANGED <<input, fill>>
    BY <1>3 DEF RunCorpus, EmptyLine, Request, Chunk, Route, DecodeReturns, DecodeFails, Generate,
                EndOfText, Summary
  <2>. QED BY <2>1, FillKept
<1>. QED BY <1>1, <1>2, <1>3 DEF Next

-----------------------------------------------------------------------------
(* The invariant and what follows from it. *)

Inv == InputInv /\ FillInv /\ NamesInv /\ PlaceInv /\ PassInv /\ CountInv /\ OutInv

\* Where in the corpus, the request and the micro-batch the harness is fixes what has been counted
\* and recorded: blobpager-pager.cpp's main, run_prefill, run_generate, pager_cb and flush_ub keep
\* the loop variables, the sums and the detail records in step at every moment.
THEOREM Invariant == Spec => []Inv
<1>1. Init => Inv
  BY FlowInit, FillInit, CountsInit, OutInit DEF Inv
<1>2. Inv /\ [Next]_vars => Inv'
  <2>1. ASSUME Inv, Next PROVE Inv'
    <3>1. InputInv' /\ NamesInv' /\ PlaceInv' /\ PassInv'
      BY <2>1, FlowStep DEF Inv
    <3>2. FillInv'
      BY <2>1, FillStep DEF Inv
    <3>3. CountInv'
      BY <2>1, CountsStep DEF Inv
    <3>4. OutInv'
      BY <2>1, <3>1, OutStep DEF Inv
    <3>. QED BY <3>1, <3>2, <3>3, <3>4 DEF Inv
  <2>2. ASSUME Inv, UNCHANGED vars PROVE Inv'
    <3>1. /\ UNCHANGED <<pc, input, fill, at_line, req, at_layer, acct, fed, finished>>
          /\ lines' = lines /\ pinned' = pinned /\ capacity' = capacity
          /\ stats' = stats /\ out' = out /\ n_out' = n_out /\ true_hits' = true_hits
          /\ req_idx' = req_idx /\ gen_idx' = gen_idx /\ req_len' = req_len /\ chunk_pos' = chunk_pos
          /\ expected_tok' = expected_tok /\ decode_idx' = decode_idx /\ in_decode' = in_decode
          /\ Served' = Served /\ PrefillLines' = PrefillLines /\ GenLines' = GenLines
      BY <2>2, CorpusKept DEF vars, input, acct, req, Served
    <3>2. InputInv' /\ NamesInv' /\ PlaceInv' /\ PassInv'
      BY <2>2, <3>1 DEF Inv, InputInv, NamesInv, PlaceInv, PassInv, InFlight, Name, Continued
    <3>3. FillInv'
      BY <2>2, <3>1, FillKept DEF Inv
    <3>4. CountInv'
      <4>1. StatsInv' /\ MismatchInv'
        BY <2>2, <3>1 DEF Inv, CountInv, StatsInv, MismatchInv
      <4>2. LayersInv'
        <5>1. \A ph, l : Pending(ph, l)' = Pending(ph, l) /\ Due(ph)' = Due(ph) /\ Cur' = Cur
          BY <3>1 DEF Pending, Due, Cur, UbatchTokens
        <5>. QED BY <2>2, <3>1, <5>1 DEF Inv, CountInv, LayersInv
      <4>3. SumsInv'
        <5>1. SumsInv
          BY <2>2 DEF Inv, CountInv
        <5>2. \A ph \in Phase : TotalsAddUp(stats'[ph])
          BY <5>1, <3>1, Zenon DEF SumsInv
        <5>3. stats'["decode"].hits = true_hits'["decode"]
          BY <5>1, <3>1, Zenon DEF SumsInv
        <5>. QED BY <5>2, <5>3, SumsNext
      <4>. QED BY <4>1, <4>2, <4>3 DEF CountInv
    <3>5. OutInv'
      <4>1. RecordsInv' /\ \A f \in finished' : Complete(f)'
        BY <2>2, <3>1, CompleteKept DEF Inv, OutInv, RecordsInv
      <4>2. NamedInv'
        BY <2>2, <3>1 DEF Inv, OutInv, NamedInv, InFlight, NextName
      <4>3. \A l : /\ PrefillSeen(l)' = PrefillSeen(l) /\ DecodeSeen(l)' = DecodeSeen(l)
                   /\ \A ph : Positions(ph, req_idx, l)' = Positions(ph, req_idx, l)
        BY <3>1 DEF PrefillSeen, DecodeSeen, Positions, Records
      <4>4. \A l, s : Wanted(l, req_len, s)' = Wanted(l, req_len, s)
        BY <3>1, Zenon DEF Wanted
      <4>5. SeenInv'
        BY <2>2, <3>1, <4>3, <4>4 DEF Inv, OutInv, SeenInv, InFlight, Wanted
      <4>. QED BY <4>1, <4>2, <4>5 DEF OutInv
    <3>. QED BY <3>2, <3>3, <3>4, <3>5 DEF Inv
  <2>. QED BY <2>1, <2>2
<1>. QED BY <1>1, <1>2, PTL DEF Spec

\* The harness's loop variables stay in their ranges: a chunk starts inside the prompt, and what is
\* generated is decoded inside the context (run_prefill, run_generate).
THEOREM TypeCorrect == Spec => []TypeOK
<1>1. Inv => TypeOK
  <2>1. SUFFICES ASSUME Inv PROVE TypeOK
    OBVIOUS
  <2>2. /\ Len(lines) \in Nat /\ PrefillLines \in Nat /\ GenLines \in Nat
        /\ PrefillLines + GenLines <= Len(lines)
    BY <2>1, LinesType DEF Inv
  <2>3. at_line \in 0..Len(lines) /\ req_idx \in -1..Len(lines) /\ gen_idx \in 0..Len(lines)
    <3>1. /\ at_line \in 0..(PrefillLines + GenLines) /\ gen_idx \in Nat
          /\ ~Continued => gen_idx = PrefillLines
          /\ Continued => gen_idx <= at_line
          /\ req_idx \in -1..Len(lines)
      BY <2>1 DEF Inv, NamesInv
    <3>. QED BY <3>1, <2>2
  <2>4. pc \in {"chunk", "layer"} => chunk_pos < req_len
    BY <2>1 DEF Inv, PlaceInv, InFlight
  <2>5. ASSUME pc = "layer" PROVE (in_decode => req_len + decode_idx < NCtx) /\ expected_tok \in 1..NUbatch
    BY <2>1, <2>5, Sizes DEF Inv, PlaceInv, InFlight, AtMost
  <2>6. ASSUME NEW ph \in Phase PROVE StatsOK(stats[ph])
    <3>1. stats[ph] \in StatsRec
      BY <2>1 DEF Inv, CountInv, StatsInv
    <3>. QED BY <3>1 DEF StatsRec, StatsOK
  <2>7. lines \in Corpora /\ pinned \in PinTables /\ capacity \in Capacities
    BY <2>1 DEF Inv, InputInv
  <2>8. ci \in 0..(Len(Fallbacks) + 1) /\ tried \in Seq(Int) /\ pool \in -1..NExpert
    BY <2>1 DEF Inv, FillInv
  <2>9. /\ pc \in {"fill", "line", "chunk", "layer", "sample", "done", "failed"}
        /\ req_len \in 0..AtMost(NCtx, NBatch) /\ in_decode \in BOOLEAN /\ at_layer \in 1..(NLayer + 1)
    BY <2>1 DEF Inv, PlaceInv
  <2>. QED BY <2>3, <2>4, <2>5, <2>6, <2>7, <2>8, <2>9, Zenon DEF TypeOK
<1>. QED BY <1>1, Invariant, PTL

\* blobpager-pager.cpp:22-23: of a finished request every served layer but the last has a record
\* for each of its positions, in the phase of that position; and no record is written twice.
THEOREM RecordsOnce == Spec => []RecordedOnce
<1>1. Inv => RecordedOnce
  <2>1. SUFFICES ASSUME Inv PROVE RecordedOnce
    OBVIOUS
  <2>2. n_out = Cardinality(out)
    BY <2>1 DEF Inv, OutInv, RecordsInv
  <2>3. ASSUME NEW f \in finished, NEW l \in Served \ {NLayer}
        PROVE  /\ {rec.pos : rec \in Records("prefill", f.req, l)} = 0..(f.len - 1)
               /\ {rec.pos : rec \in Records("decode", f.req, l)} = f.len..(f.len + f.gen - 1)
    <3>1. /\ Positions("prefill", f.req, l) = Wanted(l, f.len, f.len)
          /\ Positions("decode", f.req, l) = f.len..(f.len + f.gen - 1)
      BY <2>1 DEF Inv, OutInv, Complete
    <3>2. Wanted(l, f.len, f.len) = 0..(f.len - 1)
      BY InWanted
    <3>. QED BY <3>1, <3>2, Zenon DEF Positions
  <2>. QED BY <2>2, <2>3, Zenon DEF RecordedOnce
<1>. QED BY <1>1, Invariant, PTL

\* pager_cb, flush_ub: the totals add up in each phase at every moment, and between micro-batches
\* no draw of a served layer before the last is missing and nothing is left over.
THEOREM CountsInPhase == Spec => []CountedInPhase
<1>1. Inv => CountedInPhase
  <2>1. SUFFICES ASSUME Inv PROVE CountedInPhase
    OBVIOUS
  <2>2. ASSUME NEW ph \in Phase, pc \in {"line", "chunk", "sample", "done"} PROVE NothingLeftOver(ph)
    <3>1. /\ \A l \in Due(ph) : stats[ph].layers[l] = NUsed * (fed[ph] + Pending(ph, l))
          /\ stats[ph].ub_miss = 0 /\ stats[ph].ub_hit = 0
      BY <2>1, <2>2 DEF Inv, CountInv, LayersInv
    <3>2. \A l \in Served \ {NLayer} : l \in Due(ph) /\ Pending(ph, l) = 0
      BY <2>2 DEF Due, Pending
    <3>3. fed[ph] \in Nat
      BY <2>1 DEF Inv, CountInv, StatsInv
    <3>. QED BY <3>1, <3>2, <3>3 DEF NothingLeftOver
  <2>3. \A ph \in Phase : TotalsAddUp(stats[ph])
    BY <2>1 DEF Inv, CountInv, SumsInv
  <2>. QED BY <2>2, <2>3, Zenon DEF CountedInPhase
<1>. QED BY <1>1, Invariant, PTL

\* pager_cb's early returns: only prefill draws of the last layer are left out, those of chunks
\* longer than one token.
THEOREM LastLayerOnly == Spec => []OnlyLastLayerDropped
<1>1. Inv => OnlyLastLayerDropped
  <2>1. SUFFICES ASSUME Inv PROVE OnlyLastLayerDropped
    OBVIOUS
  <2>2. stats["decode"].mismatched = 0 /\ (NLayer \notin Served => stats["prefill"].mismatched = 0)
    BY <2>1 DEF Inv, CountInv, MismatchInv
  <2>3. ASSUME NLayer \in Served, NEW f \in finished
        PROVE  {rec.pos : rec \in Records("prefill", f.req, NLayer)} =
                  {p \in 0..(f.len - 1) : p % NUbatch = 0 /\ (NUbatch = 1 \/ p = f.len - 1)}
    <3>1. Positions("prefill", f.req, NLayer) = Wanted(NLayer, f.len, f.len)
      BY <2>1, <2>3 DEF Inv, OutInv, Complete
    <3>2. Wanted(NLayer, f.len, f.len) =
            {p \in 0..(f.len - 1) : p % NUbatch = 0 /\ (NUbatch = 1 \/ p = f.len - 1)}
      BY InWanted
    <3>. QED BY <3>1, <3>2, Zenon DEF Positions
  <2>4. ASSUME NLayer \in Served, pc \in {"line", "chunk", "sample", "done"}
        PROVE  stats["decode"].layers[NLayer] = NUsed * fed["decode"]
    <3>1. /\ stats["decode"].layers[NLayer] = NUsed * (fed["decode"] + Pending("decode", NLayer))
          /\ fed["decode"] \in Nat
      BY <2>1, <2>4 DEF Inv, CountInv, LayersInv, StatsInv, Due, Phase
    <3>2. Pending("decode", NLayer) = 0
      BY <2>4 DEF Pending
    <3>. QED BY <3>1, <3>2
  <2>. QED BY <2>2, <2>3, <2>4, Zenon DEF OnlyLastLayerDropped
<1>. QED BY <1>1, Invariant, PTL

\* blobpager-pager.cpp:15-18: in the decode phase the ids copied are the experts really drawn.
THEOREM DecodeHits == Spec => []DecodeHitsTrue
<1>1. Inv => DecodeHitsTrue
  BY Zenon DEF Inv, CountInv, SumsInv, DecodeHitsTrue
<1>. QED BY <1>1, Invariant, PTL

\* blobpager-pager.cpp:536: the fill degrades its pin count, and stops at the largest that fits.
THEOREM LargestFill == Spec => []FillsLargest
<1>1. Inv => FillsLargest
  BY FillLargest DEF Inv
<1>. QED BY <1>1, Invariant, PTL
====
