---------------------------- MODULE Workset_proofs ----------------------------
(***************************************************************************)
(* Proofs about Workset: for every stream of draws the simulated LRU cache *)
(* hits when the reuse distance says so, and the pins counted out are the  *)
(* best; for every trace the tracer can write, the calibration cut falls   *)
(* between two requests in every layer but the last.                       *)
(***************************************************************************)
EXTENDS Workset, RoutingTrace_proofs

At(s, A) == {i \in DOMAIN s : s[i] \in A}

LEMMA AtType ==
    ASSUME NEW s \in Seq(Expert), NEW A
    PROVE  IsFiniteSet(At(s, A)) /\ HitsOf(s, A) = Cardinality(At(s, A)) /\ HitsOf(s, A) \in Nat
<1>1. At(s, A) \subseteq 1..Len(s) /\ Len(s) \in Nat
  BY DEF At
<1>2. IsFiniteSet(1..Len(s))
  BY <1>1, FS_Interval
<1>3. IsFiniteSet(At(s, A))
  <2>. DEFINE n == Len(s)
  <2>. HIDE DEF n
  <2>1. At(s, A) \subseteq 1..n /\ IsFiniteSet(1..n)
    BY <1>1, <1>2 DEF n
  <2>. QED BY <2>1, FS_Subset
<1>4. HitsOf(s, A) = Cardinality(At(s, A))
  BY Zenon DEF HitsOf, At
<1>. QED BY <1>3, <1>4, FS_CardinalityType

LEMMA HitsSplit ==
    ASSUME NEW s \in Seq(Expert), NEW A, NEW B, A \cap B = {}
    PROVE  HitsOf(s, A \cup B) = HitsOf(s, A) + HitsOf(s, B)
<1>1. At(s, A \cup B) = At(s, A) \cup At(s, B) /\ At(s, A) \cap At(s, B) = {}
  BY DEF At
<1>2. IsFiniteSet(At(s, A)) /\ IsFiniteSet(At(s, B))
  BY AtType
<1>3. Cardinality(At(s, A) \cup At(s, B)) = Cardinality(At(s, A)) + Cardinality(At(s, B)) - 0
  BY <1>1, <1>2, FS_Union, FS_EmptySet
<1>4. /\ HitsOf(s, A \cup B) = Cardinality(At(s, A \cup B))
      /\ HitsOf(s, A) = Cardinality(At(s, A)) /\ HitsOf(s, B) = Cardinality(At(s, B))
      /\ HitsOf(s, A) \in Nat /\ HitsOf(s, B) \in Nat
  BY AtType
<1>5. HitsOf(s, A \cup B) = HitsOf(s, A) + HitsOf(s, B) - 0
  BY <1>1, <1>3, <1>4, Zenon
<1>. QED BY <1>4, <1>5

LEMMA HitsNone ==
    ASSUME NEW s \in Seq(Expert)
    PROVE  HitsOf(s, {}) = 0
<1>1. At(s, {}) = {}
  BY DEF At
<1>. QED BY <1>1, AtType, FS_EmptySet

LEMMA HitsGrow ==
    ASSUME NEW s \in Seq(Expert), NEW A, NEW B, A \subseteq B
    PROVE  HitsOf(s, A) <= HitsOf(s, B)
<1>1. A \cap (B \ A) = {} /\ A \cup (B \ A) = B
  OBVIOUS
<1>2. HitsOf(s, B) = HitsOf(s, A) + HitsOf(s, B \ A)
  <2>. DEFINE C == B \ A
  <2>. HIDE DEF C
  <2>1. HitsOf(s, A \cup C) = HitsOf(s, A) + HitsOf(s, C)
    BY <1>1, HitsSplit DEF C
  <2>. QED BY <2>1, <1>1 DEF C
<1>3. HitsOf(s, A) \in Nat /\ HitsOf(s, B \ A) \in Nat
  BY AtType
<1>. QED BY <1>2, <1>3

\* At least as many experts, each drawn at least as often as any of the others: they serve no less.
Beats(s, B, A) ==
    /\ IsFiniteSet(A) /\ IsFiniteSet(B) /\ Cardinality(A) <= Cardinality(B)
    /\ \A a \in A, b \in B : HitsOf(s, {a}) <= HitsOf(s, {b})

LEMMA Exchange ==
    ASSUME NEW s \in Seq(Expert), NEW A0 \in SUBSET Expert, NEW B0 \in SUBSET Expert, Beats(s, B0, A0)
    PROVE  HitsOf(s, A0) <= HitsOf(s, B0)
<1>. DEFINE Bad(k) == \E A, B \in SUBSET Expert :
                        Cardinality(A) = k /\ Beats(s, B, A) /\ ~(HitsOf(s, A) <= HitsOf(s, B))
<1>. DEFINE K == {k \in Nat : Bad(k)}
<1>1. ASSUME K # {} PROVE FALSE
  <2>1. PICK k \in K : \A j \in K : k <= j
    <3>1. K \subseteq Nat
      OBVIOUS
    <3>. HIDE DEF K
    <3>. QED BY <1>1, <3>1, LeastNat
  <2>2. k \in Nat
    OBVIOUS
  <2>3. PICK A \in SUBSET Expert : \E B \in SUBSET Expert :
            Cardinality(A) = k /\ Beats(s, B, A) /\ ~(HitsOf(s, A) <= HitsOf(s, B))
    OBVIOUS
  <2>4. PICK B \in SUBSET Expert :
            Cardinality(A) = k /\ Beats(s, B, A) /\ ~(HitsOf(s, A) <= HitsOf(s, B))
    BY <2>3
  <2>5. IsFiniteSet(A) /\ IsFiniteSet(B) /\ k <= Cardinality(B) /\ Cardinality(B) \in Nat
    BY <2>4, FS_CardinalityType DEF Beats
  <2>6. CASE k = 0
    <3>1. A = {}
      BY <2>4, <2>5, <2>6, FS_EmptySet
    <3>2. HitsOf(s, A) = 0 /\ HitsOf(s, B) \in Nat
      BY <3>1, HitsNone, AtType
    <3>. QED BY <3>2, <2>4
  <2>7. CASE k # 0
    <3>1. A # {} /\ B # {}
      BY <2>2, <2>4, <2>5, <2>7, FS_EmptySet
    <3>2. PICK a \in A : TRUE
      BY <3>1
    <3>3. PICK b \in B : TRUE
      BY <3>1
    <3>. DEFINE C == A \ {a}
    <3>. DEFINE D == B \ {b}
    <3>4. /\ IsFiniteSet(C) /\ IsFiniteSet(D)
          /\ Cardinality(C) = k - 1 /\ Cardinality(D) = Cardinality(B) - 1
      BY <2>4, <2>5, FS_RemoveElement
    <3>5. C \in SUBSET Expert /\ D \in SUBSET Expert /\ C \subseteq A /\ D \subseteq B
      OBVIOUS
    <3>6. Beats(s, D, C)
      <4>. HIDE DEF C, D
      <4>1. Cardinality(C) <= Cardinality(D)
        BY <3>4, <2>2, <2>5
      <4>2. \A x \in C, y \in D : HitsOf(s, {x}) <= HitsOf(s, {y})
        BY <3>5, <2>4 DEF Beats
      <4>. QED BY <4>1, <4>2, <3>4 DEF Beats
    <3>7. HitsOf(s, C) <= HitsOf(s, D)
      <4>1. k - 1 \notin K
        <5>1. ~(k <= k - 1)
          BY <2>2
        <5>. HIDE DEF K
        <5>. QED BY <5>1, <2>1
      <4>2. k - 1 \in Nat
        BY <2>2, <2>7
      <4>3. ~Bad(k - 1)
        BY <4>1, <4>2
      <4>. HIDE DEF C, D
      <4>. QED BY <4>3, <3>4, <3>5, <3>6
    <3>8. A = C \cup {a} /\ C \cap {a} = {} /\ B = D \cup {b} /\ D \cap {b} = {}
      OBVIOUS
    <3>. HIDE DEF C, D
    <3>9. HitsOf(s, A) = HitsOf(s, C) + HitsOf(s, {a}) /\ HitsOf(s, B) = HitsOf(s, D) + HitsOf(s, {b})
      BY <3>8, HitsSplit
    <3>10. HitsOf(s, {a}) <= HitsOf(s, {b})
      BY <2>4 DEF Beats
    <3>11. /\ HitsOf(s, C) \in Nat /\ HitsOf(s, D) \in Nat
           /\ HitsOf(s, {a}) \in Nat /\ HitsOf(s, {b}) \in Nat
      BY AtType
    <3>. QED BY <3>7, <3>9, <3>10, <3>11, <2>4
  <2>. QED BY <2>6, <2>7
<1>2. Cardinality(A0) \in Nat
  BY FS_CardinalityType DEF Beats
<1>3. ~Bad(Cardinality(A0))
  BY <1>1, <1>2
<1>. QED BY <1>3

-----------------------------------------------------------------------------
(* The pins counted out *)

First(s, e) == CHOOSE i \in DOMAIN s : s[i] = e /\ \A j \in 1..(i - 1) : s[j] # e
More(s, f, e) == \/ HitsOf(s, {f}) > HitsOf(s, {e})
                 \/ HitsOf(s, {f}) = HitsOf(s, {e}) /\ First(s, f) < First(s, e)
AheadOf(s, e) == {f \in ToSet(s) : More(s, f, e)}

LEMMA StreamType ==
    ASSUME NEW s \in Seq(Expert)
    PROVE  /\ ToSet(s) \subseteq Expert /\ IsFiniteSet(ToSet(s))
           /\ DOMAIN s = 1..Len(s) /\ Len(s) \in Nat /\ \A i \in 1..Len(s) : s[i] \in Expert
<1>1. DOMAIN s = 1..Len(s) /\ Len(s) \in Nat /\ \A i \in 1..Len(s) : s[i] \in Expert
  OBVIOUS
<1>2. ToSet(s) \subseteq Expert
  BY <1>1 DEF ToSet
<1>3. IsFiniteSet(Expert)
  BY Sizes, FS_Interval DEF Expert
<1>. QED BY <1>1, <1>2, <1>3, FS_Subset

LEMMA FirstType ==
    ASSUME NEW s \in Seq(Expert), NEW e \in ToSet(s)
    PROVE  First(s, e) \in 1..Len(s) /\ s[First(s, e)] = e /\ \A j \in 1..(First(s, e) - 1) : s[j] # e
<1>. DEFINE T == {i \in 1..Len(s) : s[i] = e}
<1>1. T \subseteq Nat /\ T # {}
  BY StreamType DEF ToSet
<1>2. PICK i \in T : \A j \in T : i <= j
  <2>. HIDE DEF T
  <2>. QED BY <1>1, LeastNat
<1>3. i \in DOMAIN s /\ s[i] = e /\ \A j \in 1..(i - 1) : s[j] # e
  <2>1. i \in 1..Len(s) /\ s[i] = e /\ Len(s) \in Nat /\ DOMAIN s = 1..Len(s)
    BY StreamType
  <2>2. ASSUME NEW j \in 1..(i - 1), s[j] = e PROVE FALSE
    <3>1. j \in 1..Len(s) /\ j < i /\ j \in Int /\ i \in Int
      BY <2>1
    <3>2. j \in T
      BY <3>1, <2>2
    <3>3. i <= j
      BY <3>2, <1>2
    <3>. QED BY <3>1, <3>3
  <2>. QED BY <2>1, <2>2
<1>. DEFINE Q(k) == s[k] = e /\ \A j \in 1..(k - 1) : s[j] # e
<1>4. First(s, e) = CHOOSE k \in DOMAIN s : Q(k)
  BY Zenon DEF First
<1>5. \E k \in DOMAIN s : Q(k)
  BY <1>3
<1>6. First(s, e) \in DOMAIN s /\ Q(First(s, e))
  <2>. HIDE DEF Q
  <2>. QED BY <1>4, <1>5
<1>. QED BY <1>6, StreamType

LEMMA MoreOrders ==
    ASSUME NEW s \in Seq(Expert)
    PROVE  /\ \A e \in ToSet(s) : ~More(s, e, e)
           /\ \A e, f, g \in ToSet(s) : More(s, e, f) /\ More(s, f, g) => More(s, e, g)
           /\ \A e, f \in ToSet(s) : e # f => More(s, e, f) \/ More(s, f, e)
<1>1. \A e \in ToSet(s) : HitsOf(s, {e}) \in Nat /\ First(s, e) \in Nat /\ s[First(s, e)] = e
  BY AtType, FirstType, StreamType
<1>2. \A e, f \in ToSet(s) : e # f => First(s, e) # First(s, f)
  BY <1>1
<1>3. ASSUME NEW e \in ToSet(s) PROVE ~More(s, e, e)
  <2>1. HitsOf(s, {e}) \in Nat /\ First(s, e) \in Nat
    BY <1>1
  <2>. QED BY <2>1 DEF More
<1>4. ASSUME NEW e \in ToSet(s), NEW f \in ToSet(s), NEW g \in ToSet(s), More(s, e, f), More(s, f, g)
      PROVE  More(s, e, g)
  <2>1. /\ HitsOf(s, {e}) \in Nat /\ HitsOf(s, {f}) \in Nat /\ HitsOf(s, {g}) \in Nat
        /\ First(s, e) \in Nat /\ First(s, f) \in Nat /\ First(s, g) \in Nat
    BY <1>1
  <2>. QED BY <2>1, <1>4 DEF More
<1>5. ASSUME NEW e \in ToSet(s), NEW f \in ToSet(s), e # f PROVE More(s, e, f) \/ More(s, f, e)
  <2>1. /\ HitsOf(s, {e}) \in Nat /\ HitsOf(s, {f}) \in Nat
        /\ First(s, e) \in Nat /\ First(s, f) \in Nat /\ First(s, e) # First(s, f)
    BY <1>1, <1>2, <1>5
  <2>. QED BY <2>1 DEF More
<1>. QED BY <1>3, <1>4, <1>5

LEMMA TopPinsAre ==
    ASSUME NEW s \in Seq(Expert), NEW n \in Nat
    PROVE  TopPins(s, n) = {e \in ToSet(s) : Cardinality(AheadOf(s, e)) < n}
BY Zenon DEF TopPins, AheadOf, More, First

\* No choice of n pins serves more of a stream than its n most drawn experts.
LEMMA TopPinsBest ==
    ASSUME NEW s \in Seq(Expert), NEW n \in Nat, NEW P \in SUBSET Expert, Cardinality(P) <= n
    PROVE  HitsOf(s, P) <= HitsOf(s, TopPins(s, n))
<1>. DEFINE T == TopPins(s, n)
<1>. DEFINE D == ToSet(s)
<1>1. /\ T = {e \in D : Cardinality(AheadOf(s, e)) < n}
      /\ T \subseteq D /\ D \subseteq Expert /\ IsFiniteSet(D) /\ IsFiniteSet(T)
      /\ IsFiniteSet(P) /\ IsFiniteSet(P \cap D)
  <2>1. T = {e \in D : Cardinality(AheadOf(s, e)) < n} /\ D \subseteq Expert /\ IsFiniteSet(D)
    BY TopPinsAre, StreamType
  <2>2. IsFiniteSet(Expert)
    BY Sizes, FS_Interval DEF Expert
  <2>3. T \subseteq D
    BY <2>1
  <2>. HIDE DEF T, D
  <2>4. IsFiniteSet(T) /\ IsFiniteSet(P)
    BY <2>1, <2>2, <2>3, FS_Subset
  <2>. QED BY <2>1, <2>3, <2>4, FS_Intersection
<1>2. \A e \in D : IsFiniteSet(AheadOf(s, e)) /\ Cardinality(AheadOf(s, e)) \in Nat
                   /\ AheadOf(s, e) \subseteq D
  <2>1. \A e \in D : AheadOf(s, e) \subseteq D
    BY DEF AheadOf
  <2>. HIDE DEF T, D
  <2>. QED BY <2>1, <1>1, FS_Subset, FS_CardinalityType
<1>3. ASSUME NEW e \in D, NEW f \in D, More(s, f, e)
      PROVE  Cardinality(AheadOf(s, f)) < Cardinality(AheadOf(s, e))
  <2>1. AheadOf(s, f) \subseteq AheadOf(s, e) /\ f \in AheadOf(s, e) /\ f \notin AheadOf(s, f)
    BY <1>3, MoreOrders DEF AheadOf
  <2>. HIDE DEF T, D
  <2>2. /\ Cardinality(AheadOf(s, f)) <= Cardinality(AheadOf(s, e))
        /\ Cardinality(AheadOf(s, f)) # Cardinality(AheadOf(s, e))
    BY <2>1, <1>2, FS_Subset
  <2>. QED BY <2>2, <1>2
\* what is drawn but not pinned is not drawn more often than what is pinned
<1>4. ASSUME NEW e \in T, NEW f \in D \ T PROVE HitsOf(s, {f}) <= HitsOf(s, {e})
  <2>1. e \in D /\ f \in D /\ e # f /\ Cardinality(AheadOf(s, e)) < n /\ ~(Cardinality(AheadOf(s, f)) < n)
    BY <1>1
  <2>. HIDE DEF T, D
  <2>2. Cardinality(AheadOf(s, e)) \in Nat /\ Cardinality(AheadOf(s, f)) \in Nat
    BY <2>1, <1>2
  <2>3. ~More(s, f, e)
    <3>1. ~(Cardinality(AheadOf(s, f)) < Cardinality(AheadOf(s, e)))
      BY <2>1, <2>2
    <3>. QED BY <3>1, <2>1, <1>3
  <2>4. HitsOf(s, {e}) \in Nat /\ HitsOf(s, {f}) \in Nat
    BY AtType
  <2>. QED BY <2>3, <2>4, <2>1, MoreOrders DEF More, D
<1>5. HitsOf(s, P) = HitsOf(s, P \cap D)
  <2>1. At(s, P) = At(s, P \cap D)
    BY DEF At, ToSet
  <2>. QED BY <2>1, AtType
<1>6. CASE D = T
  <2>1. P \cap D \subseteq T
    BY <1>6
  <2>. HIDE DEF T, D
  <2>. QED BY <2>1, <1>5, HitsGrow DEF T
\* if something drawn is not pinned, n experts are
<1>7. CASE D # T
  <2>1. PICK f \in D \ T : \A g \in D \ T : Cardinality(AheadOf(s, f)) <= Cardinality(AheadOf(s, g))
    <3>. DEFINE C == {Cardinality(AheadOf(s, g)) : g \in D \ T}
    <3>1. C # {} /\ C \subseteq Nat
      BY <1>1, <1>2, <1>7
    <3>2. PICK c \in C : \A x \in C : c <= x
      <4>. HIDE DEF C
      <4>. QED BY <3>1, LeastNat
    <3>3. PICK f \in D \ T : c = Cardinality(AheadOf(s, f))
      OBVIOUS
    <3>. QED BY <3>2, <3>3
  <2>2. AheadOf(s, f) \subseteq T
    <3>1. ASSUME NEW g \in AheadOf(s, f), g \notin T PROVE FALSE
      <4>1. g \in D /\ More(s, g, f)
        BY DEF AheadOf
      <4>2. Cardinality(AheadOf(s, g)) < Cardinality(AheadOf(s, f))
        BY <4>1, <1>3
      <4>3. Cardinality(AheadOf(s, f)) <= Cardinality(AheadOf(s, g))
        BY <4>1, <3>1, <2>1
      <4>. HIDE DEF T, D
      <4>. QED BY <4>1, <4>2, <4>3, <1>2, <2>1
    <3>. QED BY <3>1
  <2>3. n <= Cardinality(T) /\ Cardinality(T) \in Nat
    <3>1. f \in D /\ ~(Cardinality(AheadOf(s, f)) < n)
      BY <1>1
    <3>. HIDE DEF T, D
    <3>2. Cardinality(AheadOf(s, f)) <= Cardinality(T)
      BY <1>1, <2>2, FS_Subset
    <3>3. Cardinality(AheadOf(s, f)) \in Nat /\ Cardinality(T) \in Nat
      BY <1>1, <1>2, <3>1, FS_CardinalityType
    <3>. QED BY <3>1, <3>2, <3>3
  <2>. DEFINE Q == P \cap D
  <2>. DEFINE A == Q \ T
  <2>. DEFINE B == T \ Q
  <2>. DEFINE I == Q \cap T
  <2>4. /\ A \cup I = Q /\ I \cap A = {} /\ B \cup I = T /\ I \cap B = {}
        /\ A \in SUBSET Expert /\ B \in SUBSET Expert /\ I \subseteq Q
    BY <1>1
  <2>5. Beats(s, B, A)
    <3>1. \A a \in A, b \in B : HitsOf(s, {a}) <= HitsOf(s, {b})
      BY <1>4
    <3>2. IsFiniteSet(Q) /\ Cardinality(Q) <= n /\ Cardinality(Q) \in Nat
      <4>. HIDE DEF T, D
      <4>1. Cardinality(Q) <= Cardinality(P) /\ Cardinality(P) \in Nat /\ Cardinality(Q) \in Nat
        BY <1>1, FS_Intersection, FS_CardinalityType
      <4>. QED BY <4>1, <1>1
    <3>3. /\ IsFiniteSet(A) /\ Cardinality(A) = Cardinality(Q) - Cardinality(Q \cap T)
          /\ IsFiniteSet(B) /\ Cardinality(B) = Cardinality(T) - Cardinality(T \cap Q)
          /\ Cardinality(Q \cap T) \in Nat
      <4>. HIDE DEF T, D, Q
      <4>. QED BY <1>1, <3>2, FS_Difference, FS_Intersection, FS_CardinalityType
    <3>4. T \cap Q = Q \cap T
      OBVIOUS
    <3>. HIDE DEF T, D, Q, A, B
    <3>5. Cardinality(A) <= Cardinality(B)
      <4>1. Cardinality(B) = Cardinality(T) - Cardinality(Q \cap T)
        BY <3>3, <3>4, Zenon
      <4>. QED BY <2>3, <3>2, <3>3, <4>1
    <3>. QED BY <3>1, <3>3, <3>5 DEF Beats
  <2>. HIDE DEF T, D, Q, A, B, I
  <2>6. HitsOf(s, A) <= HitsOf(s, B)
    BY <2>4, <2>5, Exchange
  <2>7. HitsOf(s, A \cup I) = HitsOf(s, A) + HitsOf(s, I) /\ HitsOf(s, B \cup I) = HitsOf(s, B) + HitsOf(s, I)
    <3>1. A \cap I = {} /\ B \cap I = {}
      BY <2>4
    <3>. QED BY <3>1, HitsSplit
  <2>8. HitsOf(s, A) \in Nat /\ HitsOf(s, B) \in Nat /\ HitsOf(s, I) \in Nat
    BY AtType
  <2>9. HitsOf(s, Q) <= HitsOf(s, T)
    <3>1. HitsOf(s, Q) = HitsOf(s, A) + HitsOf(s, I) /\ HitsOf(s, T) = HitsOf(s, B) + HitsOf(s, I)
      BY <2>4, <2>7, Zenon
    <3>. QED BY <3>1, <2>6, <2>8
  <2>. QED BY <2>9, <1>5 DEF Q, T
<1>. QED BY <1>6, <1>7

-----------------------------------------------------------------------------
(* The LRU cache *)

Named(w)       == {w[q] : q \in 1..Len(w)}
After(w, p)    == {w[q] : q \in (p + 1)..Len(w)}
Since(s, j, i) == {s[k] : k \in (j + 1)..i}

\* What cache w of n experts holds after i draws of s: each expert with all those behind it, and
\* only those, drawn since; and whatever is missing was pushed out by a full cache of later draws
CacheInv(s, n, i, w) ==
    /\ w \in Seq(Expert) /\ Len(w) <= n
    /\ \A p, q \in 1..Len(w) : w[p] = w[q] => p = q
    /\ \A p \in 1..Len(w) : \E j \in 1..i : s[j] = w[p] /\ Since(s, j, i) = After(w, p)
    /\ \A j \in 1..i : s[j] \notin Named(w) => Len(w) = n /\ Named(w) \subseteq Since(s, j, i)

LEMMA IntervalGrows ==
    ASSUME NEW a \in Nat, NEW b \in Nat, a <= b
    PROVE  (a + 1)..(b + 1) = (a + 1)..b \cup {b + 1}
OBVIOUS

LEMMA SinceNext ==
    ASSUME NEW s, NEW i \in Nat
    PROVE  /\ \A j \in 1..i : Since(s, j, i + 1) = Since(s, j, i) \cup {s[i + 1]}
           /\ Since(s, i + 1, i + 1) = {}
<1>1. ASSUME NEW j \in 1..i PROVE Since(s, j, i + 1) = Since(s, j, i) \cup {s[i + 1]}
  <2>1. (j + 1)..(i + 1) = (j + 1)..i \cup {i + 1}
    OBVIOUS
  <2>. QED BY <2>1 DEF Since
<1>2. (i + 1 + 1)..(i + 1) = {}
  OBVIOUS
<1>. QED BY <1>1, <1>2 DEF Since

\* An expert leaves its place, or the first is pushed out, and the draw is put behind.
LEMMA CacheShifts ==
    ASSUME NEW s \in Seq(Expert), NEW n \in Nat, NEW i \in Nat, i + 1 <= Len(s),
           NEW w, CacheInv(s, n, i, w), NEW d \in 1..Len(w),
           w[d] = s[i + 1] \/ (d = 1 /\ Len(w) = n /\ s[i + 1] \notin Named(w)),
           NEW v \in Seq(Expert), Len(v) = Len(w), v[Len(w)] = s[i + 1],
           \A q \in 1..(Len(w) - 1) : v[q] = IF q < d THEN w[q] ELSE w[q + 1]
    PROVE  CacheInv(s, n, i + 1, v)
<1>. DEFINE L == Len(w)
<1>. DEFINE e == s[i + 1]
<1>. DEFINE o(q) == IF q < d THEN q ELSE q + 1
<1>1. L \in Nat /\ L <= n /\ d \in Nat /\ 1 <= d /\ d <= L
  BY DEF CacheInv
<1>2. \A p, q \in 1..L : w[p] = w[q] => p = q
  BY DEF CacheInv
<1>3. ASSUME NEW q \in 1..(L - 1)
      PROVE  o(q) \in 1..L /\ o(q) # d /\ v[q] = w[o(q)]
  BY <1>1
<1>4. ASSUME NEW p \in 1..(L - 1), NEW q \in 1..(L - 1)
      PROVE  (p < q <=> o(p) < o(q)) /\ (o(p) = o(q) => p = q)
  BY <1>1
<1>5. ASSUME NEW r \in 1..L, r # d
      PROVE  \E q \in 1..(L - 1) : o(q) = r
  <2>1. CASE r < d
    <3>1. r \in 1..(L - 1) /\ o(r) = r
      BY <1>1, <2>1
    <3>. QED BY <3>1
  <2>2. CASE r > d
    <3>1. r - 1 \in 1..(L - 1) /\ o(r - 1) = r
      BY <1>1, <2>2
    <3>. QED BY <3>1
  <2>. QED BY <1>1, <1>5, <2>1, <2>2
<1>6. v[L] = e
  OBVIOUS
<1>7. ASSUME NEW r \in 1..L, r # d PROVE w[r] # e
  <2>1. CASE w[d] = e
    BY <1>2, <1>7, <2>1
  <2>2. CASE e \notin Named(w)
    BY <2>2 DEF Named
  <2>. QED BY <2>1, <2>2
<1>8. w[d] # e => d = 1 /\ L = n /\ e \notin Named(w)
  OBVIOUS
<1>9. Len(v) = L
  OBVIOUS
<1>10. e \in Expert
  OBVIOUS
<1>. HIDE DEF o, e, L
<1>11. ASSUME NEW p \in 1..L, NEW q \in 1..L, v[p] = v[q] PROVE p = q
  <2>1. p \in Int /\ q \in Int /\ (p # L => p \in 1..(L - 1)) /\ (q # L => q \in 1..(L - 1))
    BY <1>1
  <2>2. CASE p # L /\ q # L
    BY <2>1, <2>2, <1>2, <1>3, <1>4, <1>11
  <2>3. CASE p = L /\ q # L
    BY <2>1, <2>3, <1>3, <1>6, <1>7, <1>11
  <2>4. CASE p # L /\ q = L
    BY <2>1, <2>4, <1>3, <1>6, <1>7, <1>11
  <2>. QED BY <2>2, <2>3, <2>4
<1>12. ASSUME NEW p \in 1..(L - 1) PROVE After(v, p) = After(w, o(p)) \cup {e}
  <2>1. After(v, p) = {v[q] : q \in (p + 1)..L} /\ After(w, o(p)) = {w[q] : q \in (o(p) + 1)..L}
    BY <1>9 DEF After, L
  <2>2. o(p) \in 1..L /\ p \in Nat /\ o(p) \in Nat /\ p < L
    BY <1>1, <1>3
  <2>3. ASSUME NEW q \in (p + 1)..L PROVE v[q] \in After(w, o(p)) \cup {e}
    <3>1. CASE q = L
      BY <3>1, <1>6
    <3>2. CASE q # L
      <4>1. q \in 1..(L - 1) /\ p < q
        BY <3>2, <2>2, <1>1
      <4>2. o(p) < o(q) /\ o(q) \in 1..L /\ v[q] = w[o(q)]
        BY <4>1, <1>3, <1>4
      <4>3. o(q) \in (o(p) + 1)..L
        BY <4>2, <2>2, <1>1
      <4>. QED BY <4>2, <4>3, <2>1
    <3>. QED BY <3>1, <3>2
  <2>4. ASSUME NEW r \in (o(p) + 1)..L PROVE w[r] \in After(v, p)
    <3>1. r \in 1..L /\ o(p) < r /\ r \in Int
      BY <2>2, <1>1
    <3>2. CASE r # d
      <4>1. PICK q \in 1..(L - 1) : o(q) = r
        BY <3>1, <3>2, <1>5
      <4>2. p < q /\ v[q] = w[r] /\ q \in Int
        BY <4>1, <3>1, <1>1, <1>3, <1>4
      <4>3. q \in (p + 1)..L
        BY <4>1, <4>2, <2>2, <1>1
      <4>. QED BY <4>2, <4>3, <2>1
    <3>3. CASE r = d
      <4>1. d # 1
        <5>1. \A a, b \in Int : 1 <= a /\ a < b => b # 1
          OBVIOUS
        <5>2. o(p) \in Int /\ 1 <= o(p)
          BY <2>2
        <5>. QED BY <5>1, <5>2, <3>1, <3>3
      <4>2. w[r] = e
        BY <4>1, <3>3, <1>8
      <4>3. L \in (p + 1)..L
        BY <2>2, <1>1
      <4>. QED BY <4>2, <4>3, <1>6, <2>1
    <3>. QED BY <3>2, <3>3
  <2>5. e \in After(v, p)
    <3>1. L \in (p + 1)..L
      BY <2>2, <1>1
    <3>. QED BY <3>1, <1>6, <2>1
  <2>6. After(v, p) \subseteq After(w, o(p)) \cup {e}
    BY <2>1, <2>3
  <2>7. After(w, o(p)) \subseteq After(v, p)
    BY <2>1, <2>4
  <2>. QED BY <2>5, <2>6, <2>7
<1>13. ASSUME NEW p \in 1..L PROVE \E j \in 1..(i + 1) : s[j] = v[p] /\ Since(s, j, i + 1) = After(v, p)
  <2>1. CASE p = L
    <3>1. After(v, p) = {}
      <4>1. (p + 1)..L = {}
        BY <1>1, <2>1
      <4>. QED BY <4>1, <1>9 DEF After
    <3>2. i + 1 \in 1..(i + 1) /\ s[i + 1] = v[p]
      BY <1>6, <2>1 DEF e
    <3>. QED BY <3>1, <3>2, SinceNext
  <2>2. CASE p # L
    <3>1. p \in 1..(L - 1)
      BY <1>1, <2>2
    <3>2. PICK j \in 1..i : s[j] = w[o(p)] /\ Since(s, j, i) = After(w, o(p))
      BY <3>1, <1>3 DEF CacheInv, L
    <3>3. Since(s, j, i + 1) = After(v, p)
      <4>1. Since(s, j, i + 1) = Since(s, j, i) \cup {e}
        BY SinceNext DEF e
      <4>2. After(v, p) = After(w, o(p)) \cup {e}
        BY <3>1, <1>12
      <4>. QED BY <4>1, <4>2, <3>2
    <3>4. j \in 1..(i + 1) /\ s[j] = v[p]
      BY <3>1, <3>2, <1>3
    <3>. QED BY <3>3, <3>4
  <2>. QED BY <2>1, <2>2
<1>14. Named(v) \subseteq Named(w) \cup {e} /\ e \in Named(v) /\ \A r \in 1..L : r # d => w[r] \in Named(v)
  <2>1. Named(v) = {v[q] : q \in 1..L} /\ Named(w) = {w[q] : q \in 1..L}
    BY <1>9 DEF Named, L
  <2>2. ASSUME NEW q \in 1..L PROVE v[q] \in Named(w) \cup {e}
    <3>1. CASE q = L
      BY <3>1, <1>6
    <3>2. CASE q # L
      <4>1. q \in 1..(L - 1)
        BY <3>2, <1>1
      <4>. QED BY <4>1, <1>3, <2>1
    <3>. QED BY <3>1, <3>2
  <2>3. e \in Named(v)
    <3>1. L \in 1..L
      BY <1>1
    <3>. QED BY <3>1, <1>6, <2>1
  <2>4. ASSUME NEW r \in 1..L, r # d PROVE w[r] \in Named(v)
    <3>1. PICK q \in 1..(L - 1) : o(q) = r
      BY <2>4, <1>5
    <3>2. q \in 1..L /\ v[q] = w[r]
      BY <3>1, <1>1, <1>3
    <3>. QED BY <3>2, <2>1
  <2>. QED BY <2>1, <2>2, <2>3, <2>4
<1>15. ASSUME NEW j \in 1..(i + 1), s[j] \notin Named(v)
       PROVE  L = n /\ Named(v) \subseteq Since(s, j, i + 1)
  <2>1. j \in 1..i
    BY <1>14, <1>15 DEF e
  <2>2. Since(s, j, i + 1) = Since(s, j, i) \cup {e}
    BY <2>1, SinceNext DEF e
  <2>3. CASE s[j] \notin Named(w)
    BY <2>1, <2>2, <2>3, <1>14 DEF CacheInv, L
  <2>4. CASE s[j] \in Named(w)
    <3>1. s[j] = w[d] /\ s[j] # e
      BY <2>4, <1>14, <1>15 DEF Named, L
    <3>2. d = 1 /\ L = n
      BY <3>1, <1>8
    <3>3. PICK k \in 1..i : s[k] = w[1] /\ Since(s, k, i) = After(w, 1)
      BY <3>2, <1>1 DEF CacheInv, L
    <3>4. w[1] \notin After(w, 1)
      BY <1>1, <1>2 DEF After, L
    <3>5. j <= k
      <4>1. j > k => j \in (k + 1)..i
        BY <2>1
      <4>2. j > k => s[j] \in Since(s, k, i)
        BY <4>1 DEF Since
      <4>. QED BY <4>2, <3>1, <3>2, <3>3, <3>4
    <3>6. Since(s, k, i) \subseteq Since(s, j, i)
      <4>1. (k + 1)..i \subseteq (j + 1)..i
        BY <3>5
      <4>. QED BY <4>1 DEF Since
    <3>7. Named(v) \subseteq After(w, 1) \cup {e}
      <4>1. ASSUME NEW q \in 1..L PROVE v[q] \in After(w, 1) \cup {e}
        <5>1. CASE q = L
          BY <5>1, <1>6
        <5>2. CASE q # L
          <6>1. q \in 1..(L - 1) /\ q + 1 \in 2..L
            BY <5>2, <1>1
          <6>2. v[q] = w[q + 1]
            BY <6>1, <3>2, <1>3 DEF o
          <6>3. w[q + 1] \in After(w, 1)
            BY <6>1 DEF After, L
          <6>. QED BY <6>2, <6>3
        <5>. QED BY <5>1, <5>2
      <4>. QED BY <4>1, <1>9 DEF Named
    <3>. QED BY <3>2, <3>3, <3>6, <3>7, <2>2
  <2>. QED BY <2>3, <2>4
<1>. QED BY <1>1, <1>9, <1>11, <1>13, <1>15 DEF CacheInv

\* A cache with room takes a new expert in behind.
LEMMA CacheGrows ==
    ASSUME NEW s \in Seq(Expert), NEW n \in Nat, NEW i \in Nat, i + 1 <= Len(s),
           NEW w, CacheInv(s, n, i, w), Len(w) < n, s[i + 1] \notin Named(w),
           NEW v \in Seq(Expert), Len(v) = Len(w) + 1, v[Len(w) + 1] = s[i + 1],
           \A q \in 1..Len(w) : v[q] = w[q]
    PROVE  CacheInv(s, n, i + 1, v)
<1>. DEFINE L == Len(w)
<1>. DEFINE e == s[i + 1]
<1>1. L \in Nat /\ L < n /\ Len(v) = L + 1 /\ v[L + 1] = e
  BY DEF CacheInv
<1>2. \A p, q \in 1..L : w[p] = w[q] => p = q
  BY DEF CacheInv
<1>3. \A q \in 1..L : v[q] = w[q] /\ w[q] # e
  BY DEF Named
<1>4. \A j \in 1..i : s[j] \in Named(w)
  <2>1. L # n
    BY <1>1
  <2>. QED BY <2>1 DEF CacheInv
<1>. HIDE DEF e, L
<1>5. \A q \in 1..(L + 1) : q \in 1..L \/ q = L + 1
  BY <1>1
<1>6. ASSUME NEW p \in 1..(L + 1), NEW q \in 1..(L + 1), v[p] = v[q] PROVE p = q
  <2>1. CASE p \in 1..L /\ q \in 1..L
    BY <1>2, <1>3, <1>6, <2>1
  <2>2. CASE p \in 1..L /\ q = L + 1
    BY <1>1, <1>3, <1>6, <2>2
  <2>3. CASE p = L + 1 /\ q \in 1..L
    BY <1>1, <1>3, <1>6, <2>3
  <2>. QED BY <1>5, <1>6, <2>1, <2>2, <2>3
<1>7. ASSUME NEW p \in 1..L PROVE After(v, p) = After(w, p) \cup {e}
  <2>1. (p + 1)..(L + 1) = (p + 1)..L \cup {L + 1}
    <3>1. p \in Nat /\ p <= L
      BY <1>1
    <3>. QED BY <3>1, <1>1, IntervalGrows
  <2>2. \A q \in (p + 1)..L : q \in 1..L
    BY <1>1
  <2>3. After(v, p) = {v[q] : q \in (p + 1)..(L + 1)} /\ After(w, p) = {w[q] : q \in (p + 1)..L}
    BY <1>1 DEF After, L
  <2>. QED BY <2>1, <2>2, <2>3, <1>1, <1>3
<1>8. ASSUME NEW p \in 1..(L + 1)
      PROVE  \E j \in 1..(i + 1) : s[j] = v[p] /\ Since(s, j, i + 1) = After(v, p)
  <2>1. CASE p = L + 1
    <3>1. After(v, p) = {}
      <4>1. (p + 1)..(L + 1) = {}
        BY <1>1, <2>1
      <4>. QED BY <4>1, <1>1 DEF After
    <3>2. i + 1 \in 1..(i + 1) /\ s[i + 1] = v[p]
      BY <1>1, <2>1 DEF e
    <3>. QED BY <3>1, <3>2, SinceNext
  <2>2. CASE p \in 1..L
    <3>1. PICK j \in 1..i : s[j] = w[p] /\ Since(s, j, i) = After(w, p)
      BY <2>2 DEF CacheInv, L
    <3>2. Since(s, j, i + 1) = After(v, p)
      <4>1. Since(s, j, i + 1) = Since(s, j, i) \cup {e}
        BY SinceNext DEF e
      <4>2. After(v, p) = After(w, p) \cup {e}
        BY <2>2, <1>7
      <4>. QED BY <4>1, <4>2, <3>1
    <3>3. j \in 1..(i + 1) /\ s[j] = v[p]
      BY <3>1, <2>2, <1>3
    <3>. QED BY <3>2, <3>3
  <2>. QED BY <1>5, <2>1, <2>2
<1>9. Named(w) \subseteq Named(v) /\ e \in Named(v)
  <2>1. 1..L \subseteq 1..(L + 1) /\ L + 1 \in 1..(L + 1)
    BY <1>1
  <2>2. Named(v) = {v[q] : q \in 1..(L + 1)} /\ Named(w) = {w[q] : q \in 1..L}
    BY <1>1 DEF Named, L
  <2>. QED BY <2>1, <2>2, <1>1, <1>3
<1>10. ASSUME NEW j \in 1..(i + 1) PROVE s[j] \in Named(v)
  <2>1. j \in 1..i \/ j = i + 1
    OBVIOUS
  <2>. QED BY <2>1, <1>4, <1>9 DEF e
<1>11. L + 1 <= n
  BY <1>1
<1>. QED BY <1>1, <1>6, <1>8, <1>10, <1>11 DEF CacheInv

LEMMA Removed ==
    ASSUME NEW w \in Seq(Expert), NEW e \in Expert, NEW d \in 1..Len(w)
    PROVE  LET v == Append(RemoveAt(w, d), e) IN
           /\ v \in Seq(Expert) /\ Len(v) = Len(w) /\ v[Len(w)] = e
           /\ \A q \in 1..(Len(w) - 1) : v[q] = IF q < d THEN w[q] ELSE w[q + 1]
<1>. DEFINE A == SubSeq(w, 1, d - 1)
<1>. DEFINE B == SubSeq(w, d + 1, Len(w))
<1>1. /\ A \in Seq(Expert) /\ Len(A) = d - 1
      /\ \A q \in 1..(d - 1) : A[q] = w[q]
  OBVIOUS
<1>2. /\ B \in Seq(Expert) /\ Len(B) = Len(w) - d
      /\ \A q \in 1..(Len(w) - d) : B[q] = w[q + d]
  OBVIOUS
<1>. HIDE DEF A, B
<1>. DEFINE R == A \o B
<1>3. R \in Seq(Expert) /\ Len(R) = Len(w) - 1
  <2>1. R \in Seq(Expert) /\ Len(R) = Len(A) + Len(B)
    <3>1. A \in Seq(Expert) /\ B \in Seq(Expert)
      BY <1>1, <1>2
    <3>. QED BY <3>1, ConcatProperties
  <2>2. d \in Int /\ Len(w) \in Int
    OBVIOUS
  <2>. QED BY <2>1, <2>2, <1>1, <1>2
<1>4. ASSUME NEW q \in 1..(Len(w) - 1) PROVE R[q] = IF q < d THEN w[q] ELSE w[q + 1]
  <2>1. CASE q < d
    <3>1. q \in 1..Len(A)
      BY <1>1, <2>1
    <3>2. R[q] = A[q]
      BY <3>1, <1>1, <1>2
    <3>. QED BY <3>1, <3>2, <1>1, <2>1
  <2>2. CASE ~(q < d)
    <3>1. q - (d - 1) \in 1..(Len(w) - d) /\ q - (d - 1) + d = q + 1
      BY <2>2
    <3>2. R[q] = B[q - (d - 1)]
      BY <3>1, <1>1, <1>2, <2>2
    <3>. QED BY <3>1, <3>2, <1>2, <2>2
  <2>. QED BY <2>1, <2>2
<1>5. RemoveAt(w, d) = R
  BY DEF RemoveAt, A, B
<1>. HIDE DEF R
<1>. DEFINE v == Append(R, e)
<1>6. v \in Seq(Expert) /\ Len(v) = Len(w) /\ v[Len(w)] = e /\ \A q \in 1..(Len(w) - 1) : v[q] = R[q]
  BY <1>3
<1>. QED BY <1>4, <1>5, <1>6

\* A draw keeps the cache as it should be, and is a hit when it finds its expert there.
LEMMA DrawRight ==
    ASSUME NEW s \in Seq(Expert), NEW n \in Nat, n > 0, NEW i \in Nat, i + 1 <= Len(s),
           NEW c, CacheInv(s, n, i, c.cache)
    PROVE  /\ CacheInv(s, n, i + 1, Draw(c, s[i + 1], n).cache)
           /\ Draw(c, s[i + 1], n).hits = IF s[i + 1] \in Named(c.cache) THEN c.hits + 1 ELSE c.hits
<1>. DEFINE w == c.cache
<1>. DEFINE e == s[i + 1]
<1>1. w \in Seq(Expert) /\ Len(w) \in Nat /\ Len(w) <= n /\ DOMAIN w = 1..Len(w)
  BY DEF CacheInv
<1>2. e \in Expert
  OBVIOUS
<1>3. CacheInv(s, n, i, w)
  OBVIOUS
<1>4. e \in Named(w) <=> \E p \in DOMAIN w : w[p] = e
  BY <1>1 DEF Named
<1>. HIDE DEF w, e
<1>5. CASE e \in Named(w)
  <2>. DEFINE d == CHOOSE p \in DOMAIN w : w[p] = e
  <2>1. d \in 1..Len(w) /\ w[d] = e
    BY <1>1, <1>4, <1>5
  <2>. DEFINE v == Append(RemoveAt(w, d), e)
  <2>2. Draw(c, e, n) = [cache |-> v, hits |-> c.hits + 1]
    BY <1>4, <1>5 DEF Draw, w
  <2>. HIDE DEF d
  <2>3. /\ v \in Seq(Expert) /\ Len(v) = Len(w) /\ v[Len(w)] = e
        /\ \A q \in 1..(Len(w) - 1) : v[q] = IF q < d THEN w[q] ELSE w[q + 1]
    BY <1>1, <1>2, <2>1, Removed
  <2>. HIDE DEF v
  <2>4. CacheInv(s, n, i + 1, v)
    BY <1>3, <2>1, <2>3, CacheShifts DEF e
  <2>. QED BY <2>2, <2>4, <1>5 DEF e, w
<1>6. CASE e \notin Named(w) /\ Len(w) >= n
  <2>. DEFINE v == Append(Tail(w), e)
  <2>1. Draw(c, e, n) = [cache |-> v, hits |-> c.hits]
    BY <1>4, <1>6 DEF Draw, w
  <2>2. Len(w) = n /\ 1 \in 1..Len(w)
    <3>. DEFINE L == Len(w)
    <3>1. L \in Nat /\ L <= n /\ L >= n
      BY <1>1, <1>6
    <3>. HIDE DEF L
    <3>2. L = n /\ 1 \in 1..L
      BY <3>1
    <3>. QED BY <3>2 DEF L
  <2>3. Tail(w) \in Seq(Expert) /\ Len(Tail(w)) = Len(w) - 1 /\ \A q \in 1..(Len(w) - 1) : Tail(w)[q] = w[q + 1]
    BY <1>1, <2>2
  <2>4. v \in Seq(Expert) /\ Len(v) = Len(w) /\ v[Len(w)] = e /\ \A q \in 1..(Len(w) - 1) : v[q] = Tail(w)[q]
    BY <1>1, <1>2, <2>2, <2>3
  <2>5. \A q \in 1..(Len(w) - 1) : v[q] = IF q < 1 THEN w[q] ELSE w[q + 1]
    BY <2>3, <2>4
  <2>. HIDE DEF v
  <2>6. CacheInv(s, n, i + 1, v)
    BY <1>3, <1>6, <2>2, <2>4, <2>5, CacheShifts DEF e
  <2>. QED BY <2>1, <2>6, <1>6 DEF e, w
<1>7. CASE e \notin Named(w) /\ ~(Len(w) >= n)
  <2>. DEFINE v == Append(w, e)
  <2>1. Draw(c, e, n) = [cache |-> v, hits |-> c.hits]
    BY <1>4, <1>7 DEF Draw, w
  <2>2. v \in Seq(Expert) /\ Len(v) = Len(w) + 1 /\ v[Len(w) + 1] = e /\ \A q \in 1..Len(w) : v[q] = w[q]
    BY <1>1, <1>2
  <2>3. Len(w) < n
    BY <1>1, <1>7
  <2>. HIDE DEF v
  <2>4. CacheInv(s, n, i + 1, v)
    BY <1>3, <1>7, <2>2, <2>3, CacheGrows DEF e
  <2>. QED BY <2>1, <2>4, <1>7 DEF e, w
<1>. QED BY <1>5, <1>6, <1>7

\* Every draw follows from the one before.
LEMMA LruRunSteps ==
    ASSUME NEW s \in Seq(Expert), NEW n
    PROVE  /\ LruRun(s, n)[0] = [cache |-> <<>>, hits |-> 0]
           /\ \A i \in 1..Len(s) : LruRun(s, n)[i] = Draw(LruRun(s, n)[i - 1], s[i], n)
<1>. DEFINE N == Len(s)
<1>. DEFINE I0 == [cache |-> <<>>, hits |-> 0]
<1>. DEFINE d(c, i) == Draw(c, s[i], n)
<1>. DEFINE Body(f) == [i \in 0..N |-> IF i = 0 THEN I0 ELSE d(f[i - 1], i)]
<1>. DEFINE Runs(g, k) == g[0] = I0 /\ \A i \in 1..k : g[i] = d(g[i - 1], i)
<1>. DEFINE K == {k \in Nat : k <= N /\ ~\E g : Runs(g, k)}
<1>1. N \in Nat
  OBVIOUS
<1>2. LruRun(s, n) = CHOOSE f : f = Body(f)
  BY DEF LruRun
<1>3. DOMAIN s = 1..N
  OBVIOUS
<1>. HIDE DEF I0, d, N
<1>4. ASSUME K # {} PROVE FALSE
  <2>1. PICK k \in K : \A m \in K : k <= m
    <3>1. K \subseteq Nat
      OBVIOUS
    <3>. HIDE DEF K
    <3>. QED BY <1>4, <3>1, LeastNat
  <2>2. k \in Nat /\ k <= N /\ ~\E g : Runs(g, k)
    BY <2>1
  <2>3. CASE k = 0
    <3>. DEFINE g == [x \in {0} |-> I0]
    <3>1. g[0] = I0 /\ 1..k = {}
      BY <2>3
    <3>2. Runs(g, k)
      BY <3>1
    <3>. HIDE DEF g
    <3>. QED BY <3>2, <2>2
  <2>4. CASE k # 0
    <3>1. k - 1 \in Nat /\ k - 1 <= N /\ ~(k <= k - 1)
      BY <2>2, <2>4, <1>1
    <3>2. k - 1 \notin K
      <4>. HIDE DEF K
      <4>. QED BY <2>1, <3>1
    <3>3. PICK g : Runs(g, k - 1)
      BY <3>1, <3>2
    <3>. DEFINE h == [x \in 0..k |-> IF x < k THEN g[x] ELSE d(g[k - 1], k)]
    <3>4. /\ h[0] = g[0] /\ h[k] = d(g[k - 1], k) /\ h[k - 1] = g[k - 1]
          /\ \A i \in 1..(k - 1) : h[i] = g[i] /\ h[i - 1] = g[i - 1]
      BY <2>2, <2>4
    <3>. HIDE DEF h
    <3>5. ASSUME NEW i \in 1..k PROVE h[i] = d(h[i - 1], i)
      <4>1. CASE i = k
        BY <4>1, <3>4
      <4>2. CASE i # k
        <5>1. i \in 1..(k - 1)
          BY <4>2, <2>2
        <5>2. h[i] = g[i] /\ h[i - 1] = g[i - 1] /\ g[i] = d(g[i - 1], i)
          BY <5>1, <3>4, <3>3
        <5>. QED BY <5>2
      <4>. QED BY <4>1, <4>2
    <3>6. Runs(h, k)
      BY <3>4, <3>5, <3>3
    <3>. QED BY <3>6, <2>2
  <2>. QED BY <2>3, <2>4
<1>5. \E g : Runs(g, N)
  <2>. HIDE DEF Runs
  <2>1. N \in Nat /\ N <= N /\ N \notin K
    <3>1. K = {}
      BY <1>4
    <3>. HIDE DEF K
    <3>. QED BY <1>1, <3>1
  <2>. QED BY <2>1
<1>6. PICK g : Runs(g, N)
  BY <1>5
<1>. DEFINE f == [i \in 0..N |-> g[i]]
<1>7. f = Body(f)
  <2>1. ASSUME NEW i \in 0..N PROVE f[i] = Body(f)[i]
    <3>1. CASE i = 0
      BY <3>1, <1>6
    <3>2. CASE i # 0
      <4>1. i \in 1..N /\ i - 1 \in 0..N
        BY <3>2, <1>1
      <4>2. f[i] = g[i] /\ f[i - 1] = g[i - 1] /\ g[i] = d(g[i - 1], i)
        BY <4>1, <1>6
      <4>3. Body(f)[i] = d(f[i - 1], i)
        <5>. HIDE DEF f
        <5>. QED BY <4>1, <3>2
      <4>. QED BY <4>2, <4>3
    <3>. QED BY <3>1, <3>2
  <2>2. f = [i \in 0..N |-> f[i]] /\ Body(f) = [i \in 0..N |-> Body(f)[i]]
    OBVIOUS
  <2>. HIDE DEF f, Body
  <2>. QED BY <2>1, <2>2
<1>. DEFINE r == LruRun(s, n)
<1>8. r = Body(r)
  <2>1. \E x : x = Body(x)
    <3>. HIDE DEF f, Body
    <3>. QED BY <1>7
  <2>. HIDE DEF Body
  <2>. QED BY <2>1, <1>2
<1>. HIDE DEF r
<1>9. r[0] = I0
  <2>1. 0 \in 0..N
    BY <1>1
  <2>. QED BY <2>1, <1>8
<1>10. ASSUME NEW i \in 1..N PROVE r[i] = d(r[i - 1], i)
  <2>1. i \in 0..N /\ i # 0
    BY <1>1
  <2>. QED BY <2>1, <1>8
<1>. QED BY <1>9, <1>10 DEF r, d, I0, N

\* What the cache holds are the experts drawn, with fewer than n others since.
LEMMA ReusedIsHit ==
    ASSUME NEW s \in Seq(Expert), NEW n \in Nat, n > 0, NEW i \in Nat, i + 1 <= Len(s),
           NEW w, CacheInv(s, n, i, w)
    PROVE  Reused(s, i + 1, n) <=> s[i + 1] \in Named(w)
<1>. DEFINE L == Len(w)
<1>. DEFINE e == s[i + 1]
<1>1. L \in Nat /\ L <= n
  BY DEF CacheInv
<1>2. Cardinality(Named(w)) = L
  BY <1>1, NamedOnce DEF CacheInv, Named
<1>3. IsFiniteSet(Expert)
  BY Sizes, FS_Interval DEF Expert
<1>4. Named(w) \subseteq Expert /\ \A j \in 1..i : Since(s, j, i) \subseteq Expert
  <2>1. w \in Seq(Expert)
    BY DEF CacheInv
  <2>2. \A q \in 1..Len(w) : w[q] \in Expert
    BY <2>1
  <2>3. \A k \in 1..i : s[k] \in Expert
    OBVIOUS
  <2>4. ASSUME NEW j \in 1..i PROVE \A k \in (j + 1)..i : k \in 1..i
    OBVIOUS
  <2>. QED BY <2>2, <2>3, <2>4 DEF Named, Since
<1>5. IsFiniteSet(Named(w)) /\ \A j \in 1..i : IsFiniteSet(Since(s, j, i) \ {e})
  <2>1. \A j \in 1..i : Since(s, j, i) \ {e} \subseteq Expert
    BY <1>4
  <2>. QED BY <2>1, <1>3, <1>4, FS_Subset
<1>6. Reused(s, i + 1, n) <=> \E j \in 1..i : s[j] = e /\ Cardinality(Since(s, j, i) \ {e}) < n
  <2>1. i + 1 - 1 = i
    OBVIOUS
  <2>. QED BY <2>1 DEF Reused, Since
<1>. HIDE DEF e, L
<1>7. ASSUME e \in Named(w)
      PROVE  \E j \in 1..i : s[j] = e /\ Cardinality(Since(s, j, i) \ {e}) < n
  <2>1. PICK p \in 1..L : w[p] = e
    BY <1>7 DEF Named, L
  <2>2. PICK j \in 1..i : s[j] = w[p] /\ Since(s, j, i) = After(w, p)
    BY <2>1 DEF CacheInv, L
  <2>3. After(w, p) \subseteq Named(w)
    <3>1. \A q \in (p + 1)..L : q \in 1..L
      OBVIOUS
    <3>. QED BY <3>1 DEF After, Named, L
  <2>4. Since(s, j, i) \ {e} \subseteq Named(w) \ {e}
    BY <2>2, <2>3
  <2>5. Cardinality(Named(w) \ {e}) = L - 1 /\ IsFiniteSet(Named(w) \ {e})
    BY <1>2, <1>5, <1>7, FS_RemoveElement
  <2>6. Cardinality(Since(s, j, i) \ {e}) <= L - 1
    <3>. DEFINE S == Since(s, j, i) \ {e}
    <3>. DEFINE T == Named(w) \ {e}
    <3>1. S \subseteq T /\ IsFiniteSet(T) /\ Cardinality(T) = L - 1
      BY <2>4, <2>5
    <3>. HIDE DEF S, T
    <3>2. Cardinality(S) <= Cardinality(T)
      BY <3>1, FS_Subset
    <3>. QED BY <3>1, <3>2 DEF S
  <2>7. Cardinality(Since(s, j, i) \ {e}) \in Nat
    BY <1>5, FS_CardinalityType
  <2>8. Cardinality(Since(s, j, i) \ {e}) < n
    <3>. DEFINE c == Cardinality(Since(s, j, i) \ {e})
    <3>. HIDE DEF c
    <3>1. c \in Nat /\ c <= L - 1
      BY <2>6, <2>7 DEF c
    <3>2. c < n
      BY <3>1, <1>1
    <3>. QED BY <3>2 DEF c
  <2>. QED BY <2>1, <2>2, <2>8
<1>8. ASSUME NEW j \in 1..i, s[j] = e, Cardinality(Since(s, j, i) \ {e}) < n, e \notin Named(w)
      PROVE  FALSE
  <2>1. L = n /\ Named(w) \subseteq Since(s, j, i)
    BY <1>8 DEF CacheInv, L
  <2>. DEFINE S == Since(s, j, i) \ {e}
  <2>2. Named(w) \subseteq S /\ IsFiniteSet(S) /\ Cardinality(S) < n
    BY <2>1, <1>5, <1>8
  <2>. HIDE DEF S
  <2>3. Cardinality(Named(w)) <= Cardinality(S) /\ Cardinality(S) \in Nat
    BY <2>2, FS_Subset, FS_CardinalityType
  <2>. QED BY <2>1, <2>2, <2>3, <1>2
<1>. QED BY <1>6, <1>7, <1>8 DEF e

\* After i draws the cache is as it should be, and its hits are the reuses among them.
LEMMA LruRunRight ==
    ASSUME NEW s \in Seq(Expert), NEW n \in Nat, n > 0, NEW i \in 0..Len(s)
    PROVE  /\ CacheInv(s, n, i, LruRun(s, n)[i].cache)
           /\ LruRun(s, n)[i].hits = Cardinality({k \in 1..i : Reused(s, k, n)})
<1>. DEFINE r == LruRun(s, n)
<1>. DEFINE R(k) == {m \in 1..k : Reused(s, m, n)}
<1>. DEFINE Good(k) == CacheInv(s, n, k, r[k].cache) /\ r[k].hits = Cardinality(R(k))
<1>. DEFINE K == {k \in Nat : k <= Len(s) /\ ~Good(k)}
<1>1. r[0] = [cache |-> <<>>, hits |-> 0] /\ \A k \in 1..Len(s) : r[k] = Draw(r[k - 1], s[k], n)
  BY LruRunSteps
<1>. HIDE DEF r
<1>2. Good(0)
  <2>1. r[0].cache = <<>> /\ r[0].hits = 0
    BY <1>1
  <2>2. R(0) = {}
    OBVIOUS
  <2>3. CacheInv(s, n, 0, <<>>)
    BY DEF CacheInv
  <2>. QED BY <2>1, <2>2, <2>3, FS_EmptySet
<1>3. ASSUME NEW k \in Nat, k + 1 <= Len(s), Good(k) PROVE Good(k + 1)
  <2>. DEFINE c == r[k]
  <2>1. r[k + 1] = Draw(c, s[k + 1], n)
    <3>1. k + 1 \in 1..Len(s) /\ k + 1 - 1 = k
      BY <1>3
    <3>. HIDE DEF c
    <3>. QED BY <3>1, <1>1 DEF c
  <2>2. CacheInv(s, n, k, c.cache) /\ c.hits = Cardinality(R(k))
    BY <1>3
  <2>. HIDE DEF c
  <2>3. /\ CacheInv(s, n, k + 1, r[k + 1].cache)
        /\ r[k + 1].hits = IF s[k + 1] \in Named(c.cache) THEN c.hits + 1 ELSE c.hits
    BY <2>1, <2>2, <1>3, DrawRight
  <2>4. Reused(s, k + 1, n) <=> s[k + 1] \in Named(c.cache)
    BY <2>2, <1>3, ReusedIsHit
  <2>5. IsFiniteSet(R(k)) /\ k + 1 \notin R(k) /\ 1..(k + 1) = 1..k \cup {k + 1}
    <3>1. R(k) \subseteq 1..k /\ IsFiniteSet(1..k)
      BY FS_Interval
    <3>2. IsFiniteSet(R(k))
      BY <3>1, FS_Subset
    <3>. QED BY <3>2
  <2>6. R(k + 1) = IF Reused(s, k + 1, n) THEN R(k) \cup {k + 1} ELSE R(k)
    BY <2>5
  <2>7. Reused(s, k + 1, n) => Cardinality(R(k + 1)) = Cardinality(R(k)) + 1
    <3>. DEFINE S == R(k)
    <3>1. IsFiniteSet(S) /\ k + 1 \notin S
      BY <2>5
    <3>. HIDE DEF S
    <3>2. Cardinality(S \cup {k + 1}) = Cardinality(S) + 1
      BY <3>1, FS_AddElement
    <3>. QED BY <3>2, <2>6 DEF S
  <2>8. r[k + 1].hits = Cardinality(R(k + 1))
    <3>. HIDE DEF R
    <3>1. CASE Reused(s, k + 1, n)
      BY <3>1, <2>2, <2>3, <2>4, <2>7
    <3>2. CASE ~Reused(s, k + 1, n)
      BY <3>2, <2>2, <2>3, <2>4, <2>6
    <3>. QED BY <3>1, <3>2
  <2>. QED BY <2>3, <2>8
<1>. HIDE DEF Good
<1>4. ASSUME K # {} PROVE FALSE
  <2>1. PICK k \in K : \A m \in K : k <= m
    <3>1. K \subseteq Nat
      OBVIOUS
    <3>. HIDE DEF K
    <3>. QED BY <1>4, <3>1, LeastNat
  <2>2. k \in Nat /\ k <= Len(s) /\ ~Good(k) /\ k # 0
    BY <2>1, <1>2
  <2>3. k - 1 \in Nat /\ k - 1 + 1 = k /\ k - 1 <= Len(s) /\ ~(k <= k - 1)
    BY <2>2
  <2>4. k - 1 \notin K
    <3>. HIDE DEF K
    <3>. QED BY <2>1, <2>3
  <2>5. Good(k - 1)
    BY <2>3, <2>4
  <2>. DEFINE m == k - 1
  <2>6. m \in Nat /\ m + 1 = k /\ Good(m)
    BY <2>3, <2>5
  <2>. HIDE DEF m
  <2>7. Good(m + 1)
    BY <2>2, <2>6, <1>3
  <2>. QED BY <2>2, <2>6, <2>7
<1>5. Good(i)
  BY <1>4
<1>. QED BY <1>5 DEF Good, r

Reuses(s, n) == {i \in DOMAIN s : Reused(s, i, n)}

LEMMA ReusesType ==
    ASSUME NEW s \in Seq(Expert), NEW n
    PROVE  /\ IsFiniteSet(DOMAIN s) /\ Cardinality(DOMAIN s) = Len(s)
           /\ IsFiniteSet(Reuses(s, n)) /\ Reuses(s, n) \subseteq DOMAIN s /\ Cardinality(Reuses(s, n)) \in Nat
<1>1. DOMAIN s = 1..Len(s) /\ Len(s) \in Nat
  BY StreamType
<1>2. IsFiniteSet(1..Len(s)) /\ Cardinality(1..Len(s)) = Len(s)
  <2>. DEFINE L == Len(s)
  <2>. HIDE DEF L
  <2>1. L \in Nat
    BY <1>1 DEF L
  <2>2. IsFiniteSet(1..L) /\ Cardinality(1..L) = L
    BY <2>1, FS_Interval, SMTT(20)
  <2>. QED BY <2>2 DEF L
<1>3. Reuses(s, n) \subseteq DOMAIN s
  BY DEF Reuses
<1>4. IsFiniteSet(Reuses(s, n))
  BY <1>1, <1>2, <1>3, FS_Subset
<1>. QED BY <1>1, <1>2, <1>3, <1>4, FS_CardinalityType

\* Without slots nothing is served.
LEMMA NoneReused ==
    ASSUME NEW s \in Seq(Expert)
    PROVE  Reuses(s, 0) = {}
<1>1. ASSUME NEW i \in DOMAIN s, NEW j \in 1..(i - 1)
      PROVE  ~(Cardinality({s[k] : k \in (j + 1)..(i - 1)} \ {s[i]}) < 0)
  <2>. DEFINE S == {s[k] : k \in (j + 1)..(i - 1)} \ {s[i]}
  <2>1. \A k \in (j + 1)..(i - 1) : k \in 1..Len(s)
    BY StreamType
  <2>2. S \subseteq Expert
    BY <2>1, StreamType
  <2>3. IsFiniteSet(Expert)
    BY Sizes, FS_Interval DEF Expert
  <2>. HIDE DEF S
  <2>4. Cardinality(S) \in Nat
    BY <2>2, <2>3, FS_Subset, FS_CardinalityType
  <2>5. ~(Cardinality(S) < 0)
    BY <2>4
  <2>. QED BY <2>5 DEF S
<1>. QED BY <1>1 DEF Reuses, Reused

\* With a slot for each, every draw but an expert's first is a reuse.
LEMMA AllReused ==
    ASSUME NEW s \in Seq(Expert), NEW n \in Nat, n > 0, n >= Cardinality(ToSet(s))
    PROVE  Len(s) = Cardinality(Reuses(s, n)) + Cardinality(ToSet(s))
<1>. DEFINE D == ToSet(s)
<1>. DEFINE F == (DOMAIN s) \ Reuses(s, n)
<1>1. DOMAIN s = 1..Len(s) /\ Len(s) \in Nat /\ IsFiniteSet(D) /\ Cardinality(D) \in Nat
  BY StreamType, FS_CardinalityType
<1>2. ASSUME NEW i \in 1..Len(s), NEW j \in 1..(i - 1), s[j] = s[i]
      PROVE  i \in Reuses(s, n)
  <2>. DEFINE S == {s[k] : k \in (j + 1)..(i - 1)} \ {s[i]}
  <2>1. \A k \in (j + 1)..(i - 1) : k \in DOMAIN s
    BY <1>1
  <2>2. S \subseteq D \ {s[i]} /\ s[i] \in D
    BY <2>1, <1>1 DEF ToSet
  <2>3. Cardinality(D \ {s[i]}) = Cardinality(D) - 1 /\ IsFiniteSet(D \ {s[i]})
    <3>. HIDE DEF D
    <3>. QED BY <2>2, <1>1, FS_RemoveElement
  <2>. DEFINE T == D \ {s[i]}
  <2>4. S \subseteq T /\ IsFiniteSet(T) /\ Cardinality(T) = Cardinality(D) - 1
    BY <2>2, <2>3
  <2>. HIDE DEF S, T, D
  <2>5. Cardinality(S) <= Cardinality(T) /\ Cardinality(S) \in Nat
    BY <2>4, FS_Subset, FS_CardinalityType
  <2>6. Cardinality(S) < n
    BY <2>4, <2>5, <1>1 DEF D
  <2>7. Reused(s, i, n)
    BY <2>6, <1>2 DEF S, Reused
  <2>. QED BY <2>7, <1>1 DEF Reuses
<1>3. ASSUME NEW i \in DOMAIN s
      PROVE  i \in F <=> \A j \in 1..(i - 1) : s[j] # s[i]
  <2>1. i \in Reuses(s, n) => \E j \in 1..(i - 1) : s[j] = s[i]
    BY DEF Reuses, Reused
  <2>2. (\E j \in 1..(i - 1) : s[j] = s[i]) => i \in Reuses(s, n)
    BY <1>1, <1>2
  <2>. QED BY <2>1, <2>2
<1>. HIDE DEF F
<1>4. ASSUME NEW e \in D PROVE First(s, e) \in F /\ s[First(s, e)] = e
  <2>1. First(s, e) \in 1..Len(s) /\ s[First(s, e)] = e /\ \A j \in 1..(First(s, e) - 1) : s[j] # e
    BY FirstType
  <2>. QED BY <2>1, <1>1, <1>3
<1>5. F \subseteq DOMAIN s
  BY DEF F
<1>6. ASSUME NEW i \in F PROVE s[i] \in D /\ First(s, s[i]) = i
  <2>1. i \in DOMAIN s /\ s[i] \in D
    BY <1>5 DEF ToSet
  <2>. DEFINE f == First(s, s[i])
  <2>2. f \in 1..Len(s) /\ s[f] = s[i] /\ \A j \in 1..(f - 1) : s[j] # s[i]
    BY <2>1, FirstType
  <2>3. \A j \in 1..(i - 1) : s[j] # s[i]
    BY <2>1, <1>3
  <2>4. i \in 1..Len(s)
    BY <2>1, <1>1
  <2>. HIDE DEF f
  <2>5. f < i => f \in 1..(i - 1)
    BY <2>2, <2>4, <1>1
  <2>6. i < f => i \in 1..(f - 1)
    BY <2>2, <2>4, <1>1
  <2>7. f = i
    BY <2>2, <2>3, <2>4, <2>5, <2>6
  <2>. QED BY <2>1, <2>7 DEF f
<1>. DEFINE b == [e \in D |-> First(s, e)]
<1>7. ExistsBijection(D, F)
  <2>1. b \in [D -> F]
    BY <1>4
  <2>2. \A e, f \in D : b[e] = b[f] => e = f
    BY <1>4
  <2>3. \A i \in F : \E e \in D : b[e] = i
    BY <1>6
  <2>. HIDE DEF b, D, F
  <2>4. b \in Injection(D, F)
    BY <2>1, <2>2 DEF Injection, IsInjective
  <2>5. b \in Surjection(D, F)
    BY <2>1, <2>3 DEF Surjection
  <2>. QED BY <2>4, <2>5 DEF ExistsBijection, Bijection
<1>8. Cardinality(F) = Cardinality(D)
  <2>. HIDE DEF D
  <2>. QED BY <1>1, <1>7, FS_Bijection
<1>9. Cardinality(F) = Cardinality(DOMAIN s) - Cardinality(Reuses(s, n))
  <2>. DEFINE A == DOMAIN s
  <2>. DEFINE B == Reuses(s, n)
  <2>1. IsFiniteSet(A) /\ B \subseteq A /\ F = A \ B
    BY ReusesType DEF F
  <2>. HIDE DEF A, B
  <2>2. A \cap B = B
    BY <2>1
  <2>3. Cardinality(F) = Cardinality(A) - Cardinality(A \cap B)
    BY <2>1, FS_Difference
  <2>. QED BY <2>2, <2>3 DEF A, B
<1>10. Cardinality(DOMAIN s) = Len(s) /\ Cardinality(Reuses(s, n)) \in Nat
  BY ReusesType
<1>. QED BY <1>1, <1>8, <1>9, <1>10

\* What the simulated cache hits is what the reuse distances say.
LEMMA LruHitsRight ==
    ASSUME NEW s \in Seq(Expert), NEW n \in Nat
    PROVE  LruHits(s, n) = IF n < Cardinality(ToSet(s)) THEN Cardinality(Reuses(s, n))
                           ELSE Cardinality(Reuses(s, n)) + Cardinality(ToSet(s))
<1>. DEFINE c == Cardinality(ToSet(s))
<1>1. c \in Nat /\ IsFiniteSet(ToSet(s)) /\ DOMAIN s = 1..Len(s) /\ Len(s) \in Nat
  BY StreamType, FS_CardinalityType
<1>2. CASE n = 0
  <2>1. Cardinality(Reuses(s, n)) = 0
    BY <1>2, NoneReused, FS_EmptySet
  <2>2. LruHits(s, n) = 0
    BY <1>2 DEF LruHits
  <2>. HIDE DEF c
  <2>3. 0 = IF n < c THEN 0 ELSE 0 + c
    BY <1>1, <1>2
  <2>. QED BY <2>1, <2>2, <2>3 DEF c
<1>3. CASE n > 0 /\ n < c
  <2>1. LruHits(s, n) = LruRun(s, n)[Len(s)].hits
    <3>. HIDE DEF c
    <3>1. n # 0 /\ ~(n >= c)
      BY <1>1, <1>3
    <3>. QED BY <3>1 DEF LruHits, c
  <2>2. Len(s) \in 0..Len(s)
    BY <1>1
  <2>3. LruRun(s, n)[Len(s)].hits = Cardinality({k \in 1..Len(s) : Reused(s, k, n)})
    BY <1>3, <2>2, LruRunRight
  <2>4. {k \in 1..Len(s) : Reused(s, k, n)} = Reuses(s, n)
    BY <1>1 DEF Reuses
  <2>. QED BY <1>3, <2>1, <2>3, <2>4
<1>4. CASE n > 0 /\ ~(n < c)
  <2>. HIDE DEF c
  <2>1. n # 0 /\ n >= c
    BY <1>1, <1>4
  <2>2. LruHits(s, n) = Len(s)
    BY <2>1 DEF LruHits, c
  <2>3. Len(s) = Cardinality(Reuses(s, n)) + c
    BY <2>1, <1>4, AllReused DEF c
  <2>. QED BY <1>4, <2>2, <2>3 DEF c
<1>. QED BY <1>2, <1>3, <1>4

-----------------------------------------------------------------------------
(* The streams of draws, and where they are cut *)

\* Typed: the trace is what the tracer wrote, and belongs to requests of known numbers.
TraceTyped ==
    /\ trace \in Seq(RecordType) /\ \A i \in DOMAIN trace : trace[i].req <= req_idx
    /\ req_idx \in Nat /\ at_layer \in 1..(NLayer + 1)

LEMMA RecordsAtType ==
    ASSUME TraceTyped, NEW l
    PROVE  /\ RecordsAt(l) \subseteq DOMAIN trace /\ RecordsAt(l) \subseteq Nat /\ IsFiniteSet(RecordsAt(l))
           /\ Cardinality(RecordsAt(l)) \in Nat
           /\ \A i \in RecordsAt(l) : trace[i].layer = l /\ trace[i].req \in 0..req_idx /\ trace[i].pos \in Nat
           /\ \A i \in RecordsAt(l) : trace[i].exp \in [1..NUsed -> Expert]
<1>1. DOMAIN trace = 1..Len(trace) /\ Len(trace) \in Nat /\ trace \in Seq(RecordType) /\ req_idx \in Nat
  BY DEF TraceTyped
<1>2. RecordsAt(l) \subseteq 1..Len(trace)
  BY <1>1 DEF RecordsAt
<1>3. IsFiniteSet(RecordsAt(l))
  <2>1. IsFiniteSet(1..Len(trace))
    BY <1>1, FS_Interval
  <2>. QED BY <2>1, <1>2, FS_Subset
<1>4. RecordsAt(l) \subseteq Nat
  <2>1. 1..Len(trace) \subseteq Nat
    BY <1>1
  <2>. QED BY <1>2, <2>1
<1>5. \A i \in RecordsAt(l) : i \in DOMAIN trace /\ trace[i].layer = l
  BY DEF RecordsAt
<1>6. \A i \in DOMAIN trace : trace[i].req \in Nat /\ trace[i].req <= req_idx /\ trace[i].pos \in Nat
                              /\ trace[i].exp \in [1..NUsed -> Expert]
  BY <1>1, RecordTyped DEF TraceTyped
<1>7. \A i \in RecordsAt(l) : trace[i].req \in 0..req_idx
  BY <1>1, <1>5, <1>6
<1>. QED BY <1>3, <1>4, <1>5, <1>6, <1>7, FS_CardinalityType

\* A layer's stream is made of experts, NUsed of them for each of its records.
LEMMA StreamRight ==
    ASSUME TraceTyped, NEW l
    PROVE  Stream(l) \in Seq(Expert) /\ Len(Stream(l)) = NUsed * Cardinality(RecordsAt(l))
<1>. DEFINE S == RecordsAt(l)
<1>. DEFINE m == Ascending(S)
<1>. DEFINE c == Cardinality(S)
<1>1. IsFiniteSet(S) /\ S \subseteq Nat /\ c \in Nat
  BY RecordsAtType
<1>2. \A i \in S : trace[i].exp \in [1..NUsed -> Expert]
  BY RecordsAtType
<1>3. m \in [1..c -> S]
  <2>. HIDE DEF S
  <2>. QED BY <1>1, AscendingRight
<1>. DEFINE x(d) == trace[m[((d - 1) \div NUsed) + 1]].exp[((d - 1) % NUsed) + 1]
<1>4. Stream(l) = [d \in 1..(NUsed * c) |-> x(d)]
  BY Zenon DEF Stream
<1>. HIDE DEF S, m, c
<1>5. NUsed * c \in Nat
  BY <1>1, Sizes
<1>6. ASSUME NEW d \in 1..(NUsed * c) PROVE x(d) \in Expert
  <2>. DEFINE i == d - 1
  <2>1. i \in Nat /\ i < c * NUsed
    BY <1>1, <1>5, Sizes
  <2>2. i \div NUsed \in 0..(c - 1) /\ i % NUsed \in 0..(NUsed - 1)
    <3>. HIDE DEF i
    <3>. QED BY <2>1, <1>1, Sizes, Quotient
  <2>. DEFINE a == i \div NUsed
  <2>. DEFINE b == i % NUsed
  <2>3. a \in 0..(c - 1) /\ b \in 0..(NUsed - 1)
    BY <2>2
  <2>4. x(d) = trace[m[a + 1]].exp[b + 1]
    OBVIOUS
  <2>. HIDE DEF a, b, x
  <2>5. a + 1 \in 1..c /\ b + 1 \in 1..NUsed
    BY <2>3, <1>1, Sizes
  <2>6. m[a + 1] \in S
    BY <2>5, <1>3
  <2>. QED BY <2>4, <2>5, <2>6, <1>2
<1>. HIDE DEF x
<1>. DEFINE N == NUsed * c
<1>7. N \in Nat /\ Stream(l) = [d \in 1..N |-> x(d)] /\ \A d \in 1..N : x(d) \in Expert
  BY <1>4, <1>5, <1>6
<1>. HIDE DEF N
<1>8. Stream(l) \in [1..N -> Expert]
  BY <1>7
<1>9. Stream(l) \in Seq(Expert) /\ Len(Stream(l)) = N
  BY <1>7, <1>8
<1>. QED BY <1>9 DEF N, c, S

\* A layer's records are told apart by request and position.
LEMMA RecordsApart ==
    ASSUME TraceTyped, RecordsInv, NEW l \in Layer, NEW i \in RecordsAt(l), NEW j \in RecordsAt(l),
           trace[i].req = trace[j].req, trace[i].pos = trace[j].pos
    PROVE  i = j
<1>. DEFINE q == trace[i].req
<1>1. q \in 0..req_idx /\ i \in RecordsOf(q, l) /\ j \in RecordsOf(q, l)
  BY RecordsAtType DEF RecordsAt, RecordsOf
<1>. HIDE DEF q
<1>2. \E n : Written(q, l, n)
  <2>1. CASE q \in 0..(req_idx - 1)
    BY <2>1 DEF RecordsInv
  <2>2. CASE q = req_idx
    <3>1. RecordsOf(req_idx, l) # {}
      BY <1>1, <2>2
    <3>. QED BY <2>2, <3>1 DEF RecordsInv
  <2>3. q \in 0..(req_idx - 1) \/ q = req_idx
    BY <1>1 DEF TraceTyped
  <2>. QED BY <2>1, <2>2, <2>3
<1>. QED BY <1>1, <1>2 DEF Written

\* A set of one layer's records is not larger than one of another's that has all its requests and
\* positions.
LEMMA FewerRecords ==
    ASSUME TraceTyped, RecordsInv, NEW k \in Layer, NEW l,
           NEW S, S \subseteq RecordsAt(k), NEW T, T \subseteq RecordsAt(l),
           \A i \in S : \E j \in T : trace[j].req = trace[i].req /\ trace[j].pos = trace[i].pos
    PROVE  Cardinality(S) <= Cardinality(T) /\ Cardinality(S) \in Nat /\ Cardinality(T) \in Nat
<1>1. IsFiniteSet(S) /\ IsFiniteSet(T)
  BY RecordsAtType, FS_Subset
<1>. DEFINE twin(i) == CHOOSE j \in T : trace[j].req = trace[i].req /\ trace[j].pos = trace[i].pos
<1>2. ASSUME NEW i \in S PROVE twin(i) \in T /\ trace[twin(i)].req = trace[i].req /\ trace[twin(i)].pos = trace[i].pos
  BY Zenon
<1>. HIDE DEF twin
<1>3. ASSUME NEW i \in S, NEW j \in S, twin(i) = twin(j) PROVE i = j
  <2>1. trace[i].req = trace[j].req /\ trace[i].pos = trace[j].pos
    BY <1>2, <1>3
  <2>. QED BY <2>1, RecordsApart
<1>. DEFINE f == [i \in S |-> twin(i)]
<1>4. f \in [S -> T] /\ \A i, j \in S : f[i] = f[j] => i = j
  BY <1>2, <1>3
<1>. HIDE DEF f
<1>5. f \in Injection(S, T)
  BY <1>4 DEF Injection, IsInjective
<1>. QED BY <1>1, <1>5, FS_Injection, FS_CardinalityType DEF ExistsInjection

\* Layers before the last have records of the same requests and positions.
LEMMA LayersAlike ==
    ASSUME TraceTyped, RecordsInv, NEW k \in Layer, NEW l \in Layer, l < NLayer,
           NEW i \in RecordsAt(k), k = NLayer \/ trace[i].req < req_idx
    PROVE  \E j \in RecordsAt(l) : trace[j].req = trace[i].req /\ trace[j].pos = trace[i].pos
<1>. DEFINE q == trace[i].req
<1>. DEFINE p == trace[i].pos
<1>1. q \in 0..req_idx /\ i \in RecordsOf(q, k) /\ p \in PositionsOf(q, k) /\ req_idx \in Nat
  BY RecordsAtType DEF RecordsAt, RecordsOf, PositionsOf, TraceTyped
<1>2. \A r \in PositionsOf(q, l) : \E j \in RecordsAt(l) : trace[j].req = q /\ trace[j].pos = r
  BY DEF PositionsOf, RecordsOf, RecordsAt
<1>. HIDE DEF q, p
<1>3. l \in Nat /\ k \in Nat /\ k <= NLayer /\ NLayer \in Nat
  BY Sizes DEF Layer
<1>4. \E n : Written(q, k, n) /\ Written(q, l, n)
  <2>1. CASE q \in 0..(req_idx - 1)
    BY <2>1 DEF RecordsInv
  <2>2. CASE q = req_idx
    <3>1. RecordsOf(req_idx, k) # {} /\ k = NLayer
      BY <1>1, <2>2 DEF q
    <3>2. k < at_layer /\ Written(req_idx, k, req_len)
      BY <3>1 DEF RecordsInv
    <3>3. l < at_layer
      <4>1. at_layer \in Int
        BY <1>3 DEF TraceTyped
      <4>. QED BY <4>1, <3>1, <3>2, <1>3
    <3>. QED BY <2>2, <3>2, <3>3 DEF RecordsInv
  <2>3. q \in 0..(req_idx - 1) \/ q = req_idx
    BY <1>1
  <2>. QED BY <2>1, <2>2, <2>3
<1>5. PICK n : Written(q, k, n) /\ Written(q, l, n)
  BY <1>4
<1>6. WholeIn(n, k) => WholeIn(n, l)
  BY DEF WholeIn
<1>7. PositionsOf(q, k) = (IF WholeIn(n, k) THEN 0..(n - 1) ELSE {})
      /\ PositionsOf(q, l) = (IF WholeIn(n, l) THEN 0..(n - 1) ELSE {})
  BY <1>5 DEF Written
<1>8. p \in PositionsOf(q, l)
  BY <1>1, <1>6, <1>7
<1>. QED BY <1>2, <1>8 DEF q, p

Cut == NReq \div CalOf
CalRecords(l) == {i \in RecordsAt(l) : trace[i].req < Cut}

LEMMA TracedType ==
    ASSUME TraceTyped
    PROVE  /\ Traced \subseteq Layer
           /\ \A l \in Traced : RecordsAt(l) # {}
           /\ Traced = {} => trace = <<>>
<1>1. trace \in Seq(RecordType)
  BY DEF TraceTyped
<1>2. Traced \subseteq Layer
  BY <1>1, RecordTyped DEF Traced
<1>3. \A l \in Traced : RecordsAt(l) # {}
  BY DEF Traced, RecordsAt
<1>4. ASSUME Traced = {} PROVE trace = <<>>
  <2>1. DOMAIN trace = {}
    BY <1>4 DEF Traced
  <2>2. DOMAIN trace = 1..Len(trace) /\ Len(trace) \in Nat
    BY <1>1
  <2>3. Len(trace) = 0
    <3>1. Len(trace) # 0 => 1 \in 1..Len(trace)
      BY <2>2
    <3>. QED BY <2>1, <2>2, <3>1
  <2>. QED BY <1>1, <2>3
<1>. QED BY <1>2, <1>3, <1>4

LEMMA FirstLayerRight ==
    ASSUME TraceTyped, Traced # {}
    PROVE  FirstLayer \in Traced /\ \A k \in Traced : FirstLayer <= k
<1>1. Traced \subseteq Nat
  BY TracedType, Sizes DEF Layer
<1>2. \E l \in Traced : \A k \in Traced : l <= k
  BY <1>1, LeastNat
<1>. QED BY <1>2 DEF FirstLayer

\* A set of numbers up to some bound has a largest.
LEMMA LargestNat ==
    ASSUME NEW b \in Nat, NEW S, S \subseteq 0..b, S # {}
    PROVE  Max(S) \in S /\ \A x \in S : x <= Max(S)
<1>. DEFINE T == {y \in 0..b : b - y \in S}
<1>1. T \subseteq Nat
  OBVIOUS
<1>2. T # {}
  <2>1. PICK x \in S : TRUE
    OBVIOUS
  <2>2. b - x \in 0..b /\ b - (b - x) = x
    BY <2>1
  <2>. QED BY <2>1, <2>2
<1>3. PICK y \in T : \A z \in T : y <= z
  <2>. HIDE DEF T
  <2>. QED BY <1>1, <1>2, LeastNat
<1>4. y \in 0..b /\ b - y \in S
  BY <1>3
<1>5. ASSUME NEW x \in S PROVE x <= b - y
  <2>1. x \in 0..b /\ b - x \in 0..b /\ b - (b - x) = x
    OBVIOUS
  <2>2. b - x \in T
    BY <2>1
  <2>3. y <= b - x
    BY <2>2, <1>3
  <2>. QED BY <2>1, <2>3, <1>4
<1>6. \E m \in S : \A x \in S : m >= x
  <2>1. \A x \in S : b - y >= x
    BY <1>4, <1>5
  <2>. QED BY <1>4, <2>1
<1>7. Max(S) \in S /\ \A x \in S : Max(S) >= x
  BY <1>6 DEF Max
<1>8. S \subseteq Int
  OBVIOUS
<1>. QED BY <1>7, <1>8

LEMMA CutType ==
    ASSUME TraceTyped, Traced # {}
    PROVE  Cut \in Int /\ CalDraws = NUsed * Cardinality(CalRecords(FirstLayer))
<1>. DEFINE S == {trace[i].req : i \in RecordsAt(FirstLayer)}
<1>1. RecordsAt(FirstLayer) # {} /\ \A i \in RecordsAt(FirstLayer) : trace[i].req \in 0..req_idx
  BY FirstLayerRight, TracedType, RecordsAtType
<1>2. S \subseteq 0..req_idx /\ S # {} /\ req_idx \in Nat
  BY <1>1 DEF TraceTyped
<1>. HIDE DEF S
<1>3. Max(S) \in Nat
  <2>1. Max(S) \in 0..req_idx
    BY <1>2, LargestNat
  <2>. QED BY <2>1, <1>2
<1>4. NReq = 1 + Max(S)
  BY DEF NReq, S
<1>5. Cut \in Int
  <2>1. NReq \in Nat /\ CalOf \in Nat \ {0}
    BY <1>3, <1>4, BudgetAssumption
  <2>. QED BY <2>1 DEF Cut
<1>. QED BY <1>5 DEF CalDraws, CalRecords, Cut

LEMMA CalRecordsType ==
    ASSUME TraceTyped, NEW l
    PROVE  CalRecords(l) \subseteq RecordsAt(l) /\ IsFiniteSet(CalRecords(l)) /\ Cardinality(CalRecords(l)) \in Nat
<1>1. CalRecords(l) \subseteq RecordsAt(l)
  BY DEF CalRecords
<1>. QED BY <1>1, RecordsAtType, FS_Subset, FS_CardinalityType

LEMMA DrawsCompare ==
    ASSUME NEW a \in Nat, NEW b \in Nat
    PROVE  NUsed * a <= NUsed * b <=> a <= b
<1>1. NUsed \in Nat /\ NUsed >= 1
  BY Sizes
<1>. DEFINE u == NUsed
<1>2. u \in Nat /\ u >= 1
  BY <1>1
<1>. HIDE DEF u
<1>3. ASSUME a <= b PROVE u * a <= u * b
  <2>1. b = a + (b - a) /\ b - a \in Nat
    BY <1>3
  <2>. DEFINE d == b - a
  <2>2. d \in Nat /\ b = a + d
    BY <2>1
  <2>. HIDE DEF d
  <2>3. u * b = u * a + u * d /\ u * d \in Nat /\ u * a \in Nat
    BY <2>2, <1>2
  <2>. QED BY <2>3
<1>4. ASSUME b < a PROVE u * b < u * a
  <2>. DEFINE d == a - b
  <2>1. d \in Nat /\ a = b + d /\ d >= 1
    BY <1>4
  <2>. HIDE DEF d
  <2>2. u * a = u * b + u * d /\ u * d \in Nat /\ u * b \in Nat
    BY <2>1, <1>2
  <2>3. u * d >= 1
    BY <2>1, <1>2
  <2>. QED BY <2>2, <2>3
<1>5. u * a \in Nat /\ u * b \in Nat
  BY <1>2
<1>6. u * a <= u * b <=> a <= b
  BY <1>3, <1>4, <1>5
<1>. QED BY <1>6 DEF u

\* Where something of every layer is left behind the calibration part, the cut is within what the
\* tracer finished, and falls between the same two requests in every layer but the last.
LEMMA CutWhole ==
    ASSUME TraceTyped, RecordsInv, Traced # {}, ~\E l \in Traced : Len(Stream(l)) <= CalDraws,
           NEW l \in Traced \ {NLayer}
    PROVE  CalDraws = NUsed * Cardinality(CalRecords(l))
<1>. DEFINE f == FirstLayer
<1>1. f \in Traced /\ f <= l /\ f \in Layer /\ l \in Layer
  BY FirstLayerRight, TracedType
<1>2. l < NLayer /\ f < NLayer /\ NLayer \in Nat
  BY <1>1, Sizes DEF Layer
<1>3. CalDraws = NUsed * Cardinality(CalRecords(f)) /\ Cut \in Int
  BY CutType
<1>. HIDE DEF f
<1>4. Cut <= req_idx
  <2>1. ASSUME \A i \in RecordsAt(f) : trace[i].req < Cut PROVE FALSE
    <3>1. CalRecords(f) = RecordsAt(f)
      BY <2>1 DEF CalRecords
    <3>2. Len(Stream(f)) = CalDraws
      BY <3>1, <1>3, StreamRight
    <3>3. Len(Stream(f)) \in Nat
      BY StreamRight, StreamType
    <3>4. Len(Stream(f)) <= CalDraws
      BY <3>2, <3>3
    <3>. QED BY <3>4, <1>1
  <2>2. PICK i \in RecordsAt(f) : ~(trace[i].req < Cut)
    BY <2>1
  <2>3. trace[i].req \in 0..req_idx /\ req_idx \in Nat
    BY RecordsAtType DEF TraceTyped
  <2>. QED BY <2>2, <2>3, <1>3
<1>5. ASSUME NEW k \in Layer, NEW m \in Layer, k < NLayer, m < NLayer
      PROVE  Cardinality(CalRecords(k)) <= Cardinality(CalRecords(m))
  <2>1. ASSUME NEW i \in CalRecords(k)
        PROVE  \E j \in CalRecords(m) : trace[j].req = trace[i].req /\ trace[j].pos = trace[i].pos
    <3>1. i \in RecordsAt(k) /\ trace[i].req < Cut /\ trace[i].req \in 0..req_idx /\ req_idx \in Nat
      BY RecordsAtType DEF CalRecords, TraceTyped
    <3>2. trace[i].req < req_idx
      BY <3>1, <1>3, <1>4
    <3>3. PICK j \in RecordsAt(m) : trace[j].req = trace[i].req /\ trace[j].pos = trace[i].pos
      BY <3>1, <3>2, <1>5, LayersAlike
    <3>4. j \in CalRecords(m)
      BY <3>1, <3>3 DEF CalRecords
    <3>. QED BY <3>3, <3>4
  <2>2. CalRecords(k) \subseteq RecordsAt(k) /\ CalRecords(m) \subseteq RecordsAt(m)
    BY CalRecordsType
  <2>. QED BY <2>1, <2>2, FewerRecords
<1>6. Cardinality(CalRecords(f)) = Cardinality(CalRecords(l))
  <2>1. Cardinality(CalRecords(f)) <= Cardinality(CalRecords(l))
    BY <1>1, <1>2, <1>5
  <2>2. Cardinality(CalRecords(l)) <= Cardinality(CalRecords(f))
    BY <1>1, <1>2, <1>5
  <2>3. Cardinality(CalRecords(f)) \in Nat /\ Cardinality(CalRecords(l)) \in Nat
    BY CalRecordsType
  <2>. QED BY <2>1, <2>2, <2>3
<1>. QED BY <1>3, <1>6

\* The last layer has no more records than any other.
LEMMA LastIsShortest ==
    ASSUME TraceTyped, RecordsInv, NEW l \in Layer
    PROVE  Cardinality(RecordsAt(NLayer)) <= Cardinality(RecordsAt(l))
<1>1. NLayer \in Layer
  BY Sizes DEF Layer
<1>2. CASE l = NLayer
  <2>1. Cardinality(RecordsAt(NLayer)) \in Nat
    BY RecordsAtType
  <2>. QED BY <1>2, <2>1
<1>3. CASE l # NLayer
  <2>1. l < NLayer
    BY <1>3, Sizes DEF Layer
  <2>2. \A i \in RecordsAt(NLayer) : \E j \in RecordsAt(l) : trace[j].req = trace[i].req /\ trace[j].pos = trace[i].pos
    BY <1>1, <2>1, LayersAlike
  <2>. QED BY <1>1, <2>2, FewerRecords
<1>. QED BY <1>2, <1>3

LEMMA OnlyLastCrashes ==
    ASSUME TraceTyped, RecordsInv, NEW l \in Traced, Len(Stream(l)) <= CalDraws
    PROVE  Len(Stream(NLayer)) <= CalDraws
<1>1. l \in Layer
  BY TracedType
<1>2. Cardinality(RecordsAt(NLayer)) <= Cardinality(RecordsAt(l))
  BY <1>1, LastIsShortest
<1>3. Cardinality(RecordsAt(NLayer)) \in Nat /\ Cardinality(RecordsAt(l)) \in Nat
      /\ Cardinality(CalRecords(FirstLayer)) \in Nat
  BY RecordsAtType, CalRecordsType
<1>4. NUsed * Cardinality(RecordsAt(NLayer)) <= NUsed * Cardinality(RecordsAt(l))
  BY <1>2, <1>3, DrawsCompare
<1>5. Len(Stream(NLayer)) = NUsed * Cardinality(RecordsAt(NLayer))
      /\ Len(Stream(l)) = NUsed * Cardinality(RecordsAt(l))
  BY StreamRight
<1>6. CalDraws = NUsed * Cardinality(CalRecords(FirstLayer))
  BY CutType
<1>7. CalDraws \in Int /\ Len(Stream(NLayer)) \in Int /\ Len(Stream(l)) \in Int
  <2>1. CalDraws \in Int
    <3>. DEFINE c == Cardinality(CalRecords(FirstLayer))
    <3>1. c \in Nat
      BY <1>3
    <3>. HIDE DEF c
    <3>2. NUsed * c \in Int
      BY <3>1, Sizes
    <3>. QED BY <3>2, <1>6 DEF c
  <2>2. \A k : Len(Stream(k)) \in Int
    BY StreamRight, StreamType
  <2>. QED BY <2>1, <2>2
<1>8. Len(Stream(NLayer)) <= Len(Stream(l))
  BY <1>4, <1>5
<1>. QED BY <1>7, <1>8

-----------------------------------------------------------------------------
(* What is written *)

Fatal == Traced = {} \/ \E l \in Traced : Len(Stream(l)) <= CalDraws

\* Whatever is written is what the trace gives.
SummaryInv ==
    \/ summary = Nothing
    \/ pc \in {"emitted", "asserted"} /\ summary = IF Fatal THEN Crashed ELSE Simulated

LEMMA TraceKept ==
    ASSUME trace' = trace
    PROVE  (Fatal' <=> Fatal) /\ Simulated' = Simulated
<1>1. Traced' = Traced
  BY DEF Traced
<1>2. \A l : RecordsAt(l)' = RecordsAt(l)
  BY DEF RecordsAt
<1>3. \A l : Stream(l)' = Stream(l)
  BY <1>2 DEF Stream
<1>4. FirstLayer' = FirstLayer
  BY <1>1 DEF FirstLayer
<1>5. NReq' = NReq
  BY <1>2, <1>4 DEF NReq
<1>6. CalDraws' = CalDraws
  BY <1>2, <1>4, <1>5 DEF CalDraws
<1>7. Fatal' <=> Fatal
  BY <1>1, <1>3, <1>6 DEF Fatal
<1>8. Simulated' = Simulated
  BY <1>1, <1>3, <1>6 DEF Simulated
<1>. QED BY <1>7, <1>8

\* The tool adds no step to the tracer's.
LEMMA WorksetStep ==
    ASSUME [WorksetNext]_worksetVars
    PROVE  [Next]_vars
BY DEF WorksetNext, Simulate, worksetVars

LEMMA SummaryStep ==
    ASSUME SummaryInv, [WorksetNext]_worksetVars
    PROVE  SummaryInv'
<1>1. CASE Simulate
  <2>1. /\ pc \in {"emitted", "asserted"} /\ pc' = pc /\ trace' = trace
        /\ summary' = IF Fatal THEN Crashed ELSE Simulated
    BY <1>1 DEF Simulate, vars, Fatal
  <2>2. (Fatal' <=> Fatal) /\ Simulated' = Simulated
    BY <2>1, TraceKept
  <2>3. Crashed' = Crashed
    BY DEF Crashed
  <2>. QED BY <2>1, <2>2, <2>3 DEF SummaryInv
<1>2. CASE Next /\ UNCHANGED summary
  <2>1. pc \notin {"emitted", "asserted"}
    BY <1>2 DEF Next, EmptyLine, Request, Ubatch, Route, UbatchDone, DecodeFails, TraceDone, Rank, EmitPins,
                EmitAsserts
  <2>2. summary = Nothing /\ summary' = summary
    BY <1>2, <2>1 DEF SummaryInv
  <2>3. Nothing' = Nothing
    BY DEF Nothing
  <2>. QED BY <2>2, <2>3 DEF SummaryInv
<1>3. CASE UNCHANGED worksetVars
  <2>1. pc' = pc /\ trace' = trace /\ summary' = summary
    BY <1>3 DEF worksetVars, vars
  <2>2. (Fatal' <=> Fatal) /\ Simulated' = Simulated
    BY <2>1, TraceKept
  <2>3. Crashed' = Crashed /\ Nothing' = Nothing
    BY DEF Crashed, Nothing
  <2>. QED BY <2>1, <2>2, <2>3 DEF SummaryInv
<1>. QED BY <1>1, <1>2, <1>3 DEF WorksetNext

\* The inductive invariant: that of the tracer, and whatever is written is what the trace gives.
THEOREM WorksetInvariant == WorksetSpec => [](Inv /\ SummaryInv)
<1>1. WorksetInit => Inv /\ SummaryInv
  BY InvInit DEF WorksetInit, SummaryInv
<1>2. Inv /\ SummaryInv /\ [WorksetNext]_worksetVars => (Inv /\ SummaryInv)'
  <2>. SUFFICES ASSUME Inv, SummaryInv, [WorksetNext]_worksetVars
                PROVE  Inv' /\ SummaryInv'
    OBVIOUS
  <2>1. [Next]_vars
    BY WorksetStep
  <2>2. Inv'
    BY <2>1, InvStep
  <2>3. SummaryInv'
    BY SummaryStep
  <2>. QED BY <2>2, <2>3
<1>. QED BY <1>1, <1>2, PTL DEF WorksetSpec

LEMMA WrittenRight ==
    ASSUME Inv, SummaryInv
    PROVE  /\ TraceTyped /\ RecordsInv
           /\ Completed => summary = Simulated /\ ~Fatal
           /\ summary = Crashed => Fatal
<1>1. TraceTyped /\ RecordsInv
  <2>1. FlowInv /\ RecordsInv
    BY DEF Inv
  <2>2. at_line \in Nat => req_idx \in Nat
    BY <2>1 DEF FlowInv
  <2>3. at_line \in Nat
    <3>1. Len(corpus) \in Nat /\ at_line \in 0..Len(corpus)
      BY <2>1, CorpusType DEF FlowInv
    <3>. QED BY <3>1
  <2>. QED BY <2>1, <2>2, <2>3 DEF TraceTyped, RecordsInv, FlowInv
<1>2. Nothing.kind = "none" /\ Crashed.kind = "crashed" /\ Simulated.kind = "done"
  BY DEF Nothing, Crashed, Simulated
<1>3. summary = Nothing \/ (summary = Crashed /\ Fatal) \/ (summary = Simulated /\ ~Fatal)
  BY DEF SummaryInv
<1>. QED BY <1>1, <1>2, <1>3 DEF Completed

\* workset.py:9-10, for every trace, budget and layer: "classic LRU cache" -- the hits written are
\* the draws with fewer than that many other experts since the last of the same, or, when there
\* is a slot for each expert, all draws; "in-sample ceiling" -- no other pins of that number serve more.
THEOREM RatesProved == WorksetSpec => []RatesRight
<1>1. Inv /\ SummaryInv => RatesRight
  <2>. SUFFICES ASSUME Inv, SummaryInv, Completed, NEW n \in Budgets, NEW l \in Traced
                PROVE  LET s == Stream(l)
                           reuses == Cardinality({i \in DOMAIN s : Reused(s, i, n)})
                           distinct == Cardinality(ToSet(s))
                       IN  /\ summary.lru[n][l] = IF n < distinct THEN reuses ELSE reuses + distinct
                           /\ \A p \in SUBSET Expert :
                                Cardinality(p) <= n => HitsOf(s, p) <= summary.static[n][l]
    BY Zenon DEF RatesRight
  <2>. DEFINE s == Stream(l)
  <2>1. s \in Seq(Expert) /\ n \in Nat /\ summary = Simulated
    BY WrittenRight, StreamRight, BudgetAssumption
  <2>2. summary.lru[n][l] = LruHits(s, n) /\ summary.static[n][l] = HitsOf(s, TopPins(s, n))
    BY <2>1 DEF Simulated
  <2>. HIDE DEF s
  <2>3. LruHits(s, n) = IF n < Cardinality(ToSet(s)) THEN Cardinality(Reuses(s, n))
                        ELSE Cardinality(Reuses(s, n)) + Cardinality(ToSet(s))
    BY <2>1, LruHitsRight
  <2>4. \A p \in SUBSET Expert : Cardinality(p) <= n => HitsOf(s, p) <= HitsOf(s, TopPins(s, n))
    BY <2>1, TopPinsBest
  <2>. QED BY <2>2, <2>3, <2>4, Zenon DEF Reuses, s
<1>. QED BY <1>1, WorksetInvariant, PTL

\* workset.py:11, for every trace: the calibration part ends between the same two requests in every
\* layer but the last, though it was counted in one of them; and the tool fails on an empty trace and
\* for the last layer's sake, never another's.
THEOREM CalSplitsProved == WorksetSpec => []CalSplitsRequests
<1>1. Inv /\ SummaryInv => CalSplitsRequests
  <2>. SUFFICES ASSUME Inv, SummaryInv PROVE CalSplitsRequests
    OBVIOUS
  <2>1. ASSUME Completed, NEW l \in Traced \ {NLayer}
        PROVE  CalDraws = NUsed * Cardinality({i \in RecordsAt(l) : trace[i].req < NReq \div CalOf})
    <3>1. TraceTyped /\ RecordsInv /\ Traced # {} /\ ~\E k \in Traced : Len(Stream(k)) <= CalDraws
      BY <2>1, WrittenRight DEF Fatal
    <3>2. CalDraws = NUsed * Cardinality(CalRecords(l))
      BY <3>1, CutWhole
    <3>. QED BY <3>2 DEF CalRecords, Cut
  <2>2. ASSUME summary = Crashed PROVE trace = <<>> \/ Len(Stream(NLayer)) <= CalDraws
    <3>1. TraceTyped /\ RecordsInv /\ Fatal
      BY <2>2, WrittenRight
    <3>2. CASE Traced = {}
      BY <3>1, <3>2, TracedType
    <3>3. CASE \E l \in Traced : Len(Stream(l)) <= CalDraws
      BY <3>1, <3>3, OnlyLastCrashes
    <3>. QED BY <3>1, <3>2, <3>3 DEF Fatal
  <2>. QED BY <2>1, <2>2 DEF CalSplitsRequests
<1>. QED BY <1>1, WorksetInvariant, PTL
=============================================================================
