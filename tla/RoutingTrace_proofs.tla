-------------------------- MODULE RoutingTrace_proofs --------------------------
(***************************************************************************)
(* Proofs about RoutingTrace, for every model, corpus and batch size: what *)
(* is in a trace, and that the pins file made of any trace is one that     *)
(* llama_blobpager_setup can take.                                         *)
(***************************************************************************)
EXTENDS RoutingTrace, FiniteSetTheorems, SequenceTheorems, TLAPS

LEMMA LeastNat ==
    ASSUME NEW T, T \subseteq Nat, T # {}
    PROVE  \E x \in T : \A y \in T : x <= y
<1>. DEFINE R == {ss \in Nat \X Nat : ss[1] < ss[2]}
<1>1. IsWellFoundedOn(R, Nat)
  BY NatLessThanWellFounded, Zenon DEF OpToRel
<1>2. \E x \in T : \A y \in T : <<y, x>> \notin R
  <2>. HIDE DEF R
  <2>. QED BY <1>1, WFMin
<1>3. PICK x \in T : \A y \in T : <<y, x>> \notin R
  BY <1>2
<1>4. ASSUME NEW y \in T PROVE x <= y
  <2>1. x \in Nat /\ y \in Nat OBVIOUS
  <2>2. <<y, x>> \notin R BY <1>3
  <2>3. ~(y < x) BY <2>1, <2>2
  <2>. HIDE DEF R
  <2>. QED BY <2>1, <2>3
<1>. QED BY <1>4

LEMMA Sizes ==
    /\ NLayer \in Nat \ {0} /\ NExpert \in Nat \ {0} /\ NUsed \in Nat \ {0} /\ NUsed <= NExpert
    /\ NCtx \in Nat \ {0} /\ NBatch \in Nat \ {0} /\ NUbatch \in Nat \ {0} /\ NUbatch <= NBatch
    /\ PinLen \in Nat \ {0} /\ EmitLen \in Nat \ {0}
BY SizeAssumption

(***************************************************************************)
(* A finite set under a strict total order can be listed in that order: an *)
(* element's place is one more than the number of those before it.         *)
(***************************************************************************)
LEMMA Listing ==
    ASSUME NEW S, IsFiniteSet(S), NEW R,
           \A x \in S : <<x, x>> \notin R,
           \A x, y, z \in S : <<x, y>> \in R /\ <<y, z>> \in R => <<x, z>> \in R,
           \A x, y \in S : x # y => <<x, y>> \in R \/ <<y, x>> \in R
    PROVE  \E s \in [1..Cardinality(S) -> S] :
               \A i, j \in 1..Cardinality(S) : i < j => s[i] # s[j] /\ <<s[i], s[j]>> \in R
<1>. DEFINE n == Cardinality(S)
<1>. DEFINE Pre(e) == {x \in S : <<x, e>> \in R}
<1>. DEFINE rk == [e \in S |-> Cardinality(Pre(e)) + 1]
<1>1. n \in Nat
  BY FS_CardinalityType
<1>2. ASSUME NEW e \in S
      PROVE  IsFiniteSet(Pre(e)) /\ Cardinality(Pre(e)) \in Nat /\ Cardinality(Pre(e)) + 1 \in 1..n
  <2>1. Pre(e) \subseteq S \ {e}
    OBVIOUS
  <2>2. IsFiniteSet(S \ {e}) /\ Cardinality(S \ {e}) = n - 1
    BY FS_RemoveElement
  <2>3. IsFiniteSet(Pre(e)) /\ Cardinality(Pre(e)) <= n - 1
    <3>. HIDE DEF Pre
    <3>. QED BY <2>1, <2>2, FS_Subset
  <2>4. Cardinality(Pre(e)) \in Nat
    BY <2>3, FS_CardinalityType
  <2>. HIDE DEF n, Pre
  <2>. QED BY <2>3, <2>4, <1>1
<1>3. ASSUME NEW e \in S, NEW f \in S, <<e, f>> \in R
      PROVE  Cardinality(Pre(e)) < Cardinality(Pre(f))
  <2>1. Pre(e) \subseteq Pre(f) /\ Pre(e) # Pre(f)
    BY <1>3
  <2>. HIDE DEF Pre
  <2>2. Cardinality(Pre(e)) <= Cardinality(Pre(f)) /\ Cardinality(Pre(f)) # Cardinality(Pre(e))
    BY <2>1, <1>2, FS_Subset
  <2>. QED BY <2>2, <1>2
<1>4. /\ rk \in [S -> 1..n]
      /\ \A e, f \in S : <<e, f>> \in R => rk[e] < rk[f]
  <2>. HIDE DEF n, Pre
  <2>. QED BY <1>2, <1>3
<1>. HIDE DEF rk
<1>5. \A e, f \in S : rk[e] = rk[f] => e = f
  <2>1. \A e \in S : rk[e] \in Int
    BY <1>1, <1>4
  <2>2. ASSUME NEW e \in S, NEW f \in S, rk[e] = rk[f], e # f PROVE FALSE
    <3>1. <<e, f>> \in R \/ <<f, e>> \in R
      BY <2>2, Zenon
    <3>2. rk[e] < rk[f] \/ rk[f] < rk[e]
      BY <3>1, <1>4, Zenon
    <3>. QED BY <3>2, <2>1, <2>2
  <2>. QED BY <2>2
<1>6. rk \in Injection(S, 1..n)
  BY <1>4, <1>5 DEF Injection, IsInjective
<1>7. rk \in Surjection(S, 1..n)
  <2>1. IsFiniteSet(1..n) /\ Cardinality(1..n) = n
    BY <1>1, FS_Interval
  <2>. QED BY <2>1, <1>6, FS_Injection
<1>. DEFINE s == [i \in 1..n |-> CHOOSE e \in S : rk[e] = i]
<1>8. ASSUME NEW i \in 1..n PROVE s[i] \in S /\ rk[s[i]] = i
  BY <1>7 DEF Surjection
<1>9. s \in [1..n -> S]
  <2>1. s = [i \in 1..n |-> s[i]]
    OBVIOUS
  <2>. HIDE DEF s
  <2>. QED BY <2>1, <1>8
<1>10. ASSUME NEW i \in 1..n, NEW j \in 1..n, i < j PROVE s[i] # s[j] /\ <<s[i], s[j]>> \in R
  <2>1. i \in Int /\ j \in Int
    BY <1>1
  <2>. HIDE DEF s, n
  <2>2. s[i] \in S /\ s[j] \in S /\ rk[s[i]] = i /\ rk[s[j]] = j
    BY <1>8
  <2>3. s[i] # s[j]
    BY <2>1, <2>2, <1>10
  <2>4. <<s[i], s[j]>> \in R \/ <<s[j], s[i]>> \in R
    BY <2>2, <2>3, Zenon
  <2>5. ~(<<s[j], s[i]>> \in R)
    <3>1. ~(rk[s[j]] < rk[s[i]])
      BY <2>1, <2>2, <1>10
    <3>. QED BY <3>1, <2>2, <1>4, Zenon
  <2>. QED BY <2>3, <2>4, <2>5
<1>. HIDE DEF s
<1>. QED BY <1>9, <1>10

(***************************************************************************)
(* The ranking of a layer's experts.                                       *)
(***************************************************************************)

Ahead(l, e, f) ==
    Count(l, e) > Count(l, f) \/ (Count(l, e) = Count(l, f) /\ SeenBefore(l, e, f))

Seen(l) == {e \in Expert : Count(l, e) > 0}

Earlier(o, p) == o[1] < p[1] \/ (o[1] = p[1] /\ o[2] < p[2])

LEMMA OccursType ==
    ASSUME trace \in Seq(RecordType), NEW l, NEW e
    PROVE  /\ \A o \in Occurs(l, e) : o = <<o[1], o[2]>> /\ o[1] \in Nat /\ o[2] \in Nat
                                      /\ o[1] \in DOMAIN trace /\ o[2] \in 1..NUsed
                                      /\ trace[o[1]].exp[o[2]] = e
           /\ Count(l, e) \in Nat
           /\ Count(l, e) > 0 => Occurs(l, e) # {}
<1>1. DOMAIN trace = 1..Len(trace) /\ Len(trace) \in Nat
  OBVIOUS
<1>2. \A o \in Occurs(l, e) : o = <<o[1], o[2]>> /\ o[1] \in DOMAIN trace /\ o[2] \in 1..NUsed
                              /\ trace[o[1]].exp[o[2]] = e
  BY DEF Occurs
<1>3. \A o \in Occurs(l, e) : o[1] \in Nat /\ o[2] \in Nat
  BY <1>1, <1>2, Sizes
<1>4. IsFiniteSet(Occurs(l, e))
  <2>1. IsFiniteSet(DOMAIN trace) /\ IsFiniteSet(1..NUsed)
    BY <1>1, Sizes, FS_Interval
  <2>2. IsFiniteSet((DOMAIN trace) \X (1..NUsed))
    BY <2>1, FS_Product
  <2>3. Occurs(l, e) \subseteq (DOMAIN trace) \X (1..NUsed)
    BY DEF Occurs
  <2>. QED BY <2>2, <2>3, FS_Subset
<1>5. Count(l, e) \in Nat /\ (Count(l, e) > 0 => Occurs(l, e) # {})
  BY <1>4, FS_CardinalityType, FS_EmptySet DEF Count
<1>. QED BY <1>2, <1>3, <1>5

LEMMA FirstOccurrence ==
    ASSUME trace \in Seq(RecordType), NEW l, NEW e, Occurs(l, e) # {}
    PROVE  \E o \in Occurs(l, e) : \A p \in Occurs(l, e) : o = p \/ Earlier(o, p)
<1>. DEFINE O == Occurs(l, e)
<1>1. \A o \in O : o = <<o[1], o[2]>> /\ o[1] \in Nat /\ o[2] \in Nat
  BY OccursType
<1>. HIDE DEF O
<1>. DEFINE T == {o[1] : o \in O}
<1>2. PICK a \in T : \A t \in T : a <= t
  <2>1. T \subseteq Nat /\ T # {}
    BY <1>1 DEF O
  <2>. HIDE DEF T
  <2>. QED BY <2>1, LeastNat
<1>. DEFINE P == {o \in O : o[1] = a}
<1>. DEFINE U == {o[2] : o \in P}
<1>3. PICK b \in U : \A u \in U : b <= u
  <2>1. U \subseteq Nat /\ U # {}
    BY <1>1, <1>2
  <2>. HIDE DEF U
  <2>. QED BY <2>1, LeastNat
<1>4. PICK o \in O : o[1] = a /\ o[2] = b
  BY <1>3
<1>5. ASSUME NEW p \in O PROVE o = p \/ Earlier(o, p)
  <2>1. a <= p[1] /\ a \in Nat /\ b \in Nat /\ p[1] \in Nat /\ p[2] \in Nat
    BY <1>1, <1>2, <1>3
  <2>2. CASE p[1] = a
    <3>1. b <= p[2]
      BY <2>2, <1>3
    <3>2. CASE b = p[2]
      <4>1. o = <<a, b>> /\ p = <<a, b>>
        BY <3>2, <2>2, <1>1, <1>4
      <4>. QED BY <4>1
    <3>3. CASE b # p[2]
      BY <3>1, <3>3, <2>1, <2>2, <1>4 DEF Earlier
    <3>. QED BY <3>2, <3>3
  <2>3. CASE p[1] # a
    BY <2>1, <2>3, <1>4 DEF Earlier
  <2>. QED BY <2>2, <2>3
<1>. QED BY <1>4, <1>5 DEF O

\* Of two experts that occur, one occurs first.
LEMMA OneFirst ==
    ASSUME trace \in Seq(RecordType), NEW l, NEW e, NEW f, e # f,
           Occurs(l, e) # {}, Occurs(l, f) # {}
    PROVE  SeenBefore(l, e, f) \/ SeenBefore(l, f, e)
<1>1. PICK o \in Occurs(l, e) : \A p \in Occurs(l, e) : o = p \/ Earlier(o, p)
  BY FirstOccurrence
<1>2. PICK q \in Occurs(l, f) : \A p \in Occurs(l, f) : q = p \/ Earlier(q, p)
  BY FirstOccurrence
<1>3. /\ \A p \in Occurs(l, e) : p[1] \in Nat /\ p[2] \in Nat /\ trace[p[1]].exp[p[2]] = e
      /\ \A p \in Occurs(l, f) : p[1] \in Nat /\ p[2] \in Nat /\ trace[p[1]].exp[p[2]] = f
  BY OccursType
<1>4. o[1] # q[1] \/ o[2] # q[2]
  BY <1>3
<1>5. CASE Earlier(o, q)
  <2>1. \A p \in Occurs(l, f) : Earlier(o, p)
    BY <1>2, <1>3, <1>5 DEF Earlier
  <2>. QED BY <2>1 DEF SeenBefore, Earlier
<1>6. CASE Earlier(q, o)
  <2>1. \A p \in Occurs(l, e) : Earlier(q, p)
    BY <1>1, <1>3, <1>6 DEF Earlier
  <2>. QED BY <2>1 DEF SeenBefore, Earlier
<1>7. Earlier(o, q) \/ Earlier(q, o)
  BY <1>3, <1>4 DEF Earlier
<1>. QED BY <1>5, <1>6, <1>7

LEMMA AheadOrders ==
    ASSUME trace \in Seq(RecordType), NEW l
    PROVE  /\ \A e \in Seen(l) : ~Ahead(l, e, e)
           /\ \A e, f, g \in Seen(l) : Ahead(l, e, f) /\ Ahead(l, f, g) => Ahead(l, e, g)
           /\ \A e, f \in Seen(l) : e # f => Ahead(l, e, f) \/ Ahead(l, f, e)
<1>1. \A e : Count(l, e) \in Nat
  BY OccursType
<1>2. ASSUME NEW e PROVE \A o \in Occurs(l, e) : o[1] \in Nat /\ o[2] \in Nat
  BY OccursType
<1>3. ASSUME NEW e, SeenBefore(l, e, e) PROVE FALSE
  <2>1. PICK o \in Occurs(l, e) : Earlier(o, o)
    BY <1>3 DEF SeenBefore, Earlier
  <2>. QED BY <2>1, <1>2 DEF Earlier
<1>4. ASSUME NEW e, NEW f, NEW g, SeenBefore(l, e, f), SeenBefore(l, f, g)
      PROVE  SeenBefore(l, e, g)
  <2>1. PICK o \in Occurs(l, e) : \A p \in Occurs(l, f) : Earlier(o, p)
    BY <1>4 DEF SeenBefore, Earlier
  <2>2. PICK q \in Occurs(l, f) : \A p \in Occurs(l, g) : Earlier(q, p)
    BY <1>4 DEF SeenBefore, Earlier
  <2>3. \A p \in Occurs(l, g) : Earlier(o, p)
    BY <2>1, <2>2, <1>2 DEF Earlier
  <2>. QED BY <2>3 DEF SeenBefore, Earlier
<1>5. ASSUME NEW e \in Seen(l) PROVE ~Ahead(l, e, e)
  BY <1>1, <1>3 DEF Ahead
<1>6. ASSUME NEW e \in Seen(l), NEW f \in Seen(l), NEW g \in Seen(l), Ahead(l, e, f), Ahead(l, f, g)
      PROVE  Ahead(l, e, g)
  <2>1. Count(l, e) \in Nat /\ Count(l, f) \in Nat /\ Count(l, g) \in Nat
    BY <1>1
  <2>2. SeenBefore(l, e, f) /\ SeenBefore(l, f, g) => SeenBefore(l, e, g)
    BY <1>4
  <2>. QED BY <2>1, <2>2, <1>6 DEF Ahead
<1>7. ASSUME NEW e \in Seen(l), NEW f \in Seen(l), e # f PROVE Ahead(l, e, f) \/ Ahead(l, f, e)
  <2>1. Occurs(l, e) # {} /\ Occurs(l, f) # {}
    BY OccursType DEF Seen
  <2>2. SeenBefore(l, e, f) \/ SeenBefore(l, f, e)
    BY <2>1, <1>7, OneFirst
  <2>3. Count(l, e) \in Nat /\ Count(l, f) \in Nat
    BY <1>1
  <2>. QED BY <2>2, <2>3 DEF Ahead
<1>. QED BY <1>5, <1>6, <1>7

\* A layer's ranking names each expert that was drawn, once.
LEMMA RankedRight ==
    ASSUME trace \in Seq(RecordType), NEW l
    PROVE  /\ Cardinality(Seen(l)) \in Nat
           /\ Ranked(l) \in [1..Cardinality(Seen(l)) -> Seen(l)]
           /\ \A i, j \in 1..Cardinality(Seen(l)) :
                i < j => Ahead(l, Ranked(l)[i], Ranked(l)[j]) /\ Ranked(l)[i] # Ranked(l)[j]
<1>. DEFINE S == Seen(l)
<1>. DEFINE n == Cardinality(S)
<1>. DEFINE R == {p \in S \X S : Ahead(l, p[1], p[2])}
<1>1. IsFiniteSet(S)
  <2>1. IsFiniteSet(Expert)
    BY Sizes, FS_Interval DEF Expert
  <2>2. S \subseteq Expert
    BY DEF Seen
  <2>. QED BY <2>1, <2>2, FS_Subset
<1>2. n \in Nat
  BY <1>1, FS_CardinalityType
<1>3. \A e, f \in S : <<e, f>> \in R <=> Ahead(l, e, f)
  OBVIOUS
<1>4. /\ \A e \in S : ~Ahead(l, e, e)
      /\ \A e, f, g \in S : Ahead(l, e, f) /\ Ahead(l, f, g) => Ahead(l, e, g)
      /\ \A e, f \in S : e # f => Ahead(l, e, f) \/ Ahead(l, f, e)
  BY AheadOrders
<1>5. /\ \A x \in S : <<x, x>> \notin R
      /\ \A x, y, z \in S : <<x, y>> \in R /\ <<y, z>> \in R => <<x, z>> \in R
      /\ \A x, y \in S : x # y => <<x, y>> \in R \/ <<y, x>> \in R
  <2>. HIDE DEF S, R
  <2>. QED BY <1>3, <1>4, Zenon
<1>. HIDE DEF R, S
<1>6. PICK s \in [1..n -> S] : \A i, j \in 1..n : i < j => s[i] # s[j] /\ <<s[i], s[j]>> \in R
  BY <1>1, <1>5, Listing
<1>. DEFINE Good(t) == \A i, j \in DOMAIN t : i < j => <<t[i], t[j]>> \in R
<1>7. Ranked(l) = CHOOSE t \in [1..n -> S] : Good(t)
  BY Zenon DEF Ranked, InOrder, S, R, Seen, Ahead
<1>8. s \in [1..n -> S] /\ Good(s)
  BY <1>6
<1>9. Ranked(l) \in [1..n -> S] /\ Good(Ranked(l))
  <2>. HIDE DEF Good
  <2>. QED BY <1>7, <1>8
<1>10. \A i, j \in 1..n : i < j => Ahead(l, Ranked(l)[i], Ranked(l)[j]) /\ Ranked(l)[i] # Ranked(l)[j]
  <2>1. \A i, j \in 1..n : i < j => Ahead(l, Ranked(l)[i], Ranked(l)[j])
    BY <1>3, <1>9
  <2>2. \A i \in 1..n : Ranked(l)[i] \in S
    BY <1>9
  <2>. HIDE DEF n
  <2>. QED BY <2>1, <2>2, <1>4
<1>. QED BY <1>2, <1>9, <1>10 DEF S

\* The pins are experts of the model, none twice, and no more than are asked for.
LEMMA PinsRight ==
    ASSUME trace \in Seq(RecordType), NEW l
    PROVE  /\ TracePins(l) \in Seq(Expert) /\ Len(TracePins(l)) <= PinLen
           /\ \A i, j \in 1..Len(TracePins(l)) : i # j => TracePins(l)[i] # TracePins(l)[j]
<1>. DEFINE n == Cardinality(Seen(l))
<1>. DEFINE s == Ranked(l)
<1>1. n \in Nat /\ s \in [1..n -> Seen(l)] /\ \A i, j \in 1..n : i < j => s[i] # s[j]
  BY RankedRight
<1>2. Seen(l) \subseteq Expert
  BY DEF Seen
<1>. HIDE DEF s, n
<1>3. s \in Seq(Expert) /\ Len(s) = n
  BY <1>1, <1>2
<1>4. AtMost(n, PinLen) \in Nat /\ AtMost(n, PinLen) <= n /\ AtMost(n, PinLen) <= PinLen
  BY <1>1, Sizes DEF AtMost
<1>. DEFINE m == AtMost(n, PinLen)
<1>. HIDE DEF m
<1>5. TracePins(l) = SubSeq(s, 1, m)
  BY <1>3 DEF TracePins, s, m
<1>6. /\ SubSeq(s, 1, m) \in Seq(Expert) /\ Len(SubSeq(s, 1, m)) = m
      /\ \A i \in 1..m : SubSeq(s, 1, m)[i] = s[i]
  BY <1>3, <1>4, SubSeqProperties DEF m
<1>7. \A i, j \in 1..m : i # j => s[i] # s[j]
  BY <1>1, <1>4 DEF m
<1>. QED BY <1>4, <1>5, <1>6, <1>7 DEF m

(***************************************************************************)
(* The manifest and the pins file.                                         *)
(***************************************************************************)

ManifestInv ==
    \A l \in Layer : /\ manifest[l] \in Seq(Expert)
                     /\ \A i, j \in 1..Len(manifest[l]) : i # j => manifest[l][i] # manifest[l][j]

FileInv == FileWellFormed /\ \A i \in DOMAIN file : file[i].layer \in Layer

\* A list without repetition names as many experts as it is long.
LEMMA NamedOnce ==
    ASSUME NEW s, NEW n \in Nat, \A i, j \in 1..n : i # j => s[i] # s[j]
    PROVE  Cardinality({s[i] : i \in 1..n}) = n
<1>. DEFINE T == {s[i] : i \in 1..n}
<1>. DEFINE f == [i \in 1..n |-> s[i]]
<1>1. f \in [1..n -> T] /\ (\A i, j \in 1..n : f[i] = f[j] => i = j)
      /\ \A t \in T : \E i \in 1..n : f[i] = t
  OBVIOUS
<1>. HIDE DEF f, T
<1>2. f \in Injection(1..n, T) /\ f \in Surjection(1..n, T)
  BY <1>1 DEF Injection, IsInjective, Surjection
<1>3. ExistsBijection(1..n, T)
  BY <1>2 DEF ExistsBijection, Bijection
<1>. QED BY <1>3, FS_CountingElements DEF T

\* A finite set of numbers can be listed in ascending order.
LEMMA AscendingRight ==
    ASSUME NEW S, IsFiniteSet(S), S \subseteq Nat
    PROVE  /\ Ascending(S) \in [1..Cardinality(S) -> S]
           /\ \A i, j \in 1..Cardinality(S) : i < j => Ascending(S)[i] < Ascending(S)[j]
<1>. DEFINE n == Cardinality(S)
<1>. DEFINE R == {p \in S \X S : p[1] < p[2]}
<1>1. \A x, y \in S : <<x, y>> \in R <=> x < y
  OBVIOUS
<1>. HIDE DEF R
<1>2. /\ \A x \in S : <<x, x>> \notin R
      /\ \A x, y, z \in S : <<x, y>> \in R /\ <<y, z>> \in R => <<x, z>> \in R
      /\ \A x, y \in S : x # y => <<x, y>> \in R \/ <<y, x>> \in R
  BY <1>1
<1>3. PICK s \in [1..n -> S] : \A i, j \in 1..n : i < j => s[i] # s[j] /\ <<s[i], s[j]>> \in R
  BY <1>2, Listing
<1>. DEFINE Good(t) == \A i, j \in DOMAIN t : i < j => <<t[i], t[j]>> \in R
<1>. DEFINE t == CHOOSE t \in [1..n -> S] : Good(t)
<1>4. s \in [1..n -> S] /\ Good(s)
  BY <1>3
<1>5. t \in [1..n -> S] /\ Good(t)
  <2>. HIDE DEF Good
  <2>. QED BY <1>4
<1>6. Ascending(S) = t
  BY Zenon DEF Ascending, InOrder, R
<1>. HIDE DEF t
<1>7. \A i, j \in 1..n : i < j => t[i] < t[j]
  BY <1>1, <1>5
<1>. QED BY <1>5, <1>6, <1>7

LEMMA EntriesRight ==
    /\ DOMAIN Entries = 1..Cardinality(Listed)
    /\ \A i \in DOMAIN Entries :
         /\ Entries[i].layer \in Listed /\ Entries[i].layer \in Layer
         /\ Entries[i].pins = manifest[Entries[i].layer]
    /\ \A i, j \in DOMAIN Entries : i < j => Entries[i].layer < Entries[j].layer
<1>. DEFINE S == Listed
<1>. DEFINE n == Cardinality(S)
<1>. DEFINE layers == Ascending(S)
<1>1. S \subseteq Layer
  BY DEF Listed
<1>2. IsFiniteSet(S) /\ S \subseteq Nat
  <2>1. IsFiniteSet(Layer) /\ Layer \subseteq Nat
    BY Sizes, FS_Interval DEF Layer
  <2>. QED BY <1>1, <2>1, FS_Subset
<1>. HIDE DEF S
<1>9. Entries = [i \in 1..n |-> [layer |-> layers[i], pins |-> manifest[layers[i]]]]
  BY Zenon DEF Entries, S
<1>10. (\A i \in 1..n : layers[i] \in S) /\ \A i, j \in 1..n : i < j => layers[i] < layers[j]
  BY <1>2, AscendingRight
<1>. HIDE DEF layers
<1>11. DOMAIN Entries = 1..n
       /\ \A i \in 1..n : Entries[i] = [layer |-> layers[i], pins |-> manifest[layers[i]]]
  BY <1>9
<1>12. \A i \in 1..n : Entries[i].layer = layers[i] /\ Entries[i].pins = manifest[layers[i]]
  BY <1>11
<1>13. DOMAIN Entries = 1..Cardinality(Listed)
  BY <1>11 DEF S
<1>14. \A i \in DOMAIN Entries : /\ Entries[i].layer \in Listed /\ Entries[i].layer \in Layer
                                 /\ Entries[i].pins = manifest[Entries[i].layer]
  BY <1>1, <1>10, <1>11, <1>12 DEF S
<1>15. \A i, j \in DOMAIN Entries : i < j => Entries[i].layer < Entries[j].layer
  BY <1>10, <1>11, <1>12
<1>. QED BY <1>13, <1>14, <1>15

LEMMA ManifestRanked ==
    ASSUME trace \in Seq(RecordType), Rank
    PROVE  ManifestInv' /\ (FileInv => FileInv')
<1>1. manifest' = [l \in Layer |-> TracePins(l)] /\ pc' = "ranked" /\ file' = file
  BY DEF Rank
<1>2. \A l \in Layer : manifest'[l] = TracePins(l)
  BY <1>1
<1>3. ASSUME NEW l \in Layer
      PROVE  /\ manifest'[l] \in Seq(Expert)
             /\ \A i, j \in 1..Len(manifest'[l]) : i # j => manifest'[l][i] # manifest'[l][j]
  <2>. DEFINE s == TracePins(l)
  <2>1. s \in Seq(Expert) /\ \A i, j \in 1..Len(s) : i # j => s[i] # s[j]
    BY PinsRight
  <2>2. manifest'[l] = s
    BY <1>2
  <2>. HIDE DEF s
  <2>. QED BY <2>1, <2>2
<1>4. ManifestInv'
  BY <1>3, Zenon DEF ManifestInv
<1>5. FileInv => FileInv'
  BY <1>1 DEF FileInv, FileWellFormed
<1>. QED BY <1>4, <1>5

LEMMA FileEmitted ==
    ASSUME ManifestInv, EmitPins
    PROVE  ManifestInv' /\ FileInv'
<1>1. /\ \A l \in Listed : Len(manifest[l]) = PinLen
      /\ manifest' = manifest /\ file' = Entries /\ pc' = "emitted"
  BY DEF EmitPins
<1>2. ManifestInv'
  BY <1>1 DEF ManifestInv
<1>3. ASSUME NEW i \in DOMAIN Entries
      PROVE  /\ Len(Entries[i].pins) = EmitLen
             /\ Cardinality({Entries[i].pins[s] : s \in 1..EmitLen}) = EmitLen
  <2>. DEFINE p == Entries[i].pins
  <2>. DEFINE l == Entries[i].layer
  <2>1. l \in Listed /\ l \in Layer /\ p = manifest[l]
    BY EntriesRight
  <2>. HIDE DEF p, l
  <2>2. PinLen = EmitLen /\ Len(p) = PinLen
    BY <2>1, <1>1 DEF Listed
  <2>3. \A s, t \in 1..EmitLen : s # t => p[s] # p[t]
    BY <2>1, <2>2 DEF ManifestInv
  <2>4. Cardinality({p[s] : s \in 1..EmitLen}) = EmitLen
    BY <2>3, Sizes, NamedOnce
  <2>. QED BY <2>2, <2>4 DEF p
<1>4. FileWellFormed'
  <2>1. \A i, j \in DOMAIN Entries : i < j => Entries[i].layer < Entries[j].layer
    BY EntriesRight
  <2>. QED BY <1>1, <1>3, <2>1, Zenon DEF FileWellFormed
<1>5. \A i \in DOMAIN file' : file'[i].layer \in Layer
  BY <1>1, EntriesRight
<1>. QED BY <1>2, <1>4, <1>5 DEF FileInv

\* The tracer's own steps, and the assertion, touch neither.
LEMMA FileKept ==
    ASSUME ManifestInv, FileInv, manifest' = manifest, file' = file, pc' # "emitted" \/ pc' = pc
    PROVE  ManifestInv' /\ FileInv'
BY DEF ManifestInv, FileInv, FileWellFormed

(***************************************************************************)
(* The corpus and the request in flight.                                   *)
(***************************************************************************)

\* How many of the first k lines are requests
Made(k) == Cardinality({j \in 1..k : corpus[j] > 0})

InReq == pc \in {"ubatch", "layer"}

FlowInv ==
    /\ pc \in {"line", "ubatch", "layer", "traced", "ranked", "emitted", "asserted", "failed"}
    /\ corpus \in Corpora
    /\ at_line \in 0..Len(corpus) /\ req_idx \in 0..at_line
    /\ req_len \in 0..NBatch /\ start \in 0..req_len /\ at_layer \in 1..(NLayer + 1)
    /\ pc \in {"line", "traced"} => req_idx = Made(at_line)
    /\ InReq => /\ at_line > 0 /\ corpus[at_line] > 0
                /\ req_idx = Made(at_line - 1) /\ req_len = Tokens(corpus[at_line])
                /\ start < req_len /\ (req_len <= NUbatch => start = 0)

LEMMA CorpusType ==
    ASSUME corpus \in Corpora
    PROVE  Len(corpus) \in Nat /\ DOMAIN corpus = 1..Len(corpus)
           /\ \A k \in 1..Len(corpus) : corpus[k] \in Nat
<1>1. corpus \in Seq(Nat)
  BY InputAssumption
<1>. QED BY <1>1

LEMMA TokensType ==
    ASSUME NEW n \in Nat
    PROVE  /\ Tokens(n) \in 0..NBatch /\ Tokens(n) \in Nat
           /\ n > 0 => Tokens(n) > 0
BY Sizes DEF Tokens, AtMost

LEMMA MadeType ==
    ASSUME NEW k \in Nat
    PROVE  /\ IsFiniteSet({j \in 1..k : corpus[j] > 0})
           /\ Made(k) \in Nat /\ Made(k) <= k
<1>1. IsFiniteSet(1..k) /\ Cardinality(1..k) = k
  BY FS_Interval
<1>. DEFINE S == {j \in 1..k : corpus[j] > 0}
<1>2. S \subseteq 1..k
  OBVIOUS
<1>. HIDE DEF S
<1>3. IsFiniteSet(S) /\ Cardinality(S) <= k
  BY <1>1, <1>2, FS_Subset
<1>. QED BY <1>3, FS_CardinalityType DEF Made, S

LEMMA MadeNext ==
    ASSUME NEW k \in Nat
    PROVE  Made(k + 1) = IF corpus[k + 1] > 0 THEN Made(k) + 1 ELSE Made(k)
<1>. DEFINE S == {j \in 1..k : corpus[j] > 0}
<1>. DEFINE T == {j \in 1..(k + 1) : corpus[j] > 0}
<1>1. k + 1 \notin S
  OBVIOUS
<1>2. T = IF corpus[k + 1] > 0 THEN S \cup {k + 1} ELSE S
  <2>1. 1..(k + 1) = (1..k) \cup {k + 1}
    OBVIOUS
  <2>. QED BY <2>1, Zenon
<1>3. IsFiniteSet(S) /\ Cardinality(S) \in Nat
  BY MadeType, FS_CardinalityType
<1>. HIDE DEF S, T
<1>4. Cardinality(T) = IF corpus[k + 1] > 0 THEN Cardinality(S) + 1 ELSE Cardinality(S)
  BY <1>1, <1>2, <1>3, FS_AddElement
<1>. QED BY <1>4 DEF Made, S, T

LEMMA MadeGrows ==
    ASSUME NEW a \in Nat, NEW b \in Nat, a <= b
    PROVE  Made(a) <= Made(b)
<1>. DEFINE S == {j \in 1..a : corpus[j] > 0}
<1>. DEFINE T == {j \in 1..b : corpus[j] > 0}
<1>1. S \subseteq T
  <2>1. \A j \in 1..a : j \in 1..b
    OBVIOUS
  <2>. QED BY <2>1, Zenon
<1>2. IsFiniteSet(T)
  BY MadeType
<1>. HIDE DEF S, T
<1>3. Cardinality(S) <= Cardinality(T)
  BY <1>1, <1>2, FS_Subset
<1>. QED BY <1>3 DEF Made, S, T

\* A request's line is the only one with as many requests before it.
LEMMA LineFound ==
    ASSUME corpus \in Corpora, NEW k \in 1..Len(corpus), corpus[k] > 0
    PROVE  LineOf(Made(k - 1)) = k
<1>. DEFINE P(i) == corpus[i] > 0 /\ Made(i - 1) = Made(k - 1)
<1>1. Len(corpus) \in Nat /\ DOMAIN corpus = 1..Len(corpus) /\ k \in DOMAIN corpus /\ P(k)
  BY CorpusType
<1>2. ASSUME NEW a \in 1..Len(corpus), NEW b \in 1..Len(corpus), a < b, corpus[a] > 0
      PROVE  Made(a - 1) # Made(b - 1)
  <2>1. a - 1 \in Nat /\ a \in Nat /\ b - 1 \in Nat /\ a <= b - 1 /\ (a - 1) + 1 = a
    BY <1>1, <1>2
  <2>2. Made(a) = Made(a - 1) + 1
    <3>. DEFINE c == a - 1
    <3>1. Made(c + 1) = Made(c) + 1
      <4>1. c \in Nat /\ corpus[c + 1] > 0
        BY <2>1, <1>2
      <4>. HIDE DEF c
      <4>. QED BY <4>1, MadeNext
    <3>. QED BY <3>1, <2>1
  <2>3. Made(a) <= Made(b - 1) /\ Made(a - 1) \in Nat /\ Made(b - 1) \in Nat
    BY <2>1, MadeGrows, MadeType
  <2>. QED BY <2>2, <2>3
<1>3. ASSUME NEW i \in DOMAIN corpus, P(i) PROVE i = k
  <2>1. ~(i < k) /\ ~(k < i)
    BY <1>1, <1>2, <1>3
  <2>. QED BY <2>1, <1>1
<1>4. LineOf(Made(k - 1)) = CHOOSE i \in DOMAIN corpus : P(i)
  BY Zenon DEF LineOf, Made
<1>. HIDE DEF P
<1>. QED BY <1>1, <1>3, <1>4

LEMMA FlowInit ==
    ASSUME Init
    PROVE  FlowInv
<1>1. corpus \in Corpora /\ Len(corpus) \in Nat
  BY CorpusType DEF Init
<1>2. Made(0) = 0
  <2>1. {j \in 1..0 : corpus[j] > 0} = {}
    OBVIOUS
  <2>. QED BY <2>1, FS_EmptySet DEF Made
<1>. QED BY <1>1, <1>2, Sizes DEF Init, FlowInv, InReq

LEMMA FlowKept ==
    ASSUME FlowInv, UNCHANGED <<corpus, at_line, req_idx, req_len, start>>,
           at_layer' \in 1..(NLayer + 1),
           \/ pc' \in {"ranked", "emitted", "asserted", "failed"}
           \/ pc' = pc
           \/ pc = "line" /\ pc' = "traced"
           \/ InReq /\ pc' \in {"ubatch", "layer"}
    PROVE  FlowInv'
<1>1. Made(at_line)' = Made(at_line) /\ Made(at_line - 1)' = Made(at_line - 1)
  BY DEF Made
<1>2. Tokens(corpus[at_line])' = Tokens(corpus[at_line])
  BY DEF Tokens
<1>. QED BY <1>1, <1>2 DEF FlowInv, InReq

LEMMA FlowRequest ==
    ASSUME FlowInv, EmptyLine \/ Request
    PROVE  FlowInv'
<1>1. /\ pc = "line" /\ at_line < Len(corpus) /\ at_line' = at_line + 1 /\ corpus' = corpus
      /\ req_idx' = req_idx /\ at_layer' = at_layer
      /\ Len(corpus) \in Nat /\ at_line \in Nat /\ at_line + 1 \in 1..Len(corpus)
      /\ corpus \in Corpora /\ corpus[at_line + 1] \in Nat
      /\ req_idx \in 0..at_line /\ at_layer \in 1..(NLayer + 1)
  BY CorpusType DEF FlowInv, EmptyLine, Request
<1>2. req_idx = Made(at_line)
  BY <1>1 DEF FlowInv
<1>3. CASE EmptyLine
  <2>1. corpus[at_line + 1] = 0 /\ pc' = pc /\ req_len' = req_len /\ start' = start
    BY <1>3 DEF EmptyLine
  <2>2. Made(at_line + 1) = Made(at_line)
    <3>1. at_line \in Nat /\ ~(corpus[at_line + 1] > 0)
      BY <1>1, <2>1
    <3>2. Made(at_line + 1) = IF corpus[at_line + 1] > 0 THEN Made(at_line) + 1 ELSE Made(at_line)
      BY <3>1, MadeNext
    <3>. QED BY <3>1, <3>2
  <2>3. Made(at_line)' = Made(at_line + 1)
    BY <1>1 DEF Made
  <2>. QED BY <1>1, <1>2, <2>1, <2>2, <2>3 DEF FlowInv, InReq
<1>4. CASE Request
  <2>1. corpus[at_line + 1] > 0 /\ pc' = "ubatch" /\ req_len' = Tokens(corpus[at_line + 1]) /\ start' = 0
    BY <1>4 DEF Request
  <2>2. Made(at_line - 1)' = Made(at_line)
    <3>1. at_line' - 1 = at_line
      BY <1>1
    <3>. QED BY <1>1, <3>1 DEF Made
  <2>3. Tokens(corpus[at_line])' = Tokens(corpus[at_line + 1])
    BY <1>1 DEF Tokens
  <2>4. req_len' \in 0..NBatch /\ req_len' > 0
    BY <1>1, <2>1, TokensType
  <2>. QED BY <1>1, <1>2, <2>1, <2>2, <2>3, <2>4, Sizes DEF FlowInv, InReq
<1>. QED BY <1>3, <1>4

LEMMA UbatchType ==
    ASSUME FlowInv, InReq
    PROVE  /\ UbatchTokens \in Nat \ {0} /\ start + UbatchTokens <= req_len
           /\ req_len \in Nat \ {0} /\ start \in Nat /\ UbatchTokens <= NUbatch
           /\ IsLastUbatch \in BOOLEAN
           /\ ~IsLastUbatch => UbatchTokens = NUbatch /\ req_len > NUbatch
           /\ req_len <= NUbatch => start = 0 /\ UbatchTokens = req_len /\ IsLastUbatch
BY Sizes DEF FlowInv, UbatchTokens, IsLastUbatch, AtMost

LEMMA FlowUbatchDone ==
    ASSUME FlowInv, UbatchDone
    PROVE  FlowInv'
<1>1. /\ pc = "layer" /\ InReq /\ start' = start + UbatchTokens /\ at_layer' = 1
      /\ corpus' = corpus /\ at_line' = at_line /\ req_len' = req_len
      /\ IF IsLastUbatch THEN pc' = "line" /\ req_idx' = req_idx + 1
                         ELSE pc' = "ubatch" /\ req_idx' = req_idx
  BY DEF UbatchDone, InReq
<1>2. /\ at_line > 0 /\ corpus[at_line] > 0 /\ corpus \in Corpora /\ at_line \in 0..Len(corpus)
      /\ req_idx = Made(at_line - 1) /\ req_len = Tokens(corpus[at_line])
      /\ req_len \in 0..NBatch /\ Len(corpus) \in Nat
  BY <1>1, CorpusType DEF FlowInv
<1>3. at_line - 1 \in Nat /\ (at_line - 1) + 1 = at_line /\ at_line \in Nat
  BY <1>2
<1>4. Made(at_line) = req_idx + 1 /\ req_idx \in Nat /\ req_idx <= at_line - 1
  <2>. DEFINE c == at_line - 1
  <2>1. c \in Nat /\ corpus[c + 1] > 0
    BY <1>2, <1>3
  <2>2. Made(c) \in Nat /\ Made(c) <= c
    BY <2>1, MadeType
  <2>. HIDE DEF c
  <2>3. Made(c + 1) = Made(c) + 1
    BY <2>1, MadeNext
  <2>. QED BY <1>2, <1>3, <2>2, <2>3 DEF c
<1>5. Made(at_line)' = Made(at_line) /\ Made(at_line - 1)' = Made(at_line - 1)
      /\ Tokens(corpus[at_line])' = Tokens(corpus[at_line])
  BY <1>1 DEF Made, Tokens
<1>6. 1 \in 1..(NLayer + 1) /\ start' \in 0..req_len
  BY <1>1, UbatchType, Sizes
<1>7. CASE IsLastUbatch
  <2>1. pc' = "line" /\ req_idx' = req_idx + 1 /\ req_idx' \in 0..at_line
    BY <1>1, <1>3, <1>4, <1>7
  <2>. QED BY <1>1, <1>2, <1>4, <1>5, <1>6, <2>1 DEF FlowInv, InReq
<1>8. CASE ~IsLastUbatch
  <2>1. pc' = "ubatch" /\ req_idx' = req_idx /\ start' < req_len /\ req_len > NUbatch
    BY <1>1, <1>8, UbatchType DEF IsLastUbatch
  <2>2. ~(req_len <= NUbatch)
    BY <2>1, <1>1, UbatchType, Sizes
  <2>3. req_idx \in 0..at_line
    BY DEF FlowInv
  <2>. QED BY <1>1, <1>2, <1>4, <1>5, <1>6, <2>1, <2>2, <2>3 DEF FlowInv, InReq
<1>. QED BY <1>7, <1>8, <1>1, UbatchType

LEMMA FlowStep ==
    ASSUME FlowInv, Next
    PROVE  FlowInv'
<1>1. CASE EmptyLine \/ Request
  BY <1>1, FlowRequest
<1>2. CASE Ubatch
  <2>1. 1 \in 1..(NLayer + 1)
    BY Sizes
  <2>. QED BY <1>2, <2>1, FlowKept DEF Ubatch, InReq
<1>3. CASE Route
  <2>1. at_layer' \in 1..(NLayer + 1)
    BY <1>3, Sizes DEF Route, FlowInv
  <2>. QED BY <1>3, <2>1, FlowKept DEF Route
<1>4. CASE UbatchDone
  BY <1>4, FlowUbatchDone
<1>5. CASE DecodeFails \/ TraceDone \/ Rank \/ EmitPins \/ EmitAsserts
  <2>1. at_layer' \in 1..(NLayer + 1)
    BY <1>5 DEF DecodeFails, TraceDone, Rank, EmitPins, EmitAsserts, FlowInv
  <2>. QED BY <1>5, <2>1, FlowKept DEF DecodeFails, TraceDone, Rank, EmitPins, EmitAsserts
<1>. QED BY <1>1, <1>2, <1>3, <1>4, <1>5 DEF Next

(***************************************************************************)
(* What trace_cb writes.                                                   *)
(***************************************************************************)

LEMMA Quotient ==
    ASSUME NEW i \in Nat, NEW m \in Nat \ {0}, NEW n \in Nat, i < n * m
    PROVE  i \div m \in 0..(n - 1) /\ i % m \in 0..(m - 1)
<1>. DEFINE q == i \div m
<1>1. q \in Int /\ i % m \in 0..(m - 1) /\ i = m * q + (i % m)
  OBVIOUS
<1>. HIDE DEF q
<1>2. ASSUME q < 0 PROVE FALSE
  <2>1. m * q <= m * (-1)
    BY <1>1, <1>2
  <2>. QED BY <2>1, <1>1
<1>3. ASSUME n <= q PROVE FALSE
  <2>1. m * n <= m * q
    BY <1>1, <1>3
  <2>. QED BY <2>1, <1>1
<1>. QED BY <1>1, <1>2, <1>3 DEF q

\* The ids of a row come from the rankings of as many rows.
LEMMA IdsType ==
    ASSUME NEW n \in Nat, NEW r \in [1..n -> Rankings], NEW j \in 0..(n - 1)
    PROVE  Ids(r, j) \in [1..NUsed -> Expert]
<1>1. ASSUME NEW k \in 1..NUsed
      PROVE  LET i == j * NUsed + k - 1 IN r[(i \div NExpert) + 1][(i % NExpert) + 1] \in Expert
  <2>. DEFINE i == j * NUsed + k - 1
  <2>1. i \in Nat /\ i < n * NUsed
    <3>1. j \in Nat /\ k \in Nat /\ j + 1 <= n /\ NUsed \in Nat /\ k <= NUsed /\ k >= 1
      BY Sizes
    <3>2. (j + 1) * NUsed <= n * NUsed
      BY <3>1
    <3>3. j * NUsed \in Nat /\ (j + 1) * NUsed = j * NUsed + NUsed
      BY <3>1
    <3>. QED BY <3>1, <3>2, <3>3
  <2>2. n * NUsed <= n * NExpert /\ n * NUsed \in Nat /\ n * NExpert \in Nat
    BY Sizes
  <2>. HIDE DEF i
  <2>3. i < n * NExpert
    BY <2>1, <2>2
  <2>4. i \div NExpert \in 0..(n - 1) /\ i % NExpert \in 0..(NExpert - 1)
    BY <2>1, <2>3, Sizes, Quotient
  <2>5. (i \div NExpert) + 1 \in 1..n /\ (i % NExpert) + 1 \in 1..NExpert
    BY <2>4, Sizes
  <2>6. r[(i \div NExpert) + 1] \in [1..NExpert -> Expert]
    BY <2>5, InputAssumption
  <2>7. r[(i \div NExpert) + 1][(i % NExpert) + 1] \in Expert
    BY <2>5, <2>6
  <2>. QED BY <2>7 DEF i
<1>. QED BY <1>1 DEF Ids

New(n, r) == [j \in 1..n |-> Record(j - 1, Ids(r, j - 1))]

LEMMA Appended ==
    ASSUME trace \in Seq(RecordType), req_idx \in Nat, at_layer \in Layer,
           NEW n \in Nat, NEW r \in [1..n -> Rankings], trace' = trace \o New(n, r)
    PROVE  /\ trace' \in Seq(RecordType) /\ Len(trace) \in Nat /\ DOMAIN trace = 1..Len(trace)
           /\ DOMAIN trace' = 1..(Len(trace) + n)
           /\ \A i \in 1..Len(trace) : trace'[i] = trace[i]
           /\ \A i \in (Len(trace) + 1)..(Len(trace) + n) :
                /\ trace'[i].req = req_idx /\ trace'[i].layer = at_layer
                /\ trace'[i].pos = i - Len(trace) - 1
                /\ trace'[i].exp = Ids(r, i - Len(trace) - 1)
<1>1. ASSUME NEW j \in 1..n
      PROVE  /\ New(n, r)[j] \in RecordType
             /\ New(n, r)[j].req = req_idx /\ New(n, r)[j].layer = at_layer
             /\ New(n, r)[j].pos = j - 1 /\ New(n, r)[j].exp = Ids(r, j - 1)
  <2>1. New(n, r)[j] = Record(j - 1, Ids(r, j - 1))
    BY DEF New
  <2>2. j - 1 \in 0..(n - 1) /\ j - 1 \in Nat
    OBVIOUS
  <2>3. Ids(r, j - 1) \in [1..NUsed -> Expert]
    BY <2>2, IdsType
  <2>. QED BY <2>1, <2>2, <2>3 DEF Record, RecordType
<1>2. New(n, r) \in Seq(RecordType) /\ Len(New(n, r)) = n
  <2>1. DOMAIN New(n, r) = 1..n
    BY DEF New
  <2>2. New(n, r) \in [1..n -> RecordType]
    <3>1. New(n, r) = [j \in 1..n |-> New(n, r)[j]]
      BY DEF New
    <3>. QED BY <3>1, <1>1
  <2>. QED BY <2>1, <2>2
<1>. DEFINE N == New(n, r)
<1>. HIDE DEF N
<1>3. N \in Seq(RecordType) /\ Len(N) = n /\ trace' = trace \o N
  BY <1>2 DEF N
<1>4. /\ trace' \in Seq(RecordType) /\ Len(trace) \in Nat /\ DOMAIN trace = 1..Len(trace)
      /\ DOMAIN trace' = 1..(Len(trace) + n)
      /\ \A i \in 1..Len(trace) : trace'[i] = trace[i]
      /\ \A i \in (Len(trace) + 1)..(Len(trace) + n) : trace'[i] = N[i - Len(trace)]
  <2>1. /\ trace \o N \in Seq(RecordType) /\ Len(trace \o N) = Len(trace) + n
        /\ Len(trace) \in Nat /\ DOMAIN trace = 1..Len(trace)
    BY <1>3
  <2>2. \A i \in 1..(Len(trace) + n) :
          (trace \o N)[i] = IF i <= Len(trace) THEN trace[i] ELSE N[i - Len(trace)]
    BY <1>3
  <2>3. DOMAIN (trace \o N) = 1..(Len(trace) + n)
    BY <2>1
  <2>4. \A i \in 1..Len(trace) : (trace \o N)[i] = trace[i]
    BY <2>1, <2>2
  <2>5. \A i \in (Len(trace) + 1)..(Len(trace) + n) : (trace \o N)[i] = N[i - Len(trace)]
    BY <2>1, <2>2
  <2>. QED BY <1>3, <2>1, <2>3, <2>4, <2>5
<1>5. ASSUME NEW i \in (Len(trace) + 1)..(Len(trace) + n)
      PROVE  /\ trace'[i].req = req_idx /\ trace'[i].layer = at_layer
             /\ trace'[i].pos = i - Len(trace) - 1
             /\ trace'[i].exp = Ids(r, i - Len(trace) - 1)
  <2>. DEFINE j == i - Len(trace)
  <2>1. j \in 1..n /\ i - Len(trace) - 1 = j - 1
    BY <1>4
  <2>2. trace'[i] = N[j]
    BY <1>4
  <2>. HIDE DEF j
  <2>. QED BY <2>1, <2>2, <1>1 DEF N
<1>. QED BY <1>4, <1>5

\* Requests whose routing in a layer is written down
WholeIn(n, l) == n <= NUbatch /\ (l < NLayer \/ n = 1)

\* What is there of a request of n tokens once a layer is through with it
Written(q, l, n) ==
    /\ Cardinality(RecordsOf(q, l)) = IF WholeIn(n, l) THEN n ELSE 0
    /\ PositionsOf(q, l) = IF WholeIn(n, l) THEN 0..(n - 1) ELSE {}
    /\ \A i, j \in RecordsOf(q, l) : trace[i].pos = trace[j].pos => i = j
    /\ \E m \in Nat : \E r \in [1..m -> Rankings] :
         \A i \in RecordsOf(q, l) : trace[i].pos < m /\ trace[i].exp = Ids(r, trace[i].pos)

RecordsInv ==
    /\ trace \in Seq(RecordType)
    /\ \A i \in DOMAIN trace : trace[i].req <= req_idx
    /\ pc \in {"line", "ubatch", "traced"} => at_layer = 1
    /\ \A q \in 0..(req_idx - 1), l \in Layer : Written(q, l, Tokens(corpus[LineOf(q)]))
    /\ \A l \in Layer : IF l < at_layer THEN Written(req_idx, l, req_len)
                                        ELSE RecordsOf(req_idx, l) = {}

LEMMA WrittenSame ==
    ASSUME NEW q, NEW l, RecordsOf(q, l)' = RecordsOf(q, l),
           \A i \in RecordsOf(q, l) : trace'[i] = trace[i]
    PROVE  \A n : Written(q, l, n) => Written(q, l, n)'
<1>1. PositionsOf(q, l)' = PositionsOf(q, l)
  BY DEF PositionsOf
<1>2. ASSUME NEW n, Written(q, l, n) PROVE Written(q, l, n)'
  <2>1. WholeIn(n, l)' <=> WholeIn(n, l)
    BY DEF WholeIn
  <2>2. \E m \in Nat : \E r \in [1..m -> Rankings] :
          \A i \in RecordsOf(q, l)' : trace'[i].pos < m /\ trace'[i].exp = Ids(r, trace'[i].pos)
    <3>0. PICK m \in Nat : \E r \in [1..m -> Rankings] :
            \A i \in RecordsOf(q, l) : trace[i].pos < m /\ trace[i].exp = Ids(r, trace[i].pos)
      BY <1>2, Zenon DEF Written
    <3>1. PICK r \in [1..m -> Rankings] :
            \A i \in RecordsOf(q, l) : trace[i].pos < m /\ trace[i].exp = Ids(r, trace[i].pos)
      BY <3>0
    <3>2. \A i \in RecordsOf(q, l)' : trace'[i].pos < m /\ trace'[i].exp = Ids(r, trace'[i].pos)
      BY <3>1
    <3>. QED BY <3>2, Zenon
  <2>3. \A i, j \in RecordsOf(q, l)' : trace'[i].pos = trace'[j].pos => i = j
    BY <1>2, Zenon DEF Written
  <2>. QED BY <1>1, <1>2, <2>1, <2>2, <2>3, Zenon DEF Written
<1>. QED BY <1>2

LEMMA LineKept ==
    ASSUME corpus' = corpus
    PROVE  \A q : LineOf(q)' = LineOf(q) /\ Tokens(corpus[LineOf(q)])' = Tokens(corpus[LineOf(q)])
BY DEF LineOf, Tokens

LEMMA RecordTyped ==
    ASSUME trace \in Seq(RecordType)
    PROVE  \A i \in DOMAIN trace :
             /\ trace[i].req \in Nat /\ trace[i].pos \in Nat /\ trace[i].layer \in Layer
             /\ trace[i].exp \in [1..NUsed -> Expert]
<1>1. ASSUME NEW i \in DOMAIN trace PROVE trace[i] \in RecordType
  OBVIOUS
<1>2. ASSUME NEW e \in RecordType
      PROVE  /\ e.req \in Nat /\ e.pos \in Nat /\ e.layer \in Layer
             /\ e.exp \in [1..NUsed -> Expert]
  BY DEF RecordType
<1>. QED BY <1>1, <1>2

LEMMA RecordsInit ==
    ASSUME Init
    PROVE  RecordsInv
<1>1. trace = <<>> /\ req_idx = 0 /\ at_layer = 1
  BY DEF Init
<1>2. trace \in Seq(RecordType) /\ DOMAIN trace = {}
  BY <1>1
<1>3. \A l \in Layer : ~(l < at_layer) /\ RecordsOf(req_idx, l) = {}
  BY <1>1, <1>2, Sizes DEF Layer, RecordsOf
<1>. QED BY <1>1, <1>2, <1>3 DEF RecordsInv

\* A layer that has no record of a request which is not written down is through with it.
LEMMA NothingWritten ==
    ASSUME NEW q, NEW l, NEW n, RecordsOf(q, l) = {}, ~WholeIn(n, l)
    PROVE  Written(q, l, n)
<1>1. PositionsOf(q, l) = {} /\ Cardinality(RecordsOf(q, l)) = 0
  BY FS_EmptySet DEF PositionsOf
<1>2. \E m \in Nat : \E r \in [1..m -> Rankings] :
        \A i \in RecordsOf(q, l) : trace[i].pos < m /\ trace[i].exp = Ids(r, trace[i].pos)
  <2>1. [j \in 1..0 |-> {}] \in [1..0 -> Rankings] /\ 0 \in Nat
    OBVIOUS
  <2>. QED BY <2>1
<1>. QED BY <1>1, <1>2 DEF Written

\* The rows handed over are the request's tokens just where it is written down whole.
LEMMA RowsWhole ==
    ASSUME FlowInv, pc = "layer", at_layer <= NLayer
    PROVE  /\ Rows \in Nat /\ at_layer \in Layer
           /\ Rows = req_len <=> WholeIn(req_len, at_layer)
<1>1. InReq
  BY DEF InReq
<1>2. at_layer \in 1..(NLayer + 1)
  BY DEF FlowInv
<1>3. at_layer \in Layer
  BY <1>2, Sizes DEF Layer
<1>4. CASE at_layer < NLayer
  BY <1>1, <1>3, <1>4, UbatchType, Sizes DEF Rows, WholeIn
<1>5. CASE ~(at_layer < NLayer)
  <2>1. Rows = IF IsLastUbatch THEN 1 ELSE 0
    BY <1>5 DEF Rows
  <2>. QED BY <1>1, <1>3, <1>5, <2>1, UbatchType, Sizes DEF WholeIn
<1>. QED BY <1>3, <1>4, <1>5

\* Finished requests are left as they are.
LEMMA FinishedKept ==
    ASSUME RecordsInv, corpus' = corpus,
           \A q \in 0..(req_idx - 1), l \in Layer :
               /\ RecordsOf(q, l)' = RecordsOf(q, l)
               /\ \A i \in RecordsOf(q, l) : trace'[i] = trace[i]
    PROVE  \A q \in 0..(req_idx - 1), l \in Layer : Written(q, l, Tokens(corpus[LineOf(q)]))'
<1>1. ASSUME NEW q \in 0..(req_idx - 1), NEW l \in Layer
      PROVE  Written(q, l, Tokens(corpus[LineOf(q)]))'
  <2>. DEFINE n == Tokens(corpus[LineOf(q)])
  <2>1. Written(q, l, n) /\ n' = n
    BY LineKept DEF RecordsInv
  <2>. HIDE DEF n
  <2>2. ASSUME NEW m, Written(q, l, m) PROVE Written(q, l, m)'
    BY <2>2, WrittenSame
  <2>3. Written(q, l, n)'
    BY <2>1, <2>2, Zenon DEF Written, WholeIn
  <2>. QED BY <2>3 DEF n
<1>. QED BY <1>1

LEMMA NothingNew ==
    ASSUME trace' = trace
    PROVE  \A q, l : /\ RecordsOf(q, l)' = RecordsOf(q, l)
                     /\ \A n : Written(q, l, n) => Written(q, l, n)'
<1>1. \A q, l : RecordsOf(q, l)' = RecordsOf(q, l)
  BY DEF RecordsOf
<1>2. ASSUME NEW q, NEW l PROVE \A n : Written(q, l, n) => Written(q, l, n)'
  BY <1>1, WrittenSame
<1>. QED BY <1>1, <1>2

\* What is there of the request in flight stays, too.
LEMMA InFlightKept ==
    ASSUME UNCHANGED <<req_idx, req_len>>, NEW l, Written(req_idx, l, req_len),
           RecordsOf(req_idx, l)' = RecordsOf(req_idx, l),
           \A i \in RecordsOf(req_idx, l) : trace'[i] = trace[i]
    PROVE  Written(req_idx, l, req_len)'
<1>1. RecordsOf(req_idx, l)' = RecordsOf(req_idx, l)
  OBVIOUS
<1>2. PositionsOf(req_idx, l)' = PositionsOf(req_idx, l)
  BY <1>1 DEF PositionsOf
<1>3. WholeIn(req_len, l)' <=> WholeIn(req_len, l)
  BY DEF WholeIn
<1>. DEFINE Read(t, R) == \E m \in Nat : \E r \in [1..m -> Rankings] :
                            \A i \in R : t[i].pos < m /\ t[i].exp = Ids(r, t[i].pos)
<1>4. Read(trace, RecordsOf(req_idx, l))
  BY Zenon DEF Written
<1>. HIDE DEF Read
<1>5. Read(trace', RecordsOf(req_idx, l)')
  <2>1. Read(trace', RecordsOf(req_idx, l))
    BY <1>4, Zenon DEF Read
  <2>. QED BY <2>1, <1>1
<1>. USE DEF Read
<1>6. \E m \in Nat : \E r \in [1..m -> Rankings] :
        \A i \in RecordsOf(req_idx, l)' : trace'[i].pos < m /\ trace'[i].exp = Ids(r, trace'[i].pos)
  BY <1>5, Zenon
<1>. HIDE DEF Read
<1>7. \A i, j \in RecordsOf(req_idx, l)' : trace'[i].pos = trace'[j].pos => i = j
  <2>1. \A i, j \in RecordsOf(req_idx, l) : trace[i].pos = trace[j].pos => i = j
    BY Zenon DEF Written
  <2>. QED BY <1>1, <2>1
<1>8. /\ Cardinality(RecordsOf(req_idx, l))' = (IF WholeIn(req_len, l) THEN req_len ELSE 0)'
      /\ PositionsOf(req_idx, l)' = (IF WholeIn(req_len, l) THEN 0..(req_len - 1) ELSE {})'
  BY <1>1, <1>2, <1>3, Zenon DEF Written
<1>. QED BY <1>6, <1>7, <1>8, Zenon DEF Written

\* Steps that route nothing.
LEMMA RecordsQuiet ==
    ASSUME RecordsInv, UNCHANGED <<corpus, req_idx, req_len, at_layer, trace>>,
           pc' \in {"line", "ubatch", "traced"} => at_layer = 1
    PROVE  RecordsInv'
<1>1. \A q \in 0..(req_idx - 1), l \in Layer : Written(q, l, Tokens(corpus[LineOf(q)]))'
  BY FinishedKept, NothingNew
<1>2. ASSUME NEW l \in Layer, Written(req_idx, l, req_len) PROVE Written(req_idx, l, req_len)'
  <2>1. /\ RecordsOf(req_idx, l)' = RecordsOf(req_idx, l)
        /\ \A i \in RecordsOf(req_idx, l) : trace'[i] = trace[i]
    BY DEF RecordsOf
  <2>. QED BY <1>2, <2>1, InFlightKept
<1>3. \A l : RecordsOf(req_idx, l)' = RecordsOf(req_idx, l)
  BY DEF RecordsOf
<1>. QED BY <1>1, <1>2, <1>3 DEF RecordsInv

LEMMA RecordsRequest ==
    ASSUME RecordsInv, Request
    PROVE  RecordsInv'
<1>1. /\ pc = "line" /\ pc' = "ubatch" /\ UNCHANGED <<corpus, req_idx, at_layer, trace>>
  BY DEF Request
<1>2. at_layer = 1 /\ \A l \in Layer : ~(l < at_layer) /\ RecordsOf(req_idx, l) = {}
  BY <1>1, Sizes DEF RecordsInv, Layer
<1>3. \A l \in Layer : RecordsOf(req_idx, l)' = {}
  BY <1>1, <1>2 DEF RecordsOf
<1>4. \A q \in 0..(req_idx - 1), l \in Layer : Written(q, l, Tokens(corpus[LineOf(q)]))'
  BY <1>1, FinishedKept, NothingNew
<1>. QED BY <1>1, <1>2, <1>3, <1>4 DEF RecordsInv

\* A request is over: its length is that of its line.
LEMMA RecordsUbatchDone ==
    ASSUME FlowInv, RecordsInv, UbatchDone
    PROVE  RecordsInv'
<1>1. /\ pc = "layer" /\ InReq /\ at_layer > NLayer /\ UNCHANGED <<corpus, trace, req_len>>
      /\ at_layer \in 1..(NLayer + 1) /\ at_layer' = 1 /\ req_idx \in Nat
      /\ IF IsLastUbatch THEN pc' = "line" /\ req_idx' = req_idx + 1
                         ELSE pc' = "ubatch" /\ req_idx' = req_idx
  BY DEF UbatchDone, InReq, FlowInv
<1>2. \A l \in Layer : Written(req_idx, l, req_len)
  <2>1. \A l \in Layer : l < at_layer
    BY <1>1, Sizes DEF Layer
  <2>. QED BY <2>1 DEF RecordsInv
<1>3. \A i \in DOMAIN trace : trace[i].req \in Nat /\ trace[i].req <= req_idx
  BY <1>1, RecordTyped DEF RecordsInv
<1>4. \A q \in 0..(req_idx - 1), l \in Layer : Written(q, l, Tokens(corpus[LineOf(q)]))'
  BY <1>1, FinishedKept, NothingNew
<1>5. CASE IsLastUbatch
  <2>1. req_len = Tokens(corpus[LineOf(req_idx)])
    <3>1. /\ corpus \in Corpora /\ at_line \in 1..Len(corpus) /\ corpus[at_line] > 0
          /\ req_idx = Made(at_line - 1) /\ req_len = Tokens(corpus[at_line])
      BY <1>1, CorpusType DEF FlowInv
    <3>2. LineOf(req_idx) = at_line
      BY <3>1, LineFound
    <3>. QED BY <3>1, <3>2
  <2>2. ASSUME NEW c, c = req_idx PROVE \A l \in Layer : Written(c, l, Tokens(corpus[LineOf(c)]))'
    <3>1. ASSUME NEW l \in Layer PROVE Written(c, l, Tokens(corpus[LineOf(c)]))'
      <4>. DEFINE n == Tokens(corpus[LineOf(c)])
      <4>1. n = req_len /\ n' = n
        BY <1>1, <2>1, <2>2, LineKept
      <4>2. Written(c, l, n)
        BY <1>2, <2>2, <4>1
      <4>. HIDE DEF n
      <4>3. ASSUME NEW m, Written(c, l, m) PROVE Written(c, l, m)'
        BY <1>1, <4>3, NothingNew
      <4>4. Written(c, l, n)'
        BY <4>1, <4>2, <4>3, Zenon DEF Written, WholeIn
      <4>. QED BY <4>4 DEF n
    <3>. QED BY <3>1
  <2>3. \A q \in 0..req_idx, l \in Layer : Written(q, l, Tokens(corpus[LineOf(q)]))'
    <3>1. \A q \in 0..req_idx : q \in 0..(req_idx - 1) \/ q = req_idx
      BY <1>1
    <3>. QED BY <3>1, <2>2, <1>4
  <2>4. req_idx' = req_idx + 1 /\ req_idx' - 1 = req_idx /\ pc' = "line"
    BY <1>1, <1>5
  <2>5. \A i \in DOMAIN trace' : trace'[i].req <= req_idx' /\ trace'[i].req # req_idx'
    BY <1>1, <1>3, <2>4
  <2>6. \A l \in Layer : RecordsOf(req_idx, l)' = {} /\ ~(l < at_layer')
    BY <1>1, <2>5, Sizes DEF RecordsOf, Layer
  <2>7. trace' \in Seq(RecordType)
    BY <1>1 DEF RecordsInv
  <2>. QED BY <1>1, <2>3, <2>4, <2>5, <2>6, <2>7 DEF RecordsInv
<1>6. CASE ~IsLastUbatch
  <2>1. \A l : ~WholeIn(req_len, l)
    BY <1>1, <1>6, UbatchType, Sizes DEF WholeIn
  <2>2. ASSUME NEW l \in Layer PROVE RecordsOf(req_idx, l) = {}
    <3>1. PositionsOf(req_idx, l) = {}
      BY <1>2, <2>1 DEF Written
    <3>. QED BY <3>1 DEF PositionsOf
  <2>3. \A l \in Layer : RecordsOf(req_idx, l)' = {} /\ ~(l < at_layer')
    BY <1>1, <1>6, <2>2, Sizes DEF RecordsOf, Layer
  <2>4. req_idx' = req_idx /\ pc' = "ubatch"
    BY <1>1, <1>6
  <2>5. trace' \in Seq(RecordType)
    BY <1>1 DEF RecordsInv
  <2>. QED BY <1>1, <1>3, <1>4, <2>3, <2>4, <2>5 DEF RecordsInv
<1>. QED BY <1>5, <1>6

\* A layer's rows are written down, or they are not the request's tokens and are left out.
LEMMA RecordsRoute ==
    ASSUME FlowInv, RecordsInv, Route
    PROVE  RecordsInv'
<1>1. /\ pc = "layer" /\ at_layer <= NLayer /\ at_layer' = at_layer + 1
      /\ UNCHANGED <<pc, corpus, req_idx, req_len>> /\ InReq
      /\ at_layer \in Nat /\ req_idx \in Nat /\ req_len \in Nat
  BY DEF Route, InReq, FlowInv
<1>2. PICK r \in [1..Rows -> Rankings] : TraceCb(Rows, r)
  BY DEF Route
<1>3. Rows \in Nat /\ at_layer \in Layer /\ (Rows = req_len <=> WholeIn(req_len, at_layer))
  BY <1>1, RowsWhole
<1>4. trace \in Seq(RecordType) /\ \A i \in DOMAIN trace : trace[i].req \in Nat /\ trace[i].req <= req_idx
  BY <1>1, RecordTyped DEF RecordsInv
<1>5. \A l \in Layer : IF l < at_layer THEN Written(req_idx, l, req_len)
                                       ELSE RecordsOf(req_idx, l) = {}
  BY <1>1 DEF RecordsInv
<1>6. \A l \in Layer : l \in Nat /\ (l < at_layer' <=> l < at_layer \/ l = at_layer)
  BY <1>1, Sizes DEF Layer
<1>7. RecordsOf(req_idx, at_layer) = {}
  BY <1>3, <1>5, <1>1
<1>8. SUFFICES /\ trace' \in Seq(RecordType)
               /\ \A i \in DOMAIN trace' : trace'[i].req <= req_idx
               /\ \A q, l : q # req_idx \/ l # at_layer =>
                    /\ RecordsOf(q, l)' = RecordsOf(q, l)
                    /\ \A i \in RecordsOf(q, l) : trace'[i] = trace[i]
               /\ \A l : l = at_layer => Written(req_idx, l, req_len)'
  <2>1. \A q \in 0..(req_idx - 1), l \in Layer : Written(q, l, Tokens(corpus[LineOf(q)]))'
    <3>1. \A q \in 0..(req_idx - 1) : q # req_idx
      BY <1>1
    <3>. QED BY <1>1, <1>8, <3>1, FinishedKept
  <2>2. ASSUME NEW l \in Layer
        PROVE  IF l < at_layer' THEN Written(req_idx, l, req_len)' ELSE RecordsOf(req_idx, l)' = {}
    <3>1. CASE l < at_layer
      <4>1. Written(req_idx, l, req_len) /\ l # at_layer
        BY <1>1, <1>5, <1>6, <3>1
      <4>2. /\ RecordsOf(req_idx, l)' = RecordsOf(req_idx, l)
            /\ \A i \in RecordsOf(req_idx, l) : trace'[i] = trace[i]
        <5>1. \A q : /\ RecordsOf(q, l)' = RecordsOf(q, l)
                     /\ \A i \in RecordsOf(q, l) : trace'[i] = trace[i]
          BY <1>8, <4>1
        <5>2. RecordsOf(req_idx, l)' = {i \in DOMAIN trace' : trace'[i].req = req_idx /\ trace'[i].layer = l}
          BY <1>1 DEF RecordsOf
        <5>. QED BY <5>1, <5>2, Zenon DEF RecordsOf
      <4>3. Written(req_idx, l, req_len)'
        BY <1>1, <4>1, <4>2, InFlightKept
      <4>. QED BY <4>3, <3>1, <1>6
    <3>2. CASE l = at_layer
      BY <1>6, <1>8, <3>2
    <3>3. CASE ~(l < at_layer) /\ l # at_layer
      <4>1. RecordsOf(req_idx, l) = {} /\ ~(l < at_layer')
        BY <1>5, <1>6, <3>3
      <4>2. ASSUME NEW q, q = req_idx PROVE RecordsOf(q, l)' = {}
        BY <1>8, <3>3, <4>1, <4>2
      <4>3. RecordsOf(req_idx, l)' = {}
        BY <1>1, <4>2, Zenon DEF RecordsOf
      <4>. QED BY <4>1, <4>3
    <3>. QED BY <3>1, <3>2, <3>3
  <2>3. pc' = "layer" /\ req_idx' = req_idx
    BY <1>1
  <2>. QED BY <1>8, <2>1, <2>2, <2>3 DEF RecordsInv
<1>9. CASE Rows # req_len
  <2>1. trace' = trace
    BY <1>2, <1>9 DEF TraceCb
  <2>2. Written(req_idx, at_layer, req_len)
    BY <1>3, <1>7, <1>9, NothingWritten
  <2>3. ASSUME NEW l, l = at_layer PROVE Written(req_idx, l, req_len)'
    <3>1. /\ RecordsOf(req_idx, l)' = RecordsOf(req_idx, l)
          /\ \A i \in RecordsOf(req_idx, l) : trace'[i] = trace[i]
      BY <1>1, <2>1 DEF RecordsOf
    <3>2. Written(req_idx, l, req_len)
      BY <2>2, <2>3
    <3>. QED BY <1>1, <3>1, <3>2, InFlightKept
  <2>. QED BY <1>4, <2>1, <2>3, NothingNew
<1>10. CASE Rows = req_len
  <2>. DEFINE n == req_len
  <2>. DEFINE t == Len(trace)
  <2>1. trace' = trace \o New(n, r) /\ r \in [1..n -> Rankings] /\ n \in Nat
    BY <1>1, <1>2, <1>10 DEF TraceCb, New
  <2>2. /\ trace' \in Seq(RecordType) /\ t \in Nat /\ DOMAIN trace = 1..t
        /\ DOMAIN trace' = 1..(t + n)
        /\ \A i \in 1..t : trace'[i] = trace[i]
        /\ \A i \in (t + 1)..(t + n) :
             /\ trace'[i].req = req_idx /\ trace'[i].layer = at_layer
             /\ trace'[i].pos = i - t - 1 /\ trace'[i].exp = Ids(r, i - t - 1)
    <3>. HIDE DEF n
    <3>. QED BY <1>1, <1>3, <1>4, <2>1, Appended
  <2>. HIDE DEF t
  <2>3. \A i \in 1..(t + n) : i \in 1..t \/ i \in (t + 1)..(t + n)
    BY <2>1, <2>2
  <2>4. \A i \in DOMAIN trace' : trace'[i].req <= req_idx
    <3>1. \A i \in 1..t : trace'[i].req <= req_idx
      BY <1>4, <2>2
    <3>2. \A i \in (t + 1)..(t + n) : trace'[i].req <= req_idx
      BY <1>1, <2>2
    <3>. QED BY <2>2, <2>3, <3>1, <3>2
  <2>5. ASSUME NEW q, NEW l, q # req_idx \/ l # at_layer
        PROVE  /\ RecordsOf(q, l)' = RecordsOf(q, l)
               /\ \A i \in RecordsOf(q, l) : trace'[i] = trace[i]
    <3>1. \A i : i \in RecordsOf(q, l)' <=> i \in RecordsOf(q, l)
      <4>1. ASSUME NEW i, i \in RecordsOf(q, l)' PROVE i \in RecordsOf(q, l)
        <5>1. i \in DOMAIN trace' /\ trace'[i].req = q /\ trace'[i].layer = l
          BY <4>1 DEF RecordsOf
        <5>2. i \in 1..t
          BY <5>1, <2>2, <2>3, <2>5
        <5>. QED BY <5>1, <5>2, <2>2 DEF RecordsOf
      <4>2. ASSUME NEW i, i \in RecordsOf(q, l) PROVE i \in RecordsOf(q, l)'
        <5>1. i \in 1..t /\ trace[i].req = q /\ trace[i].layer = l
          BY <4>2, <2>2 DEF RecordsOf
        <5>2. i \in 1..(t + n) /\ trace'[i] = trace[i]
          BY <5>1, <2>1, <2>2
        <5>. QED BY <5>1, <5>2, <2>2 DEF RecordsOf
      <4>. QED BY <4>1, <4>2
    <3>2. RecordsOf(q, l)' = RecordsOf(q, l)
      BY <3>1, Zenon DEF RecordsOf
    <3>3. \A i \in RecordsOf(q, l) : i \in 1..t
      BY <2>2 DEF RecordsOf
    <3>. QED BY <3>2, <3>3, <2>2
  <2>6. ASSUME NEW l, l = at_layer PROVE Written(req_idx, l, req_len)'
    <3>1. RecordsOf(req_idx, l)' = (t + 1)..(t + n)
      <4>1. ASSUME NEW i \in 1..t
            PROVE  ~(trace'[i].req = req_idx /\ trace'[i].layer = l)
        <5>1. i \notin RecordsOf(req_idx, l)
          BY <1>7, <2>6
        <5>. QED BY <5>1, <2>2 DEF RecordsOf
      <4>2. \A i : i \in RecordsOf(req_idx, l)' <=> i \in (t + 1)..(t + n)
        <5>1. ASSUME NEW i, i \in RecordsOf(req_idx, l)' PROVE i \in (t + 1)..(t + n)
          <6>1. i \in 1..(t + n) /\ trace'[i].req = req_idx /\ trace'[i].layer = l
            BY <1>1, <2>2, <5>1 DEF RecordsOf
          <6>. QED BY <6>1, <4>1, <2>3
        <5>2. ASSUME NEW i \in (t + 1)..(t + n) PROVE i \in RecordsOf(req_idx, l)'
          <6>1. i \in DOMAIN trace' /\ trace'[i].req = req_idx /\ trace'[i].layer = l
            <7>1. i \in 1..(t + n)
              BY <2>2
            <7>. QED BY <7>1, <2>2, <2>6
          <6>. QED BY <1>1, <6>1 DEF RecordsOf
        <5>. QED BY <5>1, <5>2
      <4>. QED BY <4>2, Zenon
    <3>. DEFINE R == (t + 1)..(t + n)
    <3>2. WholeIn(n, l)
      BY <1>3, <1>10, <2>6
    <3>3. Cardinality(R) = n
      <4>1. Cardinality(R) = IF t + 1 > t + n THEN 0 ELSE (t + n) - (t + 1) + 1
        BY <2>1, <2>2, FS_Interval
      <4>. QED BY <4>1, <2>1, <2>2
    <3>4. {trace'[i].pos : i \in R} = 0..(n - 1)
      <4>1. ASSUME NEW p \in 0..(n - 1) PROVE \E i \in R : p = trace'[i].pos
        <5>1. t + 1 + p \in R /\ (t + 1 + p) - t - 1 = p
          BY <2>1, <2>2
        <5>. QED BY <5>1, <2>2
      <4>2. ASSUME NEW i \in R PROVE trace'[i].pos \in 0..(n - 1)
        <5>1. i - t - 1 \in 0..(n - 1)
          BY <2>1, <2>2
        <5>. QED BY <5>1, <2>2
      <4>3. \A p : p \in {trace'[i].pos : i \in R} <=> p \in 0..(n - 1)
        BY <4>1, <4>2, Zenon
      <4>. QED BY <4>3, Zenon
    <3>5. \A i, j \in R : trace'[i].pos = trace'[j].pos => i = j
      BY <2>1, <2>2
    <3>6. \A i \in R : trace'[i].pos < n /\ trace'[i].exp = Ids(r, trace'[i].pos)
      <4>1. \A i \in R : i - t - 1 < n
        BY <2>1, <2>2
      <4>. QED BY <4>1, <2>2
    <3>. HIDE DEF R
    <3>7. RecordsOf(req_idx, l)' = R
      BY <3>1 DEF R
    <3>8. /\ Cardinality(RecordsOf(req_idx, l)') = n
          /\ {trace'[i].pos : i \in RecordsOf(req_idx, l)'} = 0..(n - 1)
          /\ \A i, j \in RecordsOf(req_idx, l)' : trace'[i].pos = trace'[j].pos => i = j
      BY <3>3, <3>4, <3>5, <3>7
    <3>9. \E m \in Nat : \E s \in [1..m -> Rankings] :
            \A i \in RecordsOf(req_idx, l)' : trace'[i].pos < m /\ trace'[i].exp = Ids(s, trace'[i].pos)
      BY <2>1, <3>6, <3>7
    <3>10. WholeIn(req_len, l)' /\ req_len' = n
      BY <1>1, <3>2 DEF WholeIn
    <3>11. /\ Cardinality(RecordsOf(req_idx, l))' = (IF WholeIn(req_len, l) THEN req_len ELSE 0)'
           /\ PositionsOf(req_idx, l)' = (IF WholeIn(req_len, l) THEN 0..(req_len - 1) ELSE {})'
      BY <3>8, <3>10 DEF PositionsOf
    <3>. QED BY <3>8, <3>9, <3>11, Zenon DEF Written
  <2>. QED BY <2>2, <2>4, <2>5, <2>6
<1>. QED BY <1>9, <1>10

LEMMA RecordsStep ==
    ASSUME FlowInv, RecordsInv, [Next]_vars
    PROVE  RecordsInv'
<1>1. CASE EmptyLine \/ Ubatch \/ DecodeFails \/ TraceDone \/ Rank \/ EmitPins \/ EmitAsserts
  <2>1. CASE Ubatch
    <3>1. /\ pc = "ubatch" /\ pc' = "layer" /\ at_layer' = 1
          /\ UNCHANGED <<corpus, req_idx, req_len, trace>>
      BY <2>1 DEF Ubatch
    <3>. QED BY <3>1, RecordsQuiet DEF RecordsInv
  <2>2. CASE ~Ubatch
    <3>1. /\ UNCHANGED <<corpus, req_idx, req_len, at_layer, trace>>
          /\ pc' \in {"line", "ubatch", "traced"} => pc = "line"
      BY <1>1, <2>2 DEF EmptyLine, DecodeFails, TraceDone, Rank, EmitPins, EmitAsserts
    <3>. QED BY <3>1, RecordsQuiet DEF RecordsInv
  <2>. QED BY <2>1, <2>2
<1>2. CASE Request
  BY <1>2, RecordsRequest
<1>3. CASE Route
  BY <1>3, RecordsRoute
<1>4. CASE UbatchDone
  BY <1>4, RecordsUbatchDone
<1>5. CASE UNCHANGED vars
  <2>1. UNCHANGED <<pc, corpus, req_idx, req_len, at_layer, trace>>
    BY <1>5 DEF vars
  <2>. QED BY <2>1, RecordsQuiet DEF RecordsInv
<1>. QED BY <1>1, <1>2, <1>3, <1>4, <1>5 DEF Next

(***************************************************************************)
(* What is counted as skipped, and as an auxiliary head's.                 *)
(***************************************************************************)

\* Of the first k requests, those with more than one token
Longer(k) == {q \in 0..(k - 1) : Tokens(corpus[LineOf(q)]) > 1}

LEMMA LongerType ==
    ASSUME NEW k \in Nat
    PROVE  IsFiniteSet(Longer(k)) /\ Cardinality(Longer(k)) \in Nat
<1>1. IsFiniteSet(0..(k - 1))
  BY FS_Interval
<1>2. Longer(k) \subseteq 0..(k - 1)
  BY DEF Longer
<1>. QED BY <1>1, <1>2, FS_Subset, FS_CardinalityType

LEMMA LongerNext ==
    ASSUME NEW k \in Nat
    PROVE  Cardinality(Longer(k + 1)) =
               Cardinality(Longer(k)) + (IF Tokens(corpus[LineOf(k)]) > 1 THEN 1 ELSE 0)
<1>. DEFINE long == Tokens(corpus[LineOf(k)]) > 1
<1>1. k \notin Longer(k)
  BY DEF Longer
<1>2. Longer(k + 1) = IF long THEN Longer(k) \cup {k} ELSE Longer(k)
  <2>1. 0..((k + 1) - 1) = (0..(k - 1)) \cup {k}
    OBVIOUS
  <2>. QED BY <2>1, Zenon DEF Longer
<1>3. IsFiniteSet(Longer(k)) /\ Cardinality(Longer(k)) \in Nat
  BY LongerType
<1>. DEFINE S == Longer(k)
<1>. DEFINE T == Longer(k + 1)
<1>. HIDE DEF S, T, long
<1>4. Cardinality(T) = Cardinality(S) + (IF long THEN 1 ELSE 0)
  BY <1>1, <1>2, <1>3, FS_AddElement DEF S, T
<1>. QED BY <1>4 DEF S, T, long

AllFit == \A i \in DOMAIN corpus : Tokens(corpus[i]) <= NUbatch

\* A request already cut into micro-batches: finished, or beyond its first layer
CutBefore ==
    \/ \E q \in 0..(req_idx - 1) : Tokens(corpus[LineOf(q)]) > NUbatch
    \/ InReq /\ req_len > NUbatch /\ (start > 0 \/ (pc = "layer" /\ at_layer > 1))

LastRouted == pc = "layer" /\ at_layer > NLayer /\ req_len > 1

SkipInv ==
    /\ n_records \in Nat /\ n_skip \in Nat /\ n_aux \in Nat
    /\ NLayer > 1 /\ NUbatch > 1 /\ CutBefore => n_skip > 0
    /\ AllFit =>
         /\ n_skip = 0
         /\ pc \in {"line", "traced"} \/ InReq =>
              n_aux = Cardinality(Longer(req_idx)) + (IF LastRouted THEN 1 ELSE 0)

LEMMA SkipInit ==
    ASSUME Init
    PROVE  SkipInv
<1>1. /\ pc = "line" /\ req_idx = 0 /\ n_records = 0 /\ n_skip = 0 /\ n_aux = 0
  BY DEF Init
<1>2. ~CutBefore /\ ~LastRouted
  BY <1>1 DEF CutBefore, LastRouted, InReq
<1>3. Longer(0) = {}
  BY DEF Longer
<1>. QED BY <1>1, <1>2, <1>3, FS_EmptySet DEF SkipInv

LEMMA LongerKept ==
    ASSUME corpus' = corpus
    PROVE  /\ AllFit' <=> AllFit
           /\ \A k : Longer(k)' = Longer(k)
           /\ req_idx' = req_idx => Longer(req_idx)' = Longer(req_idx)
<1>1. AllFit' <=> AllFit
  BY DEF AllFit, Tokens
<1>2. \A k : Longer(k)' = Longer(k)
  BY DEF Longer, LineOf, Tokens
<1>3. req_idx' = req_idx => Longer(req_idx)' = Longer(req_idx)
  BY DEF Longer, LineOf, Tokens
<1>. QED BY <1>1, <1>2, <1>3

\* Steps that route nothing and finish no request.
LEMMA SkipQuiet ==
    ASSUME SkipInv, UNCHANGED <<corpus, req_idx, counters>>,
           InReq' /\ req_len' > NUbatch /\ (start' > 0 \/ (pc' = "layer" /\ at_layer' > 1)) => CutBefore,
           (pc \in {"line", "traced"} \/ InReq)' => (pc \in {"line", "traced"} \/ InReq),
           (pc \in {"line", "traced"} \/ InReq)' => (LastRouted' <=> LastRouted)
    PROVE  SkipInv'
<1>1. UNCHANGED <<n_records, n_skip, n_aux>>
  BY DEF counters
<1>2. \A q : Tokens(corpus[LineOf(q)])' = Tokens(corpus[LineOf(q)])
  BY LineKept
<1>3. CutBefore' => CutBefore
  <2>1. ASSUME NEW q \in 0..(req_idx' - 1), Tokens(corpus[LineOf(q)])' > NUbatch PROVE CutBefore
    <3>1. q \in 0..(req_idx - 1) /\ Tokens(corpus[LineOf(q)]) > NUbatch
      BY <1>2, <2>1
    <3>. QED BY <3>1 DEF CutBefore
  <2>. QED BY <2>1 DEF CutBefore
<1>4. (AllFit' <=> AllFit) /\ Longer(req_idx)' = Longer(req_idx)
  BY LongerKept
<1>5. Cardinality(Longer(req_idx))' = Cardinality(Longer(req_idx))
  BY <1>4
<1>. QED BY <1>1, <1>3, <1>4, <1>5 DEF SkipInv

LEMMA SkipRoute ==
    ASSUME FlowInv, SkipInv, Route
    PROVE  SkipInv'
<1>1. /\ pc = "layer" /\ pc' = "layer" /\ at_layer <= NLayer /\ at_layer' = at_layer + 1
      /\ UNCHANGED <<corpus, req_idx, req_len, start>> /\ InReq /\ InReq'
      /\ at_layer \in Nat /\ at_layer >= 1 /\ req_idx \in Nat /\ req_len \in Nat /\ Rows \in Nat
  BY RowsWhole, Sizes DEF Route, InReq, FlowInv
<1>2. PICK r \in [1..Rows -> Rankings] : TraceCb(Rows, r)
  BY DEF Route
<1>3. /\ n_records \in Nat /\ n_skip \in Nat /\ n_aux \in Nat
      /\ n_records' = n_records + Rows \/ n_records' = n_records
      /\ n_skip' = IF Rows # req_len /\ ~(Rows = 1 /\ req_len > 1) THEN n_skip + 1 ELSE n_skip
      /\ n_aux' = IF Rows = 1 /\ req_len > 1 THEN n_aux + 1 ELSE n_aux
  BY <1>1, <1>2 DEF TraceCb, SkipInv
<1>4. ASSUME NLayer > 1, NUbatch > 1, CutBefore' PROVE n_skip' > 0
  <2>1. CASE CutBefore
    BY <1>3, <1>4, <2>1 DEF SkipInv
  <2>2. CASE ~CutBefore
    <3>1. ~(\E q \in 0..(req_idx' - 1) : Tokens(corpus[LineOf(q)])' > NUbatch)
      BY <1>1, <2>2, LineKept DEF CutBefore
    <3>2. req_len > NUbatch /\ ~(start > 0) /\ ~(at_layer > 1)
      BY <1>1, <1>4, <2>2, <3>1 DEF CutBefore
    <3>3. UbatchTokens = NUbatch /\ Rows = UbatchTokens
      <4>1. start = 0 /\ at_layer < NLayer
        BY <1>1, <1>4, <3>2, UbatchType, Sizes
      <4>. QED BY <1>1, <3>2, <4>1, Sizes DEF UbatchTokens, AtMost, Rows
    <3>. QED BY <1>1, <1>3, <1>4, <3>2, <3>3, Sizes
  <2>. QED BY <2>1, <2>2
<1>5. ASSUME AllFit
      PROVE  n_skip' = 0 /\ n_aux' = Cardinality(Longer(req_idx)) + (IF LastRouted' THEN 1 ELSE 0)
  <2>1. req_len <= NUbatch
    <3>1. corpus \in Corpora /\ at_line \in 1..Len(corpus) /\ req_len = Tokens(corpus[at_line])
      BY <1>1, CorpusType DEF FlowInv
    <3>2. at_line \in DOMAIN corpus
      BY <3>1, CorpusType
    <3>. QED BY <3>1, <3>2, <1>5 DEF AllFit
  <2>2. UbatchTokens = req_len /\ IsLastUbatch /\ req_len > 0
    BY <1>1, <2>1, UbatchType
  <2>3. Rows = IF at_layer < NLayer THEN req_len ELSE 1
    BY <2>2 DEF Rows
  <2>4. n_skip = 0 /\ n_aux = Cardinality(Longer(req_idx)) + (IF LastRouted THEN 1 ELSE 0)
    BY <1>1, <1>5 DEF SkipInv
  <2>5. ~LastRouted /\ (LastRouted' <=> at_layer + 1 > NLayer /\ req_len > 1)
    BY <1>1, Sizes DEF LastRouted
  <2>6. Cardinality(Longer(req_idx)) \in Nat
    BY <1>1, LongerType
  <2>. HIDE DEF Rows
  <2>7. CASE at_layer < NLayer
    BY <1>1, <1>3, <2>2, <2>3, <2>4, <2>5, <2>6, <2>7, Sizes
  <2>8. CASE ~(at_layer < NLayer)
    BY <1>1, <1>3, <2>2, <2>3, <2>4, <2>5, <2>6, <2>8, Sizes
  <2>. QED BY <2>7, <2>8
<1>6. (AllFit' <=> AllFit) /\ Cardinality(Longer(req_idx))' = Cardinality(Longer(req_idx))
  BY <1>1, LongerKept
<1>7. n_records' \in Nat /\ n_skip' \in Nat /\ n_aux' \in Nat
  BY <1>1, <1>3
<1>. QED BY <1>4, <1>5, <1>6, <1>7 DEF SkipInv

LEMMA SkipUbatchDone ==
    ASSUME FlowInv, SkipInv, UbatchDone
    PROVE  SkipInv'
<1>1. /\ pc = "layer" /\ InReq /\ at_layer > NLayer /\ at_layer' = 1
      /\ start' = start + UbatchTokens /\ UNCHANGED <<corpus, req_len, n_records, n_skip, n_aux>>
      /\ at_layer \in 1..(NLayer + 1) /\ req_idx \in Nat /\ req_len \in Nat
      /\ IF IsLastUbatch THEN pc' = "line" /\ req_idx' = req_idx + 1
                         ELSE pc' = "ubatch" /\ req_idx' = req_idx
  BY DEF UbatchDone, InReq, FlowInv, counters
<1>2. req_len = Tokens(corpus[LineOf(req_idx)])
  <2>1. /\ corpus \in Corpora /\ at_line \in 1..Len(corpus) /\ corpus[at_line] > 0
        /\ req_idx = Made(at_line - 1) /\ req_len = Tokens(corpus[at_line])
    BY <1>1, CorpusType DEF FlowInv
  <2>2. LineOf(req_idx) = at_line
    BY <2>1, LineFound
  <2>. QED BY <2>1, <2>2
<1>3. n_records \in Nat /\ n_skip \in Nat /\ n_aux \in Nat
  BY DEF SkipInv
<1>4. ASSUME NLayer > 1, NUbatch > 1, CutBefore' PROVE CutBefore
  <2>1. CASE req_len > NUbatch
    BY <1>1, <1>4, <2>1, Sizes DEF CutBefore
  <2>2. CASE ~(req_len > NUbatch)
    <3>1. PICK q \in 0..(req_idx' - 1) : Tokens(corpus[LineOf(q)])' > NUbatch
      BY <1>1, <1>4, <2>2 DEF CutBefore
    <3>2. Tokens(corpus[LineOf(q)]) > NUbatch
      BY <1>1, <3>1, LineKept
    <3>3. q # req_idx
      BY <1>2, <2>2, <3>2
    <3>4. q \in 0..(req_idx - 1)
      BY <1>1, <3>1, <3>3
    <3>. QED BY <3>2, <3>4 DEF CutBefore
  <2>. QED BY <2>1, <2>2
<1>5. ASSUME AllFit
      PROVE  n_skip = 0 /\ n_aux = Cardinality(Longer(req_idx))' + (IF LastRouted' THEN 1 ELSE 0)
  <2>1. req_len <= NUbatch
    <3>1. corpus \in Corpora /\ at_line \in 1..Len(corpus) /\ req_len = Tokens(corpus[at_line])
      BY <1>1, CorpusType DEF FlowInv
    <3>2. at_line \in DOMAIN corpus
      BY <3>1, CorpusType
    <3>. QED BY <3>1, <3>2, <1>5 DEF AllFit
  <2>2. IsLastUbatch /\ req_idx' = req_idx + 1 /\ pc' = "line"
    BY <1>1, <2>1, UbatchType
  <2>3. n_skip = 0 /\ n_aux = Cardinality(Longer(req_idx)) + (IF LastRouted THEN 1 ELSE 0)
    BY <1>1, <1>5 DEF SkipInv
  <2>4. ~LastRouted' /\ (LastRouted <=> req_len > 1)
    BY <1>1, <2>2 DEF LastRouted
  <2>5. Cardinality(Longer(req_idx + 1)) = Cardinality(Longer(req_idx)) + (IF req_len > 1 THEN 1 ELSE 0)
    BY <1>1, <1>2, LongerNext
  <2>6. Longer(req_idx)' = Longer(req_idx + 1)
    BY <1>1, <2>2 DEF Longer, LineOf, Tokens
  <2>7. Cardinality(Longer(req_idx)) \in Nat
    BY <1>1, LongerType
  <2>8. Cardinality(Longer(req_idx))' = Cardinality(Longer(req_idx + 1))
    BY <2>6
  <2>. QED BY <2>3, <2>4, <2>5, <2>7, <2>8
<1>6. AllFit' <=> AllFit
  BY <1>1, LongerKept
<1>. QED BY <1>1, <1>3, <1>4, <1>5, <1>6 DEF SkipInv

LEMMA SkipStep ==
    ASSUME FlowInv, SkipInv, [Next]_vars
    PROVE  SkipInv'
<1>1. CASE EmptyLine
  BY <1>1, SkipQuiet DEF EmptyLine, InReq, LastRouted
<1>2. CASE Request
  <2>1. start' = 0 /\ pc' = "ubatch" /\ pc = "line" /\ UNCHANGED <<corpus, req_idx, counters>>
    BY <1>2 DEF Request
  <2>. QED BY <2>1, SkipQuiet DEF InReq, LastRouted
<1>3. CASE Ubatch
  <2>1. /\ pc = "ubatch" /\ pc' = "layer" /\ at_layer' = 1
        /\ UNCHANGED <<corpus, req_idx, req_len, start, counters>>
    BY <1>3 DEF Ubatch
  <2>2. ~LastRouted /\ ~LastRouted'
    BY <2>1, Sizes DEF LastRouted
  <2>3. req_len > NUbatch /\ start > 0 => CutBefore
    BY <2>1 DEF CutBefore, InReq
  <2>. QED BY <2>1, <2>2, <2>3, SkipQuiet DEF InReq
<1>4. CASE Route
  BY <1>4, SkipRoute
<1>5. CASE UbatchDone
  BY <1>5, SkipUbatchDone
<1>6. CASE DecodeFails
  BY <1>6, SkipQuiet DEF DecodeFails, InReq, LastRouted
<1>7. CASE TraceDone
  BY <1>7, SkipQuiet DEF TraceDone, InReq, LastRouted
<1>8. CASE Rank
  BY <1>8, SkipQuiet DEF Rank, InReq, LastRouted
<1>9. CASE EmitPins
  BY <1>9, SkipQuiet DEF EmitPins, InReq, LastRouted
<1>10. CASE EmitAsserts
  BY <1>10, SkipQuiet DEF EmitAsserts, InReq, LastRouted
<1>11. CASE UNCHANGED vars
  <2>1. UNCHANGED <<pc, corpus, req_idx, req_len, start, at_layer, counters>>
    BY <1>11 DEF vars
  <2>. QED BY <2>1, SkipQuiet DEF InReq, LastRouted, CutBefore
<1>. QED BY <1>1, <1>2, <1>3, <1>4, <1>5, <1>6, <1>7, <1>8, <1>9, <1>10, <1>11 DEF Next

(***************************************************************************)
(* The theorems.                                                           *)
(***************************************************************************)

Inv == FlowInv /\ RecordsInv /\ SkipInv /\ ManifestInv /\ FileInv

LEMMA InvInit == Init => Inv
<1>. SUFFICES ASSUME Init PROVE Inv
  OBVIOUS
<1>1. ManifestInv
  <2>1. \A l \in Layer : manifest[l] = <<>>
    BY DEF Init
  <2>2. <<>> \in Seq(Expert) /\ Len(<<>>) = 0
    OBVIOUS
  <2>3. ASSUME NEW l \in Layer, NEW m, m = manifest[l]
        PROVE  m \in Seq(Expert) /\ \A i, j \in 1..Len(m) : i # j => m[i] # m[j]
    <3>1. m = <<>> /\ 1..Len(m) = {}
      BY <2>1, <2>2, <2>3
    <3>. QED BY <2>2, <3>1
  <2>. QED BY <2>3 DEF ManifestInv
<1>2. FileInv
  <2>1. DOMAIN file = {} /\ pc # "emitted"
    BY DEF Init
  <2>. QED BY <2>1 DEF FileInv, FileWellFormed
<1>. QED BY <1>1, <1>2, FlowInit, RecordsInit, SkipInit DEF Inv

LEMMA InvStep == Inv /\ [Next]_vars => Inv'
<1>. SUFFICES ASSUME Inv, [Next]_vars PROVE Inv'
  OBVIOUS
<1>1. FlowInv /\ RecordsInv /\ SkipInv /\ ManifestInv /\ FileInv /\ trace \in Seq(RecordType)
  BY DEF Inv, RecordsInv
<1>2. SkipInv'
  BY <1>1, SkipStep
<1>3. CASE Next
  <2>1. FlowInv' /\ RecordsInv'
    BY <1>1, <1>3, FlowStep, RecordsStep
  <2>2. ManifestInv' /\ FileInv'
    <3>1. CASE Rank
      BY <1>1, <3>1, ManifestRanked
    <3>2. CASE EmitPins
      BY <1>1, <3>2, FileEmitted
    <3>3. CASE ~Rank /\ ~EmitPins
      <4>1. UNCHANGED <<manifest, file>> /\ (pc' # "emitted" \/ pc' = pc)
        BY <1>3, <3>3 DEF Next, EmptyLine, Request, Ubatch, Route, UbatchDone, DecodeFails, TraceDone, EmitAsserts
      <4>. QED BY <1>1, <4>1, FileKept
    <3>. QED BY <3>1, <3>2, <3>3
  <2>. QED BY <1>2, <2>1, <2>2 DEF Inv
<1>4. CASE UNCHANGED vars
  <2>1. UNCHANGED <<pc, corpus, at_line, req_idx, req_len, start, at_layer, manifest, file>>
    BY <1>4 DEF vars
  <2>2. FlowInv'
    <3>1. at_layer' \in 1..(NLayer + 1)
      BY <1>1, <2>1 DEF FlowInv
    <3>. QED BY <1>1, <2>1, <3>1, FlowKept
  <2>3. RecordsInv'
    BY <1>1, RecordsStep
  <2>. QED BY <1>1, <1>2, <2>1, <2>2, <2>3, FileKept DEF Inv
<1>. QED BY <1>3, <1>4

\* The inductive invariant: a request is the line that its index stands for; of every request and
\* layer behind, the trace has all positions, once, or nothing; a request cut into micro-batches
\* has been noticed; pin lists repeat no expert, and an emitted file has only full lists.
THEOREM Invariant == Spec => []Inv
BY InvInit, InvStep, PTL DEF Spec

\* Types, for every corpus: in particular, an id read from the router's output is an expert,
\* although the tracer reads it with the wrong row length.
THEOREM TypeCorrect == Spec => []TypeOK
<1>1. Inv => TypeOK
  <2>. SUFFICES ASSUME Inv PROVE TypeOK
    OBVIOUS
  <2>1. \A i \in DOMAIN trace : trace[i] \in RecordType
    BY DEF Inv, RecordsInv
  <2>. QED BY <2>1 DEF Inv, FlowInv, SkipInv, ManifestInv, FileInv, TypeOK
<1>. QED BY <1>1, Invariant, PTL

\* Any pins file written, of whatever trace, names no layer twice and as many different experts in
\* each layer as emit_pins.py looks for.
THEOREM WellFormed == Spec => []FileWellFormed
<1>1. Inv => FileWellFormed
  BY DEF Inv, FileInv
<1>. QED BY <1>1, Invariant, PTL

\* For every corpus, batch and micro-batch size: a finished request is in the trace position by
\* position, once each, or, when it was cut and in the last layer, not at all; a request that
\* was cut has been counted as skipped; and if none was, then the observations put down to an
\* auxiliary head are the last layer's of the longer requests.
THEOREM RequestsWhole == Spec => []WholeRequests
<1>1. Inv => WholeRequests
  <2>. SUFFICES ASSUME Inv PROVE WholeRequests
    OBVIOUS
  <2>1. FlowInv /\ RecordsInv /\ SkipInv
    BY DEF Inv
  <2>2. DOMAIN Lengths = 0..(req_idx - 1)
        /\ \A q \in 0..(req_idx - 1) : Lengths[q] = Tokens(corpus[LineOf(q)])
    BY DEF Lengths
  <2>3. ASSUME NEW q \in DOMAIN Lengths, NEW l \in Layer
        PROVE  LET n == Lengths[q]
                   whole == n <= NUbatch /\ (l < NLayer \/ n = 1)
               IN  /\ Cardinality(RecordsOf(q, l)) = IF whole THEN n ELSE 0
                   /\ PositionsOf(q, l) = IF whole THEN 0..(n - 1) ELSE {}
    <3>1. Written(q, l, Lengths[q])
      BY <2>1, <2>2 DEF RecordsInv
    <3>. DEFINE n == Lengths[q]
    <3>2. Written(q, l, n)
      BY <3>1
    <3>. HIDE DEF n
    <3>3. /\ Cardinality(RecordsOf(q, l)) = IF WholeIn(n, l) THEN n ELSE 0
          /\ PositionsOf(q, l) = IF WholeIn(n, l) THEN 0..(n - 1) ELSE {}
      BY <3>2 DEF Written
    <3>. QED BY <3>3 DEF WholeIn, n
  <2>4. (\E q \in DOMAIN Lengths : Lengths[q] > NUbatch) /\ NLayer > 1 /\ NUbatch > 1 => n_skip > 0
    BY <2>1, <2>2 DEF SkipInv, CutBefore
  <2>5. ASSUME \A i \in DOMAIN corpus : Tokens(corpus[i]) <= NUbatch, pc \in {"line", "traced"}
        PROVE  n_skip = 0 /\ n_aux = Cardinality({q \in DOMAIN Lengths : Lengths[q] > 1})
    <3>1. n_skip = 0 /\ n_aux = Cardinality(Longer(req_idx)) + (IF LastRouted THEN 1 ELSE 0)
      BY <2>1, <2>5 DEF SkipInv, AllFit
    <3>2. ~LastRouted
      BY <2>5 DEF LastRouted
    <3>3. {q \in DOMAIN Lengths : Lengths[q] > 1} = Longer(req_idx)
      BY <2>2 DEF Longer
    <3>4. Cardinality(Longer(req_idx)) \in Nat
      <4>1. req_idx \in Nat
        BY <2>1 DEF FlowInv
      <4>. QED BY <4>1, LongerType
    <3>. QED BY <3>1, <3>2, <3>3, <3>4
  <2>. QED BY <2>3, <2>4, <2>5 DEF WholeRequests
<1>. QED BY <1>1, Invariant, PTL

\* A one-to-one function into a set of as many elements reaches all of them.
LEMMA Onto ==
    ASSUME NEW S, NEW T, IsFiniteSet(T), Cardinality(S) = Cardinality(T), NEW f \in [S -> T],
           \A x, y \in S : f[x] = f[y] => x = y
    PROVE  \A t \in T : \E x \in S : f[x] = t
<1>1. f \in Injection(S, T)
  BY DEF Injection, IsInjective
<1>2. f \in Surjection(S, T)
  BY <1>1, FS_Injection
<1>. QED BY <1>2 DEF Surjection

\* Where NUsed divides NExpert, the draws of a block of positions are one whole ranking.
LEMMA IdsInBlock ==
    ASSUME NEW g \in Nat \ {0}, NExpert = g * NUsed, NEW b \in Nat, NEW p \in (b * g)..(b * g + g - 1),
           NEW k \in 1..NUsed, NEW r
    PROVE  Ids(r, p)[k] = r[b + 1][(p - b * g) * NUsed + k]
<1>. DEFINE d == (p - b * g) * NUsed + k - 1
<1>. DEFINE i == p * NUsed + k - 1
<1>1. /\ NUsed \in Nat \ {0} /\ k \in Nat /\ k >= 1 /\ k <= NUsed /\ b * g \in Nat /\ p \in Nat
      /\ p - b * g \in 0..(g - 1)
  BY Sizes
<1>2. d \in 0..(NExpert - 1) /\ i = b * NExpert + d /\ i \in Nat
  <2>. DEFINE e == p - b * g
  <2>1. e \in Nat /\ e + 1 <= g /\ p = b * g + e
    BY <1>1
  <2>. HIDE DEF e
  <2>2. e * NUsed \in Nat /\ (e + 1) * NUsed <= g * NUsed /\ (e + 1) * NUsed = e * NUsed + NUsed
    BY <1>1, <2>1
  <2>3. p * NUsed = (b * g) * NUsed + e * NUsed /\ (b * g) * NUsed = b * (g * NUsed)
    BY <1>1, <2>1
  <2>4. b * NExpert \in Nat
    BY Sizes
  <2>5. d = e * NUsed + k - 1
    BY DEF e
  <2>6. i = b * NExpert + d
    BY <1>1, <2>2, <2>3, <2>5
  <2>7. d \in 0..(NExpert - 1)
    BY <1>1, <2>2, <2>5
  <2>. QED BY <2>4, <2>6, <2>7
<1>. HIDE DEF i, d
<1>3. i \div NExpert = b /\ i % NExpert = d
  <2>. DEFINE q == i \div NExpert
  <2>. DEFINE m == i % NExpert
  <2>1. q \in Int /\ m \in 0..(NExpert - 1) /\ i = NExpert * q + m
    BY <1>2, Sizes
  <2>. HIDE DEF q, m
  <2>2. ASSUME q < b PROVE FALSE
    <3>1. NExpert * (q + 1) <= NExpert * b
      BY <2>1, <2>2, Sizes
    <3>2. NExpert * (q + 1) = NExpert * q + NExpert /\ NExpert * b = b * NExpert
      BY <2>1, Sizes
    <3>. QED BY <1>2, <2>1, <3>1, <3>2, Sizes
  <2>3. ASSUME b < q PROVE FALSE
    <3>1. NExpert * (b + 1) <= NExpert * q
      BY <2>1, <2>3, Sizes
    <3>2. NExpert * (b + 1) = NExpert * b + NExpert /\ NExpert * b = b * NExpert
      BY <2>1, Sizes
    <3>. QED BY <1>2, <2>1, <3>1, <3>2, Sizes
  <2>4. q = b
    BY <2>1, <2>2, <2>3
  <2>. QED BY <1>2, <2>1, <2>4, Sizes DEF q, m
<1>4. Ids(r, p)[k] = r[(i \div NExpert) + 1][(i % NExpert) + 1]
  BY DEF Ids, i
<1>5. d + 1 = (p - b * g) * NUsed + k
  BY <1>1 DEF d
<1>. QED BY <1>3, <1>4, <1>5

\* What the ids are read from, for every size of router: if NUsed divides NExpert, then a full block
\* of NExpert \div NUsed records of a request and layer names every expert, because together they
\* go through one whole ranking.
THEOREM BlocksNameAll == Spec => []EachBlockNamesAll
<1>1. Inv => EachBlockNamesAll
  <2>. DEFINE g == NExpert \div NUsed
  <2>. DEFINE In(q, l, b) == {i \in RecordsOf(q, l) : trace[i].pos \div g = b}
  <2>. DEFINE Names(I) == UNION {{trace[i].exp[k] : k \in 1..NUsed} : i \in I}
  <2>. SUFFICES ASSUME Inv, NExpert % NUsed = 0, NEW q \in DOMAIN Lengths, NEW l \in Layer,
                       NEW b \in 0..(NCtx \div g), Cardinality(In(q, l, b)) = g
                PROVE  Names(In(q, l, b)) = Expert
    BY Zenon DEF EachBlockNamesAll
  <2>1. g \in Nat \ {0} /\ NExpert = g * NUsed /\ b \in Nat
    <3>1. g \in Int /\ NExpert = NUsed * g + (NExpert % NUsed)
      BY Sizes
    <3>2. NExpert = g * NUsed
      BY <3>1, Sizes
    <3>. HIDE DEF g
    <3>3. g > 0
      <4>1. ASSUME g <= 0 PROVE FALSE
        <5>1. NUsed * g <= 0
          BY <3>1, <4>1, Sizes
        <5>. QED BY <3>1, <5>1, Sizes
      <4>. QED BY <4>1, <3>1
    <3>4. b \in Nat
      OBVIOUS
    <3>. QED BY <3>1, <3>2, <3>3, <3>4
  <2>2. /\ \A i, j \in RecordsOf(q, l) : trace[i].pos = trace[j].pos => i = j
        /\ \E m \in Nat : \E r \in [1..m -> Rankings] :
             \A i \in RecordsOf(q, l) : trace[i].pos < m /\ trace[i].exp = Ids(r, trace[i].pos)
    <3>1. q \in 0..(req_idx - 1)
      BY DEF Lengths
    <3>2. Written(q, l, Tokens(corpus[LineOf(q)]))
      BY <3>1 DEF Inv, RecordsInv
    <3>. QED BY <3>2, Zenon DEF Written
  <2>3. PICK m \in Nat : \E r \in [1..m -> Rankings] :
          \A i \in RecordsOf(q, l) : trace[i].pos < m /\ trace[i].exp = Ids(r, trace[i].pos)
    BY <2>2
  <2>4. PICK r \in [1..m -> Rankings] :
          \A i \in RecordsOf(q, l) : trace[i].pos < m /\ trace[i].exp = Ids(r, trace[i].pos)
    BY <2>3
  <2>5. \A i \in RecordsOf(q, l) : trace[i].pos \in Nat
    <3>1. \A i \in RecordsOf(q, l) : i \in DOMAIN trace
      BY DEF RecordsOf
    <3>2. trace \in Seq(RecordType)
      BY DEF Inv, RecordsInv
    <3>. QED BY <3>1, <3>2, RecordTyped
  <2>. DEFINE I == In(q, l, b)
  <2>6. I \subseteq RecordsOf(q, l) /\ \A i \in I : trace[i].pos \div g = b
    OBVIOUS
  <2>7. Cardinality(I) = g
    OBVIOUS
  <2>. HIDE DEF g, In, I, Names
  <2>. DEFINE P == (b * g)..(b * g + g - 1)
  <2>8. ASSUME NEW i \in I PROVE trace[i].pos \in P /\ trace[i].pos < m
    <3>. DEFINE p == trace[i].pos
    <3>1. p \in Nat /\ p < m /\ p \div g = b
      BY <2>4, <2>5, <2>6
    <3>. HIDE DEF p
    <3>2. p = g * (p \div g) + (p % g) /\ p % g \in 0..(g - 1)
      BY <2>1, <3>1
    <3>3. b * g \in Nat /\ b * g = g * b
      BY <2>1
    <3>4. p \in P
      BY <2>1, <3>1, <3>2, <3>3
    <3>. QED BY <3>1, <3>4 DEF p
  <2>9. Cardinality(P) = g /\ IsFiniteSet(P)
    <3>. DEFINE c == b * g
    <3>1. c \in Int
      BY <2>1
    <3>. HIDE DEF c
    <3>. DEFINE d == c + g - 1
    <3>2. d \in Int /\ d - c + 1 = g /\ c <= d
      BY <2>1, <3>1
    <3>. HIDE DEF d
    <3>3. IsFiniteSet(c..d) /\ Cardinality(c..d) = IF c > d THEN 0 ELSE d - c + 1
      BY <3>1, <3>2, FS_Interval
    <3>4. IsFiniteSet(c..d) /\ Cardinality(c..d) = g
      BY <3>1, <3>2, <3>3
    <3>. QED BY <3>4 DEF c, d
  <2>10. \A p \in P : \E i \in I : trace[i].pos = p
    <3>. DEFINE f == [i \in I |-> trace[i].pos]
    <3>. HIDE DEF P
    <3>1. f \in [I -> P] /\ \A i \in I : f[i] = trace[i].pos
      BY <2>8
    <3>. HIDE DEF f
    <3>2. \A i, j \in I : f[i] = f[j] => i = j
      BY <2>2, <2>6, <3>1
    <3>3. \A p \in P : \E i \in I : f[i] = p
      BY <2>7, <2>9, <3>1, <3>2, Onto
    <3>. QED BY <3>1, <3>3
  <2>. DEFINE s == r[b + 1]
  <2>11. s \in [1..NExpert -> Expert] /\ \A e \in Expert : \E x \in 1..NExpert : s[x] = e
    <3>1. b * g \in P /\ b * g >= b
      <4>1. b * g >= b * 1
        BY <2>1
      <4>2. b * g \in Nat
        BY <2>1
      <4>. QED BY <2>1, <4>1, <4>2
    <3>2. b + 1 \in 1..m
      <4>1. b * g < m
        <5>1. PICK i \in I : trace[i].pos = b * g
          BY <2>10, <3>1
        <5>. QED BY <2>8, <5>1
      <4>2. b * g \in Nat
        BY <2>1
      <4>. QED BY <2>1, <3>1, <4>1, <4>2
    <3>3. s \in Rankings
      BY <3>2
    <3>. HIDE DEF s
    <3>4. s \in [1..NExpert -> Expert] /\ \A i, j \in 1..NExpert : s[i] = s[j] => i = j
      BY <3>3, InputAssumption
    <3>5. IsFiniteSet(Expert) /\ Cardinality(Expert) = NExpert /\ Cardinality(1..NExpert) = NExpert
      BY Sizes, FS_Interval DEF Expert
    <3>. DEFINE D == 1..NExpert
    <3>6. s \in [D -> Expert] /\ (\A i, j \in D : s[i] = s[j] => i = j) /\ Cardinality(D) = Cardinality(Expert)
      BY <3>4, <3>5
    <3>. HIDE DEF D
    <3>7. \A e \in Expert : \E x \in D : s[x] = e
      BY <3>5, <3>6, Onto
    <3>. QED BY <3>4, <3>7 DEF D
  <2>12. ASSUME NEW i \in I, NEW k \in 1..NUsed
         PROVE  /\ trace[i].exp[k] = s[(trace[i].pos - b * g) * NUsed + k]
                /\ (trace[i].pos - b * g) * NUsed + k \in 1..NExpert
    <3>. DEFINE p == trace[i].pos
    <3>1. p \in P /\ trace[i].exp = Ids(r, p)
      BY <2>4, <2>6, <2>8
    <3>. HIDE DEF p
    <3>2. Ids(r, p)[k] = s[(p - b * g) * NUsed + k]
      BY <2>1, <3>1, IdsInBlock
    <3>3. (p - b * g) * NUsed + k \in 1..NExpert
      <4>. DEFINE e == p - b * g
      <4>1. e \in Nat /\ e + 1 <= g
        <5>1. b * g \in Nat
          BY <2>1
        <5>. QED BY <2>1, <3>1, <5>1
      <4>. HIDE DEF e
      <4>2. (e + 1) * NUsed <= g * NUsed /\ (e + 1) * NUsed = e * NUsed + NUsed /\ e * NUsed \in Nat
        BY <2>1, <4>1, Sizes
      <4>3. e * NUsed + k \in 1..NExpert
        BY <2>1, <4>2, Sizes
      <4>. QED BY <4>3 DEF e
    <3>. QED BY <3>1, <3>2, <3>3 DEF p
  <2>. HIDE DEF s
  <2>13. ASSUME NEW e \in Names(I) PROVE e \in Expert
    <3>1. PICK i \in I : \E k \in 1..NUsed : e = trace[i].exp[k]
      BY Zenon DEF Names
    <3>2. PICK k \in 1..NUsed : e = trace[i].exp[k]
      BY <3>1
    <3>3. PICK x \in 1..NExpert : e = s[x]
      BY <2>12, <3>2
    <3>. QED BY <2>11, <3>3
  <2>14. ASSUME NEW e \in Expert PROVE e \in Names(I)
    <3>1. PICK x \in 1..NExpert : s[x] = e
      BY <2>11
    <3>. DEFINE j == (x - 1) \div NUsed
    <3>. DEFINE k == ((x - 1) % NUsed) + 1
    <3>2. j \in 0..(g - 1) /\ k \in 1..NUsed /\ j * NUsed + k = x
      <4>. DEFINE y == x - 1
      <4>1. y \in Nat /\ y < g * NUsed
        BY <2>1, Sizes
      <4>. HIDE DEF y
      <4>2. y \div NUsed \in 0..(g - 1) /\ y % NUsed \in 0..(NUsed - 1)
        BY <2>1, <4>1, Sizes, Quotient
      <4>3. y = NUsed * (y \div NUsed) + (y % NUsed)
        BY <4>1, Sizes
      <4>4. NUsed * (y \div NUsed) = (y \div NUsed) * NUsed
        BY <4>2, Sizes
      <4>5. y \div NUsed \in 0..(g - 1) /\ (y % NUsed) + 1 \in 1..NUsed
            /\ (y \div NUsed) * NUsed + ((y % NUsed) + 1) = y + 1
        BY <2>1, <4>1, <4>2, <4>3, <4>4, Sizes
      <4>. QED BY <4>5, Sizes DEF y
    <3>. HIDE DEF j, k
    <3>3. b * g + j \in P /\ (b * g + j) - b * g = j
      <4>1. b * g \in Nat
        BY <2>1
      <4>. QED BY <2>1, <3>2, <4>1
    <3>4. PICK i \in I : trace[i].pos = b * g + j
      BY <2>10, <3>3
    <3>5. trace[i].exp[k] = e
      BY <2>12, <3>1, <3>2, <3>3, <3>4
    <3>6. e \in {trace[i].exp[h] : h \in 1..NUsed}
      BY <3>2, <3>5
    <3>7. {trace[i].exp[h] : h \in 1..NUsed} \in {{trace[o].exp[h] : h \in 1..NUsed} : o \in I}
      OBVIOUS
    <3>8. Names(I) = UNION {{trace[o].exp[h] : h \in 1..NUsed} : o \in I}
      BY DEF Names
    <3>. HIDE DEF Names
    <3>. QED BY <3>6, <3>7, <3>8, Zenon
  <2>15. Names(I) = Expert
    BY <2>13, <2>14
  <2>. QED BY <2>15 DEF I
<1>. QED BY <1>1, Invariant, PTL
====
