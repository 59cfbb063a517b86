----------------------------- MODULE LevelProofs -----------------------------
(***************************************************************************)
(* Lemmas about the operators of Order and Level: what the queue of a      *)
(* level holds after each operation, the types of their results, and what  *)
(* the quantities of the orders of a queue sum up to.                      *)
(***************************************************************************)
EXTENDS Level, SequenceTheorems, WellFoundedInduction, TLAPS

-----------------------------------------------------------------------------
(* Queues as sets.                                                         *)

\* In a queue without repetitions, erasing by value (s_iterator_to) erases the one
\* position that holds it (Level::deleteOrder).
LEMMA RemoveFirstOfInjective ==
    ASSUME NEW S, NEW s \in Seq(S), IsInjective(s), NEW k \in DOMAIN s
    PROVE  RemoveFirst(s, s[k]) = RemoveAt(s, k)
<1> DEFINE I == {i \in 1 .. Len(s) : s[i] = s[k]}
<1>1. I = {k}
  BY DEF IsInjective
<1>2. Min(I) = k
  <2>1. k \in Int
    OBVIOUS
  <2> QED BY <1>1, <2>1 DEF Min
<1>3. SelectInSeq(s, LAMBDA v : v = s[k]) = k
  BY <1>1, <1>2 DEF SelectInSeq
<1>4. \E i \in 1 .. Len(s) : s[i] = s[k]
  OBVIOUS
<1> QED  BY <1>3, <1>4 DEF RemoveFirst

\* What erasing a position leaves, position by position.
LEMMA RemoveAtPositions ==
    ASSUME NEW S, NEW s \in Seq(S), NEW k \in DOMAIN s
    PROVE  /\ RemoveAt(s, k) \in Seq(S)
           /\ Len(RemoveAt(s, k)) = Len(s) - 1
           /\ \A i \in 1 .. Len(RemoveAt(s, k)) :
                RemoveAt(s, k)[i] = IF i < k THEN s[i] ELSE s[i + 1]
<1> DEFINE t == RemoveAt(s, k)
           a == SubSeq(s, 1, k - 1)
           b == SubSeq(s, k + 1, Len(s))
<1>1. /\ a \in Seq(S) /\ Len(a) = k - 1
      /\ \A i \in 1 .. k - 1 : a[i] = s[i]
  BY SubSeqProperties
<1>2. /\ b \in Seq(S) /\ Len(b) = Len(s) - k
      /\ \A i \in 1 .. Len(s) - k : b[i] = s[k + i]
  BY SubSeqProperties
<1>3. t = a \o b
  BY DEF RemoveAt
<1>4. /\ t \in Seq(S) /\ Len(t) = Len(a) + Len(b)
      /\ \A i \in 1 .. Len(a) + Len(b) :
           t[i] = IF i <= Len(a) THEN a[i] ELSE b[i - Len(a)]
  <2> HIDE DEF a, b, t
  <2> QED BY <1>1, <1>2, <1>3, ConcatProperties
<1>5. k \in 1 .. Len(s)
  OBVIOUS
<1> HIDE DEF a, b, t
<1>6. Len(t) = Len(s) - 1
  BY <1>1, <1>2, <1>4, <1>5
<1>7. ASSUME NEW i \in 1 .. Len(t)
      PROVE  t[i] = IF i < k THEN s[i] ELSE s[i + 1]
  <2>1. CASE i < k
    BY <1>1, <1>2, <1>4, <1>5, <2>1
  <2>2. CASE i >= k
    <3>1. t[i] = b[i - (k - 1)] /\ i - (k - 1) \in 1 .. Len(s) - k
      BY <1>1, <1>2, <1>4, <1>5, <1>6, <2>2
    <3>2. b[i - (k - 1)] = s[k + (i - (k - 1))]
      BY <1>2, <3>1
    <3>3. k + (i - (k - 1)) = i + 1
      BY <1>5, <1>6
    <3> QED BY <2>2, <3>1, <3>2, <3>3, <1>5, <1>6
  <2> QED BY <2>1, <2>2, <1>5, <1>6
<1> QED BY <1>4, <1>6, <1>7 DEF t

\* Erasing a position keeps the queue free of repetitions and loses that element.
LEMMA RemoveAtElements ==
    ASSUME NEW S, NEW s \in Seq(S), IsInjective(s), NEW k \in DOMAIN s
    PROVE  /\ RemoveAt(s, k) \in Seq(S)
           /\ IsInjective(RemoveAt(s, k))
           /\ ToSet(RemoveAt(s, k)) = ToSet(s) \ {s[k]}
<1> DEFINE t == RemoveAt(s, k)
<1>1. /\ t \in Seq(S)
      /\ Len(t) = Len(s) - 1
      /\ \A i \in 1 .. Len(t) : t[i] = IF i < k THEN s[i] ELSE s[i + 1]
  BY RemoveAtPositions
<1>2. IsInjective(t)
  BY <1>1 DEF IsInjective
<1>3. ASSUME NEW x \in ToSet(t)
      PROVE  x \in ToSet(s) \ {s[k]}
  BY <1>1, <1>3 DEF ToSet, IsInjective
<1>4. ASSUME NEW x \in ToSet(s) \ {s[k]}
      PROVE  x \in ToSet(t)
  <2>1. PICK i \in DOMAIN s : s[i] = x /\ i # k
    BY DEF ToSet
  <2>2. CASE i < k
    BY <1>1, <2>1, <2>2 DEF ToSet
  <2>3. CASE i > k
    <3>1. i - 1 \in DOMAIN t /\ t[i - 1] = x
      BY <1>1, <2>1, <2>3
    <3> QED BY <3>1 DEF ToSet
  <2> QED BY <2>1, <2>2, <2>3
<1> QED BY <1>1, <1>2, <1>3, <1>4

\* Level::deleteOrder on the queue.
LEMMA RemoveFirstElements ==
    ASSUME NEW S, NEW s \in Seq(S), IsInjective(s), NEW e \in ToSet(s)
    PROVE  /\ RemoveFirst(s, e) \in Seq(S)
           /\ IsInjective(RemoveFirst(s, e))
           /\ ToSet(RemoveFirst(s, e)) = ToSet(s) \ {e}
<1>1. PICK k \in DOMAIN s : s[k] = e
  BY DEF ToSet
<1>2. RemoveFirst(s, e) = RemoveAt(s, k)
  BY <1>1, RemoveFirstOfInjective
<1> QED BY <1>1, <1>2, RemoveAtElements

\* Level::addOrder on the queue.
LEMMA AppendElements ==
    ASSUME NEW S, NEW s \in Seq(S), IsInjective(s), NEW e \in S, e \notin ToSet(s)
    PROVE  /\ Append(s, e) \in Seq(S)
           /\ Append(s, e) # <<>>
           /\ IsInjective(Append(s, e))
           /\ ToSet(Append(s, e)) = ToSet(s) \cup {e}
<1> DEFINE t == Append(s, e)
<1>1. /\ t \in Seq(S)
      /\ DOMAIN t = DOMAIN s \cup {Len(s) + 1}
      /\ Len(s) + 1 \notin DOMAIN s
      /\ t[Len(s) + 1] = e
      /\ \A i \in DOMAIN s : t[i] = s[i]
  OBVIOUS
<1>2. t # <<>>
  BY Len(t) = Len(s) + 1, Len(s) \in Nat, Len(<<>>) = 0
<1> HIDE DEF t
<1>3. IsInjective(t)
  BY <1>1 DEF IsInjective, ToSet
<1>4. ToSet(t) = ToSet(s) \cup {e}
  BY <1>1 DEF ToSet
<1> QED BY <1>1, <1>2, <1>3, <1>4 DEF t

\* Level::popFront on the queue.
LEMMA TailElements ==
    ASSUME NEW S, NEW s \in Seq(S), IsInjective(s), s # <<>>
    PROVE  /\ Head(s) \in ToSet(s)
           /\ Tail(s) \in Seq(S)
           /\ IsInjective(Tail(s))
           /\ ToSet(Tail(s)) = ToSet(s) \ {Head(s)}
<1> DEFINE t == Tail(s)
<1>1. /\ t \in Seq(S)
      /\ Len(t) = Len(s) - 1
      /\ \A i \in 1 .. Len(t) : t[i] = s[i + 1]
      /\ Head(s) = s[1]
      /\ 1 \in DOMAIN s
  OBVIOUS
<1> HIDE DEF t
<1>2. ASSUME NEW i \in DOMAIN t, NEW j \in DOMAIN t, t[i] = t[j]
      PROVE  i = j
  <2>1. i + 1 \in DOMAIN s /\ j + 1 \in DOMAIN s /\ s[i + 1] = s[j + 1]
    BY <1>1, <1>2
  <2>2. i + 1 = j + 1
    BY <2>1 DEF IsInjective
  <2> QED BY <1>1, <2>2
<1>3. ASSUME NEW x \in ToSet(t)
      PROVE  x \in ToSet(s) \ {s[1]}
  BY <1>1, <1>3 DEF ToSet, IsInjective
<1>4. ASSUME NEW x \in ToSet(s) \ {s[1]}
      PROVE  x \in ToSet(t)
  <2>1. PICK i \in DOMAIN s : s[i] = x /\ i # 1
    BY DEF ToSet
  <2>2. i - 1 \in DOMAIN t /\ t[i - 1] = x
    BY <1>1, <2>1
  <2> QED BY <2>2 DEF ToSet
<1>5. Head(s) \in ToSet(s)
  BY <1>1 DEF ToSet
<1> QED BY <1>1, <1>2, <1>3, <1>4, <1>5 DEF t, IsInjective

\* Level::empty.
LEMMA EmptyElements ==
    ASSUME NEW S, NEW s \in Seq(S)
    PROVE  s = <<>> <=> ToSet(s) = {}
<1>1. s # <<>> => s[1] \in ToSet(s)
  BY DEF ToSet
<1> QED BY <1>1 DEF ToSet

\* The queue of a new level.
LEMMA EmptyQueue ==
    IsInjective(<<>>) /\ ToSet(<<>>) = {}
  BY DEF IsInjective, ToSet

-----------------------------------------------------------------------------
(* Types.                                                                  *)

\* The 64-bit arithmetic and the 32-bit narrowing stay in range.
LEMMA ArithmeticType ==
    ASSUME NEW a \in UInt64, NEW b \in UInt64
    PROVE  /\ Minus(a, b) \in UInt64
           /\ Plus(a, b) \in UInt64
           /\ Low32(a) \in UInt64
           /\ Least(a, b) \in UInt64
  BY WidthAssumption DEF UInt64, Minus, Plus, Low32, Least

\* The mutators of Order keep every field in its type.
LEMMA MutatorType ==
    ASSUME NEW o \in OrderRecord, NEW p \in UInt64, NEW q \in UInt64, NEW id \in Ids
    PROVE  /\ execute(o, p, q) \in OrderRecord
           /\ setQuantity(o, q) \in OrderRecord
           /\ setPrice(o, p) \in OrderRecord
           /\ setStopPrice(o, p) \in OrderRecord
           /\ setOrderID(o, id) \in OrderRecord
           /\ Converted(o) \in OrderRecord
<1>1. 0 \in UInt64
  BY WidthAssumption DEF UInt64
<1>2. execute(o, p, q) \in OrderRecord
  BY ArithmeticType DEF execute, OrderRecord
<1>3. setQuantity(o, q) \in OrderRecord
  BY ArithmeticType DEF setQuantity, OrderRecord
<1>4. /\ setPrice(o, p) \in OrderRecord
      /\ setStopPrice(o, p) \in OrderRecord
      /\ setOrderID(o, id) \in OrderRecord
  BY DEF setPrice, setStopPrice, setOrderID, OrderRecord
<1>5. Converted(o) \in OrderRecord
  BY <1>1 DEF Converted, OrderRecord, OrderType
<1> QED BY <1>2, <1>3, <1>4, <1>5

\* The constructor makes an order of every request.
LEMMA ConstructType ==
    ASSUME NEW id \in Ids, NEW r \in Request
    PROVE  Construct(id, r) \in OrderRecord
<1>1. 0 \in UInt64
  BY WidthAssumption DEF UInt64
<1> QED BY <1>1 DEF Construct, Request, OrderRecord

\* An entry written, by emplace or assignment, keeps a map well typed;
LEMMA PutType ==
    ASSUME NEW S, NEW T, NEW f, IsMap(f, S, T), NEW x \in S, NEW v \in T
    PROVE  IsMap(Put(f, x, v), S, T)
  BY DEF IsMap, Put

\* so does an entry erased.
LEMMA WithoutType ==
    ASSUME NEW S, NEW T, NEW f, IsMap(f, S, T), NEW x
    PROVE  IsMap(Without(f, x), S, T)
  BY DEF IsMap, Without

-----------------------------------------------------------------------------
(* The volume of a queue.  VolumeExact states it with a fold; the proofs   *)
(* work with the partial sums along the queue instead, which need no       *)
(* recursion.  That the two are the same is shown with least elements of   *)
(* sets of naturals: a fold's function exists for as long a queue as one   *)
(* likes, its values are partial sums, and a queue has but one sum.        *)

\* Every non-empty set of naturals has a least element.
LEMMA LeastNat ==
    ASSUME NEW T \in SUBSET Nat, T # {}
    PROVE  \E m \in T : \A k \in T : m <= k
<1>1. PICK m \in T : \A k \in T : ~(<<k, m>> \in OpToRel(<, Nat))
  BY NatLessThanWellFounded, WFMin
<1>2. \A k \in T : ~(k < m)
  BY <1>1 DEF OpToRel
<1> QED BY <1>2

\* So has the set of its upper bounds: a set of naturals up to n has a largest.
LEMMA LargestNat ==
    ASSUME NEW n \in Nat, NEW T \in SUBSET (1 .. n), T # {}
    PROVE  Max(T) \in T /\ \A k \in T : k <= Max(T)
<1> DEFINE U == {u \in Nat : n - u \in T}
<1>1. U \in SUBSET Nat
  OBVIOUS
<1>2. \A k \in T : n - k \in U /\ n - (n - k) = k
  OBVIOUS
<1>3. U # {}
  BY <1>2
<1>4. PICK u \in U : \A v \in U : u <= v
  BY <1>1, <1>3, LeastNat
<1>5. n - u \in T /\ \A k \in T : n - u >= k
  BY <1>2, <1>4
<1>6. \E m \in T : \A k \in T : m >= k
  BY <1>5
<1>7. Max(T) \in T /\ \A k \in T : Max(T) >= k
  BY <1>6 DEF Max
<1> QED BY <1>7

\* The quantities of a queue, summed up as the assert of level.cpp:103 does.
FoldedVolume(q, ords) == FoldLeft(LAMBDA sum, id : Plus(sum, ords[id].open_quantity), 0, q)

\* The same without recursion: s has the sums of the quantities of the first orders.
PartialSums(s, q, ords) ==
    /\ s \in [0 .. Len(q) -> UInt64]
    /\ s[0] = 0
    /\ \A i \in 1 .. Len(q) : s[i] = Plus(s[i - 1], ords[q[i]].open_quantity)

Sums(v, q, ords) == \E s : PartialSums(s, q, ords) /\ s[Len(q)] = v

\* The function the fold is defined by, on the subsets of a set of positions.
Unfolded(f, q, ords, D) ==
    [s \in SUBSET D |-> IF s = {} THEN 0
                        ELSE Plus(f[s \ {Max(s)}], ords[q[Max(s)]].open_quantity)]

Iter(q, ords, D) == CHOOSE f : f = Unfolded(f, q, ords, D)

LEMMA FoldedVolumeIter ==
    ASSUME NEW q, NEW ords
    PROVE  FoldedVolume(q, ords) = Iter(q, ords, DOMAIN q)[DOMAIN q]
  BY DEF FoldedVolume, FoldLeft, MapThenFoldSet, Iter, Unfolded

LEMMA IterUnfolds ==
    ASSUME NEW q, NEW ords, NEW D, \E f : f = Unfolded(f, q, ords, D)
    PROVE  Iter(q, ords, D) = Unfolded(Iter(q, ords, D), q, ords, D)
  BY Zenon DEF Iter

\* That function exists: one for the first k - 1 positions extends to one for k.
LEMMA UnfoldedExists ==
    ASSUME NEW q, NEW ords, NEW n \in Nat
    PROVE  \E f : f = Unfolded(f, q, ords, 1 .. n)
<1> DEFINE P(k) == \E f : f = Unfolded(f, q, ords, 1 .. k)
           T == {k \in Nat : ~P(k)}
<1>1. P(0)
  <2> DEFINE f == [s \in SUBSET (1 .. 0) |-> 0]
  <2>1. 1 .. 0 = {}
    OBVIOUS
  <2>2. f = Unfolded(f, q, ords, 1 .. 0)
    BY <2>1 DEF Unfolded
  <2> QED BY <2>2
<1>2. ASSUME NEW k \in Nat, k # 0, P(k - 1) PROVE P(k)
  <2>1. PICK f : f = Unfolded(f, q, ords, 1 .. k - 1)
    BY <1>2
  <2> DEFINE g == [s \in SUBSET (1 .. k) |->
                     IF k \in s THEN Plus(f[s \ {k}], ords[q[k]].open_quantity) ELSE f[s]]
             h == Unfolded(g, q, ords, 1 .. k)
  <2>2. ASSUME NEW s \in SUBSET (1 .. k) PROVE g[s] = h[s]
    <3>1. h[s] = IF s = {} THEN 0
                 ELSE Plus(g[s \ {Max(s)}], ords[q[Max(s)]].open_quantity)
      BY DEF Unfolded
    <3>2. \A r \in SUBSET (1 .. k - 1) :
             f[r] = IF r = {} THEN 0 ELSE Plus(f[r \ {Max(r)}], ords[q[Max(r)]].open_quantity)
      BY <2>1 DEF Unfolded
    <3>3. \A r \in SUBSET (1 .. k - 1) : r \in SUBSET (1 .. k) /\ k \notin r /\ g[r] = f[r]
      OBVIOUS
    <3>4. k \notin s => s \in SUBSET (1 .. k - 1)
      OBVIOUS
    <3>5. CASE s = {}
      BY <3>1, <3>2, <3>3, <3>4, <3>5
    <3>6. CASE s # {} /\ k \notin s
      <4>1. s \ {Max(s)} \in SUBSET (1 .. k - 1)
        BY <3>4, <3>6
      <4> QED BY <3>1, <3>2, <3>3, <3>4, <3>6, <4>1
    <3>7. CASE k \in s
      <4>1. Max(s) \in s /\ k <= Max(s)
        BY <3>7, LargestNat
      <4>2. Max(s) = k
        <5>1. Max(s) \in 1 .. k
          BY <4>1
        <5> QED BY <4>1, <5>1
      <4>3. s \ {k} \in SUBSET (1 .. k - 1)
        OBVIOUS
      <4>4. g[s \ {k}] = f[s \ {k}]
        BY <3>3, <4>3
      <4>5. g[s] = Plus(f[s \ {k}], ords[q[k]].open_quantity)
        BY <3>7
      <4> QED BY <3>1, <3>7, <4>2, <4>4, <4>5
    <3> QED BY <3>5, <3>6, <3>7
  <2>3. g = h
    BY <2>2 DEF Unfolded
  <2> QED BY <2>3
<1> HIDE DEF P
<1>3. T = {}
  <2> SUFFICES ASSUME T # {} PROVE FALSE
    OBVIOUS
  <2>1. PICK k \in T : \A i \in T : k <= i
    BY LeastNat
  <2>2. k # 0
    BY <1>1, <2>1
  <2>3. k - 1 \in Nat /\ k - 1 \notin T
    BY <2>1, <2>2
  <2> QED BY <1>2, <2>1, <2>2, <2>3
<1> QED BY <1>3 DEF P

\* The queue's orders have quantities, and the fold sums them up.
Quantities(q, ords) == \A i \in 1 .. Len(q) : ords[q[i]].open_quantity \in UInt64

LEMMA FoldSums ==
    ASSUME NEW q \in Seq(Ids), NEW ords, Quantities(q, ords)
    PROVE  Sums(FoldedVolume(q, ords), q, ords)
<1> DEFINE n == Len(q)
           f == Iter(q, ords, 1 .. n)
           s == [k \in 0 .. n |-> f[1 .. k]]
           T == {k \in 0 .. n : f[1 .. k] \notin UInt64}
<1>1. n \in Nat /\ DOMAIN q = 1 .. n
  OBVIOUS
<1>2. f = Unfolded(f, q, ords, 1 .. n)
  BY <1>1, UnfoldedExists, IterUnfolds
<1>3. FoldedVolume(q, ords) = f[1 .. n]
  BY <1>1, FoldedVolumeIter
<1> HIDE DEF f, n
<1>4. f[{}] = 0
  BY <1>2 DEF Unfolded
<1>5. ASSUME NEW k \in 1 .. n
      PROVE  f[1 .. k] = Plus(f[1 .. k - 1], ords[q[k]].open_quantity)
  <2>0. k \in Nat /\ k \in 1 .. k
    BY <1>1
  <2>1. 1 .. k \in SUBSET (1 .. n) /\ 1 .. k # {}
    <3>1. k <= n /\ \A i \in 1 .. k : i \in 1 .. n
      BY <1>1, <2>0
    <3> QED BY <2>0, <3>1
  <2>2. Max(1 .. k) \in 1 .. k /\ k <= Max(1 .. k)
    BY <2>0, <2>1, LargestNat
  <2>3. Max(1 .. k) = k
    BY <2>1, <2>2
  <2>4. (1 .. k) \ {k} = 1 .. k - 1
    BY <2>0
  <2>5. f[1 .. k] = Plus(f[(1 .. k) \ {Max(1 .. k)}], ords[q[Max(1 .. k)]].open_quantity)
    BY <1>2, <2>1 DEF Unfolded
  <2> QED BY <2>3, <2>4, <2>5
<1>6. 1 .. 0 = {} /\ 0 \in UInt64
  BY WidthAssumption DEF UInt64
<1>7. T = {}
  <2> SUFFICES ASSUME T # {} PROVE FALSE
    OBVIOUS
  <2>1. T \in SUBSET Nat
    BY <1>1
  <2>2. PICK k \in T : \A i \in T : k <= i
    BY <2>1, LeastNat
  <2>3. k # 0
    BY <1>4, <1>6, <2>2
  <2>4. k \in 1 .. n /\ k - 1 \in 0 .. n /\ k - 1 \notin T
    BY <1>1, <2>2, <2>3
  <2>5. f[1 .. k] = Plus(f[1 .. k - 1], ords[q[k]].open_quantity)
    BY <1>5, <2>4
  <2>6. f[1 .. k - 1] \in UInt64 /\ ords[q[k]].open_quantity \in UInt64
    BY <2>4 DEF Quantities, n
  <2> QED BY <2>2, <2>5, <2>6, ArithmeticType
<1>8. s \in [0 .. n -> UInt64]
  BY <1>7
<1>9. s[0] = 0
  BY <1>1, <1>4, <1>6
<1>10. \A k \in 1 .. n : s[k] = Plus(s[k - 1], ords[q[k]].open_quantity)
  BY <1>1, <1>5
<1>11. s[n] = f[1 .. n]
  BY <1>1
<1> QED BY <1>3, <1>8, <1>9, <1>10, <1>11 DEF Sums, PartialSums, n

\* A queue has one sum.
LEMMA SumUnique ==
    ASSUME NEW q \in Seq(Ids), NEW ords, NEW v, NEW w, Sums(v, q, ords), Sums(w, q, ords)
    PROVE  v = w
<1>1. PICK s : PartialSums(s, q, ords) /\ s[Len(q)] = v
  BY DEF Sums
<1>2. PICK t : PartialSums(t, q, ords) /\ t[Len(q)] = w
  BY DEF Sums
<1> DEFINE T == {k \in 0 .. Len(q) : s[k] # t[k]}
<1>3. T \in SUBSET Nat /\ Len(q) \in Nat
  OBVIOUS
<1>4. T = {}
  <2> SUFFICES ASSUME T # {} PROVE FALSE
    OBVIOUS
  <2>1. PICK k \in T : \A i \in T : k <= i
    BY <1>3, LeastNat
  <2>2. k # 0
    BY <1>1, <1>2, <2>1 DEF PartialSums
  <2>3. k \in 1 .. Len(q) /\ s[k - 1] = t[k - 1]
    BY <1>3, <2>1, <2>2
  <2> QED BY <1>1, <1>2, <2>1, <2>3 DEF PartialSums
<1> QED BY <1>1, <1>2, <1>3, <1>4

\* So a volume is the fold exactly when it is the sum.
LEMMA SumIsFold ==
    ASSUME NEW q \in Seq(Ids), NEW ords, Quantities(q, ords), NEW v
    PROVE  v = FoldedVolume(q, ords) <=> Sums(v, q, ords)
  BY FoldSums, SumUnique

\* The 64-bit sums wrap around and may be taken in any order.
LEMMA PlusMinus ==
    ASSUME NEW a \in UInt64, NEW b \in UInt64, NEW c \in UInt64
    PROVE  /\ Minus(Plus(a, b), c) = Plus(Minus(a, c), b)
           /\ Minus(Plus(a, b), c) = Plus(a, Minus(b, c))
           /\ Minus(Plus(a, b), b) = a
           /\ Minus(a, 0) = a
  BY WidthAssumption DEF UInt64, Minus, Plus

\* A new level.
LEMMA SumEmpty == ASSUME NEW ords PROVE Sums(0, <<>>, ords)
<1> DEFINE s == [i \in 0 .. 0 |-> 0]
<1>1. PartialSums(s, <<>>, ords)
  BY WidthAssumption DEF PartialSums, UInt64
<1> QED BY <1>1 DEF Sums

\* An order joins.
LEMMA SumAppend ==
    ASSUME NEW q \in Seq(Ids), NEW ords, NEW v, Sums(v, q, ords),
           NEW e \in Ids, ords[e].open_quantity \in UInt64
    PROVE  Sums(Plus(v, ords[e].open_quantity), Append(q, e), ords)
<1>1. PICK s : PartialSums(s, q, ords) /\ s[Len(q)] = v
  BY DEF Sums
<1> DEFINE n == Len(q)
           w == Plus(v, ords[e].open_quantity)
           r == Append(q, e)
           t == [i \in 0 .. n + 1 |-> IF i <= n THEN s[i] ELSE w]
<1>2. /\ n \in Nat /\ Len(r) = n + 1
      /\ \A i \in 1 .. n : r[i] = q[i]
      /\ r[n + 1] = e
  OBVIOUS
<1>3. s \in [0 .. n -> UInt64] /\ s[0] = 0 /\ s[n] = v
      /\ \A i \in 1 .. n : s[i] = Plus(s[i - 1], ords[q[i]].open_quantity)
  BY <1>1 DEF PartialSums
<1>4. v \in UInt64
  BY <1>2, <1>3
<1>5. w \in UInt64 /\ w = Plus(v, ords[e].open_quantity)
  BY <1>4, ArithmeticType
<1> HIDE DEF n, w, r
<1>6. t \in [0 .. n + 1 -> UInt64]
  BY <1>2, <1>3, <1>5
<1>7. t[0] = 0 /\ t[n + 1] = w
  BY <1>2, <1>3
<1>8. ASSUME NEW i \in 1 .. n + 1 PROVE t[i] = Plus(t[i - 1], ords[r[i]].open_quantity)
  <2>1. CASE i <= n
    BY <1>2, <1>3, <2>1
  <2>2. CASE i = n + 1
    BY <1>2, <1>3, <1>5, <2>2
  <2> QED BY <1>2, <2>1, <2>2
<1>9. PartialSums(t, r, ords)
  BY <1>2, <1>6, <1>7, <1>8 DEF PartialSums
<1> QED BY <1>2, <1>7, <1>9 DEF Sums, w, r

\* What other orders do is nothing to a queue's sum.
LEMMA SumSame ==
    ASSUME NEW q \in Seq(Ids), NEW ords, NEW ords2, NEW v, Sums(v, q, ords),
           \A i \in 1 .. Len(q) : ords2[q[i]].open_quantity = ords[q[i]].open_quantity
    PROVE  Sums(v, q, ords2)
<1>1. PICK s : PartialSums(s, q, ords) /\ s[Len(q)] = v
  BY DEF Sums
<1>2. PartialSums(s, q, ords2)
  BY <1>1 DEF PartialSums
<1> QED BY <1>1, <1>2 DEF Sums

\* An order of the queue loses quantity.
LEMMA SumReduced ==
    ASSUME NEW q \in Seq(Ids), IsInjective(q), NEW ords, NEW ords2, NEW v, Sums(v, q, ords),
           Quantities(q, ords), NEW k \in 1 .. Len(q), NEW amount \in UInt64,
           ords2[q[k]].open_quantity = Minus(ords[q[k]].open_quantity, amount),
           \A i \in 1 .. Len(q) :
              i # k => ords2[q[i]].open_quantity = ords[q[i]].open_quantity
    PROVE  Sums(Minus(v, amount), q, ords2)
<1>1. PICK s : PartialSums(s, q, ords) /\ s[Len(q)] = v
  BY DEF Sums
<1> DEFINE n == Len(q)
           t == [i \in 0 .. n |-> IF i < k THEN s[i] ELSE Minus(s[i], amount)]
<1>2. n \in Nat /\ k \in 1 .. n
  OBVIOUS
<1>3. s \in [0 .. n -> UInt64] /\ s[0] = 0 /\ s[n] = v
      /\ \A i \in 1 .. n : s[i] = Plus(s[i - 1], ords[q[i]].open_quantity)
  BY <1>1 DEF PartialSums
<1>4. \A i \in 1 .. n : ords[q[i]].open_quantity \in UInt64
  BY DEF Quantities
<1> HIDE DEF n
<1>5. t \in [0 .. n -> UInt64]
  BY <1>2, <1>3, ArithmeticType
<1>6. t[0] = 0 /\ t[n] = Minus(v, amount)
  BY <1>2, <1>3
<1>7. ASSUME NEW i \in 1 .. n PROVE t[i] = Plus(t[i - 1], ords2[q[i]].open_quantity)
  <2>1. i \in 0 .. n /\ i - 1 \in 0 .. n /\ s[i - 1] \in UInt64
    BY <1>2, <1>3
  <2>2. CASE i < k
    BY <1>2, <1>3, <2>1, <2>2 DEF n
  <2>3. CASE i = k
    <3>1. t[i] = Minus(Plus(s[i - 1], ords[q[i]].open_quantity), amount) /\ t[i - 1] = s[i - 1]
      BY <1>2, <1>3, <2>1, <2>3
    <3> QED BY <1>4, <2>1, <2>3, <3>1, PlusMinus
  <2>4. CASE i > k
    <3>1. t[i] = Minus(Plus(s[i - 1], ords[q[i]].open_quantity), amount)
          /\ t[i - 1] = Minus(s[i - 1], amount)
      BY <1>2, <1>3, <2>1, <2>4
    <3>2. ords2[q[i]].open_quantity = ords[q[i]].open_quantity
      BY <1>2, <2>4 DEF n
    <3> QED BY <1>4, <2>1, <3>1, <3>2, PlusMinus
  <2> QED BY <1>2, <2>2, <2>3, <2>4
<1>8. PartialSums(t, q, ords2)
  BY <1>5, <1>6, <1>7 DEF PartialSums, n
<1> QED BY <1>6, <1>8 DEF Sums, n

\* An order leaves the queue.
LEMMA SumRemoved ==
    ASSUME NEW q \in Seq(Ids), NEW ords, NEW v, Sums(v, q, ords), Quantities(q, ords),
           NEW k \in DOMAIN q
    PROVE  Sums(Minus(v, ords[q[k]].open_quantity), RemoveAt(q, k), ords)
<1>1. PICK s : PartialSums(s, q, ords) /\ s[Len(q)] = v
  BY DEF Sums
<1> DEFINE n == Len(q)
           r == RemoveAt(q, k)
           c == ords[q[k]].open_quantity
           t == [i \in 0 .. n - 1 |-> IF i < k THEN s[i] ELSE Minus(s[i + 1], c)]
<1>2. /\ n \in Nat /\ k \in 1 .. n /\ Len(r) = n - 1
      /\ \A i \in 1 .. n - 1 : r[i] = IF i < k THEN q[i] ELSE q[i + 1]
  BY RemoveAtPositions
<1>3. s \in [0 .. n -> UInt64] /\ s[0] = 0 /\ s[n] = v
      /\ \A i \in 1 .. n : s[i] = Plus(s[i - 1], ords[q[i]].open_quantity)
  BY <1>1 DEF PartialSums
<1>4. \A i \in 1 .. n : ords[q[i]].open_quantity \in UInt64
  BY DEF Quantities
<1>5. c \in UInt64 /\ c = ords[q[k]].open_quantity
  BY <1>2, <1>4
<1> HIDE DEF n, r, c
<1>6. t \in [0 .. n - 1 -> UInt64]
  <2>1. ASSUME NEW i \in 0 .. n - 1
        PROVE  s[i] \in UInt64 /\ Minus(s[i + 1], c) \in UInt64
    <3>1. i \in 0 .. n /\ i + 1 \in 0 .. n
      BY <1>2
    <3> QED BY <1>3, <1>5, <3>1, ArithmeticType
  <2> QED BY <2>1
<1>7. Minus(s[k], c) = s[k - 1]
  <2>1. s[k] = Plus(s[k - 1], c) /\ s[k - 1] \in UInt64
    BY <1>2, <1>3, <1>5
  <2> QED BY <1>5, <2>1, PlusMinus
<1>8. t[0] = 0
  BY <1>2, <1>3
<1>9. t[n - 1] = Minus(v, c)
  <2>1. CASE k = n
    BY <1>2, <1>3, <1>7, <2>1
  <2>2. CASE k < n
    BY <1>2, <1>3, <2>2
  <2> QED BY <1>2, <2>1, <2>2
<1>10. ASSUME NEW i \in 1 .. n - 1 PROVE t[i] = Plus(t[i - 1], ords[r[i]].open_quantity)
  <2>0. /\ i \in 1 .. n /\ i + 1 \in 1 .. n /\ i \in 0 .. n - 1 /\ i - 1 \in 0 .. n - 1
        /\ i \in 0 .. n /\ i - 1 \in 0 .. n /\ (i + 1) - 1 = i /\ (i - 1) + 1 = i
    BY <1>2
  <2>1. s[i] \in UInt64 /\ s[i - 1] \in UInt64
    BY <1>3, <2>0
  <2>2. CASE i < k
    <3>1. t[i] = s[i] /\ t[i - 1] = s[i - 1] /\ r[i] = q[i]
      BY <1>2, <2>0, <2>2
    <3> QED BY <1>3, <2>0, <3>1
  <2>3. CASE i >= k
    <3>1. t[i] = Minus(Plus(s[i], ords[q[i + 1]].open_quantity), c)
      <4>1. t[i] = Minus(s[i + 1], c)
        BY <1>2, <2>0, <2>3
      <4>2. s[i + 1] = Plus(s[(i + 1) - 1], ords[q[i + 1]].open_quantity)
        BY <1>3, <2>0
      <4> QED BY <2>0, <4>1, <4>2
    <3>2. t[i - 1] = Minus(s[i], c)
      <4>1. CASE i = k
        BY <1>2, <1>7, <2>0, <4>1
      <4>2. CASE i > k
        BY <1>2, <2>0, <4>2
      <4> QED BY <1>2, <2>3, <4>1, <4>2
    <3>3. r[i] = q[i + 1] /\ ords[q[i + 1]].open_quantity \in UInt64
      BY <1>2, <1>4, <2>0, <2>3
    <3> QED BY <1>5, <2>1, <3>1, <3>2, <3>3, PlusMinus
  <2> QED BY <1>2, <2>2, <2>3
<1>11. PartialSums(t, r, ords)
  BY <1>2, <1>6, <1>8, <1>10 DEF PartialSums
<1> QED BY <1>2, <1>9, <1>11 DEF Sums, r, c
=============================================================================
