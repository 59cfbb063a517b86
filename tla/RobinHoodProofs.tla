--------------------------- MODULE RobinHoodProofs ---------------------------
(***************************************************************************)
(* Proofs about the hash map, for every hash function, every size of the   *)
(* memory and of an info byte, and every number of tables and keys.        *)
(*                                                                         *)
(* What carries them is the order of the info bytes: a node that is not at *)
(* home has one before it whose byte is less by at most one step.  A       *)
(* search that stops at the first smaller byte therefore cannot miss a     *)
(* key, nodes can be shifted up and down without losing their distance,    *)
(* and a free slot is always left before the sentinel, since the nodes     *)
(* behind the homes are fewer than the slots there.                        *)
(***************************************************************************)
EXTENDS RobinHood, FiniteSetTheorems, WellFoundedInduction, TLAPS

(***************************************************************************)
(* The inductive invariant.                                                *)
(***************************************************************************)

\* The arrays of a table, of any length.
Arrays(S) == UNION {[0 .. n - 1 -> S] : n \in Nat}

Members == [mHashMultiplier : 0 .. NumMultipliers - 1,
            mKeyVals : Arrays(Node \cup {NoNode}),
            mInfo : Arrays(0 .. InfoMax),
            mNumElements : Nat, mMask : Nat, mMaxNumElementsAllowed : Nat,
            mInfoInc : Nat, mInfoHashShift : 0 .. InitialInfoNumBits - 1]

\* Home and Info for a hash function that is given.
HomeBy(hash, t, k) == (hash[t.mHashMultiplier][k] \div InitialInfoInc) % (t.mMask + 1)

InfoBy(hash, t, k, d) ==
    t.mInfoInc + (hash[t.mHashMultiplier][k] % InitialInfoInc) \div PowerOfTwo[t.mInfoHashShift]
        + d * t.mInfoInc

\* The arrays are as long as the mask says, and the sentinel stands.
Memory(t) ==
    /\ t.mKeyVals \in [Slots(t) -> Node \cup {NoNode}]
    /\ t.mInfo \in [0 .. End(t) -> 0 .. InfoMax]
    /\ t.mInfo[End(t)] = 1

\* The step of the info bytes was halved as often as the hash bits were shifted.
Halved(t) ==
    /\ t.mInfoInc = PowerOfTwo[InitialInfoNumBits - t.mInfoHashShift]
    /\ InitialInfoInc = t.mInfoInc * PowerOfTwo[t.mInfoHashShift]

\* A slot has a node exactly when its info byte says so.
Taken(t) == \A i \in Slots(t) : t.mInfo[i] # 0 <=> t.mKeyVals[i] # NoNode

\* An info byte is the one its key has at that distance from home.
AtDistance(hash, t) ==
    \A i \in Occupied(t) :
        /\ i >= HomeBy(hash, t, t.mKeyVals[i].key)
        /\ t.mInfo[i] = InfoBy(hash, t, t.mKeyVals[i].key, i - HomeBy(hash, t, t.mKeyVals[i].key))

\* Behind a slot is a node at home or none, or one whose byte is larger by a step at most.
Sorted(t) ==
    \A i \in Slots(t) :
        \/ t.mInfo[i + 1] < 2 * t.mInfoInc
        \/ t.mInfo[i] # 0 /\ t.mInfo[i + 1] <= t.mInfo[i] + t.mInfoInc

Distinct(t) ==
    \A i, j \in Occupied(t) : t.mKeyVals[i].key = t.mKeyVals[j].key => i = j

\* The bytes can all grow by a step.
AllFit(t) == \A i \in Occupied(t) : Fits(t, t.mInfo[i])

Limited(t) ==
    /\ t.mMaxNumElementsAllowed \in {0, Allowed(t)}
    /\ t.mNumElements <= Allowed(t)
    /\ t.mMaxNumElementsAllowed # 0 => AllFit(t)

Counted(t) == t.mNumElements = Cardinality(Occupied(t))

\* A table that has memory, and any table.
HasMemory(hash, t) ==
    /\ t.mMask # 0
    /\ Memory(t)
    /\ Halved(t)
    /\ Taken(t)
    /\ AtDistance(hash, t)
    /\ Sorted(t)
    /\ Distinct(t)
    /\ Limited(t)
    /\ Counted(t)

Shape(hash, t) ==
    /\ t \in Members
    /\ t = initMembers(t.mHashMultiplier) \/ HasMemory(hash, t)

ShapesOK ==
    /\ program \in Programs
    /\ table = [name \in Tables |-> table[name]]
    /\ \A name \in Tables : Shape(program.hash, table[name])

\* The keys of the nodes in the slots from i on.
KeysFrom(t, i) == {t.mKeyVals[j].key : j \in {j \in Occupied(t) : j >= i}}

InsertCalls ==
    [at : {"insert"}, table : Tables, node : Node, assign : BOOLEAN, attempt : Nat]

\* While nodes are moved, there is room for those that are left, and their keys are
\* not in the new memory.
OldOK(old, t) ==
    /\ DOMAIN old \in SUBSET Nat
    /\ IsFiniteSet(DOMAIN old)
    /\ old \in [DOMAIN old -> Node]
    /\ \A i, j \in DOMAIN old : old[i].key = old[j].key => i = j
    /\ \A i \in DOMAIN old : old[i].key \notin KeysFrom(t, 0)
    /\ t.mMask # 0
    /\ t.mNumElements + Cardinality(DOMAIN old) <= Allowed(t)

Moving ==
    /\ call.at = "rehash"
    /\ call = [at |-> "rehash", table |-> call.table, then |-> call.then, old |-> call.old]
    /\ call.table \in Tables
    /\ call.then \in InsertCalls \cup {Idle}
    /\ OldOK(call.old, table[call.table])

CallOK == call \in InsertCalls \cup {Idle} \/ Moving

\* An iterator is at a node or the end; the keys are those it met and those ahead.
IterationOK ==
    iteration # NoIter =>
        /\ iteration = [table |-> iteration.table, at |-> iteration.at,
                        keys |-> iteration.keys, met |-> iteration.met]
        /\ iteration.table \in Tables
        /\ iteration.at \in Occupied(table[iteration.table]) \cup {End(table[iteration.table])}
        /\ iteration.keys = iteration.met \cup KeysFrom(table[iteration.table], iteration.at)
        /\ iteration.met \cap KeysFrom(table[iteration.table], iteration.at) = {}

Invariant == ShapesOK /\ CallOK /\ IterationOK

-----------------------------------------------------------------------------
(***************************************************************************)
(* Numbers: least elements, and the powers of two.                         *)
(***************************************************************************)

LEMMA LeastNat ==
    ASSUME NEW T \in SUBSET Nat, T # {}
    PROVE  Min(T) \in T /\ \A k \in T : Min(T) <= k
<1>1. PICK x \in T : \A y \in T : ~(<<y, x>> \in OpToRel(<, Nat))
    BY NatLessThanWellFounded, WFMin, Zenon
<1>2. \A y \in T : x <= y
    <2>1. \A y \in T : ~(y < x)
        BY <1>1 DEF OpToRel
    <2> QED
        BY <2>1
<1> QED
    BY <1>2 DEF Min

LEMMA LeastOfTwo ==
    ASSUME NEW a \in Nat, NEW b \in Nat
    PROVE  /\ Min({a, b}) \in {a, b}
           /\ Min({a, b}) <= a
           /\ Min({a, b}) <= b
BY LeastNat

\* What holds for n and is passed on to each number before holds from 0 to n.
LEMMA Downwards ==
    ASSUME NEW S, NEW n \in Nat, n \in S,
           \A i \in 0 .. n - 1 : i + 1 \in S => i \in S
    PROVE  0 .. n \subseteq S
<1> DEFINE T == {m \in Nat : m <= n /\ n - m \notin S}
<1>1. SUFFICES ASSUME T # {} PROVE FALSE
    <2> SUFFICES ASSUME NEW i \in 0 .. n, i \notin S PROVE FALSE
        OBVIOUS
    <2>1. n - i \in T
        BY n - (n - i) = i
    <2> QED
        BY <2>1, <1>1
<1>2. Min(T) \in T /\ \A k \in T : Min(T) <= k
    BY <1>1, LeastNat
<1> DEFINE m == Min(T)
<1>3. m \in Nat /\ m <= n /\ n - m \notin S
    BY <1>2
<1> HIDE DEF m
<1>4. m # 0
    BY <1>3
<1>5. m - 1 \notin T
    BY <1>2, <1>3, <1>4 DEF m
<1>6. n - (m - 1) \in S
    BY <1>5, <1>3, <1>4
<1>7. n - m \in 0 .. n - 1 /\ (n - m) + 1 = n - (m - 1)
    BY <1>3, <1>4
<1> QED
    BY <1>3, <1>6, <1>7

PowersUpTo(f, n) ==
    /\ f \in [0 .. n -> Nat]
    /\ f[0] = 1
    /\ \A i \in 0 .. n - 1 : f[i + 1] = 2 * f[i]

Powers(f) == f = [n \in Nat |-> IF n = 0 THEN 1 ELSE 2 * f[n - 1]]

LEMMA PowersUpToExist == \A n \in Nat : \E f : PowersUpTo(f, n)
<1> DEFINE T == {n \in Nat : ~\E f : PowersUpTo(f, n)}
<1>1. SUFFICES ASSUME T # {} PROVE FALSE
    OBVIOUS
<1> DEFINE n == Min(T)
<1>2. n \in Nat /\ ~(\E f : PowersUpTo(f, n)) /\ \A k \in T : n <= k
    BY <1>1, LeastNat
<1> HIDE DEF n
<1>3. CASE n = 0
    <2>1. PowersUpTo([i \in 0 .. 0 |-> 1], 0)
        BY DEF PowersUpTo
    <2> QED
        BY <2>1, <1>2, <1>3
<1>4. CASE n # 0
    <2>1. n - 1 \in Nat /\ n - 1 \notin T
        BY <1>2, <1>4
    <2>2. PICK f : PowersUpTo(f, n - 1)
        BY <2>1
    <2>3. f \in [0 .. n - 1 -> Nat] /\ f[0] = 1 /\ \A i \in 0 .. (n - 1) - 1 : f[i + 1] = 2 * f[i]
        BY <2>2 DEF PowersUpTo
    <2> DEFINE h == [i \in 0 .. n |-> IF i = n THEN 2 * f[n - 1] ELSE f[i]]
    <2>4. h \in [0 .. n -> Nat] /\ h[0] = 1
        BY <2>1, <2>3, <1>2, <1>4
    <2>5. ASSUME NEW i \in 0 .. n - 1
          PROVE  h[i + 1] = 2 * h[i]
        <3>1. h[i] = f[i]
            BY <1>2, <1>4
        <3>2. CASE i + 1 = n
            BY <3>1, <3>2, <1>2
        <3>3. CASE i + 1 # n
            BY <3>1, <3>3, <2>3, <1>2
        <3> QED
            BY <3>2, <3>3
    <2> HIDE DEF h
    <2>6. PowersUpTo(h, n)
        BY <2>4, <2>5 DEF PowersUpTo
    <2> QED
        BY <2>6, <1>2
<1> QED
    BY <1>3, <1>4

LEMMA PowersUpToAgree ==
    ASSUME NEW m \in Nat, NEW n \in Nat, m <= n, NEW f, PowersUpTo(f, m), NEW g, PowersUpTo(g, n)
    PROVE  f[m] = g[m]
<1> DEFINE T == {i \in 0 .. m : f[i] # g[i]}
<1>1. SUFFICES ASSUME T # {} PROVE FALSE
    OBVIOUS
<1> DEFINE i == Min(T)
<1>2. i \in 0 .. m /\ f[i] # g[i] /\ \A k \in T : i <= k
    <2>1. T \in SUBSET Nat
        OBVIOUS
    <2> QED
        BY <1>1, <2>1, LeastNat
<1> HIDE DEF i
<1>3. i # 0
    BY <1>2 DEF PowersUpTo
<1>4. i - 1 \in 0 .. m - 1 /\ i - 1 \in 0 .. n - 1 /\ i - 1 \notin T /\ (i - 1) + 1 = i
    BY <1>2, <1>3
<1>5. f[i] = 2 * f[i - 1] /\ g[i] = 2 * g[i - 1]
    BY <1>4 DEF PowersUpTo
<1>6. f[i - 1] = g[i - 1]
    BY <1>4
<1> QED
    BY <1>2, <1>5, <1>6

LEMMA PowersExist == \E f : Powers(f)
<1> DEFINE g(n) == CHOOSE h : PowersUpTo(h, n)
           f    == [n \in Nat |-> g(n)[n]]
<1>1. \A n \in Nat : PowersUpTo(g(n), n)
    BY PowersUpToExist
<1> HIDE DEF g
<1>2. ASSUME NEW n \in Nat
      PROVE  g(n)[n] = IF n = 0 THEN 1 ELSE 2 * f[n - 1]
    <2>1. CASE n = 0
        BY <1>1, <2>1 DEF PowersUpTo
    <2>2. CASE n # 0
        <3>1. n - 1 \in Nat /\ n - 1 <= n
            BY <2>2
        <3>2. g(n)[n - 1] = g(n - 1)[n - 1]
            BY <3>1, <1>1, PowersUpToAgree
        <3>3. g(n)[n] = 2 * g(n)[n - 1]
            BY <3>1, <1>1, <2>2 DEF PowersUpTo
        <3> QED
            BY <3>1, <3>2, <3>3, <2>2
    <2> QED
        BY <2>1, <2>2
<1>3. f = [n \in Nat |-> IF n = 0 THEN 1 ELSE 2 * f[n - 1]]
    BY <1>2
<1> QED
    BY <1>3 DEF Powers

LEMMA PowerOfTwoUnfolds == PowerOfTwo = [n \in Nat |-> IF n = 0 THEN 1 ELSE 2 * PowerOfTwo[n - 1]]
<1>1. PowerOfTwo = CHOOSE f : Powers(f)
    BY Zenon DEF PowerOfTwo, Powers
<1>2. Powers(PowerOfTwo)
    BY <1>1, PowersExist, Zenon
<1> QED
    BY <1>2 DEF Powers

LEMMA PowerOfTwoSteps ==
    /\ PowerOfTwo[0] = 1
    /\ \A n \in Nat : PowerOfTwo[n + 1] = 2 * PowerOfTwo[n]
<1> DEFINE f == PowerOfTwo
<1>1. f = [n \in Nat |-> IF n = 0 THEN 1 ELSE 2 * f[n - 1]]
    BY PowerOfTwoUnfolds
<1> HIDE DEF f
<1>2. f[0] = 1
    BY <1>1
<1>3. ASSUME NEW n \in Nat
      PROVE  f[n + 1] = 2 * f[n]
    <2>1. n + 1 \in Nat /\ n + 1 # 0 /\ (n + 1) - 1 = n
        OBVIOUS
    <2> QED
        BY <1>1, <2>1
<1> QED
    BY <1>2, <1>3 DEF f

LEMMA PowerOfTwoType == \A n \in Nat : PowerOfTwo[n] \in Nat \ {0}
<1> DEFINE T == {n \in Nat : PowerOfTwo[n] \notin Nat \ {0}}
<1>1. SUFFICES ASSUME T # {} PROVE FALSE
    OBVIOUS
<1> DEFINE n == Min(T)
<1>2. n \in Nat /\ PowerOfTwo[n] \notin Nat \ {0} /\ \A k \in T : n <= k
    BY <1>1, LeastNat
<1> HIDE DEF n
<1>3. n # 0
    BY <1>2, PowerOfTwoSteps
<1>4. n - 1 \in Nat /\ n - 1 \notin T /\ (n - 1) + 1 = n
    BY <1>2, <1>3
<1>5. PowerOfTwo[n] = 2 * PowerOfTwo[n - 1]
    BY <1>4, PowerOfTwoSteps
<1> QED
    BY <1>2, <1>4, <1>5

-----------------------------------------------------------------------------
(***************************************************************************)
(* The numbers of a table: its step, its homes and its info bytes.         *)
(***************************************************************************)

LEMMA ProgramType ==
    ASSUME program \in Programs
    PROVE  /\ program.hash \in Hashes
           /\ program.tables \subseteq Tables
           /\ program.nodes \subseteq Node
           /\ program.sizes \subseteq Nat
BY HashAssumption

LEMMA InitialInfoIncType ==
    /\ InitialInfoInc \in Nat
    /\ InitialInfoInc >= 2
    /\ 2 * InitialInfoInc - 1 <= InfoMax
    /\ InitialInfoInc = InitialInfoInc * PowerOfTwo[0]
<1>1. InitialInfoNumBits - 1 \in Nat /\ (InitialInfoNumBits - 1) + 1 = InitialInfoNumBits
    BY HashAssumption
<1>2. InitialInfoInc = 2 * PowerOfTwo[InitialInfoNumBits - 1]
    BY <1>1, PowerOfTwoSteps DEF InitialInfoInc
<1>3. PowerOfTwo[InitialInfoNumBits - 1] \in Nat \ {0}
    BY <1>1, PowerOfTwoType
<1> QED
    BY <1>2, <1>3, PowerOfTwoSteps, HashAssumption

\* Products that cannot be smaller.
LEMMA TimesMonotone ==
    ASSUME NEW p \in Nat, NEW m \in Nat, NEW n \in Nat, m <= n
    PROVE  m * p <= n * p
<1>1. (n - m) * p >= 0
    OBVIOUS
<1>2. (n - m) * p = n * p - m * p
    OBVIOUS
<1>3. m * p \in Int /\ n * p \in Int
    OBVIOUS
<1> QED
    BY <1>1, <1>2, <1>3

LEMMA TimesAtLeast ==
    ASSUME NEW p \in Nat \ {0}, NEW m \in Nat
    PROVE  m <= m * p
<1>1. 1 * m <= p * m
    BY TimesMonotone
<1> QED
    BY <1>1

LEMMA DividesLess ==
    ASSUME NEW x \in Nat, NEW p \in Nat \ {0}, NEW m \in Nat, x < m * p
    PROVE  x \div p \in Nat /\ x \div p < m
<1> DEFINE q == x \div p
<1>1. q \in Nat /\ q * p <= x
    OBVIOUS
<1> HIDE DEF q
<1>2. SUFFICES ASSUME m <= q PROVE FALSE
    BY <1>1 DEF q
<1>3. m * p <= q * p
    BY <1>1, <1>2, TimesMonotone
<1>4. m * p \in Nat /\ q * p \in Nat
    BY <1>1
<1> QED
    BY <1>1, <1>3, <1>4

LEMMA MembersType ==
    ASSUME NEW t \in Members
    PROVE  /\ t.mHashMultiplier \in 0 .. NumMultipliers - 1
           /\ t.mKeyVals \in Arrays(Node \cup {NoNode})
           /\ t.mInfo \in Arrays(0 .. InfoMax)
           /\ t.mNumElements \in Nat /\ t.mMask \in Nat /\ t.mMaxNumElementsAllowed \in Nat
           /\ t.mInfoInc \in Nat /\ t.mInfoHashShift \in 0 .. InitialInfoNumBits - 1
           /\ t = [mHashMultiplier |-> t.mHashMultiplier, mKeyVals |-> t.mKeyVals,
                   mInfo |-> t.mInfo, mNumElements |-> t.mNumElements, mMask |-> t.mMask,
                   mMaxNumElementsAllowed |-> t.mMaxNumElementsAllowed,
                   mInfoInc |-> t.mInfoInc, mInfoHashShift |-> t.mInfoHashShift]
BY DEF Members

\* The step is at least two: that is why a byte of 1 is the sentinel's only.
LEMMA IncrementType ==
    ASSUME NEW t \in Members, Halved(t)
    PROVE  /\ t.mInfoInc \in Nat
           /\ t.mInfoInc >= 2
           /\ t.mInfoInc <= InitialInfoInc
           /\ 2 * t.mInfoInc - 1 <= InfoMax
           /\ PowerOfTwo[t.mInfoHashShift] \in Nat \ {0}
<1> DEFINE n == InitialInfoNumBits - t.mInfoHashShift
<1>1. n - 1 \in Nat /\ (n - 1) + 1 = n /\ t.mInfoHashShift \in Nat
    BY MembersType, HashAssumption
<1>2. t.mInfoInc = 2 * PowerOfTwo[n - 1]
    BY <1>1, PowerOfTwoSteps DEF Halved
<1>3. PowerOfTwo[n - 1] \in Nat \ {0} /\ PowerOfTwo[t.mInfoHashShift] \in Nat \ {0}
    BY <1>1, PowerOfTwoType
<1> HIDE DEF n
<1>4. t.mInfoInc \in Nat /\ t.mInfoInc >= 2
    BY <1>2, <1>3
<1>5. t.mInfoInc <= InitialInfoInc
    BY <1>3, <1>4, TimesAtLeast DEF Halved
<1> QED
    BY <1>3, <1>4, <1>5, InitialInfoIncType, HashAssumption

LEMMA HashType ==
    ASSUME NEW hash \in Hashes, NEW t \in Members, NEW k \in Keys
    PROVE  hash[t.mHashMultiplier][k] \in Nat
BY MembersType DEF Hashes

LEMMA HomeType ==
    ASSUME NEW hash \in Hashes, NEW t \in Members, NEW k \in Keys
    PROVE  HomeBy(hash, t, k) \in 0 .. t.mMask
<1> DEFINE h == hash[t.mHashMultiplier][k] \div InitialInfoInc
<1>1. h \in Nat
    BY HashType, InitialInfoIncType
<1>2. t.mMask \in Nat
    BY MembersType
<1> HIDE DEF h
<1>3. h % (t.mMask + 1) \in 0 .. t.mMask
    BY <1>1, <1>2
<1> QED
    BY <1>3 DEF HomeBy, h

\* The hash bits of an info byte are less than its step.
HashBits(hash, t, k) ==
    (hash[t.mHashMultiplier][k] % InitialInfoInc) \div PowerOfTwo[t.mInfoHashShift]

LEMMA HashBitsType ==
    ASSUME NEW hash \in Hashes, NEW t \in Members, NEW k \in Keys, Halved(t)
    PROVE  HashBits(hash, t, k) \in Nat /\ HashBits(hash, t, k) < t.mInfoInc
<1> DEFINE x == hash[t.mHashMultiplier][k] % InitialInfoInc
<1>1. x \in Nat /\ x < InitialInfoInc
    BY HashType, InitialInfoIncType
<1> HIDE DEF x
<1>2. x < t.mInfoInc * PowerOfTwo[t.mInfoHashShift]
    BY <1>1 DEF Halved
<1>3. x \div PowerOfTwo[t.mInfoHashShift] \in Nat
      /\ x \div PowerOfTwo[t.mInfoHashShift] < t.mInfoInc
    BY <1>1, <1>2, IncrementType, DividesLess
<1> QED
    BY <1>3 DEF HashBits, x

LEMMA InfoByType ==
    ASSUME NEW hash \in Hashes, NEW t \in Members, NEW k \in Keys, Halved(t), NEW d \in Nat
    PROVE  /\ InfoBy(hash, t, k, d) \in Nat
           /\ InfoBy(hash, t, k, d + 1) = InfoBy(hash, t, k, d) + t.mInfoInc
           /\ InfoBy(hash, t, k, d) >= t.mInfoInc
           /\ InfoBy(hash, t, k, d) > d
           /\ d = 0 => InfoBy(hash, t, k, d) < 2 * t.mInfoInc
           /\ d # 0 => InfoBy(hash, t, k, d) >= 2 * t.mInfoInc
<1> DEFINE b == HashBits(hash, t, k)
           m == t.mInfoInc
<1>1. b \in Nat /\ b < m
    BY HashBitsType
<1>2. m \in Nat /\ m >= 2
    BY IncrementType
<1>3. \A e \in Nat : InfoBy(hash, t, k, e) = m + b + e * m
    BY DEF InfoBy, HashBits
<1>4. (d + 1) * m = d * m + m /\ d * m \in Nat /\ d <= d * m /\ (d # 0 => m <= d * m)
    <2>1. (d + 1) * m = d * m + m /\ d * m \in Nat
        BY <1>2
    <2>2. d <= d * m
        BY <1>2, TimesAtLeast
    <2>3. d # 0 => m <= m * d
        BY <1>2, TimesAtLeast
    <2>4. m * d = d * m
        BY <1>2
    <2> QED
        BY <2>1, <2>2, <2>3, <2>4
<1> HIDE DEF b, m
<1>5. InfoBy(hash, t, k, d) = m + b + d * m /\ InfoBy(hash, t, k, d + 1) = m + b + (d + 1) * m
    BY <1>3
<1>6. d = 0 => d * m = 0
    BY <1>2
<1> DEFINE p == d * m
<1> HIDE DEF p
<1>7. p \in Nat /\ d <= p /\ (d # 0 => m <= p) /\ (d = 0 => p = 0)
      /\ InfoBy(hash, t, k, d) = m + b + p /\ InfoBy(hash, t, k, d + 1) = m + b + (p + m)
    BY <1>4, <1>5, <1>6 DEF p
<1>8. /\ InfoBy(hash, t, k, d) \in Nat
      /\ InfoBy(hash, t, k, d + 1) = InfoBy(hash, t, k, d) + m
      /\ InfoBy(hash, t, k, d) >= m
      /\ InfoBy(hash, t, k, d) > d
      /\ d = 0 => InfoBy(hash, t, k, d) < 2 * m
      /\ d # 0 => InfoBy(hash, t, k, d) >= 2 * m
    BY <1>1, <1>2, <1>7
<1> QED
    BY <1>8 DEF m

\* The model's own Home and Info are those of the program's hash function.
LEMMA InfoType ==
    ASSUME program.hash \in Hashes, NEW t \in Members, NEW k \in Keys, Halved(t), NEW d \in Nat
    PROVE  /\ Home(t, k) = HomeBy(program.hash, t, k)
           /\ Home(t, k) \in 0 .. t.mMask
           /\ Info(t, k, d) = InfoBy(program.hash, t, k, d)
           /\ Info(t, k, d) \in Nat
           /\ Info(t, k, d + 1) = Info(t, k, d) + t.mInfoInc
           /\ Info(t, k, d) >= t.mInfoInc
           /\ Info(t, k, d) > d
           /\ d = 0 => Info(t, k, d) < 2 * t.mInfoInc
           /\ d # 0 => Info(t, k, d) >= 2 * t.mInfoInc
<1>1. Home(t, k) = HomeBy(program.hash, t, k)
    BY Zenon DEF Home, Hash, HomeBy
<1>2. \A e : Info(t, k, e) = InfoBy(program.hash, t, k, e)
    BY Zenon DEF Info, Hash, InfoBy
<1>3. HomeBy(program.hash, t, k) \in 0 .. t.mMask
    BY HomeType, Zenon
<1> DEFINE hash == program.hash
<1>4. hash \in Hashes
    OBVIOUS
<1> HIDE DEF hash
<1>5. /\ InfoBy(hash, t, k, d) \in Nat
      /\ InfoBy(hash, t, k, d + 1) = InfoBy(hash, t, k, d) + t.mInfoInc
      /\ InfoBy(hash, t, k, d) >= t.mInfoInc
      /\ InfoBy(hash, t, k, d) > d
      /\ d = 0 => InfoBy(hash, t, k, d) < 2 * t.mInfoInc
      /\ d # 0 => InfoBy(hash, t, k, d) >= 2 * t.mInfoInc
    BY <1>4, InfoByType
<1> QED
    BY <1>1, <1>2, <1>3, <1>5 DEF hash

LEMMA InfoDiffers ==
    ASSUME program.hash \in Hashes, NEW t \in Members, NEW k \in Keys, Halved(t),
           NEW d \in Nat, NEW e \in Nat, d < e
    PROVE  Info(t, k, d) + t.mInfoInc <= Info(t, k, e)
<1> DEFINE b == HashBits(program.hash, t, k)
           m == t.mInfoInc
<1>1. \A x : Info(t, k, x) = m + b + x * m
    BY Zenon DEF Info, Hash, HashBits
<1>2. b \in Nat /\ m \in Nat
    BY HashBitsType, IncrementType
<1> HIDE DEF b, m
<1>3. (d + 1) * m <= e * m
    BY <1>2, TimesMonotone
<1>4. (d + 1) * m = d * m + m /\ d * m \in Nat /\ e * m \in Nat
    BY <1>2
<1>5. (m + b + d * m) + m <= m + b + e * m
    BY <1>2, <1>3, <1>4
<1> QED
    BY <1>1, <1>5 DEF m

-----------------------------------------------------------------------------
(***************************************************************************)
(* The slots and their bytes.                                              *)
(***************************************************************************)

LEMMA AllowedType ==
    ASSUME NEW size \in Nat
    PROVE  /\ calcMaxNumElementsAllowed(size) \in Nat
           /\ size # 0 => calcMaxNumElementsAllowed(size) < size
<1> DEFINE p == size * MaxLoadFactor100
<1>1. p \in Nat /\ (size # 0 => p < size * 100)
    BY HashAssumption
<1> HIDE DEF p
<1>2. p \div 100 \in Nat /\ (size # 0 => p \div 100 < size)
    BY <1>1
<1> QED
    BY <1>2 DEF calcMaxNumElementsAllowed, p

LEMMA AllowedGrows ==
    ASSUME NEW size \in Nat
    PROVE  calcMaxNumElementsAllowed(size) <= calcMaxNumElementsAllowed(2 * size)
<1> DEFINE p == size * MaxLoadFactor100
<1>1. p \in Nat /\ (2 * size) * MaxLoadFactor100 = 2 * p
    BY HashAssumption
<1> HIDE DEF p
<1>2. p \div 100 <= (2 * p) \div 100
    BY <1>1
<1> QED
    BY <1>1, <1>2 DEF calcMaxNumElementsAllowed, p

\* The slots behind the homes.
Buffer(size) == Min({calcMaxNumElementsAllowed(size), InfoMax})

LEMMA BufferType ==
    ASSUME NEW size \in Nat
    PROVE  /\ Buffer(size) \in Nat
           /\ Buffer(size) \in {calcMaxNumElementsAllowed(size), InfoMax}
           /\ calcNumElementsWithBuffer(size) = size + Buffer(size)
<1>1. calcMaxNumElementsAllowed(size) \in Nat /\ InfoMax \in Nat
    BY AllowedType, HashAssumption
<1> QED
    BY <1>1, LeastOfTwo DEF Buffer, calcNumElementsWithBuffer

LEMMA EndType ==
    ASSUME NEW t \in Members, t.mMask # 0
    PROVE  /\ End(t) = t.mMask + 1 + Buffer(t.mMask + 1)
           /\ End(t) \in Nat
           /\ End(t) > t.mMask
           /\ Allowed(t) \in Nat
           /\ Allowed(t) = calcMaxNumElementsAllowed(t.mMask + 1)
           /\ Buffer(t.mMask + 1) \in Nat
           /\ Buffer(t.mMask + 1) \in {Allowed(t), InfoMax}
<1>1. t.mMask + 1 \in Nat /\ t.mMask \in Nat
    BY MembersType
<1> QED
    BY <1>1, BufferType, AllowedType DEF End, Allowed

\* A table without memory.
LEMMA NoMemory ==
    ASSUME NEW t \in Members, t = initMembers(t.mHashMultiplier)
    PROVE  /\ t.mMask = 0 /\ t.mNumElements = 0 /\ t.mMaxNumElementsAllowed = 0
           /\ t.mInfoInc = InitialInfoInc /\ t.mInfoHashShift = 0
           /\ End(t) = 0 /\ Slots(t) = {} /\ Occupied(t) = {}
           /\ \A i : InfoAt(t, i) = 0
           /\ Halved(t)
<1>1. /\ t.mMask = 0 /\ t.mNumElements = 0 /\ t.mMaxNumElementsAllowed = 0
      /\ t.mInfoInc = InitialInfoInc /\ t.mInfoHashShift = 0 /\ t.mInfo = <<>>
    BY DEF initMembers
<1>2. End(t) = 0 /\ Slots(t) = {} /\ Occupied(t) = {}
    BY <1>1 DEF End, Slots, Occupied
<1>3. \A i : InfoAt(t, i) = 0
    BY <1>1 DEF InfoAt
<1>4. InitialInfoNumBits - 0 = InitialInfoNumBits
    BY HashAssumption
<1>5. Halved(t)
    BY <1>1, <1>4, InitialInfoIncType DEF Halved, InitialInfoInc
<1> QED
    BY <1>1, <1>2, <1>3, <1>5

LEMMA ShapeCases ==
    ASSUME NEW hash, NEW t, Shape(hash, t)
    PROVE  /\ t \in Members
           /\ Halved(t)
           /\ t.mMask = 0 => t = initMembers(t.mHashMultiplier)
           /\ t.mMask # 0 => HasMemory(hash, t)
           /\ t.mNumElements = Cardinality(Occupied(t))
<1>1. t \in Members
    BY DEF Shape
<1>2. CASE t = initMembers(t.mHashMultiplier)
    BY <1>1, <1>2, NoMemory, FS_EmptySet
<1>3. CASE HasMemory(hash, t)
    BY <1>1, <1>3 DEF HasMemory, Counted
<1> QED
    BY <1>2, <1>3 DEF Shape

LEMMA SlotsType ==
    ASSUME NEW t \in Members, t.mMask # 0, Memory(t)
    PROVE  /\ Slots(t) = 0 .. End(t) - 1
           /\ End(t) \in Nat
           /\ Slots(t) \subseteq Nat
           /\ Occupied(t) \subseteq Slots(t)
           /\ DOMAIN t.mKeyVals = Slots(t)
           /\ DOMAIN t.mInfo = 0 .. End(t)
           /\ InfoAt(t, End(t)) = 1
           /\ \A i \in 0 .. End(t) : InfoAt(t, i) = t.mInfo[i]
           /\ \A i \in Slots(t) : i \in Occupied(t) <=> InfoAt(t, i) # 0
BY EndType DEF Slots, Occupied, InfoAt, Memory

LEMMA BytesType ==
    ASSUME NEW t \in Members, Shape(program.hash, t), NEW i
    PROVE  InfoAt(t, i) \in Nat /\ InfoAt(t, i) <= InfoMax
<1>1. InfoMax \in Nat
    BY HashAssumption
<1>2. CASE t.mMask = 0
    BY <1>1, <1>2, ShapeCases, NoMemory
<1>3. CASE t.mMask # 0
    <2>1. t.mInfo \in [0 .. End(t) -> 0 .. InfoMax]
        BY <1>3, ShapeCases DEF HasMemory, Memory
    <2>2. CASE i \in 0 .. End(t)
        <3>1. t.mInfo[i] \in 0 .. InfoMax
            BY <2>1, <2>2
        <3>2. InfoAt(t, i) = t.mInfo[i]
            BY <2>1, <2>2 DEF InfoAt
        <3> QED
            BY <1>1, <3>1, <3>2
    <2>3. CASE i \notin 0 .. End(t)
        <3>1. InfoAt(t, i) = 0
            BY <2>1, <2>3 DEF InfoAt
        <3> QED
            BY <1>1, <3>1
    <2> QED
        BY <2>2, <2>3
<1> QED
    BY <1>2, <1>3

\* A table of the program that has memory.
Sound(t) == program.hash \in Hashes /\ t \in Members /\ HasMemory(program.hash, t)

\* What a read of a byte gives.
LEMMA MemoryFacts ==
    ASSUME NEW t, Sound(t)
    PROVE  /\ t \in Members /\ t.mMask \in Nat /\ t.mMask # 0
           /\ t.mInfoInc \in Nat /\ t.mInfoInc >= 2
           /\ InfoMax \in Nat /\ 2 * t.mInfoInc - 1 <= InfoMax
           /\ End(t) \in Nat /\ End(t) > t.mMask
           /\ Slots(t) = 0 .. End(t) - 1
           /\ t.mKeyVals \in [Slots(t) -> Node \cup {NoNode}]
           /\ t.mInfo \in [0 .. End(t) -> 0 .. InfoMax]
           /\ InfoAt(t, End(t)) = 1
           /\ \A i \in 0 .. End(t) : /\ InfoAt(t, i) = t.mInfo[i]
                                     /\ InfoAt(t, i) \in Nat /\ InfoAt(t, i) <= InfoMax
           /\ \A i \in Nat : InfoAt(t, i) \in Nat /\ InfoAt(t, i) <= InfoMax
           /\ \A i \in Nat : i > End(t) => InfoAt(t, i) = 0
<1>1. t \in Members /\ t.mMask # 0 /\ Memory(t) /\ Halved(t)
    BY DEF Sound, HasMemory
<1>2. t.mMask \in Nat /\ InfoMax \in Nat
    BY <1>1, MembersType, HashAssumption
<1>3. t.mInfoInc \in Nat /\ t.mInfoInc >= 2 /\ 2 * t.mInfoInc - 1 <= InfoMax
    BY <1>1, IncrementType
<1>4. End(t) \in Nat /\ End(t) > t.mMask /\ Slots(t) = 0 .. End(t) - 1 /\ InfoAt(t, End(t)) = 1
    BY <1>1, EndType, SlotsType
<1>5. /\ t.mKeyVals \in [Slots(t) -> Node \cup {NoNode}]
      /\ t.mInfo \in [0 .. End(t) -> 0 .. InfoMax]
    BY <1>1 DEF Memory
<1>6. \A i \in 0 .. End(t) : InfoAt(t, i) = t.mInfo[i]
    BY <1>5 DEF InfoAt
<1>7. \A i \in 0 .. End(t) : t.mInfo[i] \in 0 .. InfoMax
    BY <1>5
<1>8. \A i \in 0 .. End(t) : InfoAt(t, i) \in Nat /\ InfoAt(t, i) <= InfoMax
    BY <1>2, <1>6, <1>7
<1>9. \A i \in Nat : i > End(t) => InfoAt(t, i) = 0
    BY <1>4, <1>5 DEF InfoAt
<1>10. \A i \in Nat : InfoAt(t, i) \in Nat /\ InfoAt(t, i) <= InfoMax
    BY <1>2, <1>4, <1>8, <1>9
<1> QED
    BY <1>1, <1>2, <1>3, <1>4, <1>5, <1>6, <1>8, <1>9, <1>10

LEMMA SlotFacts ==
    ASSUME NEW t, Sound(t)
    PROVE  /\ Occupied(t) \subseteq Slots(t)
           /\ \A i \in Slots(t) : i \in Occupied(t) <=> InfoAt(t, i) # 0
           /\ \A i \in Slots(t) : i \in Occupied(t) <=> t.mKeyVals[i] # NoNode
           /\ \A i \in Nat : \/ InfoAt(t, i + 1) < 2 * t.mInfoInc
                             \/ InfoAt(t, i) # 0 /\ InfoAt(t, i + 1) <= InfoAt(t, i) + t.mInfoInc
<1>0. /\ End(t) \in Nat /\ Slots(t) = 0 .. End(t) - 1
      /\ t.mInfoInc \in Nat /\ t.mInfoInc >= 2
      /\ \A i \in 0 .. End(t) : InfoAt(t, i) = t.mInfo[i]
      /\ \A i \in Nat : i > End(t) => InfoAt(t, i) = 0
    BY MemoryFacts
<1>1. Taken(t) /\ Sorted(t)
    BY DEF Sound, HasMemory
<1>2. \A i \in Slots(t) : InfoAt(t, i) = t.mInfo[i] /\ InfoAt(t, i + 1) = t.mInfo[i + 1]
    BY <1>0
<1>3. Occupied(t) \subseteq Slots(t) /\ \A i \in Slots(t) : i \in Occupied(t) <=> InfoAt(t, i) # 0
    BY <1>2 DEF Occupied
<1>4. \A i \in Slots(t) : i \in Occupied(t) <=> t.mKeyVals[i] # NoNode
    BY <1>1, <1>2, <1>3 DEF Taken
<1>5. ASSUME NEW i \in Nat
      PROVE  \/ InfoAt(t, i + 1) < 2 * t.mInfoInc
             \/ InfoAt(t, i) # 0 /\ InfoAt(t, i + 1) <= InfoAt(t, i) + t.mInfoInc
    <2>1. CASE i \in Slots(t)
        BY <2>1, <1>1, <1>2 DEF Sorted
    <2>2. CASE i \notin Slots(t)
        <3>1. i + 1 \in Nat /\ i + 1 > End(t)
            BY <2>2, <1>0
        <3>2. InfoAt(t, i + 1) = 0
            BY <3>1, <1>0
        <3> QED
            BY <3>2, <1>0
    <2> QED
        BY <2>1, <2>2
<1> QED
    BY <1>3, <1>4, <1>5

\* The byte of a node.
LEMMA NodeFacts ==
    ASSUME NEW t, Sound(t), NEW i \in Occupied(t)
    PROVE  /\ i \in Nat /\ i < End(t)
           /\ t.mKeyVals[i] \in Node /\ t.mKeyVals[i] # NoNode /\ t.mKeyVals[i].key \in Keys
           /\ Home(t, t.mKeyVals[i].key) \in 0 .. t.mMask
           /\ i - Home(t, t.mKeyVals[i].key) \in Nat
           /\ InfoAt(t, i) = Info(t, t.mKeyVals[i].key, i - Home(t, t.mKeyVals[i].key))
           /\ InfoAt(t, i) >= t.mInfoInc
           /\ InfoAt(t, i) > i - Home(t, t.mKeyVals[i].key)
<1> DEFINE k == t.mKeyVals[i].key
<1>1. i \in Slots(t) /\ i \in Nat /\ i < End(t) /\ i \in 0 .. End(t) /\ End(t) \in Nat
    BY SlotFacts, MemoryFacts
<1>2. t.mKeyVals[i] \in Node /\ t.mKeyVals[i] # NoNode /\ k \in Keys
    BY <1>1, SlotFacts, MemoryFacts DEF Node
<1>3. program.hash \in Hashes /\ Halved(t) /\ AtDistance(program.hash, t) /\ t \in Members
    BY DEF Sound, HasMemory
<1>4. i >= HomeBy(program.hash, t, k)
      /\ t.mInfo[i] = InfoBy(program.hash, t, k, i - HomeBy(program.hash, t, k))
    BY <1>3 DEF AtDistance
<1> HIDE DEF k
<1>5. Home(t, k) = HomeBy(program.hash, t, k) /\ Home(t, k) \in 0 .. t.mMask /\ t.mMask \in Nat
    BY <1>2, <1>3, InfoType, MembersType
<1>6. i - Home(t, k) \in Nat
    BY <1>1, <1>4, <1>5
<1> DEFINE d == i - Home(t, k)
<1>7. InfoAt(t, i) = InfoBy(program.hash, t, k, d)
    BY <1>1, <1>4, <1>5, MemoryFacts
<1> HIDE DEF d
<1>8. d \in Nat
    BY <1>6 DEF d
<1>9. InfoAt(t, i) = Info(t, k, d) /\ Info(t, k, d) >= t.mInfoInc /\ Info(t, k, d) > d
    BY <1>2, <1>3, <1>7, <1>8, InfoType
<1> QED
    BY <1>1, <1>2, <1>5, <1>6, <1>9 DEF k, d

\* A byte of two or more is a node's.
LEMMA LargeBytes ==
    ASSUME NEW t, Sound(t), NEW i \in Nat, InfoAt(t, i) >= 2
    PROVE  i \in Occupied(t)
<1>1. /\ End(t) \in Nat /\ Slots(t) = 0 .. End(t) - 1 /\ InfoAt(t, End(t)) = 1
      /\ \A j \in Nat : j > End(t) => InfoAt(t, j) = 0
    BY MemoryFacts
<1>2. i # End(t) /\ ~(i > End(t))
    BY <1>1
<1>3. i \in Slots(t)
    BY <1>1, <1>2
<1> QED
    BY <1>3, SlotFacts

-----------------------------------------------------------------------------
(***************************************************************************)
(* Searches.                                                               *)
(***************************************************************************)

\* The byte a search for k compares with, in a sound table.
LEMMA SearchFacts ==
    ASSUME NEW t, Sound(t), NEW k \in Keys, NEW d \in Nat
    PROVE  /\ Home(t, k) \in 0 .. t.mMask
           /\ Home(t, k) + d \in Nat
           /\ Seen(t, k, d) = InfoAt(t, Home(t, k) + d)
           /\ Seen(t, k, d) \in Nat /\ Seen(t, k, d) <= InfoMax
           /\ Info(t, k, d) \in Nat
           /\ Info(t, k, d + 1) = Info(t, k, d) + t.mInfoInc
           /\ Info(t, k, d) >= t.mInfoInc
           /\ Info(t, k, d) > d
           /\ d = 0 => Info(t, k, d) < 2 * t.mInfoInc
           /\ d # 0 => Info(t, k, d) >= 2 * t.mInfoInc
           /\ \/ Seen(t, k, d + 1) < 2 * t.mInfoInc
              \/ Seen(t, k, d) # 0 /\ Seen(t, k, d + 1) <= Seen(t, k, d) + t.mInfoInc
<1>1. program.hash \in Hashes /\ t \in Members /\ Halved(t)
    BY DEF Sound, HasMemory
<1>2. Home(t, k) \in 0 .. t.mMask /\ t.mMask \in Nat
    BY <1>1, InfoType, MembersType
<1>3. Home(t, k) + d \in Nat /\ Home(t, k) + (d + 1) = (Home(t, k) + d) + 1
    BY <1>2
<1>4. \A i \in Nat : InfoAt(t, i) \in Nat /\ InfoAt(t, i) <= InfoMax
    BY MemoryFacts
<1>5. \A i \in Nat : \/ InfoAt(t, i + 1) < 2 * t.mInfoInc
                     \/ InfoAt(t, i) # 0 /\ InfoAt(t, i + 1) <= InfoAt(t, i) + t.mInfoInc
    BY SlotFacts
<1>6. Seen(t, k, d) = InfoAt(t, Home(t, k) + d)
      /\ Seen(t, k, d + 1) = InfoAt(t, (Home(t, k) + d) + 1)
    BY <1>3 DEF Seen
<1>7. \/ Seen(t, k, d + 1) < 2 * t.mInfoInc
      \/ Seen(t, k, d) # 0 /\ Seen(t, k, d + 1) <= Seen(t, k, d) + t.mInfoInc
    BY <1>3, <1>5, <1>6
<1>8. Seen(t, k, d) \in Nat /\ Seen(t, k, d) <= InfoMax
    BY <1>3, <1>4, <1>6
<1> QED
    BY <1>1, <1>2, <1>3, <1>6, <1>7, <1>8, InfoType

\* A search that comes to look at a slot did not stop before it.
LEMMA SearchPath ==
    ASSUME NEW t, Sound(t), NEW k \in Keys, NEW d \in Nat, Info(t, k, d) <= Seen(t, k, d)
    PROVE  \A e \in 0 .. d : Info(t, k, e) <= Seen(t, k, e)
<1> DEFINE S == {e \in Nat : Info(t, k, e) <= Seen(t, k, e)}
<1>1. ASSUME NEW e \in 0 .. d - 1, e + 1 \in S
      PROVE  e \in S
    <2>1. e \in Nat /\ e + 1 \in Nat /\ Info(t, k, e + 1) <= Seen(t, k, e + 1)
        BY <1>1
    <2>2. Info(t, k, e) \in Nat /\ Seen(t, k, e) \in Nat /\ Info(t, k, e) >= t.mInfoInc
          /\ Info(t, k, e + 1) = Info(t, k, e) + t.mInfoInc
          /\ \/ Seen(t, k, e + 1) < 2 * t.mInfoInc
             \/ Seen(t, k, e) # 0 /\ Seen(t, k, e + 1) <= Seen(t, k, e) + t.mInfoInc
        BY <2>1, SearchFacts
    <2>3. Seen(t, k, e + 1) \in Nat /\ t.mInfoInc \in Nat
        BY <2>1, SearchFacts, MemoryFacts
    <2>4. Info(t, k, e) <= Seen(t, k, e)
        BY <2>1, <2>2, <2>3
    <2> QED
        BY <2>1, <2>4
<1>2. d \in S
    OBVIOUS
<1> HIDE DEF S
<1>3. 0 .. d \subseteq S
    BY <1>1, <1>2, Downwards
<1> QED
    BY <1>3 DEF S

\* Where a search compares keys and they are equal, there is the node.
LEMMA MatchFound ==
    ASSUME NEW t, Sound(t), NEW k \in Keys, NEW d \in Nat, Matches(t, k, d)
    PROVE  /\ Home(t, k) + d \in Occupied(t)
           /\ t.mKeyVals[Home(t, k) + d].key = k
<1>0. Info(t, k, d) \in Nat /\ Info(t, k, d) >= t.mInfoInc /\ Home(t, k) + d \in Nat
      /\ Seen(t, k, d) = InfoAt(t, Home(t, k) + d)
    BY SearchFacts
<1>1. InfoAt(t, Home(t, k) + d) >= 2
    <2>1. t.mInfoInc \in Nat /\ t.mInfoInc >= 2
        BY MemoryFacts
    <2>2. Info(t, k, d) = Seen(t, k, d)
        BY DEF Matches
    <2> QED
        BY <1>0, <2>1, <2>2
<1>2. Home(t, k) + d \in Occupied(t)
    BY <1>0, <1>1, LargeBytes
<1> QED
    BY <1>2 DEF Matches

LEMMA NodeMatches ==
    ASSUME NEW t, Sound(t), NEW i \in Occupied(t), NEW k, k = t.mKeyVals[i].key
    PROVE  /\ k \in Keys
           /\ i - Home(t, k) \in Nat
           /\ Home(t, k) + (i - Home(t, k)) = i
           /\ Matches(t, k, i - Home(t, k))
           /\ Info(t, k, i - Home(t, k)) = Seen(t, k, i - Home(t, k))
           /\ i - Home(t, k) \in Distances(t)
<1>1. /\ i \in Nat /\ i < End(t) /\ k \in Keys
      /\ Home(t, k) \in 0 .. t.mMask /\ i - Home(t, k) \in Nat
      /\ InfoAt(t, i) = Info(t, k, i - Home(t, k))
    BY NodeFacts
<1>2. t.mMask \in Nat /\ End(t) \in Nat
    BY MemoryFacts
<1>3. Home(t, k) + (i - Home(t, k)) = i
    BY <1>1, <1>2
<1>4. Info(t, k, i - Home(t, k)) = Seen(t, k, i - Home(t, k))
    BY <1>1, <1>3 DEF Seen
<1>5. Matches(t, k, i - Home(t, k))
    BY <1>3, <1>4 DEF Matches
<1>6. i - Home(t, k) \in Distances(t)
    BY <1>1, <1>2 DEF Distances
<1> QED
    BY <1>1, <1>3, <1>4, <1>5, <1>6

LEMMA OneSlot ==
    ASSUME NEW t, Sound(t), NEW i \in Occupied(t), NEW j \in Occupied(t),
           t.mKeyVals[i].key = t.mKeyVals[j].key
    PROVE  i = j
BY DEF Sound, HasMemory, Distinct

LEMMA FindsKey ==
    ASSUME NEW t, Sound(t), NEW i \in Occupied(t), NEW k, k = t.mKeyVals[i].key
    PROVE  findIdx(t, k) = i /\ eraseIdx(t, k) = i
<1> DEFINE d == i - Home(t, k)
<1>1. /\ k \in Keys /\ d \in Nat /\ Home(t, k) + d = i /\ Matches(t, k, d)
      /\ Info(t, k, d) = Seen(t, k, d) /\ d \in Distances(t)
    BY NodeMatches
<1> HIDE DEF d
<1>2. Home(t, k) \in Nat /\ Distances(t) \subseteq Nat
    <2>1. Home(t, k) \in 0 .. t.mMask
        BY <1>1, SearchFacts
    <2>2. t.mMask \in Nat /\ End(t) \in Nat
        BY MemoryFacts
    <2> QED
        BY <2>1, <2>2 DEF Distances
<1>3. ASSUME NEW e \in Distances(t), Matches(t, k, e)
      PROVE  e = d
    <2>1. Home(t, k) + e \in Occupied(t) /\ t.mKeyVals[Home(t, k) + e].key = k
        BY <1>1, <1>2, <1>3, MatchFound
    <2>2. Home(t, k) + e = i
        BY <2>1, OneSlot
    <2> QED
        BY <2>2, <1>1, <1>2
<1>4. \A e \in 0 .. d : Info(t, k, e) <= Seen(t, k, e)
    <2>1. Info(t, k, d) <= Seen(t, k, d)
        BY <1>1, SearchFacts
    <2> QED
        BY <1>1, <2>1, SearchPath
<1>5. Min({d}) = d
    BY <1>1, LeastNat
<1>6. \A e \in 1 .. d : Info(t, k, e) <= Seen(t, k, e)
    BY <1>1, <1>4
<1>7. findIdx(t, k) = i
    <2> DEFINE hits == {e \in Distances(t) :
                           /\ Matches(t, k, e)
                           /\ \A f \in 1 .. e : f % 2 = 0 => Info(t, k, f) <= Seen(t, k, f)}
    <2>1. hits = {d}
        BY <1>1, <1>3, <1>6
    <2>2. findIdx(t, k) = IF hits = {} THEN End(t) ELSE Home(t, k) + Min(hits)
        BY Zenon DEF findIdx
    <2> HIDE DEF hits
    <2> QED
        BY <2>1, <2>2, <1>1, <1>5
<1>8. eraseIdx(t, k) = i
    <2> DEFINE hits == {e \in Distances(t) :
                           /\ Matches(t, k, e)
                           /\ \A f \in 1 .. e : Info(t, k, f) <= Seen(t, k, f)}
    <2>1. hits = {d}
        BY <1>1, <1>3, <1>6
    <2>2. eraseIdx(t, k) = IF hits = {} THEN End(t) ELSE Home(t, k) + Min(hits)
        BY Zenon DEF eraseIdx
    <2> HIDE DEF hits
    <2> QED
        BY <2>1, <2>2, <1>1, <1>5
<1> QED
    BY <1>7, <1>8

LEMMA FindsNothing ==
    ASSUME NEW t, NEW k, \A d \in Distances(t) : ~Matches(t, k, d)
    PROVE  findIdx(t, k) = End(t) /\ eraseIdx(t, k) = End(t)
<1>1. {d \in Distances(t) :
          /\ Matches(t, k, d)
          /\ \A e \in 1 .. d : e % 2 = 0 => Info(t, k, e) <= Seen(t, k, e)} = {}
    BY Zenon
<1>2. {d \in Distances(t) :
          /\ Matches(t, k, d)
          /\ \A e \in 1 .. d : Info(t, k, e) <= Seen(t, k, e)} = {}
    BY Zenon
<1>3. findIdx(t, k) = End(t)
    BY <1>1, Zenon DEF findIdx
<1>4. eraseIdx(t, k) = End(t)
    BY <1>2, Zenon DEF eraseIdx
<1> QED
    BY <1>3, <1>4

\* find() and erase() come to the slot that has the key, or to the end.
LEMMA Searches ==
    ASSUME program.hash \in Hashes, NEW t, Shape(program.hash, t), NEW k \in Keys
    PROVE  /\ \A i \in Occupied(t) : t.mKeyVals[i].key = k =>
                  findIdx(t, k) = i /\ eraseIdx(t, k) = i
           /\ (\A i \in Occupied(t) : t.mKeyVals[i].key # k) =>
                  findIdx(t, k) = End(t) /\ eraseIdx(t, k) = End(t)
<1>0. t \in Members /\ Halved(t)
    BY ShapeCases
<1>1. CASE t.mMask = 0
    <2>1. Occupied(t) = {} /\ \A i : InfoAt(t, i) = 0
        BY <1>1, ShapeCases, NoMemory
    <2>2. ASSUME NEW d \in Distances(t), Matches(t, k, d) PROVE FALSE
        <3>1. d \in Nat
            BY <1>0, <1>1, ShapeCases, NoMemory DEF Distances
        <3>2. Info(t, k, d) \in Nat /\ Info(t, k, d) > d
            BY <1>0, <3>1, InfoType
        <3>3. Seen(t, k, d) = 0
            BY <2>1 DEF Seen
        <3> QED
            BY <2>2, <3>1, <3>2, <3>3 DEF Matches
    <2> QED
        BY <2>1, <2>2, FindsNothing
<1>2. CASE t.mMask # 0
    <2>1. Sound(t)
        BY <1>2, ShapeCases DEF Sound
    <2>2. ASSUME \A i \in Occupied(t) : t.mKeyVals[i].key # k, NEW d \in Distances(t),
                 Matches(t, k, d)
          PROVE  FALSE
        <3>1. d \in Nat
            BY <2>1, MemoryFacts DEF Distances
        <3> QED
            BY <2>1, <2>2, <3>1, MatchFound
    <2>3. (\A i \in Occupied(t) : t.mKeyVals[i].key # k) =>
              findIdx(t, k) = End(t) /\ eraseIdx(t, k) = End(t)
        BY <2>2, FindsNothing
    <2> QED
        BY <2>1, <2>3, FindsKey
<1> QED
    BY <1>1, <1>2

-----------------------------------------------------------------------------
(***************************************************************************)
(* The place of a new node: the first slot with a byte less than its own.  *)
(***************************************************************************)
Place(t, k, d) ==
    /\ d \in Nat
    /\ Home(t, k) + d <= End(t)
    /\ \A e \in 0 .. d - 1 : Info(t, k, e) <= Seen(t, k, e)
    /\ Info(t, k, d) > Seen(t, k, d)

LEMMA SentinelStops ==
    ASSUME NEW t, Sound(t), NEW k \in Keys
    PROVE  /\ End(t) - Home(t, k) \in Nat
           /\ End(t) - Home(t, k) \in Distances(t)
           /\ Distances(t) \subseteq Nat
           /\ Home(t, k) + (End(t) - Home(t, k)) = End(t)
           /\ Seen(t, k, End(t) - Home(t, k)) = 1
           /\ Info(t, k, End(t) - Home(t, k)) > Seen(t, k, End(t) - Home(t, k))
<1> DEFINE d == End(t) - Home(t, k)
<1>1. Home(t, k) \in 0 .. t.mMask /\ Info(t, k, 0) \in Nat
    BY SearchFacts
<1>2. t.mMask \in Nat /\ End(t) \in Nat /\ End(t) > t.mMask /\ InfoAt(t, End(t)) = 1
      /\ t.mInfoInc \in Nat /\ t.mInfoInc >= 2
    BY MemoryFacts
<1>3. d \in Nat /\ d \in Distances(t) /\ Distances(t) \subseteq Nat /\ Home(t, k) + d = End(t)
    BY <1>1, <1>2 DEF Distances
<1> HIDE DEF d
<1>4. Seen(t, k, d) = 1
    BY <1>2, <1>3 DEF Seen
<1>5. Info(t, k, d) \in Nat /\ Info(t, k, d) >= t.mInfoInc
    BY <1>3, SearchFacts
<1>6. Info(t, k, d) > Seen(t, k, d)
    BY <1>2, <1>4, <1>5
<1> QED
    BY <1>3, <1>4, <1>6 DEF d

LEMMA FirstLarger ==
    ASSUME NEW t, Sound(t), NEW k \in Keys,
           NEW d, d = Min({e \in Distances(t) : Info(t, k, e) > Seen(t, k, e)})
    PROVE  Place(t, k, d)
<1> DEFINE T == {e \in Distances(t) : Info(t, k, e) > Seen(t, k, e)}
           s == End(t) - Home(t, k)
<1>1. s \in T /\ T \subseteq Nat /\ s \in Nat /\ Home(t, k) + s = End(t)
      /\ Distances(t) \subseteq Nat
    BY SentinelStops
<1>2. d = Min(T)
    OBVIOUS
<1>3. d \in T /\ d <= s
    BY <1>1, <1>2, LeastNat
<1>4. \A e \in T : d <= e
    BY <1>1, <1>2, LeastNat
<1> HIDE DEF s
<1>5. d \in Nat /\ Home(t, k) \in Nat /\ t.mMask \in Nat /\ End(t) \in Nat
    BY <1>1, <1>3, SearchFacts, MemoryFacts
<1>6. Home(t, k) + d <= End(t)
    BY <1>1, <1>3, <1>5
<1>7. ASSUME NEW e \in 0 .. d - 1
      PROVE  Info(t, k, e) <= Seen(t, k, e)
    <2>1. e \in Distances(t) /\ e \in Nat /\ e < d
        BY <1>3, <1>5 DEF Distances
    <2>2. e \notin T
        BY <2>1, <1>4, <1>5
    <2>3. Info(t, k, e) \in Nat /\ Seen(t, k, e) \in Nat
        BY <2>1, SearchFacts
    <2> QED
        BY <2>1, <2>2, <2>3
<1> QED
    BY <1>3, <1>5, <1>6, <1>7 DEF Place

LEMMA WhileLess ==
    ASSUME NEW t, Sound(t), NEW k \in Keys
    PROVE  /\ nextWhileLess(t, k) \in Nat
           /\ nextWhileLess(t, k) <= End(t) - Home(t, k)
           /\ Info(t, k, nextWhileLess(t, k)) >= Seen(t, k, nextWhileLess(t, k))
           /\ \A e \in 0 .. nextWhileLess(t, k) - 1 : Info(t, k, e) < Seen(t, k, e)
<1> DEFINE T == {e \in Distances(t) : Info(t, k, e) >= Seen(t, k, e)}
           s == End(t) - Home(t, k)
           d == nextWhileLess(t, k)
<1>1. s \in Distances(t) /\ T \subseteq Nat /\ s \in Nat /\ Distances(t) \subseteq Nat
      /\ Info(t, k, s) > Seen(t, k, s)
    BY SentinelStops
<1>2. Info(t, k, s) \in Nat /\ Seen(t, k, s) \in Nat
    BY <1>1, SearchFacts
<1>3. s \in T
    BY <1>1, <1>2
<1>4. d = Min(T)
    BY DEF nextWhileLess
<1>5. d \in T /\ d <= s
    BY <1>1, <1>3, <1>4, LeastNat
<1>6. \A e \in T : d <= e
    BY <1>1, <1>3, <1>4, LeastNat
<1> HIDE DEF s, d
<1>7. d \in Nat
    BY <1>1, <1>5
<1>8. ASSUME NEW e \in 0 .. d - 1
      PROVE  Info(t, k, e) < Seen(t, k, e)
    <2>0. End(t) \in Nat
        BY MemoryFacts
    <2>1. e \in Distances(t) /\ e \in Nat /\ e < d
        BY <2>0, <1>5, <1>7 DEF Distances
    <2>2. e \notin T
        BY <2>1, <1>6, <1>7
    <2>3. Info(t, k, e) \in Nat /\ Seen(t, k, e) \in Nat
        BY <2>1, SearchFacts
    <2> QED
        BY <2>1, <2>2, <2>3
<1> QED
    BY <1>5, <1>7, <1>8 DEF d, s

LEMMA AfterEqualBytes ==
    ASSUME NEW t, Sound(t), NEW k \in Keys
    PROVE  /\ LastCandidate(t, k) \in Nat
           /\ LastCandidate(t, k) >= nextWhileLess(t, k)
           /\ Place(t, k, LastCandidate(t, k))
<1> DEFINE n == nextWhileLess(t, k)
           s == End(t) - Home(t, k)
           T == {e \in n .. End(t) + 1 : Info(t, k, e) # Seen(t, k, e)}
           d == LastCandidate(t, k)
<1>1. s \in Nat /\ s \in Distances(t) /\ Info(t, k, s) > Seen(t, k, s)
      /\ Home(t, k) + s = End(t)
    BY SentinelStops
<1>2. n \in Nat /\ n <= s /\ Info(t, k, n) >= Seen(t, k, n)
    BY WhileLess
<1>3. \A e \in 0 .. n - 1 : Info(t, k, e) < Seen(t, k, e)
    BY WhileLess
<1>4. Info(t, k, s) \in Nat /\ Seen(t, k, s) \in Nat /\ End(t) \in Nat /\ Home(t, k) \in Nat
    BY <1>1, SearchFacts, MemoryFacts
<1>5. d = Min(T)
    BY DEF LastCandidate
<1> HIDE DEF n, s, d
<1>6. s \in T /\ T \subseteq Nat
    BY <1>1, <1>2, <1>4 DEF Distances
<1>7. d \in T /\ d <= s
    BY <1>5, <1>6, LeastNat
<1>8. \A e \in T : d <= e
    BY <1>5, <1>6, LeastNat
<1>9. d \in Nat /\ d >= n /\ Info(t, k, d) # Seen(t, k, d) /\ Home(t, k) + d <= End(t)
    BY <1>1, <1>2, <1>4, <1>6, <1>7
<1>10. Info(t, k, d) \in Nat /\ Seen(t, k, d) \in Nat /\ (d # 0 => Info(t, k, d) >= 2 * t.mInfoInc)
    BY <1>9, SearchFacts
<1>11. ASSUME NEW e \in n .. d - 1
       PROVE  Info(t, k, e) = Seen(t, k, e)
    <2>1. e \in n .. s /\ s <= End(t) /\ e < d
        BY <1>1, <1>2, <1>4, <1>7, <1>9
    <2>2. e \in n .. End(t) + 1
        BY <2>1, <1>1, <1>2, <1>4
    <2>3. e \notin T
        BY <2>1, <1>2, <1>8, <1>9
    <2> QED
        BY <2>2, <2>3
<1>12. Info(t, k, d) > Seen(t, k, d)
    <2>1. CASE d = n
        BY <2>1, <1>2, <1>9, <1>10
    <2>2. CASE d # n
        <3>1. d - 1 \in Nat /\ d - 1 \in n .. d - 1 /\ (d - 1) + 1 = d /\ d # 0
            BY <2>2, <1>2, <1>9
        <3>2. Info(t, k, d - 1) = Seen(t, k, d - 1)
            BY <3>1, <1>11
        <3>3. /\ Info(t, k, d) = Info(t, k, d - 1) + t.mInfoInc
              /\ \/ Seen(t, k, d) < 2 * t.mInfoInc
                 \/ Seen(t, k, d) <= Seen(t, k, d - 1) + t.mInfoInc
            BY <3>1, SearchFacts
        <3>4. t.mInfoInc \in Nat
            BY MemoryFacts
        <3> QED
            BY <3>1, <3>2, <3>3, <3>4, <1>9, <1>10
    <2> QED
        BY <2>1, <2>2
<1>13. ASSUME NEW e \in 0 .. d - 1
       PROVE  Info(t, k, e) <= Seen(t, k, e)
    <2>1. e \in Nat
        OBVIOUS
    <2>2. Info(t, k, e) \in Nat /\ Seen(t, k, e) \in Nat
        BY <2>1, SearchFacts
    <2>3. CASE e < n
        BY <2>1, <2>2, <2>3, <1>2, <1>3
    <2>4. CASE ~(e < n)
        BY <2>1, <2>2, <2>4, <1>2, <1>9, <1>11
    <2> QED
        BY <2>3, <2>4
<1>14. Place(t, k, d)
    BY <1>9, <1>12, <1>13 DEF Place
<1> QED
    BY <1>9, <1>14 DEF d, n

\* An insertion finds its key when it is there.
LEMMA CandidatesFound ==
    ASSUME NEW t, Sound(t), NEW k \in Keys
    PROVE  /\ \A i \in Occupied(t) : t.mKeyVals[i].key = k => i - Home(t, k) \in Candidates(t, k)
           /\ \A d \in Candidates(t, k) : /\ d \in Nat
                                          /\ Home(t, k) + d \in Occupied(t)
                                          /\ t.mKeyVals[Home(t, k) + d].key = k
<1> DEFINE n == nextWhileLess(t, k)
           l == LastCandidate(t, k)
<1>1. n \in Nat /\ \A e \in 0 .. n - 1 : Info(t, k, e) < Seen(t, k, e)
    BY WhileLess
<1>2. l \in Nat /\ l >= n /\ Info(t, k, l) > Seen(t, k, l)
    BY AfterEqualBytes DEF Place
<1>3. Info(t, k, l) \in Nat /\ Seen(t, k, l) \in Nat
    BY <1>2, SearchFacts
<1>4. Candidates(t, k) = {d \in n .. l - 1 : Matches(t, k, d)}
    BY DEF Candidates
<1> HIDE DEF n, l
<1>5. ASSUME NEW i \in Occupied(t), t.mKeyVals[i].key = k
      PROVE  i - Home(t, k) \in Candidates(t, k)
    <2> DEFINE d == i - Home(t, k)
    <2>1. d \in Nat /\ Matches(t, k, d) /\ Info(t, k, d) = Seen(t, k, d)
        BY <1>5, NodeMatches
    <2> HIDE DEF d
    <2>2. Info(t, k, d) \in Nat
        BY <2>1, SearchFacts
    <2>3. ~(d < n)
        BY <2>1, <2>2, <1>1
    <2>4. d < l
        <3>1. SUFFICES ASSUME l <= d PROVE FALSE
            BY <2>1, <1>2
        <3>2. Info(t, k, d) <= Seen(t, k, d)
            BY <2>1, <2>2
        <3>3. Info(t, k, l) <= Seen(t, k, l)
            BY <3>1, <3>2, <2>1, <1>2, SearchPath
        <3> QED
            BY <3>3, <1>2, <1>3
    <2>5. d \in n .. l - 1
        BY <2>1, <2>3, <2>4, <1>1, <1>2
    <2> QED
        BY <2>1, <2>5, <1>4 DEF d
<1>6. ASSUME NEW d \in Candidates(t, k)
      PROVE  /\ d \in Nat
             /\ Home(t, k) + d \in Occupied(t)
             /\ t.mKeyVals[Home(t, k) + d].key = k
    BY <1>1, <1>2, <1>4, MatchFound
<1> QED
    BY <1>5, <1>6

\* Without memory it finds none.
LEMMA NoCandidates ==
    ASSUME program.hash \in Hashes, NEW t, Shape(program.hash, t), t.mMask = 0, NEW k \in Keys
    PROVE  Candidates(t, k) = {}
<1>1. t \in Members /\ Halved(t) /\ End(t) = 0 /\ \A i : InfoAt(t, i) = 0
    BY ShapeCases, NoMemory
<1>2. \A d \in Nat : Info(t, k, d) \in Nat /\ Info(t, k, d) > Seen(t, k, d)
    <2> SUFFICES ASSUME NEW d \in Nat
                 PROVE  Info(t, k, d) \in Nat /\ Info(t, k, d) > Seen(t, k, d)
        OBVIOUS
    <2>1. Seen(t, k, d) = 0
        BY <1>1 DEF Seen
    <2>2. Info(t, k, d) \in Nat /\ Info(t, k, d) > d
        BY <1>1, InfoType
    <2> QED
        BY <2>1, <2>2
<1> DEFINE T == {e \in Distances(t) : Info(t, k, e) >= Seen(t, k, e)}
<1>3. T \subseteq Nat /\ 0 \in T
    <2>1. Distances(t) = 0 .. 1
        BY <1>1 DEF Distances
    <2>2. Seen(t, k, 0) = 0
        BY <1>1 DEF Seen
    <2> QED
        BY <2>1, <2>2, <1>2
<1>4. nextWhileLess(t, k) = Min(T)
    BY DEF nextWhileLess
<1>5. nextWhileLess(t, k) \in Nat
    BY <1>3, <1>4, LeastNat
<1>6. nextWhileLess(t, k) = 0
    <2>1. Min(T) <= 0
        BY <1>3, LeastNat
    <2> QED
        BY <2>1, <1>4, <1>5
<1> DEFINE U == {e \in 0 .. 1 : Info(t, k, e) # Seen(t, k, e)}
<1>7. U \subseteq Nat /\ 0 \in U
    <2>1. Info(t, k, 0) > Seen(t, k, 0) /\ Info(t, k, 0) \in Nat
        BY <1>2
    <2>2. Seen(t, k, 0) = 0
        BY <1>1 DEF Seen
    <2> QED
        BY <2>1, <2>2
<1>8. LastCandidate(t, k) = Min(U)
    BY <1>1, <1>6 DEF LastCandidate
<1>9. LastCandidate(t, k) \in Nat /\ LastCandidate(t, k) <= 0
    BY <1>7, <1>8, LeastNat
<1> HIDE DEF T, U
<1> QED
    BY <1>6, <1>9 DEF Candidates

-----------------------------------------------------------------------------
(***************************************************************************)
(* There is a free slot before the sentinel.                               *)
(***************************************************************************)

LEMMA OccupiedFinite ==
    ASSUME NEW t, Sound(t)
    PROVE  /\ IsFiniteSet(Slots(t))
           /\ IsFiniteSet(Occupied(t))
           /\ t.mNumElements = Cardinality(Occupied(t))
           /\ t.mNumElements \in Nat
<1>1. End(t) \in Nat /\ Slots(t) = 0 .. End(t) - 1 /\ t \in Members
    BY MemoryFacts
<1>2. IsFiniteSet(Slots(t))
    BY <1>1, FS_Interval
<1>3. IsFiniteSet(Occupied(t))
    BY <1>2, SlotFacts, FS_Subset
<1>4. t.mNumElements = Cardinality(Occupied(t))
    BY DEF Sound, HasMemory, Counted
<1> QED
    BY <1>1, <1>2, <1>3, <1>4, MembersType

\* The slots from the last home to the sentinel are more than the nodes there can be, or
\* so many that a node in the last one would not have got a byte.
LEMMA NotAllOccupied ==
    ASSUME NEW t, Sound(t), t.mNumElements < Allowed(t),
           \A i \in t.mMask .. End(t) - 1 : i \in Occupied(t)
    PROVE  FALSE
<1>1. t \in Members /\ t.mMask \in Nat /\ t.mMask # 0 /\ End(t) \in Nat /\ End(t) > t.mMask
    BY MemoryFacts
<1>2. /\ End(t) = t.mMask + 1 + Buffer(t.mMask + 1)
      /\ Allowed(t) \in Nat
      /\ Buffer(t.mMask + 1) \in Nat
      /\ Buffer(t.mMask + 1) \in {Allowed(t), InfoMax}
    BY <1>1, EndType
<1>3. CASE Buffer(t.mMask + 1) = Allowed(t)
    <2> DEFINE S == t.mMask .. End(t) - 1
    <2>1. IsFiniteSet(S) /\ Cardinality(S) = (End(t) - 1) - t.mMask + 1
        <3>1. t.mMask \in Int /\ End(t) - 1 \in Int /\ ~(t.mMask > End(t) - 1)
            BY <1>1
        <3> QED
            BY <3>1, FS_Interval
    <2>2. S \in SUBSET Occupied(t)
        OBVIOUS
    <2> HIDE DEF S
    <2>3. Cardinality(S) <= Cardinality(Occupied(t))
        BY <2>2, OccupiedFinite, FS_Subset
    <2>4. t.mNumElements = Cardinality(Occupied(t)) /\ t.mNumElements \in Nat
        BY OccupiedFinite
    <2> QED
        BY <1>1, <1>2, <1>3, <2>1, <2>3, <2>4
<1>4. CASE Buffer(t.mMask + 1) = InfoMax
    <2> DEFINE i == End(t) - 1
    <2>1. i \in Nat /\ i \in Occupied(t)
        BY <1>1
    <2>2. /\ Home(t, t.mKeyVals[i].key) \in 0 .. t.mMask
          /\ InfoAt(t, i) > i - Home(t, t.mKeyVals[i].key)
        BY <2>1, NodeFacts
    <2>3. InfoAt(t, i) \in Nat /\ InfoAt(t, i) <= InfoMax /\ InfoMax \in Nat
        BY <2>1, MemoryFacts
    <2> DEFINE h == Home(t, t.mKeyVals[i].key)
    <2>4. h \in 0 .. t.mMask /\ InfoAt(t, i) > i - h
        BY <2>2
    <2>5. i = t.mMask + InfoMax
        BY <1>1, <1>2, <1>4
    <2> HIDE DEF i, h
    <2> QED
        BY <1>1, <2>3, <2>4, <2>5
<1> QED
    BY <1>2, <1>3, <1>4

LEMMA FreeSlot ==
    ASSUME NEW t, Sound(t), NEW k \in Keys, NEW d, Place(t, k, d), t.mNumElements < Allowed(t),
           NEW to, to = Home(t, k) + d,
           NEW spot, spot = Min({i \in to .. End(t) + 1 : InfoAt(t, i) = 0})
    PROVE  /\ to \in Nat /\ spot \in Nat
           /\ to <= spot /\ spot < End(t)
           /\ InfoAt(t, spot) = 0
           /\ \A i \in to .. spot - 1 : i \in Occupied(t)
<1>0. t.mMask \in Nat /\ End(t) \in Nat /\ End(t) > t.mMask /\ Slots(t) = 0 .. End(t) - 1
      /\ t.mInfoInc \in Nat /\ t.mInfoInc >= 2 /\ InfoAt(t, End(t)) = 1
    BY MemoryFacts
<1>1. d \in Nat /\ Home(t, k) \in 0 .. t.mMask /\ to \in Nat /\ to <= End(t)
    BY SearchFacts DEF Place
<1> DEFINE T == {i \in to .. End(t) + 1 : InfoAt(t, i) = 0}
<1>2. End(t) + 1 \in T /\ T \subseteq Nat
    <2>1. End(t) + 1 \in Nat /\ End(t) + 1 > End(t) /\ End(t) + 1 \in to .. End(t) + 1
        BY <1>0, <1>1
    <2>2. InfoAt(t, End(t) + 1) = 0
        BY <2>1, MemoryFacts
    <2> QED
        BY <2>1, <2>2, <1>1
<1>3. spot \in T /\ \A i \in T : spot <= i
    BY <1>2, LeastNat
<1>4. spot \in Nat /\ to <= spot /\ spot <= End(t) + 1 /\ InfoAt(t, spot) = 0 /\ spot # End(t)
    BY <1>0, <1>1, <1>3
<1>5. ASSUME NEW i \in to .. spot - 1
      PROVE  InfoAt(t, i) # 0 /\ i \in Nat
    <2>1. i \in to .. End(t) + 1 /\ i < spot /\ i \in Nat
        BY <1>0, <1>1, <1>4
    <2> QED
        BY <2>1, <1>3, <1>4
<1>6. ASSUME NEW i \in to .. spot - 1, i < End(t)
      PROVE  i \in Occupied(t)
    BY <1>5, <1>6, <1>0, SlotFacts
<1>7. spot # End(t) + 1
    <2> SUFFICES ASSUME spot = End(t) + 1 PROVE FALSE
        OBVIOUS
    <2>1. ASSUME NEW i \in t.mMask .. End(t) - 1
          PROVE  i \in Occupied(t)
        <3>0. i \in Nat /\ i < End(t) /\ i >= Home(t, k)
            BY <1>0, <1>1
        <3>1. CASE i >= to
            <4>1. i \in to .. spot - 1
                BY <3>0, <3>1, <1>0, <1>1
            <4> QED
                BY <4>1, <3>0, <1>6
        <3>2. CASE i < to
            <4> DEFINE e == i - Home(t, k)
            <4>1. e \in Nat /\ e \in 0 .. d - 1 /\ Home(t, k) + e = i
                BY <3>0, <3>2, <1>0, <1>1
            <4> HIDE DEF e
            <4>2. Info(t, k, e) <= Seen(t, k, e)
                BY <4>1 DEF Place
            <4>3. Info(t, k, e) \in Nat /\ Info(t, k, e) >= t.mInfoInc /\ Seen(t, k, e) \in Nat
                  /\ Seen(t, k, e) = InfoAt(t, Home(t, k) + e)
                BY <4>1, SearchFacts
            <4>4. InfoAt(t, i) >= 2
                BY <4>1, <4>2, <4>3, <1>0
            <4> QED
                BY <3>0, <4>4, LargeBytes
        <3> QED
            BY <3>0, <3>1, <3>2, <1>1
    <2> QED
        BY <2>1, NotAllOccupied
<1>8. spot < End(t)
    BY <1>0, <1>4, <1>7
<1>9. ASSUME NEW i \in to .. spot - 1
      PROVE  i \in Occupied(t)
    <2>1. i < End(t)
        BY <1>0, <1>1, <1>4, <1>8
    <2> QED
        BY <2>1, <1>6
<1> QED
    BY <1>1, <1>4, <1>8, <1>9

-----------------------------------------------------------------------------
(***************************************************************************)
(* Putting a node: the members of the table then.                          *)
(***************************************************************************)
IsTable(t) ==
    t = [mHashMultiplier |-> t.mHashMultiplier, mKeyVals |-> t.mKeyVals,
         mInfo |-> t.mInfo, mNumElements |-> t.mNumElements, mMask |-> t.mMask,
         mMaxNumElementsAllowed |-> t.mMaxNumElementsAllowed,
         mInfoInc |-> t.mInfoInc, mInfoHashShift |-> t.mInfoHashShift]

\* The fields of a table of which some are replaced.
LEMMA Replaced ==
    ASSUME NEW t, IsTable(t), NEW nodes, NEW bytes, NEW count, NEW limit
    PROVE  /\ [t EXCEPT !.mKeyVals = nodes, !.mInfo = bytes] =
                  [mHashMultiplier |-> t.mHashMultiplier, mKeyVals |-> nodes, mInfo |-> bytes,
                   mNumElements |-> t.mNumElements, mMask |-> t.mMask,
                   mMaxNumElementsAllowed |-> t.mMaxNumElementsAllowed,
                   mInfoInc |-> t.mInfoInc, mInfoHashShift |-> t.mInfoHashShift]
           /\ [t EXCEPT !.mMaxNumElementsAllowed = limit] =
                  [mHashMultiplier |-> t.mHashMultiplier, mKeyVals |-> t.mKeyVals,
                   mInfo |-> t.mInfo, mNumElements |-> t.mNumElements, mMask |-> t.mMask,
                   mMaxNumElementsAllowed |-> limit,
                   mInfoInc |-> t.mInfoInc, mInfoHashShift |-> t.mInfoHashShift]
           /\ [t EXCEPT !.mKeyVals = nodes, !.mInfo = bytes, !.mMaxNumElementsAllowed = limit,
                        !.mNumElements = count] =
                  [mHashMultiplier |-> t.mHashMultiplier, mKeyVals |-> nodes, mInfo |-> bytes,
                   mNumElements |-> count, mMask |-> t.mMask, mMaxNumElementsAllowed |-> limit,
                   mInfoInc |-> t.mInfoInc, mInfoHashShift |-> t.mInfoHashShift]
           /\ [t EXCEPT !.mKeyVals = nodes, !.mInfo = bytes, !.mNumElements = count] =
                  [mHashMultiplier |-> t.mHashMultiplier, mKeyVals |-> nodes, mInfo |-> bytes,
                   mNumElements |-> count, mMask |-> t.mMask,
                   mMaxNumElementsAllowed |-> t.mMaxNumElementsAllowed,
                   mInfoInc |-> t.mInfoInc, mInfoHashShift |-> t.mInfoHashShift]
           /\ [t EXCEPT !.mKeyVals = nodes] =
                  [mHashMultiplier |-> t.mHashMultiplier, mKeyVals |-> nodes, mInfo |-> t.mInfo,
                   mNumElements |-> t.mNumElements, mMask |-> t.mMask,
                   mMaxNumElementsAllowed |-> t.mMaxNumElementsAllowed,
                   mInfoInc |-> t.mInfoInc, mInfoHashShift |-> t.mInfoHashShift]
<1> DEFINE m == t.mHashMultiplier
           n == t.mKeyVals
           b == t.mInfo
           c == t.mNumElements
           k == t.mMask
           l == t.mMaxNumElementsAllowed
           i == t.mInfoInc
           h == t.mInfoHashShift
<1>0. t = [mHashMultiplier |-> m, mKeyVals |-> n, mInfo |-> b, mNumElements |-> c, mMask |-> k,
           mMaxNumElementsAllowed |-> l, mInfoInc |-> i, mInfoHashShift |-> h]
    BY DEF IsTable
<1> HIDE DEF m, n, b, c, k, l, i, h
<1> DEFINE t1 == [t EXCEPT !.mKeyVals = nodes]
           t2 == [t1 EXCEPT !.mInfo = bytes]
           t3 == [t2 EXCEPT !.mMaxNumElementsAllowed = limit]
           t4 == [t3 EXCEPT !.mNumElements = count]
           t5 == [t2 EXCEPT !.mNumElements = count]
<1>1. t1 = [mHashMultiplier |-> m, mKeyVals |-> nodes, mInfo |-> b, mNumElements |-> c,
            mMask |-> k, mMaxNumElementsAllowed |-> l, mInfoInc |-> i, mInfoHashShift |-> h]
    BY <1>0
<1>2. t2 = [t EXCEPT !.mKeyVals = nodes, !.mInfo = bytes]
    OBVIOUS
<1>3. t4 = [t EXCEPT !.mKeyVals = nodes, !.mInfo = bytes, !.mMaxNumElementsAllowed = limit,
                     !.mNumElements = count]
    OBVIOUS
<1>4. t5 = [t EXCEPT !.mKeyVals = nodes, !.mInfo = bytes, !.mNumElements = count]
    OBVIOUS
<1> HIDE DEF t1
<1>5. t2 = [mHashMultiplier |-> m, mKeyVals |-> nodes, mInfo |-> bytes, mNumElements |-> c,
            mMask |-> k, mMaxNumElementsAllowed |-> l, mInfoInc |-> i, mInfoHashShift |-> h]
    BY <1>1
<1> HIDE DEF t2
<1>6. t3 = [mHashMultiplier |-> m, mKeyVals |-> nodes, mInfo |-> bytes, mNumElements |-> c,
            mMask |-> k, mMaxNumElementsAllowed |-> limit, mInfoInc |-> i, mInfoHashShift |-> h]
    BY <1>5
<1>7. t5 = [mHashMultiplier |-> m, mKeyVals |-> nodes, mInfo |-> bytes, mNumElements |-> count,
            mMask |-> k, mMaxNumElementsAllowed |-> l, mInfoInc |-> i, mInfoHashShift |-> h]
    BY <1>5
<1> HIDE DEF t3
<1>8. t4 = [mHashMultiplier |-> m, mKeyVals |-> nodes, mInfo |-> bytes, mNumElements |-> count,
            mMask |-> k, mMaxNumElementsAllowed |-> limit, mInfoInc |-> i, mInfoHashShift |-> h]
    BY <1>6
<1> HIDE DEF t4, t5
<1>9. [t EXCEPT !.mMaxNumElementsAllowed = limit] =
           [mHashMultiplier |-> m, mKeyVals |-> n, mInfo |-> b, mNumElements |-> c,
            mMask |-> k, mMaxNumElementsAllowed |-> limit, mInfoInc |-> i, mInfoHashShift |-> h]
    BY <1>0
<1> QED
    BY <1>1, <1>2, <1>3, <1>4, <1>5, <1>7, <1>8, <1>9, Zenon DEF t1, m, n, b, c, k, l, i, h

\* Only the slots and their number differ, and whether they may be more.
SameNumbers(t, u) ==
    /\ u.mHashMultiplier = t.mHashMultiplier
    /\ u.mMask = t.mMask
    /\ u.mInfoInc = t.mInfoInc
    /\ u.mInfoHashShift = t.mInfoHashShift

LEMMA NumbersKept ==
    ASSUME NEW t, NEW u, SameNumbers(t, u)
    PROVE  /\ End(u) = End(t)
           /\ Slots(u) = Slots(t)
           /\ Allowed(u) = Allowed(t)
           /\ Halved(u) <=> Halved(t)
           /\ \A hash, k : HomeBy(hash, u, k) = HomeBy(hash, t, k)
           /\ \A hash, k, d : InfoBy(hash, u, k, d) = InfoBy(hash, t, k, d)
           /\ \A k : Home(u, k) = Home(t, k)
           /\ \A k, d : Info(u, k, d) = Info(t, k, d)
           /\ \A info : Fits(u, info) <=> Fits(t, info)
<1>1. End(u) = End(t)
    BY Zenon DEF End, SameNumbers
<1>2. Slots(u) = Slots(t)
    BY <1>1, Zenon DEF Slots
<1>3. Allowed(u) = Allowed(t)
    BY Zenon DEF Allowed, SameNumbers
<1>4. Halved(u) <=> Halved(t)
    BY Zenon DEF Halved, SameNumbers
<1>5. \A hash, k : HomeBy(hash, u, k) = HomeBy(hash, t, k)
    BY Zenon DEF HomeBy, SameNumbers
<1>6. \A hash, k, d : InfoBy(hash, u, k, d) = InfoBy(hash, t, k, d)
    BY Zenon DEF InfoBy, SameNumbers
<1>7. \A k : Home(u, k) = Home(t, k)
    BY Zenon DEF Home, Hash, SameNumbers
<1>8. \A k, d : Info(u, k, d) = Info(t, k, d)
    BY Zenon DEF Info, Hash, SameNumbers
<1>9. \A info : Fits(u, info) <=> Fits(t, info)
    BY Zenon DEF Fits, SameNumbers
<1> QED
    BY <1>1, <1>2, <1>3, <1>4, <1>5, <1>6, <1>7, <1>8, <1>9

ShiftedNodes(nodes, spot, to) ==
    [i \in DOMAIN nodes |-> IF to < i /\ i <= spot THEN nodes[i - 1] ELSE nodes[i]]

ShiftedBytes(t, spot, to) ==
    [i \in DOMAIN t.mInfo |-> IF to < i /\ i <= spot THEN Byte(t.mInfo[i - 1] + t.mInfoInc)
                              ELSE t.mInfo[i]]

ShiftedUp(t, r, spot, to) ==
    /\ IsTable(r)
    /\ SameNumbers(t, r)
    /\ r.mNumElements = t.mNumElements
    /\ r.mKeyVals = ShiftedNodes(t.mKeyVals, spot, to)
    /\ r.mInfo = ShiftedBytes(t, spot, to)
    /\ r.mMaxNumElementsAllowed =
           IF \A i \in to .. spot - 1 : Fits(t, Byte(t.mInfo[i] + t.mInfoInc))
           THEN t.mMaxNumElementsAllowed ELSE 0

LEMMA ShiftUpMembers ==
    ASSUME NEW t, IsTable(t), NEW spot, NEW to
    PROVE  ShiftedUp(t, shiftUp(t, spot, to), spot, to)
<1> DEFINE r     == shiftUp(t, spot, to)
           nodes == ShiftedNodes(t.mKeyVals, spot, to)
           bytes == ShiftedBytes(t, spot, to)
           half  == [t EXCEPT !.mKeyVals = nodes, !.mInfo = bytes]
           limit == IF \A i \in to .. spot - 1 : Fits(t, Byte(t.mInfo[i] + t.mInfoInc))
                    THEN t.mMaxNumElementsAllowed ELSE 0
<1>1. shiftUp_unnoticed(t, spot, to) = half
    BY Zenon DEF shiftUp_unnoticed, ShiftedNodes, ShiftedBytes
<1> HIDE DEF nodes, bytes
<1>2. half = [mHashMultiplier |-> t.mHashMultiplier, mKeyVals |-> nodes,
              mInfo |-> bytes, mNumElements |-> t.mNumElements, mMask |-> t.mMask,
              mMaxNumElementsAllowed |-> t.mMaxNumElementsAllowed,
              mInfoInc |-> t.mInfoInc, mInfoHashShift |-> t.mInfoHashShift]
    BY Replaced, Zenon
<1> HIDE DEF half
<1>3. r = [half EXCEPT !.mMaxNumElementsAllowed =
               IF \A i \in to .. spot - 1 : Fits(t, Byte(t.mInfo[i] + t.mInfoInc))
               THEN half.mMaxNumElementsAllowed ELSE 0]
    BY <1>1, Zenon DEF shiftUp
<1>4. half.mMaxNumElementsAllowed = t.mMaxNumElementsAllowed
    BY <1>2
<1>5. r = [half EXCEPT !.mMaxNumElementsAllowed = limit]
    BY <1>3, <1>4, Zenon
<1> HIDE DEF limit
<1> HIDE DEF r
<1>6. r = [mHashMultiplier |-> t.mHashMultiplier, mKeyVals |-> nodes,
           mInfo |-> bytes, mNumElements |-> t.mNumElements, mMask |-> t.mMask,
           mMaxNumElementsAllowed |-> limit,
           mInfoInc |-> t.mInfoInc, mInfoHashShift |-> t.mInfoHashShift]
    BY <1>2, <1>5, Replaced
<1>7. /\ IsTable(r) /\ SameNumbers(t, r) /\ r.mNumElements = t.mNumElements
      /\ r.mKeyVals = nodes /\ r.mInfo = bytes /\ r.mMaxNumElementsAllowed = limit
    BY <1>6 DEF IsTable, SameNumbers
<1> QED
    BY <1>7, Zenon DEF ShiftedUp, nodes, bytes, limit, r

\* What Put makes of the members.
PutNodes(t, node, spot, to) ==
    [i \in DOMAIN t.mKeyVals |-> IF i = to THEN node ELSE ShiftedNodes(t.mKeyVals, spot, to)[i]]

PutBytes(t, byte, spot, to) ==
    [i \in DOMAIN t.mInfo |-> IF i = to THEN byte ELSE ShiftedBytes(t, spot, to)[i]]

HasPut(t, u, node, d, to, spot) ==
    /\ IsTable(u)
    /\ SameNumbers(t, u)
    /\ u.mNumElements = t.mNumElements + 1
    /\ u.mKeyVals = PutNodes(t, node, spot, to)
    /\ u.mInfo = PutBytes(t, Byte(Info(t, node.key, d)), spot, to)
    /\ u.mMaxNumElementsAllowed =
           IF /\ Fits(t, Info(t, node.key, d))
              /\ \A i \in to .. spot - 1 : Fits(t, Byte(t.mInfo[i] + t.mInfoInc))
           THEN t.mMaxNumElementsAllowed ELSE 0

LEMMA PutMembers ==
    ASSUME NEW t, IsTable(t), NEW node, NEW d, NEW u, u = Put(t, node, d),
           NEW to, to = Home(t, node.key) + d,
           NEW spot, spot = Min({i \in to .. End(t) + 1 : InfoAt(t, i) = 0})
    PROVE  HasPut(t, u, node, d, to, spot)
<1> DEFINE r     == shiftUp(t, spot, to)
           byte  == Byte(Info(t, node.key, d))
           nodes == [i \in DOMAIN r.mKeyVals |-> IF i = to THEN node ELSE r.mKeyVals[i]]
           bytes == [i \in DOMAIN r.mInfo |-> IF i = to THEN byte ELSE r.mInfo[i]]
           limit == IF Fits(t, Info(t, node.key, d)) THEN r.mMaxNumElementsAllowed ELSE 0
<1>1. u = [r EXCEPT !.mKeyVals = nodes, !.mInfo = bytes, !.mMaxNumElementsAllowed = limit,
                    !.mNumElements = r.mNumElements + 1]
    BY Zenon DEF Put
<1>0. ShiftedUp(t, r, spot, to)
    BY ShiftUpMembers, Zenon
<1>2. /\ IsTable(r)
      /\ SameNumbers(t, r)
      /\ r.mNumElements = t.mNumElements
      /\ r.mKeyVals = ShiftedNodes(t.mKeyVals, spot, to)
      /\ r.mInfo = ShiftedBytes(t, spot, to)
      /\ r.mMaxNumElementsAllowed =
             IF \A i \in to .. spot - 1 : Fits(t, Byte(t.mInfo[i] + t.mInfoInc))
             THEN t.mMaxNumElementsAllowed ELSE 0
    BY <1>0, Zenon DEF ShiftedUp
<1>3. DOMAIN r.mKeyVals = DOMAIN t.mKeyVals /\ DOMAIN r.mInfo = DOMAIN t.mInfo
    BY <1>2, Zenon DEF ShiftedNodes, ShiftedBytes
<1>4. nodes = PutNodes(t, node, spot, to)
    BY <1>2, <1>3, Zenon DEF PutNodes
<1>5. bytes = PutBytes(t, byte, spot, to)
    BY <1>2, <1>3, Zenon DEF PutBytes
<1>6. limit = IF /\ Fits(t, Info(t, node.key, d))
                 /\ \A i \in to .. spot - 1 : Fits(t, Byte(t.mInfo[i] + t.mInfoInc))
              THEN t.mMaxNumElementsAllowed ELSE 0
    <2> DEFINE all == \A i \in to .. spot - 1 : Fits(t, Byte(t.mInfo[i] + t.mInfoInc))
               one == Fits(t, Info(t, node.key, d))
    <2>1. r.mMaxNumElementsAllowed = IF all THEN t.mMaxNumElementsAllowed ELSE 0
        BY <1>2
    <2>2. limit = IF one THEN r.mMaxNumElementsAllowed ELSE 0
        OBVIOUS
    <2> HIDE DEF all, one, limit, r
    <2>3. limit = IF one /\ all THEN t.mMaxNumElementsAllowed ELSE 0
        BY <2>1, <2>2
    <2> QED
        BY <2>3, Zenon DEF all, one
<1> HIDE DEF nodes, bytes, limit, r, byte
<1>7. u = [mHashMultiplier |-> r.mHashMultiplier, mKeyVals |-> nodes,
           mInfo |-> bytes, mNumElements |-> r.mNumElements + 1, mMask |-> r.mMask,
           mMaxNumElementsAllowed |-> limit,
           mInfoInc |-> r.mInfoInc, mInfoHashShift |-> r.mInfoHashShift]
    BY <1>1, <1>2, Replaced DEF IsTable
<1>8. IsTable(u) /\ u.mKeyVals = nodes /\ u.mInfo = bytes /\ u.mMaxNumElementsAllowed = limit
    BY <1>7 DEF IsTable
<1>9. SameNumbers(t, u) /\ u.mNumElements = t.mNumElements + 1
    BY <1>2, <1>7 DEF SameNumbers
<1> QED
    BY <1>4, <1>5, <1>6, <1>8, <1>9, Zenon DEF byte, HasPut

-----------------------------------------------------------------------------
(***************************************************************************)
(* Putting a node: no byte wraps, and each node keeps its distance.        *)
(***************************************************************************)
MayPut(t, node, d) ==
    /\ Sound(t)
    /\ node \in Node
    /\ AllFit(t)
    /\ t.mNumElements < Allowed(t)
    /\ \A i \in Occupied(t) : t.mKeyVals[i].key # node.key
    /\ Place(t, node.key, d)

\* The members after the node took slot `to', `spot' being the free slot behind it.
Shifted(t, u, node, d, to, spot) ==
    /\ u \in Members
    /\ SameNumbers(t, u)
    /\ u.mNumElements = t.mNumElements + 1
    /\ u.mKeyVals \in [Slots(t) -> Node \cup {NoNode}]
    /\ u.mInfo \in [0 .. End(t) -> 0 .. InfoMax]
    /\ \A i \in Slots(t) :
          u.mKeyVals[i] = IF i = to THEN node
                          ELSE IF to < i /\ i <= spot THEN t.mKeyVals[i - 1] ELSE t.mKeyVals[i]
    /\ \A i \in 0 .. End(t) :
          InfoAt(u, i) = IF i = to THEN Info(t, node.key, d)
                         ELSE IF to < i /\ i <= spot THEN InfoAt(t, i - 1) + t.mInfoInc
                         ELSE InfoAt(t, i)
    /\ u.mMaxNumElementsAllowed \in {0, t.mMaxNumElementsAllowed}
    /\ u.mMaxNumElementsAllowed # 0 =>
          /\ Fits(t, Info(t, node.key, d))
          /\ \A i \in to .. spot - 1 : Fits(t, InfoAt(t, i) + t.mInfoInc)

SpotOf(t, k, d, to, spot) ==
    /\ to = Home(t, k) + d
    /\ to \in Nat /\ spot \in Nat
    /\ to <= spot /\ spot < End(t)
    /\ InfoAt(t, spot) = 0
    /\ \A i \in to .. spot - 1 : i \in Occupied(t)

LEMMA AllFitBytes ==
    ASSUME NEW t, Sound(t), AllFit(t), NEW i \in Occupied(t)
    PROVE  InfoAt(t, i) + t.mInfoInc <= InfoMax
<1>1. i \in Nat /\ i < End(t)
    BY NodeFacts
<1>2. End(t) \in Nat /\ \A j \in 0 .. End(t) : InfoAt(t, j) = t.mInfo[j]
    BY MemoryFacts
<1>3. InfoAt(t, i) = t.mInfo[i]
    BY <1>1, <1>2
<1> QED
    BY <1>3 DEF AllFit, Fits

LEMMA PutByteFits ==
    ASSUME NEW t, NEW node, NEW d, MayPut(t, node, d)
    PROVE  Info(t, node.key, d) \in Nat /\ Info(t, node.key, d) <= InfoMax
<1> DEFINE k == node.key
<1>1. Sound(t) /\ k \in Keys /\ Place(t, k, d) /\ AllFit(t)
    BY DEF MayPut, Node
<1> HIDE DEF k
<1>2. d \in Nat /\ t.mInfoInc \in Nat /\ t.mInfoInc >= 2 /\ 2 * t.mInfoInc - 1 <= InfoMax
      /\ InfoMax \in Nat
    BY <1>1, MemoryFacts DEF Place
<1>3. Info(t, k, d) \in Nat /\ (d = 0 => Info(t, k, d) < 2 * t.mInfoInc)
    BY <1>1, <1>2, SearchFacts
<1>4. CASE d = 0
    BY <1>2, <1>3, <1>4 DEF k
<1>5. CASE d # 0
    <2> DEFINE e == d - 1
    <2>1. e \in Nat /\ e \in 0 .. d - 1 /\ e + 1 = d
        BY <1>2, <1>5
    <2> HIDE DEF e
    <2>2. Info(t, k, e) <= Seen(t, k, e)
        BY <1>1, <2>1 DEF Place
    <2>3. Info(t, k, e) \in Nat /\ Info(t, k, e) >= t.mInfoInc /\ Seen(t, k, e) \in Nat
          /\ Info(t, k, d) = Info(t, k, e) + t.mInfoInc
          /\ Seen(t, k, e) = InfoAt(t, Home(t, k) + e) /\ Home(t, k) + e \in Nat
        BY <1>1, <2>1, SearchFacts
    <2>4. InfoAt(t, Home(t, k) + e) >= 2
        BY <2>2, <2>3, <1>2
    <2>5. Home(t, k) + e \in Occupied(t)
        BY <1>1, <2>3, <2>4, LargeBytes
    <2>6. Seen(t, k, e) + t.mInfoInc <= InfoMax
        BY <1>1, <2>3, <2>5, AllFitBytes
    <2>7. Info(t, k, d) <= InfoMax
        BY <1>2, <2>2, <2>3, <2>6
    <2> QED
        BY <1>3, <2>7 DEF k
<1> QED
    BY <1>4, <1>5

LEMMA ByteKept ==
    ASSUME NEW v \in Nat, v <= InfoMax
    PROVE  Byte(v) = v
<1>1. InfoMax \in Nat
    BY HashAssumption
<1> QED
    BY <1>1 DEF Byte

LEMMA MembersOf ==
    ASSUME NEW u, IsTable(u), NEW n \in Nat, NEW m \in Nat,
           u.mHashMultiplier \in 0 .. NumMultipliers - 1,
           u.mKeyVals \in [0 .. n - 1 -> Node \cup {NoNode}],
           u.mInfo \in [0 .. m - 1 -> 0 .. InfoMax],
           u.mNumElements \in Nat, u.mMask \in Nat, u.mMaxNumElementsAllowed \in Nat,
           u.mInfoInc \in Nat, u.mInfoHashShift \in 0 .. InitialInfoNumBits - 1
    PROVE  u \in Members
<1>1. u.mKeyVals \in Arrays(Node \cup {NoNode})
    BY DEF Arrays
<1>2. u.mInfo \in Arrays(0 .. InfoMax)
    BY DEF Arrays
<1> QED
    BY <1>1, <1>2 DEF IsTable, Members

LEMMA PutShifts ==
    ASSUME NEW t, NEW node, NEW d, MayPut(t, node, d),
           NEW to, NEW spot, SpotOf(t, node.key, d, to, spot),
           NEW u, HasPut(t, u, node, d, to, spot)
    PROVE  Shifted(t, u, node, d, to, spot)
<1> DEFINE byte == Info(t, node.key, d)
<1>1. Sound(t) /\ AllFit(t) /\ node \in Node
    BY DEF MayPut
<1>2. byte \in Nat /\ byte <= InfoMax
    BY PutByteFits
<1>3. Byte(byte) = byte
    BY <1>2, ByteKept
<1>4. /\ t \in Members /\ End(t) \in Nat /\ Slots(t) = 0 .. End(t) - 1
      /\ t.mKeyVals \in [Slots(t) -> Node \cup {NoNode}]
      /\ t.mInfo \in [0 .. End(t) -> 0 .. InfoMax]
      /\ InfoMax \in Nat /\ t.mInfoInc \in Nat
      /\ \A i \in 0 .. End(t) : InfoAt(t, i) = t.mInfo[i] /\ InfoAt(t, i) \in Nat
                                /\ InfoAt(t, i) <= InfoMax
    BY <1>1, MemoryFacts
<1>5. /\ to \in Nat /\ spot \in Nat /\ to <= spot /\ spot < End(t)
      /\ \A i \in to .. spot - 1 : i \in Occupied(t)
    BY DEF SpotOf
<1> HIDE DEF byte
<1>6. \A i \in to .. spot - 1 : /\ InfoAt(t, i) + t.mInfoInc \in Nat
                                /\ InfoAt(t, i) + t.mInfoInc <= InfoMax
                                /\ Byte(t.mInfo[i] + t.mInfoInc) = InfoAt(t, i) + t.mInfoInc
    <2> SUFFICES ASSUME NEW i \in to .. spot - 1
                 PROVE  /\ InfoAt(t, i) + t.mInfoInc \in Nat
                        /\ InfoAt(t, i) + t.mInfoInc <= InfoMax
                        /\ Byte(t.mInfo[i] + t.mInfoInc) = InfoAt(t, i) + t.mInfoInc
        OBVIOUS
    <2>1. i \in Occupied(t) /\ i \in 0 .. End(t)
        BY <1>4, <1>5
    <2>2. InfoAt(t, i) + t.mInfoInc <= InfoMax
        BY <1>1, <2>1, AllFitBytes
    <2>3. InfoAt(t, i) \in Nat /\ InfoAt(t, i) = t.mInfo[i] /\ InfoAt(t, i) + t.mInfoInc \in Nat
        BY <1>4, <2>1
    <2>4. Byte(InfoAt(t, i) + t.mInfoInc) = InfoAt(t, i) + t.mInfoInc
        BY <2>2, <2>3, ByteKept
    <2> QED
        BY <2>2, <2>3, <2>4
<1>7. /\ IsTable(u)
      /\ SameNumbers(t, u)
      /\ u.mNumElements = t.mNumElements + 1
      /\ u.mKeyVals = PutNodes(t, node, spot, to)
      /\ u.mInfo = PutBytes(t, byte, spot, to)
    BY <1>3, Zenon DEF HasPut, byte
<1>8. ASSUME NEW i \in Slots(t)
      PROVE  u.mKeyVals[i] = IF i = to THEN node
                             ELSE IF to < i /\ i <= spot THEN t.mKeyVals[i - 1] ELSE t.mKeyVals[i]
    <2>1. u.mKeyVals[i] = IF i = to THEN node ELSE ShiftedNodes(t.mKeyVals, spot, to)[i]
        BY <1>4, <1>7 DEF PutNodes
    <2>2. ShiftedNodes(t.mKeyVals, spot, to)[i] =
              IF to < i /\ i <= spot THEN t.mKeyVals[i - 1] ELSE t.mKeyVals[i]
        BY <1>4 DEF ShiftedNodes
    <2> QED
        BY <2>1, <2>2
<1>9. u.mKeyVals \in [Slots(t) -> Node \cup {NoNode}]
    <2>1. DOMAIN u.mKeyVals = Slots(t) /\ u.mKeyVals = [i \in Slots(t) |-> u.mKeyVals[i]]
        BY <1>4, <1>7 DEF PutNodes
    <2>2. \A i \in Slots(t) : u.mKeyVals[i] \in Node \cup {NoNode}
        <3> SUFFICES ASSUME NEW i \in Slots(t)
                     PROVE  u.mKeyVals[i] \in Node \cup {NoNode}
            OBVIOUS
        <3>1. to < i => i - 1 \in Slots(t)
            BY <1>4, <1>5
        <3> QED
            BY <1>1, <1>4, <1>8, <3>1
    <2> QED
        BY <2>1, <2>2
<1>10. ASSUME NEW i \in 0 .. End(t)
       PROVE  /\ u.mInfo[i] = IF i = to THEN byte
                              ELSE IF to < i /\ i <= spot THEN InfoAt(t, i - 1) + t.mInfoInc
                              ELSE InfoAt(t, i)
              /\ u.mInfo[i] \in 0 .. InfoMax
    <2>1. u.mInfo[i] = IF i = to THEN byte ELSE ShiftedBytes(t, spot, to)[i]
        BY <1>4, <1>7 DEF PutBytes
    <2>2. ShiftedBytes(t, spot, to)[i] =
              IF to < i /\ i <= spot THEN Byte(t.mInfo[i - 1] + t.mInfoInc) ELSE t.mInfo[i]
        BY <1>4 DEF ShiftedBytes
    <2>3. to < i /\ i <= spot => i - 1 \in to .. spot - 1
        BY <1>4, <1>5
    <2> QED
        BY <1>2, <1>4, <1>6, <2>1, <2>2, <2>3
<1>11. u.mInfo \in [0 .. End(t) -> 0 .. InfoMax]
    <2>1. DOMAIN u.mInfo = 0 .. End(t) /\ u.mInfo = [i \in 0 .. End(t) |-> u.mInfo[i]]
        BY <1>4, <1>7 DEF PutBytes
    <2> QED
        BY <2>1, <1>10
<1>12. \A i \in 0 .. End(t) :
          InfoAt(u, i) = IF i = to THEN byte
                         ELSE IF to < i /\ i <= spot THEN InfoAt(t, i - 1) + t.mInfoInc
                         ELSE InfoAt(t, i)
    <2>1. \A i \in 0 .. End(t) : InfoAt(u, i) = u.mInfo[i]
        BY <1>11 DEF InfoAt
    <2> QED
        BY <2>1, <1>10
<1>13. /\ u.mMaxNumElementsAllowed \in {0, t.mMaxNumElementsAllowed}
       /\ u.mMaxNumElementsAllowed # 0 =>
             /\ Fits(t, byte)
             /\ \A i \in to .. spot - 1 : Fits(t, InfoAt(t, i) + t.mInfoInc)
    <2> DEFINE fit == /\ Fits(t, byte)
                      /\ \A i \in to .. spot - 1 : Fits(t, Byte(t.mInfo[i] + t.mInfoInc))
    <2>1. u.mMaxNumElementsAllowed = IF fit THEN t.mMaxNumElementsAllowed ELSE 0
        BY Zenon DEF HasPut, byte
    <2>2. fit => \A i \in to .. spot - 1 : Fits(t, InfoAt(t, i) + t.mInfoInc)
        BY <1>6, Zenon
    <2>3. fit => Fits(t, byte)
        OBVIOUS
    <2> HIDE DEF fit
    <2> QED
        BY <2>1, <2>2, <2>3
<1>14. u \in Members
    <2>1. u.mKeyVals \in [0 .. End(t) - 1 -> Node \cup {NoNode}]
        BY <1>4, <1>9
    <2>2. End(t) + 1 \in Nat /\ (End(t) + 1) - 1 = End(t)
        BY <1>4
    <2>3. u.mInfo \in [0 .. (End(t) + 1) - 1 -> 0 .. InfoMax]
        BY <1>11, <2>2
    <2>4. /\ u.mHashMultiplier \in 0 .. NumMultipliers - 1
          /\ u.mNumElements \in Nat /\ u.mMask \in Nat /\ u.mMaxNumElementsAllowed \in Nat
          /\ u.mInfoInc \in Nat /\ u.mInfoHashShift \in 0 .. InitialInfoNumBits - 1
        <3>1. /\ t.mHashMultiplier \in 0 .. NumMultipliers - 1
              /\ t.mNumElements \in Nat /\ t.mMask \in Nat /\ t.mMaxNumElementsAllowed \in Nat
              /\ t.mInfoInc \in Nat /\ t.mInfoHashShift \in 0 .. InitialInfoNumBits - 1
            BY <1>4, MembersType
        <3> QED
            BY <3>1, <1>7, <1>13 DEF SameNumbers
    <2> QED
        BY <1>4, <1>7, <2>1, <2>2, <2>3, <2>4, MembersOf
<1> QED
    BY <1>7, <1>8, <1>9, <1>11, <1>12, <1>13, <1>14 DEF Shifted, byte

-----------------------------------------------------------------------------
(***************************************************************************)
(* Putting a node keeps a table sound.                                     *)
(***************************************************************************)
Putting(t, u, node, d, to, spot) ==
    /\ MayPut(t, node, d)
    /\ SpotOf(t, node.key, d, to, spot)
    /\ Shifted(t, u, node, d, to, spot)

\* What is needed of the table before and of the spot.
LEMMA PuttingFacts ==
    ASSUME NEW t, NEW u, NEW node, NEW d, NEW to, NEW spot, Putting(t, u, node, d, to, spot)
    PROVE  /\ Sound(t) /\ node \in Node /\ node # NoNode /\ node.key \in Keys /\ d \in Nat
           /\ t \in Members /\ u \in Members /\ SameNumbers(t, u)
           /\ to = Home(t, node.key) + d /\ Home(t, node.key) \in Nat
           /\ to \in Nat /\ spot \in Nat /\ to <= spot /\ spot < End(t) /\ InfoAt(t, spot) = 0
           /\ \A i \in to .. spot - 1 : i \in Occupied(t)
           /\ End(t) \in Nat /\ End(u) = End(t)
           /\ Slots(t) = 0 .. End(t) - 1 /\ Slots(u) = 0 .. End(t) - 1
           /\ t.mInfoInc \in Nat /\ t.mInfoInc >= 2 /\ u.mInfoInc = t.mInfoInc
           /\ \A i \in Nat : InfoAt(t, i) \in Nat
           /\ \A i \in 0 .. End(t) : InfoAt(u, i) = u.mInfo[i]
           /\ Info(t, node.key, d) \in Nat /\ Info(t, node.key, d) >= t.mInfoInc
<1>1. Sound(t) /\ node \in Node /\ Place(t, node.key, d)
    BY DEF Putting, MayPut
<1>2. node.key \in Keys /\ node # NoNode /\ d \in Nat
    BY <1>1, HashAssumption DEF Node, Place
<1>3. u \in Members /\ SameNumbers(t, u) /\ u.mInfo \in [0 .. End(t) -> 0 .. InfoMax]
    BY DEF Putting, Shifted
<1>4. /\ End(t) \in Nat /\ Slots(t) = 0 .. End(t) - 1 /\ t \in Members
      /\ t.mInfoInc \in Nat /\ t.mInfoInc >= 2 /\ t.mMask \in Nat
      /\ \A i \in Nat : InfoAt(t, i) \in Nat
    BY <1>1, MemoryFacts
<1>5. Slots(u) = Slots(t) /\ End(u) = End(t) /\ u.mInfoInc = t.mInfoInc
    BY <1>3, NumbersKept DEF SameNumbers
<1>6. \A i \in 0 .. End(t) : InfoAt(u, i) = u.mInfo[i]
    BY <1>3 DEF InfoAt
<1>7. /\ Home(t, node.key) \in 0 .. t.mMask
      /\ Info(t, node.key, d) \in Nat /\ Info(t, node.key, d) >= t.mInfoInc
    BY <1>1, <1>2, SearchFacts
<1>8. /\ to = Home(t, node.key) + d
      /\ to \in Nat /\ spot \in Nat /\ to <= spot /\ spot < End(t) /\ InfoAt(t, spot) = 0
      /\ \A i \in to .. spot - 1 : i \in Occupied(t)
    BY DEF Putting, SpotOf
<1> QED
    BY <1>1, <1>2, <1>3, <1>4, <1>5, <1>6, <1>7, <1>8

\* The numbers alone.
LEMMA PuttingNumbers ==
    ASSUME NEW t, NEW u, NEW node, NEW d, NEW to, NEW spot, Putting(t, u, node, d, to, spot)
    PROVE  /\ End(t) \in Nat /\ to \in Nat /\ spot \in Nat /\ to <= spot /\ spot < End(t)
           /\ d \in Nat /\ to = Home(t, node.key) + d /\ Home(t, node.key) \in Nat
           /\ t.mInfoInc \in Nat /\ t.mInfoInc >= 2
           /\ End(u) = End(t) /\ u.mInfoInc = t.mInfoInc /\ InfoAt(t, spot) = 0
           /\ \A i \in Slots(t) : i \in Nat /\ i < End(t)
<1>1. /\ End(t) \in Nat /\ to \in Nat /\ spot \in Nat /\ to <= spot /\ spot < End(t)
    BY PuttingFacts
<1>2. d \in Nat /\ to = Home(t, node.key) + d /\ Home(t, node.key) \in Nat
    BY PuttingFacts
<1>3. t.mInfoInc \in Nat /\ t.mInfoInc >= 2
    BY PuttingFacts
<1>4. End(u) = End(t) /\ u.mInfoInc = t.mInfoInc /\ InfoAt(t, spot) = 0
    BY PuttingFacts
<1>5. Slots(t) = 0 .. End(t) - 1
    BY PuttingFacts
<1>6. \A i \in Slots(t) : i \in Nat /\ i < End(t)
    BY <1>1, <1>5
<1> QED
    BY <1>1, <1>2, <1>3, <1>4, <1>6, Zenon

\* What is in a slot afterwards, by where it is.
LEMMA PutSlot ==
    ASSUME NEW t, NEW u, NEW node, NEW d, NEW to, NEW spot, Putting(t, u, node, d, to, spot),
           NEW i \in Slots(t)
    PROVE  /\ i = to => /\ u.mKeyVals[i] = node
                        /\ InfoAt(u, i) = Info(t, node.key, d)
                        /\ InfoAt(u, i) # 0
           /\ to < i /\ i <= spot => /\ i - 1 \in Occupied(t)
                                     /\ u.mKeyVals[i] = t.mKeyVals[i - 1]
                                     /\ InfoAt(u, i) = InfoAt(t, i - 1) + t.mInfoInc
                                     /\ InfoAt(u, i) # 0
           /\ i < to \/ spot < i => /\ u.mKeyVals[i] = t.mKeyVals[i]
                                    /\ InfoAt(u, i) = InfoAt(t, i)
<1>0. Sound(t) /\ Slots(t) = 0 .. End(t) - 1 /\ \A j \in to .. spot - 1 : j \in Occupied(t)
    BY PuttingFacts, Zenon
<1>1. /\ End(t) \in Nat /\ to \in Nat /\ spot \in Nat /\ to <= spot /\ spot < End(t)
      /\ t.mInfoInc \in Nat /\ t.mInfoInc >= 2
      /\ Info(t, node.key, d) \in Nat /\ Info(t, node.key, d) >= t.mInfoInc
    BY PuttingFacts, Zenon
<1>2. i \in Nat /\ i \in 0 .. End(t)
    BY <1>0, <1>1
<1>3. u.mKeyVals[i] = IF i = to THEN node
                      ELSE IF to < i /\ i <= spot THEN t.mKeyVals[i - 1] ELSE t.mKeyVals[i]
    BY Zenon DEF Putting, Shifted
<1>4. InfoAt(u, i) = IF i = to THEN Info(t, node.key, d)
                     ELSE IF to < i /\ i <= spot THEN InfoAt(t, i - 1) + t.mInfoInc
                     ELSE InfoAt(t, i)
    BY <1>2, Zenon DEF Putting, Shifted
<1>5. i = to => u.mKeyVals[i] = node /\ InfoAt(u, i) = Info(t, node.key, d) /\ InfoAt(u, i) # 0
    BY <1>1, <1>3, <1>4
<1>6. ASSUME to < i, i <= spot
      PROVE  /\ i - 1 \in Occupied(t)
             /\ u.mKeyVals[i] = t.mKeyVals[i - 1]
             /\ InfoAt(u, i) = InfoAt(t, i - 1) + t.mInfoInc
             /\ InfoAt(u, i) # 0
    <2>1. i - 1 \in to .. spot - 1 /\ i - 1 \in Nat /\ i # to
        BY <1>1, <1>2, <1>6
    <2>2. InfoAt(t, i - 1) \in Nat /\ i - 1 \in Occupied(t)
        BY <1>0, <2>1, PuttingFacts
    <2>3. u.mKeyVals[i] = t.mKeyVals[i - 1]
        BY <1>3, <1>6, <2>1
    <2>4. InfoAt(u, i) = InfoAt(t, i - 1) + t.mInfoInc
        BY <1>4, <1>6, <2>1
    <2>5. InfoAt(u, i) # 0
        BY <1>1, <2>2, <2>4
    <2> QED
        BY <2>2, <2>3, <2>4, <2>5
<1>7. ASSUME i < to \/ spot < i
      PROVE  u.mKeyVals[i] = t.mKeyVals[i] /\ InfoAt(u, i) = InfoAt(t, i)
    <2>1. i # to /\ ~(to < i /\ i <= spot)
        BY <1>1, <1>2, <1>7
    <2> QED
        BY <1>3, <1>4, <2>1
<1> QED
    BY <1>5, <1>6, <1>7

LEMMA PutTaken ==
    ASSUME NEW t, NEW u, NEW node, NEW d, NEW to, NEW spot, Putting(t, u, node, d, to, spot)
    PROVE  /\ Taken(u)
           /\ Occupied(u) = Occupied(t) \cup {spot}
           /\ spot \notin Occupied(t)
<1>0. \A j \in to .. spot - 1 : j \in Occupied(t)
    BY PuttingFacts, Zenon
<1>1. /\ Sound(t) /\ Slots(t) = 0 .. End(t) - 1 /\ Slots(u) = 0 .. End(t) - 1
      /\ End(t) \in Nat /\ node # NoNode
      /\ to \in Nat /\ spot \in Nat /\ to <= spot /\ spot < End(t) /\ InfoAt(t, spot) = 0
    BY PuttingFacts
<1>b. \A j \in 0 .. End(t) : InfoAt(u, j) = u.mInfo[j]
    BY PuttingFacts, Zenon
<1>2. /\ Occupied(t) \subseteq Slots(t)
      /\ \A i \in Slots(t) : i \in Occupied(t) <=> InfoAt(t, i) # 0
      /\ \A i \in Slots(t) : i \in Occupied(t) <=> t.mKeyVals[i] # NoNode
    BY <1>1, SlotFacts
<1>3. ASSUME NEW i \in Slots(t)
      PROVE  /\ InfoAt(u, i) # 0 <=> u.mKeyVals[i] # NoNode
             /\ InfoAt(u, i) # 0 <=> i \in Occupied(t) \cup {spot}
    <2>0. i \in Nat
        BY <1>1
    <2>1. CASE i = to
        <3>1. i = spot \/ i \in to .. spot - 1
            BY <1>1, <2>1
        <3> QED
            BY <1>0, <1>1, <2>1, <3>1, PutSlot
    <2>2. CASE to < i /\ i <= spot
        <3>1. i = spot \/ i \in to .. spot - 1
            BY <1>1, <2>0, <2>2
        <3>2. i - 1 \in Occupied(t) /\ u.mKeyVals[i] = t.mKeyVals[i - 1] /\ InfoAt(u, i) # 0
            BY <2>2, PutSlot
        <3> QED
            BY <1>0, <1>1, <1>2, <3>1, <3>2
    <2>3. CASE i < to \/ spot < i
        <3>1. i # spot
            BY <1>1, <2>0, <2>3
        <3>2. u.mKeyVals[i] = t.mKeyVals[i] /\ InfoAt(u, i) = InfoAt(t, i)
            BY <2>3, PutSlot
        <3> QED
            BY <1>2, <3>1, <3>2
    <2> QED
        BY <1>1, <2>0, <2>1, <2>2, <2>3
<1>4. Taken(u)
    BY <1>1, <1>b, <1>3 DEF Taken
<1>5. Occupied(u) = {i \in Slots(t) : InfoAt(u, i) # 0}
    BY <1>1, <1>b DEF Occupied
<1>6. spot \in Slots(t)
    BY <1>1
<1> QED
    BY <1>1, <1>2, <1>3, <1>4, <1>5, <1>6

LEMMA PutAtDistance ==
    ASSUME NEW t, NEW u, NEW node, NEW d, NEW to, NEW spot, Putting(t, u, node, d, to, spot)
    PROVE  AtDistance(program.hash, u)
<1>1. /\ Sound(t) /\ Slots(t) = 0 .. End(t) - 1 /\ Slots(u) = 0 .. End(t) - 1 /\ End(t) \in Nat
      /\ SameNumbers(t, u) /\ node.key \in Keys /\ d \in Nat
      /\ to = Home(t, node.key) + d /\ Home(t, node.key) \in Nat /\ to \in Nat /\ spot \in Nat
      /\ to <= spot
      /\ \A j \in 0 .. End(t) : InfoAt(u, j) = u.mInfo[j]
    BY PuttingFacts, Zenon
<1>2. Occupied(t) \subseteq Slots(t) /\ Occupied(u) = Occupied(t) \cup {spot}
    BY <1>1, SlotFacts, PutTaken
<1>3. /\ \A k : HomeBy(program.hash, u, k) = HomeBy(program.hash, t, k)
      /\ \A k, e : InfoBy(program.hash, u, k, e) = InfoBy(program.hash, t, k, e)
    BY <1>1, NumbersKept
<1>4. /\ \A k : HomeBy(program.hash, t, k) = Home(t, k)
      /\ \A k, e : InfoBy(program.hash, t, k, e) = Info(t, k, e)
    BY Zenon DEF Home, Info, Hash, HomeBy, InfoBy
<1>5. ASSUME NEW i \in Occupied(u)
      PROVE  /\ i >= Home(t, u.mKeyVals[i].key)
             /\ InfoAt(u, i) = Info(t, u.mKeyVals[i].key, i - Home(t, u.mKeyVals[i].key))
    <2>1. i \in Slots(t) /\ i \in Nat
        BY <1>1 DEF Occupied
    <2>2. CASE i = to
        <3>1. u.mKeyVals[i] = node /\ InfoAt(u, i) = Info(t, node.key, d)
            BY <2>1, <2>2, PutSlot
        <3>2. i - Home(t, node.key) = d /\ i >= Home(t, node.key)
            BY <1>1, <2>2
        <3> QED
            BY <3>1, <3>2
    <2>3. CASE to < i /\ i <= spot
        <3> DEFINE k == t.mKeyVals[i - 1].key
                   e == i - 1 - Home(t, k)
        <3>1. /\ i - 1 \in Occupied(t)
              /\ u.mKeyVals[i].key = k
              /\ InfoAt(u, i) = InfoAt(t, i - 1) + t.mInfoInc
            BY <2>1, <2>3, PutSlot
        <3>2. k \in Keys /\ e \in Nat /\ InfoAt(t, i - 1) = Info(t, k, e)
            BY <1>1, <3>1, NodeFacts
        <3>3. Home(t, k) \in 0 .. t.mMask /\ t.mMask \in Nat
            BY <1>1, <3>2, SearchFacts, MemoryFacts
        <3>4. i - Home(t, k) = e + 1 /\ i >= Home(t, k)
            BY <2>1, <3>2, <3>3
        <3> HIDE DEF k, e
        <3>5. Info(t, k, e + 1) = Info(t, k, e) + t.mInfoInc
            BY <1>1, <3>2, SearchFacts
        <3> QED
            BY <3>1, <3>2, <3>4, <3>5
    <2>4. CASE i < to \/ spot < i
        <3>1. u.mKeyVals[i] = t.mKeyVals[i] /\ InfoAt(u, i) = InfoAt(t, i)
            BY <2>1, <2>4, PutSlot
        <3>2. i \in Occupied(t)
            BY <1>1, <1>2, <2>1, <2>4
        <3> DEFINE h == Home(t, t.mKeyVals[i].key)
        <3>3. h \in 0 .. t.mMask /\ i - h \in Nat /\ t.mMask \in Nat
              /\ InfoAt(t, i) = Info(t, t.mKeyVals[i].key, i - h)
            BY <1>1, <3>2, NodeFacts, MemoryFacts
        <3>4. i >= h
            BY <2>1, <3>3
        <3> QED
            BY <3>1, <3>3, <3>4
    <2> QED
        BY <1>1, <2>1, <2>2, <2>3, <2>4
<1>6. \A i \in Occupied(u) : InfoAt(u, i) = u.mInfo[i]
    BY <1>1 DEF Occupied
<1> QED
    BY <1>3, <1>4, <1>5, <1>6 DEF AtDistance

LEMMA PutSorted ==
    ASSUME NEW t, NEW u, NEW node, NEW d, NEW to, NEW spot, Putting(t, u, node, d, to, spot)
    PROVE  Sorted(u)
<1>0. \A j \in 0 .. End(t) : InfoAt(u, j) = u.mInfo[j]
    BY PuttingFacts, Zenon
<1>1. /\ Sound(t) /\ Slots(t) = 0 .. End(t) - 1 /\ Slots(u) = 0 .. End(t) - 1 /\ node.key \in Keys
    BY PuttingFacts, Zenon
<1>2. /\ End(t) \in Nat /\ End(u) = End(t) /\ to \in Nat /\ spot \in Nat /\ to <= spot
      /\ spot < End(t) /\ InfoAt(t, spot) = 0
      /\ t.mInfoInc \in Nat /\ t.mInfoInc >= 2 /\ u.mInfoInc = t.mInfoInc
      /\ d \in Nat /\ to = Home(t, node.key) + d /\ Home(t, node.key) \in Nat
    BY PuttingNumbers
<1>3. \A j \in Nat : InfoAt(t, j) \in Nat
    BY PuttingFacts, Zenon
<1>4. ASSUME NEW i \in Slots(t)
      PROVE  \/ InfoAt(u, i + 1) < 2 * t.mInfoInc
             \/ InfoAt(u, i) # 0 /\ InfoAt(u, i + 1) <= InfoAt(u, i) + t.mInfoInc
    <2>0. i \in Nat /\ i + 1 \in Nat /\ i < End(t) /\ i + 1 <= End(t)
        BY <1>1, <1>2
    <2>1. /\ InfoAt(t, i) \in Nat /\ InfoAt(t, i + 1) \in Nat
          /\ \/ InfoAt(t, i + 1) < 2 * t.mInfoInc
             \/ InfoAt(t, i) # 0 /\ InfoAt(t, i + 1) <= InfoAt(t, i) + t.mInfoInc
        BY <1>1, <1>3, <2>0, SlotFacts
    <2>2. i < to \/ spot < i => InfoAt(u, i) = InfoAt(t, i)
        BY PutSlot
    \* also where the next slot is the sentinel
    <2>3. i + 1 < to \/ spot < i + 1 => InfoAt(u, i + 1) = InfoAt(t, i + 1)
        <3>1. i + 1 \in 0 .. End(t)
            BY <2>0, <1>2
        <3>2. InfoAt(u, i + 1) =
                  IF i + 1 = to THEN Info(t, node.key, d)
                  ELSE IF to < i + 1 /\ i + 1 <= spot THEN InfoAt(t, (i + 1) - 1) + t.mInfoInc
                  ELSE InfoAt(t, i + 1)
            BY <3>1, Zenon DEF Putting, Shifted
        <3>3. i + 1 < to \/ spot < i + 1 => i + 1 # to /\ ~(to < i + 1 /\ i + 1 <= spot)
            BY <1>2, <2>0
        <3> QED
            BY <3>2, <3>3
    <2>4. i + 1 <= spot => i + 1 \in Slots(t)
        BY <1>1, <1>2, <2>0
    <2>5. CASE i + 1 < to \/ spot < i
        <3>1. i < to \/ spot < i
            BY <1>2, <2>0, <2>5
        <3>2. i + 1 < to \/ spot < i + 1
            BY <1>2, <2>0, <2>5
        <3> QED
            BY <2>1, <2>2, <2>3, <3>1, <3>2
    <2>6. CASE i + 1 = to
        <3>1. InfoAt(u, i + 1) = Info(t, node.key, d) /\ InfoAt(u, i) = InfoAt(t, i)
            <4>1. i + 1 \in Slots(t)
                BY <2>4, <2>6, <1>2
            <4>2. InfoAt(u, i + 1) = Info(t, node.key, d)
                BY <4>1, <2>6, PutSlot
            <4>3. i < to
                BY <2>0, <2>6
            <4> QED
                BY <4>2, <4>3, <2>2
        <3>2. CASE d = 0
            <4>1. Info(t, node.key, d) < 2 * t.mInfoInc
                BY <1>1, <1>2, <3>2, SearchFacts
            <4> QED
                BY <3>1, <4>1
        <3>3. CASE d # 0
            <4> DEFINE e == d - 1
            <4>1. e \in Nat /\ e \in 0 .. d - 1 /\ e + 1 = d /\ Home(t, node.key) + e = i
                BY <1>2, <2>0, <2>6, <3>3
            <4> HIDE DEF e
            <4>2. Info(t, node.key, e) <= Seen(t, node.key, e)
                BY <4>1 DEF Putting, MayPut, Place
            <4>3. /\ Info(t, node.key, e) \in Nat /\ Info(t, node.key, e) >= t.mInfoInc
                  /\ Info(t, node.key, d) = Info(t, node.key, e) + t.mInfoInc
                  /\ Seen(t, node.key, e) = InfoAt(t, Home(t, node.key) + e)
                BY <1>1, <4>1, SearchFacts
            <4>4. Info(t, node.key, e) <= InfoAt(t, i)
                BY <4>1, <4>2, <4>3
            <4> QED
                BY <1>2, <2>1, <3>1, <4>3, <4>4
        <3> QED
            BY <3>2, <3>3
    <2>7. CASE i = to /\ i + 1 <= spot
        <3>1. InfoAt(u, i) = Info(t, node.key, d) /\ InfoAt(u, i) # 0
            BY <2>7, PutSlot
        <3>2. InfoAt(u, i + 1) = InfoAt(t, i) + t.mInfoInc
            <4>1. to < i + 1 /\ i + 1 \in Slots(t) /\ (i + 1) - 1 = i
                BY <2>0, <2>4, <2>7
            <4> QED
                BY <4>1, <2>7, PutSlot
        <3>3. Info(t, node.key, d) > InfoAt(t, i)
            BY <1>2, <2>7 DEF Putting, MayPut, Place, Seen
        <3>4. Info(t, node.key, d) \in Nat
            BY <1>1, <1>2, SearchFacts
        <3> QED
            BY <1>2, <2>1, <3>1, <3>2, <3>3, <3>4
    <2>8. CASE to < i /\ i + 1 <= spot
        <3> DEFINE j == i - 1
        <3>1. j \in Nat /\ j + 1 = i /\ (i + 1) - 1 = i /\ i <= spot /\ to < i + 1
              /\ i + 1 \in Slots(t)
            BY <1>2, <2>0, <2>4, <2>8
        <3>2. InfoAt(u, i) = InfoAt(t, j) + t.mInfoInc /\ InfoAt(u, i) # 0 /\ j \in Occupied(t)
            BY <2>8, <3>1, PutSlot
        <3>3. InfoAt(u, i + 1) = InfoAt(t, i) + t.mInfoInc
            BY <2>8, <3>1, PutSlot
        <3> HIDE DEF j
        <3>4. InfoAt(t, j) \in Nat /\ InfoAt(t, j) >= t.mInfoInc
            BY <1>1, <1>3, <3>1, <3>2, NodeFacts
        <3>5. \/ InfoAt(t, i) < 2 * t.mInfoInc
              \/ InfoAt(t, i) <= InfoAt(t, j) + t.mInfoInc
            BY <1>1, <3>1, SlotFacts
        <3> QED
            BY <1>2, <2>1, <3>2, <3>3, <3>4, <3>5
    <2>9. CASE i = spot
        <3>1. spot < i + 1
            BY <2>0, <2>9
        <3>2. InfoAt(t, i) = 0
            BY <1>2, <2>9
        <3> QED
            BY <2>1, <2>3, <3>1, <3>2
    <2> QED
        BY <1>2, <2>0, <2>5, <2>6, <2>7, <2>8, <2>9
<1>5. \A i \in Slots(t) : InfoAt(u, i) = u.mInfo[i] /\ InfoAt(u, i + 1) = u.mInfo[i + 1]
    <2>1. \A i \in Slots(t) : i \in 0 .. End(t) /\ i + 1 \in 0 .. End(t)
        BY <1>1, <1>2
    <2> QED
        BY <1>0, <2>1
<1> QED
    BY <1>1, <1>2, <1>4, <1>5 DEF Sorted

LEMMA PutDistinct ==
    ASSUME NEW t, NEW u, NEW node, NEW d, NEW to, NEW spot, Putting(t, u, node, d, to, spot)
    PROVE  Distinct(u)
<1> DEFINE from(i) == IF to < i /\ i <= spot THEN i - 1 ELSE i
<1>1. Sound(t) /\ Slots(t) = 0 .. End(t) - 1
    BY PuttingFacts, Zenon
<1>2. End(t) \in Nat /\ to \in Nat /\ spot \in Nat /\ to <= spot
    BY PuttingFacts
<1>3. Occupied(u) = Occupied(t) \cup {spot} /\ Occupied(u) \subseteq Slots(t)
    <2>1. Occupied(u) = Occupied(t) \cup {spot} /\ Occupied(t) \subseteq Slots(t)
        BY <1>1, SlotFacts, PutTaken
    <2>2. spot \in Slots(t)
        <3>1. spot \in Nat /\ spot < End(t) /\ End(t) \in Nat
            BY PuttingNumbers
        <3> QED
            BY <1>1, <3>1
    <2> QED
        BY <2>1, <2>2
<1>4. ASSUME NEW i \in Occupied(u), i # to
      PROVE  from(i) \in Occupied(t) /\ u.mKeyVals[i] = t.mKeyVals[from(i)]
    <2>1. i \in Slots(t) /\ i \in Nat
        BY <1>1, <1>3
    <2>2. CASE to < i /\ i <= spot
        BY <2>1, <2>2, PutSlot
    <2>3. CASE ~(to < i /\ i <= spot)
        <3>1. i < to \/ spot < i
            BY <1>2, <1>4, <2>1, <2>3
        <3>2. i # spot
            BY <1>2, <2>1, <3>1
        <3> QED
            BY <1>3, <2>1, <2>3, <3>1, <3>2, PutSlot
    <2> QED
        BY <2>2, <2>3
<1>5. ASSUME NEW i \in Occupied(u), NEW j \in Occupied(u), i # to, j # to, from(i) = from(j)
      PROVE  i = j
    <2>1. i \in Nat /\ j \in Nat
        BY <1>1, <1>2, <1>3
    <2> QED
        BY <1>2, <1>5, <2>1
<1> HIDE DEF from
<1>6. \A i \in Occupied(t) : t.mKeyVals[i].key # node.key
    BY DEF Putting, MayPut
<1>7. ASSUME NEW i \in Occupied(u), i = to
      PROVE  u.mKeyVals[i] = node
    BY <1>3, <1>7, PutSlot
<1>8. ASSUME NEW i \in Occupied(u), NEW j \in Occupied(u), u.mKeyVals[i].key = u.mKeyVals[j].key
      PROVE  i = j
    <2>1. CASE i = to /\ j = to
        BY <2>1
    <2>2. CASE i = to /\ j # to
        BY <1>4, <1>6, <1>7, <1>8, <2>2
    <2>3. CASE i # to /\ j = to
        BY <1>4, <1>6, <1>7, <1>8, <2>3
    <2>4. CASE i # to /\ j # to
        <3>1. from(i) = from(j)
            BY <1>1, <1>4, <1>8, <2>4, OneSlot
        <3> QED
            BY <1>5, <2>4, <3>1
    <2> QED
        BY <2>1, <2>2, <2>3, <2>4
<1> QED
    BY <1>8 DEF Distinct

LEMMA PutLimited ==
    ASSUME NEW t, NEW u, NEW node, NEW d, NEW to, NEW spot, Putting(t, u, node, d, to, spot)
    PROVE  Limited(u)
<1>1. Sound(t) /\ SameNumbers(t, u) /\ u \in Members
    BY PuttingFacts, Zenon
<1>2. u.mNumElements = t.mNumElements + 1 /\ t.mNumElements < Allowed(t)
    BY Zenon DEF Putting, Shifted, MayPut
<1>3. /\ Allowed(u) = Allowed(t)
      /\ \A info : Fits(u, info) <=> Fits(t, info)
    BY <1>1, NumbersKept
<1>4. t.mMaxNumElementsAllowed \in {0, Allowed(t)}
    BY <1>1 DEF Sound, HasMemory, Limited
<1>5. u.mMaxNumElementsAllowed \in {0, Allowed(u)}
    BY <1>3, <1>4 DEF Putting, Shifted
<1>6. u.mNumElements <= Allowed(u)
    <2>1. t.mNumElements \in Nat /\ Allowed(t) \in Nat
        <3>1. t \in Members /\ t.mMask # 0
            BY <1>1, MemoryFacts
        <3> QED
            BY <3>1, EndType, MembersType
    <2> QED
        BY <1>2, <1>3, <2>1
<1>7. ASSUME u.mMaxNumElementsAllowed # 0, NEW i \in Occupied(u)
      PROVE  Fits(t, InfoAt(u, i))
    <2>1. /\ Fits(t, Info(t, node.key, d))
          /\ \A j \in to .. spot - 1 : Fits(t, InfoAt(t, j) + t.mInfoInc)
        BY <1>7, Zenon DEF Putting, Shifted
    <2>2. i \in Slots(t) /\ (i \in Occupied(t) \/ i = spot)
        <3>1. Slots(u) = Slots(t)
            BY <1>1, NumbersKept
        <3> QED
            BY <3>1, PutTaken DEF Occupied
    <2>3. i \in Nat /\ to \in Nat /\ spot \in Nat /\ to <= spot
        BY <2>2, PuttingNumbers
    <2>4. CASE i = to
        BY <2>1, <2>2, <2>4, PutSlot
    <2>5. CASE to < i /\ i <= spot
        <3>1. InfoAt(u, i) = InfoAt(t, i - 1) + t.mInfoInc
            BY <2>2, <2>5, PutSlot
        <3>2. i - 1 \in to .. spot - 1
            BY <2>3, <2>5
        <3> QED
            BY <2>1, <3>1, <3>2
    <2>6. CASE i < to \/ spot < i
        <3>1. InfoAt(u, i) = InfoAt(t, i)
            BY <2>2, <2>6, PutSlot
        <3>2. i \in Occupied(t)
            BY <2>2, <2>3, <2>6
        <3>3. InfoAt(t, i) = t.mInfo[i]
            <4>1. i \in 0 .. End(t)
                BY <2>2, <2>3, PuttingNumbers
            <4> QED
                BY <1>1, <4>1, MemoryFacts
        <3>4. AllFit(t)
            BY Zenon DEF Putting, MayPut
        <3> QED
            BY <3>1, <3>2, <3>3, <3>4 DEF AllFit
    <2> QED
        BY <2>3, <2>4, <2>5, <2>6
<1>8. \A i \in Occupied(u) : InfoAt(u, i) = u.mInfo[i]
    <2>1. Slots(u) = 0 .. End(t) - 1 /\ \A i \in 0 .. End(t) : InfoAt(u, i) = u.mInfo[i]
        BY PuttingFacts, Zenon
    <2>2. End(t) \in Nat
        BY PuttingNumbers
    <2> QED
        BY <2>1, <2>2 DEF Occupied
<1>9. u.mMaxNumElementsAllowed # 0 => AllFit(u)
    BY <1>3, <1>7, <1>8 DEF AllFit
<1> QED
    BY <1>5, <1>6, <1>9 DEF Limited

LEMMA PutCounted ==
    ASSUME NEW t, NEW u, NEW node, NEW d, NEW to, NEW spot, Putting(t, u, node, d, to, spot)
    PROVE  Counted(u)
<1>1. Sound(t)
    BY PuttingFacts, Zenon
<1>2. u.mNumElements = t.mNumElements + 1
    BY Zenon DEF Putting, Shifted
<1>3. IsFiniteSet(Occupied(t)) /\ t.mNumElements = Cardinality(Occupied(t))
    BY <1>1, OccupiedFinite
<1>4. Cardinality(Occupied(t) \cup {spot}) = Cardinality(Occupied(t)) + 1
    BY <1>3, PutTaken, FS_AddElement
<1> QED
    BY <1>2, <1>3, <1>4, PutTaken DEF Counted

NodesOf(t) == {t.mKeyVals[i] : i \in Occupied(t)}

LEMMA PutNodesOf ==
    ASSUME NEW t, NEW u, NEW node, NEW d, NEW to, NEW spot, Putting(t, u, node, d, to, spot)
    PROVE  NodesOf(u) = NodesOf(t) \cup {node}
<1>1. Sound(t) /\ Slots(t) = 0 .. End(t) - 1
    BY PuttingFacts, Zenon
<1>2. /\ End(t) \in Nat /\ to \in Nat /\ spot \in Nat /\ to <= spot /\ spot < End(t)
    BY PuttingNumbers
<1>3. /\ Occupied(u) = Occupied(t) \cup {spot}
      /\ Occupied(t) \subseteq Slots(t)
      /\ spot \notin Occupied(t)
    BY <1>1, SlotFacts, PutTaken
<1>4. to \in Occupied(u) /\ u.mKeyVals[to] = node
    <2>1. to \in Slots(t) /\ (to = spot \/ to \in to .. spot - 1)
        BY <1>1, <1>2
    <2>2. \A j \in to .. spot - 1 : j \in Occupied(t)
        BY PuttingFacts, Zenon
    <2> QED
        BY <1>3, <2>1, <2>2, PutSlot
<1>5. ASSUME NEW i \in Occupied(u)
      PROVE  u.mKeyVals[i] \in NodesOf(t) \cup {node}
    <2>1. i \in Slots(t) /\ i \in Nat
        BY <1>1, <1>2, <1>3
    <2>2. CASE i = to
        BY <1>4, <2>2
    <2>3. CASE to < i /\ i <= spot
        BY <2>1, <2>3, PutSlot DEF NodesOf
    <2>4. CASE i < to \/ spot < i
        <3>1. i \in Occupied(t)
            BY <1>2, <1>3, <2>1, <2>4
        <3> QED
            BY <2>1, <2>4, <3>1, PutSlot DEF NodesOf
    <2> QED
        BY <1>2, <2>1, <2>2, <2>3, <2>4
<1>6. ASSUME NEW i \in Occupied(t)
      PROVE  t.mKeyVals[i] \in NodesOf(u)
    <2>1. i \in Slots(t) /\ i \in Nat /\ i # spot
        BY <1>1, <1>2, <1>3
    <2>2. CASE i < to \/ spot < i
        <3>1. u.mKeyVals[i] = t.mKeyVals[i]
            BY <2>1, <2>2, PutSlot
        <3> QED
            BY <1>3, <3>1 DEF NodesOf
    <2>3. CASE to <= i /\ i < spot
        <3> DEFINE j == i + 1
        <3>1. j \in Slots(t) /\ to < j /\ j <= spot /\ j - 1 = i
            BY <1>1, <1>2, <2>1, <2>3
        <3>2. u.mKeyVals[j] = t.mKeyVals[i]
            BY <3>1, PutSlot
        <3>3. j \in Occupied(u)
            <4>1. \A k \in to .. spot - 1 : k \in Occupied(t)
                BY PuttingFacts, Zenon
            <4>2. j = spot \/ j \in to .. spot - 1
                BY <1>2, <2>1, <2>3
            <4> HIDE DEF j
            <4> QED
                BY <1>3, <4>1, <4>2
        <3> HIDE DEF j
        <3> QED
            BY <3>2, <3>3 DEF NodesOf
    <2> QED
        BY <1>2, <2>1, <2>2, <2>3
<1>7. NodesOf(u) \subseteq NodesOf(t) \cup {node}
    BY <1>5 DEF NodesOf
<1>8. NodesOf(t) \subseteq NodesOf(u)
    BY <1>6 DEF NodesOf
<1>9. node \in NodesOf(u)
    BY <1>4 DEF NodesOf
<1> QED
    BY <1>7, <1>8, <1>9

\* What a change of a table's slots keeps.
Keeps(t, u) ==
    /\ Sound(u)
    /\ u.mMask = t.mMask
    /\ Allowed(u) = Allowed(t)

LEMMA PutKeeps ==
    ASSUME NEW t, NEW node, NEW d, MayPut(t, node, d), NEW u, u = Put(t, node, d)
    PROVE  /\ Keeps(t, u)
           /\ NodesOf(u) = NodesOf(t) \cup {node}
           /\ u.mNumElements = t.mNumElements + 1
           /\ u.mMaxNumElementsAllowed \in {0, t.mMaxNumElementsAllowed}
<1> DEFINE to   == Home(t, node.key) + d
           spot == Min({i \in to .. End(t) + 1 : InfoAt(t, i) = 0})
<1>1. Sound(t) /\ node.key \in Keys /\ Place(t, node.key, d) /\ t.mNumElements < Allowed(t)
    BY DEF MayPut, Node
<1>2. /\ to \in Nat /\ spot \in Nat /\ to <= spot /\ spot < End(t) /\ InfoAt(t, spot) = 0
      /\ \A i \in to .. spot - 1 : i \in Occupied(t)
    BY <1>1, FreeSlot
<1>3. IsTable(t)
    BY <1>1, MemoryFacts, MembersType DEF IsTable
<1>4. HasPut(t, u, node, d, to, spot)
    BY <1>3, PutMembers
<1>5. SpotOf(t, node.key, d, to, spot)
    BY <1>2, Zenon DEF SpotOf
<1> HIDE DEF to, spot
<1>6. Putting(t, u, node, d, to, spot)
    BY <1>4, <1>5, PutShifts DEF Putting
<1>7. u \in Members /\ SameNumbers(t, u) /\ u.mMask # 0
    <2>1. t.mMask # 0
        BY <1>1, MemoryFacts
    <2> QED
        BY <1>6, <2>1, PuttingFacts, Zenon DEF SameNumbers
<1>8. Memory(u)
    <2>1. /\ u.mKeyVals \in [Slots(t) -> Node \cup {NoNode}]
          /\ u.mInfo \in [0 .. End(t) -> 0 .. InfoMax]
        BY <1>6, Zenon DEF Putting, Shifted
    <2>2. Slots(u) = Slots(t) /\ End(u) = End(t)
        BY <1>7, NumbersKept
    <2>3. InfoAt(t, End(t)) = 1 /\ End(t) \in Nat /\ End(t) \in 0 .. End(t)
        BY <1>1, MemoryFacts
    <2>4. to # End(t) /\ ~(to < End(t) /\ End(t) <= spot)
        BY <1>2, <2>3
    <2>5. InfoAt(u, End(t)) =
              IF End(t) = to THEN Info(t, node.key, d)
              ELSE IF to < End(t) /\ End(t) <= spot THEN InfoAt(t, End(t) - 1) + t.mInfoInc
              ELSE InfoAt(t, End(t))
        BY <1>6, <2>3, Zenon DEF Putting, Shifted
    <2>6. InfoAt(u, End(t)) = u.mInfo[End(t)]
        BY <2>1, <2>3 DEF InfoAt
    <2> QED
        BY <2>1, <2>2, <2>3, <2>4, <2>5, <2>6 DEF Memory
<1>9. Halved(u)
    BY <1>1, <1>7, NumbersKept DEF Sound, HasMemory
<1>10. /\ Taken(u) /\ AtDistance(program.hash, u) /\ Sorted(u) /\ Distinct(u) /\ Limited(u)
       /\ Counted(u)
    BY <1>6, PutTaken, PutAtDistance, PutSorted, PutDistinct, PutLimited, PutCounted
<1>11. Sound(u)
    BY <1>1, <1>7, <1>8, <1>9, <1>10 DEF Sound, HasMemory
<1>12. u.mMask = t.mMask /\ Allowed(u) = Allowed(t)
    BY <1>7, NumbersKept DEF SameNumbers
<1>13. NodesOf(u) = NodesOf(t) \cup {node}
    BY <1>6, PutNodesOf
<1>14. u.mNumElements = t.mNumElements + 1
       /\ u.mMaxNumElementsAllowed \in {0, t.mMaxNumElementsAllowed}
    BY <1>6, Zenon DEF Putting, Shifted
<1> QED
    BY <1>11, <1>12, <1>13, <1>14 DEF Keeps

-----------------------------------------------------------------------------
(***************************************************************************)
(* Erasing a node: the nodes behind it that are not at home move back.     *)
(***************************************************************************)

\* The slot that gets free.
LastMoved(t, i) == Min({j \in i .. End(t) : InfoAt(t, j + 1) < 2 * t.mInfoInc})

RemovedNodes(t, i, last) ==
    [j \in DOMAIN t.mKeyVals |-> IF j = last THEN NoNode
                                 ELSE IF i <= j /\ j < last THEN t.mKeyVals[j + 1]
                                 ELSE t.mKeyVals[j]]

RemovedBytes(t, i, last) ==
    [j \in DOMAIN t.mInfo |-> IF j = last THEN 0
                              ELSE IF i <= j /\ j < last THEN Byte(t.mInfo[j + 1] - t.mInfoInc)
                              ELSE t.mInfo[j]]

Removed(t, u, i, last) ==
    /\ u \in Members
    /\ SameNumbers(t, u)
    /\ u.mNumElements = t.mNumElements - 1
    /\ u.mMaxNumElementsAllowed = t.mMaxNumElementsAllowed
    /\ u.mKeyVals \in [Slots(t) -> Node \cup {NoNode}]
    /\ u.mInfo \in [0 .. End(t) -> 0 .. InfoMax]
    /\ \A j \in Slots(t) :
          u.mKeyVals[j] = IF j = last THEN NoNode
                          ELSE IF i <= j /\ j < last THEN t.mKeyVals[j + 1] ELSE t.mKeyVals[j]
    /\ \A j \in 0 .. End(t) :
          InfoAt(u, j) = IF j = last THEN 0
                         ELSE IF i <= j /\ j < last THEN InfoAt(t, j + 1) - t.mInfoInc
                         ELSE InfoAt(t, j)

\* The nodes that move.
MovedBack(t, i, last) ==
    /\ Sound(t)
    /\ i \in Occupied(t)
    /\ last \in Nat /\ i <= last /\ last < End(t)
    /\ \A j \in i + 1 .. last : InfoAt(t, j) >= 2 * t.mInfoInc
    /\ InfoAt(t, last + 1) < 2 * t.mInfoInc

LEMMA LastMovedType ==
    ASSUME NEW t, Sound(t), NEW i \in Occupied(t), NEW last, last = LastMoved(t, i)
    PROVE  MovedBack(t, i, last)
<1> DEFINE T == {j \in i .. End(t) : InfoAt(t, j + 1) < 2 * t.mInfoInc}
<1>1. i \in Nat /\ i < End(t)
    BY NodeFacts
<1>2. End(t) \in Nat /\ InfoAt(t, End(t)) = 1 /\ t.mInfoInc \in Nat /\ t.mInfoInc >= 2
    BY MemoryFacts
<1>3. End(t) - 1 \in T /\ T \subseteq Nat
    BY <1>1, <1>2
<1>4. last = Min(T)
    BY DEF LastMoved
<1>5. last \in T /\ last <= End(t) - 1
    BY <1>3, <1>4, LeastNat
<1>6. \A j \in T : last <= j
    BY <1>3, <1>4, LeastNat
<1>7. last \in Nat /\ i <= last /\ last < End(t) /\ InfoAt(t, last + 1) < 2 * t.mInfoInc
    BY <1>1, <1>2, <1>5
<1>8. ASSUME NEW j \in i + 1 .. last
      PROVE  InfoAt(t, j) >= 2 * t.mInfoInc
    <2> DEFINE k == j - 1
    <2>1. k \in Nat /\ k \in i .. End(t) /\ k < last /\ k + 1 = j /\ j \in Nat
        BY <1>1, <1>2, <1>7
    <2>2. k \notin T
        BY <1>6, <1>7, <2>1
    <2> HIDE DEF k
    <2>3. InfoAt(t, j) \in Nat
        BY <2>1, MemoryFacts
    <2> QED
        BY <1>2, <2>1, <2>2, <2>3
<1> QED
    BY <1>7, <1>8 DEF MovedBack

\* The numbers, and the slots that are not free.
LEMMA MovedBackFacts ==
    ASSUME NEW t, NEW i, NEW last, MovedBack(t, i, last)
    PROVE  /\ Sound(t) /\ i \in Occupied(t)
           /\ i \in Nat /\ last \in Nat /\ End(t) \in Nat /\ i <= last /\ last < End(t)
           /\ t.mInfoInc \in Nat /\ t.mInfoInc >= 2
           /\ Slots(t) = 0 .. End(t) - 1
           /\ \A j \in Slots(t) : j \in Nat /\ j < End(t)
           /\ \A j \in i .. last : j \in Occupied(t)
           /\ last \in Occupied(t)
<1>1. Sound(t) /\ i \in Occupied(t) /\ last \in Nat /\ i <= last /\ last < End(t)
    BY DEF MovedBack
<1>2. i \in Nat
    BY <1>1, NodeFacts
<1>3. End(t) \in Nat /\ t.mInfoInc \in Nat /\ t.mInfoInc >= 2 /\ Slots(t) = 0 .. End(t) - 1
    BY <1>1, MemoryFacts
<1>4. ASSUME NEW j \in i .. last
      PROVE  j \in Occupied(t)
    <2>1. CASE j = i
        BY <1>1, <2>1
    <2>2. CASE j # i
        <3>1. j \in i + 1 .. last /\ j \in Nat
            BY <1>1, <1>2, <2>2
        <3>2. InfoAt(t, j) >= 2 * t.mInfoInc
            BY <3>1 DEF MovedBack
        <3>3. InfoAt(t, j) \in Nat
            BY <1>1, <3>1, MemoryFacts
        <3>4. InfoAt(t, j) >= 2
            BY <1>3, <3>2, <3>3
        <3> QED
            BY <1>1, <3>1, <3>4, LargeBytes
    <2> QED
        BY <2>1, <2>2
<1>5. \A j \in Slots(t) : j \in Nat /\ j < End(t)
    BY <1>3
<1>6. last \in i .. last
    BY <1>1, <1>2
<1> QED
    BY <1>1, <1>2, <1>3, <1>4, <1>5, <1>6

LEMMA RemoveMembers ==
    ASSUME NEW t, NEW i, NEW last, MovedBack(t, i, last), last = LastMoved(t, i),
           NEW u, u = shiftDown(t, i)
    PROVE  Removed(t, u, i, last)
<1> DEFINE nodes == RemovedNodes(t, i, last)
           bytes == RemovedBytes(t, i, last)
           count == t.mNumElements - 1
<1>1. u = [t EXCEPT !.mKeyVals = nodes, !.mInfo = bytes, !.mNumElements = count]
    BY Zenon DEF shiftDown, LastMoved, RemovedNodes, RemovedBytes
<1>2. Sound(t) /\ t \in Members
    BY MovedBackFacts, MemoryFacts
<1>3. IsTable(t)
    BY <1>2, MembersType DEF IsTable
<1> HIDE DEF nodes, bytes, count
<1>4. u = [mHashMultiplier |-> t.mHashMultiplier, mKeyVals |-> nodes, mInfo |-> bytes,
           mNumElements |-> count, mMask |-> t.mMask,
           mMaxNumElementsAllowed |-> t.mMaxNumElementsAllowed,
           mInfoInc |-> t.mInfoInc, mInfoHashShift |-> t.mInfoHashShift]
    BY <1>1, <1>3, Replaced, Zenon
<1>5. /\ IsTable(u) /\ SameNumbers(t, u) /\ u.mNumElements = count
      /\ u.mMaxNumElementsAllowed = t.mMaxNumElementsAllowed
      /\ u.mKeyVals = nodes /\ u.mInfo = bytes
    BY <1>4 DEF IsTable, SameNumbers
<1>6. /\ End(t) \in Nat /\ Slots(t) = 0 .. End(t) - 1
      /\ t.mKeyVals \in [Slots(t) -> Node \cup {NoNode}]
      /\ t.mInfo \in [0 .. End(t) -> 0 .. InfoMax]
    BY <1>2, MemoryFacts
<1>7. InfoMax \in Nat /\ t.mInfoInc \in Nat /\ t.mInfoInc >= 2
    BY <1>2, MemoryFacts
<1>8. i \in Nat /\ last \in Nat /\ i <= last /\ last < End(t)
    BY MovedBackFacts
<1>9. \A j \in 0 .. End(t) : InfoAt(t, j) = t.mInfo[j] /\ t.mInfo[j] \in 0 .. InfoMax
    BY <1>6 DEF InfoAt
<1>10. ASSUME NEW j \in Slots(t)
       PROVE  /\ u.mKeyVals[j] = IF j = last THEN NoNode
                                 ELSE IF i <= j /\ j < last THEN t.mKeyVals[j + 1]
                                 ELSE t.mKeyVals[j]
              /\ u.mKeyVals[j] \in Node \cup {NoNode}
    <2>1. j \in DOMAIN t.mKeyVals
        BY <1>6
    <2>2. u.mKeyVals[j] = IF j = last THEN NoNode
                          ELSE IF i <= j /\ j < last THEN t.mKeyVals[j + 1]
                          ELSE t.mKeyVals[j]
        BY <1>5, <2>1 DEF nodes, RemovedNodes
    <2>3. j < last => j + 1 \in Slots(t)
        BY <1>6, <1>8
    <2> QED
        BY <1>6, <2>2, <2>3
<1>11. u.mKeyVals \in [Slots(t) -> Node \cup {NoNode}]
    <2>1. u.mKeyVals = [j \in Slots(t) |-> u.mKeyVals[j]]
        BY <1>5, <1>6 DEF nodes, RemovedNodes
    <2> QED
        BY <1>10, <2>1
<1>12. ASSUME NEW j \in 0 .. End(t)
       PROVE  /\ u.mInfo[j] = IF j = last THEN 0
                              ELSE IF i <= j /\ j < last THEN InfoAt(t, j + 1) - t.mInfoInc
                              ELSE InfoAt(t, j)
              /\ u.mInfo[j] \in 0 .. InfoMax
    <2>1. j \in DOMAIN t.mInfo /\ j \in Nat
        BY <1>6
    <2>2. u.mInfo[j] = IF j = last THEN 0
                       ELSE IF i <= j /\ j < last THEN Byte(t.mInfo[j + 1] - t.mInfoInc)
                       ELSE t.mInfo[j]
        BY <1>5, <2>1 DEF bytes, RemovedBytes
    <2>3. CASE i <= j /\ j < last
        <3> DEFINE v == t.mInfo[j + 1]
        <3>1. j + 1 \in i + 1 .. last /\ j + 1 \in 0 .. End(t)
            BY <1>6, <1>8, <2>1, <2>3
        <3>2. v \in 0 .. InfoMax /\ InfoAt(t, j + 1) = v /\ InfoAt(t, j + 1) >= 2 * t.mInfoInc
            BY <1>9, <3>1 DEF MovedBack
        <3> HIDE DEF v
        <3>3. v - t.mInfoInc \in Nat /\ v - t.mInfoInc <= InfoMax
            BY <1>7, <3>2
        <3>4. Byte(v - t.mInfoInc) = v - t.mInfoInc
            BY <3>3, ByteKept
        <3>5. u.mInfo[j] = v - t.mInfoInc
            <4>1. u.mInfo[j] = Byte(v - t.mInfoInc)
                BY <1>8, <2>1, <2>2, <2>3 DEF v
            <4> QED
                BY <3>4, <4>1
        <3>6. j # last
            BY <1>8, <2>1, <2>3
        <3> QED
            BY <1>7, <2>3, <3>2, <3>3, <3>5, <3>6
    <2>4. CASE ~(i <= j /\ j < last)
        BY <1>7, <1>9, <2>2, <2>4
    <2> QED
        BY <2>3, <2>4
<1>13. u.mInfo \in [0 .. End(t) -> 0 .. InfoMax]
    <2>1. u.mInfo = [j \in 0 .. End(t) |-> u.mInfo[j]]
        BY <1>5, <1>6 DEF bytes, RemovedBytes
    <2> QED
        BY <1>12, <2>1
<1>14. \A j \in 0 .. End(t) : InfoAt(u, j) = u.mInfo[j]
    BY <1>13 DEF InfoAt
<1>15. u \in Members
    <2>1. u.mKeyVals \in [0 .. End(t) - 1 -> Node \cup {NoNode}]
        BY <1>6, <1>11
    <2>2. End(t) + 1 \in Nat /\ (End(t) + 1) - 1 = End(t)
        BY <1>6
    <2>3. u.mInfo \in [0 .. (End(t) + 1) - 1 -> 0 .. InfoMax]
        BY <1>13, <2>2
    <2>4. count \in Nat
        <3>1. IsFiniteSet(Occupied(t)) /\ t.mNumElements = Cardinality(Occupied(t))
              /\ t.mNumElements \in Nat /\ i \in Occupied(t)
            BY <1>2, OccupiedFinite, MovedBackFacts
        <3>2. t.mNumElements # 0
            BY <3>1, FS_EmptySet
        <3> QED
            BY <3>1, <3>2 DEF count
    <2>5. /\ t.mHashMultiplier \in 0 .. NumMultipliers - 1
          /\ t.mMask \in Nat /\ t.mMaxNumElementsAllowed \in Nat
          /\ t.mInfoInc \in Nat /\ t.mInfoHashShift \in 0 .. InitialInfoNumBits - 1
        BY <1>2, MembersType
    <2>6. /\ u.mHashMultiplier \in 0 .. NumMultipliers - 1
          /\ u.mNumElements \in Nat /\ u.mMask \in Nat /\ u.mMaxNumElementsAllowed \in Nat
          /\ u.mInfoInc \in Nat /\ u.mInfoHashShift \in 0 .. InitialInfoNumBits - 1
        BY <2>4, <2>5, <1>5 DEF SameNumbers
    <2> QED
        BY <1>5, <1>6, <2>1, <2>2, <2>3, <2>6, MembersOf
<1>16. \A j \in 0 .. End(t) :
           InfoAt(u, j) = IF j = last THEN 0
                          ELSE IF i <= j /\ j < last THEN InfoAt(t, j + 1) - t.mInfoInc
                          ELSE InfoAt(t, j)
    BY <1>12, <1>14
<1>17. u.mNumElements = t.mNumElements - 1
    BY <1>5 DEF count
<1> QED
    BY <1>5, <1>10, <1>11, <1>13, <1>15, <1>16, <1>17 DEF Removed

Removing(t, u, i, last) == MovedBack(t, i, last) /\ Removed(t, u, i, last)

LEMMA RemovingFacts ==
    ASSUME NEW t, NEW u, NEW i, NEW last, Removing(t, u, i, last)
    PROVE  /\ SameNumbers(t, u) /\ End(u) = End(t) /\ Slots(u) = Slots(t) /\ u.mInfoInc = t.mInfoInc
           /\ \A j \in Slots(t) : InfoAt(u, j) = u.mInfo[j] /\ InfoAt(u, j + 1) = u.mInfo[j + 1]
           /\ \A j \in Nat : InfoAt(t, j) \in Nat
<1>1. SameNumbers(t, u) /\ u.mInfo \in [0 .. End(t) -> 0 .. InfoMax]
    BY DEF Removing, Removed
<1>2. End(u) = End(t) /\ Slots(u) = Slots(t) /\ u.mInfoInc = t.mInfoInc
    BY <1>1, NumbersKept DEF SameNumbers
<1>3. Sound(t) /\ End(t) \in Nat /\ Slots(t) = 0 .. End(t) - 1
    BY MovedBackFacts DEF Removing
<1>4. \A j \in 0 .. End(t) : InfoAt(u, j) = u.mInfo[j]
    BY <1>1 DEF InfoAt
<1>5. \A j \in Slots(t) : j \in 0 .. End(t) /\ j + 1 \in 0 .. End(t)
    BY <1>3
<1>6. \A j \in Nat : InfoAt(t, j) \in Nat
    BY <1>3, MemoryFacts
<1> QED
    BY <1>1, <1>2, <1>4, <1>5, <1>6

\* What is in a slot afterwards, by where it is.
LEMMA RemovedSlot ==
    ASSUME NEW t, NEW u, NEW i, NEW last, Removing(t, u, i, last), NEW j \in Slots(t)
    PROVE  /\ j = last => u.mKeyVals[j] = NoNode /\ InfoAt(u, j) = 0
           /\ i <= j /\ j < last => /\ j + 1 \in Occupied(t)
                                    /\ u.mKeyVals[j] = t.mKeyVals[j + 1]
                                    /\ InfoAt(u, j) = InfoAt(t, j + 1) - t.mInfoInc
                                    /\ InfoAt(t, j + 1) >= 2 * t.mInfoInc
                                    /\ InfoAt(u, j) # 0
           /\ j < i \/ last < j => /\ u.mKeyVals[j] = t.mKeyVals[j]
                                   /\ InfoAt(u, j) = InfoAt(t, j)
<1>1. /\ i \in Nat /\ last \in Nat /\ End(t) \in Nat /\ i <= last /\ last < End(t)
      /\ t.mInfoInc \in Nat /\ t.mInfoInc >= 2
    BY MovedBackFacts DEF Removing
<1>2. j \in Nat /\ j < End(t)
    BY MovedBackFacts DEF Removing
<1>3. u.mKeyVals[j] = IF j = last THEN NoNode
                      ELSE IF i <= j /\ j < last THEN t.mKeyVals[j + 1] ELSE t.mKeyVals[j]
    BY Zenon DEF Removing, Removed
<1>4. InfoAt(u, j) = IF j = last THEN 0
                     ELSE IF i <= j /\ j < last THEN InfoAt(t, j + 1) - t.mInfoInc
                     ELSE InfoAt(t, j)
    <2>1. j \in 0 .. End(t)
        BY <1>1, <1>2
    <2> QED
        BY <2>1, Zenon DEF Removing, Removed
<1>5. j = last => u.mKeyVals[j] = NoNode /\ InfoAt(u, j) = 0
    BY <1>3, <1>4
<1>6. ASSUME i <= j, j < last
      PROVE  /\ j + 1 \in Occupied(t)
             /\ u.mKeyVals[j] = t.mKeyVals[j + 1]
             /\ InfoAt(u, j) = InfoAt(t, j + 1) - t.mInfoInc
             /\ InfoAt(t, j + 1) >= 2 * t.mInfoInc
             /\ InfoAt(u, j) # 0
    <2>1. j + 1 \in i + 1 .. last /\ j + 1 \in i .. last /\ j # last /\ j + 1 \in Nat
        BY <1>1, <1>2, <1>6
    <2>2. j + 1 \in Occupied(t)
        BY <2>1, MovedBackFacts DEF Removing
    <2>3. InfoAt(t, j + 1) >= 2 * t.mInfoInc
        BY <2>1 DEF Removing, MovedBack
    <2>4. u.mKeyVals[j] = t.mKeyVals[j + 1] /\ InfoAt(u, j) = InfoAt(t, j + 1) - t.mInfoInc
        BY <1>3, <1>4, <1>6, <2>1
    <2>5. InfoAt(t, j + 1) \in Nat
        BY <2>1, RemovingFacts
    <2>6. InfoAt(u, j) # 0
        BY <1>1, <2>3, <2>4, <2>5
    <2> QED
        BY <2>2, <2>3, <2>4, <2>6
<1>7. ASSUME j < i \/ last < j
      PROVE  u.mKeyVals[j] = t.mKeyVals[j] /\ InfoAt(u, j) = InfoAt(t, j)
    <2>1. j # last /\ ~(i <= j /\ j < last)
        BY <1>1, <1>2, <1>7
    <2> QED
        BY <1>3, <1>4, <2>1
<1> QED
    BY <1>5, <1>6, <1>7

LEMMA RemovedTaken ==
    ASSUME NEW t, NEW u, NEW i, NEW last, Removing(t, u, i, last)
    PROVE  /\ Taken(u)
           /\ Occupied(u) = Occupied(t) \ {last}
<1>1. /\ i \in Nat /\ last \in Nat /\ End(t) \in Nat /\ i <= last /\ last < End(t)
    BY MovedBackFacts DEF Removing
<1>2. Sound(t) /\ \A j \in Slots(t) : j \in Nat /\ j < End(t)
    BY MovedBackFacts DEF Removing
<1>3. \A j \in i .. last : j \in Occupied(t)
    BY MovedBackFacts DEF Removing
<1>4. /\ Occupied(t) \subseteq Slots(t)
      /\ \A j \in Slots(t) : j \in Occupied(t) <=> InfoAt(t, j) # 0
      /\ \A j \in Slots(t) : j \in Occupied(t) <=> t.mKeyVals[j] # NoNode
    BY <1>2, SlotFacts
<1>5. ASSUME NEW j \in Slots(t)
      PROVE  /\ InfoAt(u, j) # 0 <=> u.mKeyVals[j] # NoNode
             /\ InfoAt(u, j) # 0 <=> j \in Occupied(t) \ {last}
    <2>0. j \in Nat
        BY <1>2
    <2>1. CASE j = last
        BY <2>1, RemovedSlot
    <2>2. CASE i <= j /\ j < last
        <3>1. j \in i .. last /\ j # last
            BY <1>1, <2>0, <2>2
        <3>2. j + 1 \in Occupied(t) /\ u.mKeyVals[j] = t.mKeyVals[j + 1] /\ InfoAt(u, j) # 0
            BY <2>2, RemovedSlot
        <3> QED
            BY <1>3, <1>4, <3>1, <3>2
    <2>3. CASE j < i \/ last < j
        <3>1. j # last
            BY <1>1, <2>0, <2>3
        <3>2. u.mKeyVals[j] = t.mKeyVals[j] /\ InfoAt(u, j) = InfoAt(t, j)
            BY <2>3, RemovedSlot
        <3> QED
            BY <1>4, <3>1, <3>2
    <2> QED
        BY <1>1, <2>0, <2>1, <2>2, <2>3
<1>6. Slots(u) = Slots(t) /\ \A j \in Slots(t) : InfoAt(u, j) = u.mInfo[j]
    BY RemovingFacts
<1>7. Taken(u)
    BY <1>5, <1>6 DEF Taken
<1>8. Occupied(u) = {j \in Slots(t) : InfoAt(u, j) # 0}
    BY <1>6 DEF Occupied
<1> QED
    BY <1>4, <1>5, <1>7, <1>8

LEMMA RemovedAtDistance ==
    ASSUME NEW t, NEW u, NEW i, NEW last, Removing(t, u, i, last)
    PROVE  AtDistance(program.hash, u)
<1>1. /\ i \in Nat /\ last \in Nat /\ End(t) \in Nat /\ i <= last /\ last < End(t)
      /\ t.mInfoInc \in Nat
    BY MovedBackFacts DEF Removing
<1>2. Sound(t) /\ \A j \in Slots(t) : j \in Nat /\ j < End(t)
    BY MovedBackFacts DEF Removing
<1>3. /\ Slots(u) = Slots(t) /\ SameNumbers(t, u)
      /\ \A j \in Slots(t) : InfoAt(u, j) = u.mInfo[j]
    BY RemovingFacts
<1>4. Occupied(t) \subseteq Slots(t) /\ Occupied(u) = Occupied(t) \ {last}
    BY <1>2, SlotFacts, RemovedTaken
<1>5. /\ \A k : HomeBy(program.hash, u, k) = Home(t, k)
      /\ \A k, e : InfoBy(program.hash, u, k, e) = Info(t, k, e)
    <2>1. /\ \A k : HomeBy(program.hash, u, k) = HomeBy(program.hash, t, k)
          /\ \A k, e : InfoBy(program.hash, u, k, e) = InfoBy(program.hash, t, k, e)
        BY <1>3, NumbersKept
    <2>2. /\ \A k : HomeBy(program.hash, t, k) = Home(t, k)
          /\ \A k, e : InfoBy(program.hash, t, k, e) = Info(t, k, e)
        BY Zenon DEF Home, Info, Hash, HomeBy, InfoBy
    <2> QED
        BY <2>1, <2>2
<1>6. ASSUME NEW j \in Occupied(u)
      PROVE  /\ j >= Home(t, u.mKeyVals[j].key)
             /\ InfoAt(u, j) = Info(t, u.mKeyVals[j].key, j - Home(t, u.mKeyVals[j].key))
    <2>1. j \in Slots(t) /\ j \in Nat /\ j # last /\ j \in Occupied(t)
        BY <1>2, <1>4
    <2>2. CASE i <= j /\ j < last
        <3> DEFINE m == j + 1
                   k == t.mKeyVals[m].key
                   d == m - Home(t, k)
                   e == d - 1
        <3>1. /\ m \in Occupied(t)
              /\ u.mKeyVals[j].key = k
              /\ InfoAt(u, j) = InfoAt(t, m) - t.mInfoInc
              /\ InfoAt(t, m) >= 2 * t.mInfoInc
            BY <2>1, <2>2, RemovedSlot
        <3> HIDE DEF m
        <3>2. k \in Keys /\ d \in Nat /\ InfoAt(t, m) = Info(t, k, d) /\ m \in Nat
              /\ Home(t, k) \in 0 .. t.mMask
            BY <1>2, <3>1, NodeFacts
        <3>3. t.mMask \in Nat
            BY <1>2, MemoryFacts
        <3>4. Home(t, k) \in Nat
            BY <3>2, <3>3
        <3> HIDE DEF k
        <3>5. d # 0
            <4>1. d = 0 => Info(t, k, d) < 2 * t.mInfoInc
                BY <1>2, <3>2, SearchFacts
            <4>2. Info(t, k, d) \in Nat
                BY <1>2, <3>2, SearchFacts
            <4> HIDE DEF d
            <4> QED
                BY <1>1, <3>1, <3>2, <4>1, <4>2
        <3>6. e \in Nat /\ e + 1 = d /\ j - Home(t, k) = e /\ j >= Home(t, k)
            <4> DEFINE h == Home(t, k)
            <4>1. m - h \in Nat /\ m - h # 0 /\ h \in Nat /\ j \in Nat /\ m = j + 1
                BY <2>1, <3>2, <3>4, <3>5 DEF m
            <4> HIDE DEF h
            <4>2. (m - h) - 1 \in Nat /\ ((m - h) - 1) + 1 = m - h /\ j - h = (m - h) - 1 /\ j >= h
                BY <4>1
            <4> QED
                BY <4>2 DEF h
        <3> HIDE DEF d, e
        <3>7. Info(t, k, d) = Info(t, k, e) + t.mInfoInc /\ Info(t, k, e) \in Nat
            BY <1>2, <3>2, <3>6, SearchFacts
        <3>8. InfoAt(u, j) = Info(t, k, e)
            BY <1>1, <3>1, <3>2, <3>7
        <3> QED
            BY <3>1, <3>6, <3>8
    <2>3. CASE j < i \/ last < j
        <3>1. u.mKeyVals[j] = t.mKeyVals[j] /\ InfoAt(u, j) = InfoAt(t, j)
            BY <2>1, <2>3, RemovedSlot
        <3> DEFINE h == Home(t, t.mKeyVals[j].key)
        <3>2. h \in 0 .. t.mMask /\ j - h \in Nat /\ t.mMask \in Nat
              /\ InfoAt(t, j) = Info(t, t.mKeyVals[j].key, j - h)
            BY <1>2, <2>1, NodeFacts, MemoryFacts
        <3>3. j >= h
            BY <2>1, <3>2
        <3> QED
            BY <3>1, <3>2, <3>3
    <2> QED
        BY <1>1, <2>1, <2>2, <2>3
<1>7. \A j \in Occupied(u) : InfoAt(u, j) = u.mInfo[j]
    BY <1>3, <1>4
<1> QED
    BY <1>5, <1>6, <1>7 DEF AtDistance

LEMMA RemovedSorted ==
    ASSUME NEW t, NEW u, NEW i, NEW last, Removing(t, u, i, last)
    PROVE  Sorted(u)
<1>1. /\ i \in Nat /\ last \in Nat /\ End(t) \in Nat /\ i <= last /\ last < End(t)
      /\ t.mInfoInc \in Nat /\ t.mInfoInc >= 2
    BY MovedBackFacts DEF Removing
<1>2. Sound(t) /\ Slots(t) = 0 .. End(t) - 1 /\ \A j \in Slots(t) : j \in Nat /\ j < End(t)
    BY MovedBackFacts DEF Removing
<1>3. \A j \in Nat : InfoAt(t, j) \in Nat
    BY RemovingFacts
<1>4. Slots(u) = Slots(t) /\ u.mInfoInc = t.mInfoInc
      /\ \A j \in Slots(t) : InfoAt(u, j) = u.mInfo[j] /\ InfoAt(u, j + 1) = u.mInfo[j + 1]
    BY RemovingFacts
<1>5. ASSUME NEW j \in Slots(t)
      PROVE  \/ InfoAt(u, j + 1) < 2 * t.mInfoInc
             \/ InfoAt(u, j) # 0 /\ InfoAt(u, j + 1) <= InfoAt(u, j) + t.mInfoInc
    <2>0. j \in Nat /\ j + 1 \in Nat /\ j < End(t) /\ j + 1 <= End(t)
        BY <1>1, <1>2
    <2>1. /\ InfoAt(t, j) \in Nat /\ InfoAt(t, j + 1) \in Nat
          /\ \/ InfoAt(t, j + 1) < 2 * t.mInfoInc
             \/ InfoAt(t, j) # 0 /\ InfoAt(t, j + 1) <= InfoAt(t, j) + t.mInfoInc
        BY <1>2, <1>3, <2>0, SlotFacts
    <2>2. j < i \/ last < j => InfoAt(u, j) = InfoAt(t, j)
        BY RemovedSlot
    <2>3. j + 1 < i \/ last < j + 1 => InfoAt(u, j + 1) = InfoAt(t, j + 1)
        <3>1. j + 1 \in 0 .. End(t)
            BY <2>0, <1>1
        <3>2. InfoAt(u, j + 1) =
                  IF j + 1 = last THEN 0
                  ELSE IF i <= j + 1 /\ j + 1 < last THEN InfoAt(t, (j + 1) + 1) - t.mInfoInc
                  ELSE InfoAt(t, j + 1)
            BY <3>1, Zenon DEF Removing, Removed
        <3>3. j + 1 < i \/ last < j + 1 => j + 1 # last /\ ~(i <= j + 1 /\ j + 1 < last)
            BY <1>1, <2>0
        <3> QED
            BY <3>2, <3>3
    <2>4. j + 1 <= last => j + 1 \in Slots(t)
        BY <1>1, <1>2, <2>0
    <2>5. CASE j + 1 < i \/ last < j
        <3>1. j < i \/ last < j
            BY <1>1, <2>0, <2>5
        <3>2. j + 1 < i \/ last < j + 1
            BY <1>1, <2>0, <2>5
        <3> QED
            BY <2>1, <2>2, <2>3, <3>1, <3>2
    <2>6. CASE j = last
        <3>1. InfoAt(t, j + 1) < 2 * t.mInfoInc
            BY <2>6 DEF Removing, MovedBack
        <3>2. last < j + 1
            BY <2>0, <2>6
        <3> QED
            BY <2>3, <3>1, <3>2
    <2>7. CASE j + 1 = last
        <3>1. InfoAt(u, j + 1) = 0
            BY <2>4, <2>7, <1>1, RemovedSlot
        <3> QED
            BY <1>1, <3>1
    <2>8. CASE i <= j + 1 /\ j + 1 < last
        <3> DEFINE k == j + 1
        <3>1. k \in Slots(t) /\ k \in Nat /\ i <= k /\ k < last
            BY <2>0, <2>4, <2>8, <1>1
        <3>2. InfoAt(u, k) = InfoAt(t, k + 1) - t.mInfoInc /\ InfoAt(t, k + 1) >= 2 * t.mInfoInc
            BY <3>1, RemovedSlot
        <3>3. InfoAt(t, k) \in Nat /\ InfoAt(t, k + 1) \in Nat
            BY <1>3, <3>1
        <3>4. InfoAt(t, k + 1) <= InfoAt(t, k) + t.mInfoInc
            <4>1. \/ InfoAt(t, k + 1) < 2 * t.mInfoInc
                  \/ InfoAt(t, k) # 0 /\ InfoAt(t, k + 1) <= InfoAt(t, k) + t.mInfoInc
                BY <1>2, <3>1, SlotFacts
            <4> HIDE DEF k
            <4> QED
                BY <1>1, <3>2, <3>3, <4>1
        <3>5. InfoAt(u, k) <= InfoAt(t, k)
            <4> HIDE DEF k
            <4> QED
                BY <1>1, <3>2, <3>3, <3>4
        <3>6. CASE j < i
            BY <1>1, <2>1, <2>2, <3>2, <3>3, <3>5, <3>6
        <3>7. CASE i <= j
            <4>1. j < last
                BY <1>1, <2>0, <2>8
            <4>2. InfoAt(u, j) = InfoAt(t, k) - t.mInfoInc /\ InfoAt(u, j) # 0
                BY <3>7, <4>1, RemovedSlot
            <4> HIDE DEF k
            <4>3. InfoAt(u, k) <= InfoAt(u, j) + t.mInfoInc
                BY <1>1, <3>3, <3>5, <4>2
            <4> QED
                BY <4>2, <4>3 DEF k
        <3> QED
            BY <1>1, <2>0, <3>6, <3>7
    <2> QED
        BY <1>1, <2>0, <2>5, <2>6, <2>7, <2>8
<1> QED
    BY <1>4, <1>5 DEF Sorted

\* The slot the node in slot j was in before.
From(i, last, j) == IF i <= j /\ j < last THEN j + 1 ELSE j

LEMMA RemovedFrom ==
    ASSUME NEW t, NEW u, NEW i, NEW last, Removing(t, u, i, last), NEW j \in Occupied(u)
    PROVE  /\ j \in Nat /\ j \in Slots(t)
           /\ From(i, last, j) \in Occupied(t) \ {i}
           /\ u.mKeyVals[j] = t.mKeyVals[From(i, last, j)]
           /\ j >= i => From(i, last, j) >= i
<1>1. i \in Nat /\ last \in Nat /\ i <= last
    BY MovedBackFacts DEF Removing
<1>2. Sound(t) /\ \A m \in Slots(t) : m \in Nat
    BY MovedBackFacts DEF Removing
<1>3. Occupied(t) \subseteq Slots(t)
    BY <1>2, SlotFacts
<1>4. j \in Occupied(t) /\ j # last /\ j \in Slots(t) /\ j \in Nat
    BY <1>2, <1>3, RemovedTaken
<1> DEFINE m == From(i, last, j)
<1>5. CASE i <= j /\ j < last
    <2>1. m = j + 1 /\ m \in Nat /\ m # i /\ m >= i
        BY <1>1, <1>4, <1>5 DEF From
    <2>2. j + 1 \in Occupied(t) /\ u.mKeyVals[j] = t.mKeyVals[j + 1]
        BY <1>4, <1>5, RemovedSlot
    <2> HIDE DEF m
    <2>3. m \in Occupied(t) \ {i} /\ u.mKeyVals[j] = t.mKeyVals[m] /\ m >= i
        BY <2>1, <2>2
    <2> QED
        BY <1>4, <2>3 DEF m
<1>6. CASE ~(i <= j /\ j < last)
    <2>1. j < i \/ last < j
        BY <1>1, <1>4, <1>6
    <2>2. m = j /\ j # i
        BY <1>1, <1>4, <1>6, <2>1 DEF From
    <2>3. u.mKeyVals[j] = t.mKeyVals[j]
        BY <1>4, <2>1, RemovedSlot
    <2> QED
        BY <1>4, <2>2, <2>3
<1> QED
    BY <1>5, <1>6

LEMMA RemovedKept ==
    ASSUME NEW t, NEW u, NEW i, NEW last, Removing(t, u, i, last), NEW m \in Occupied(t), m # i
    PROVE  \E j \in Occupied(u) : u.mKeyVals[j] = t.mKeyVals[m] /\ (m >= i => j >= i)
<1>1. i \in Nat /\ last \in Nat /\ i <= last /\ End(t) \in Nat /\ last < End(t)
    BY MovedBackFacts DEF Removing
<1>2. Sound(t) /\ Slots(t) = 0 .. End(t) - 1
    BY MovedBackFacts DEF Removing
<1>3. m \in Slots(t) /\ m \in Nat
    BY <1>1, <1>2, SlotFacts
<1>4. Occupied(u) = Occupied(t) \ {last}
    BY RemovedTaken
<1>5. CASE i < m /\ m <= last
    <2> DEFINE j == m - 1
    <2>1. j \in Nat /\ j \in i .. last /\ j # last /\ j < last /\ i <= j /\ j + 1 = m
          /\ j \in Slots(t)
        BY <1>1, <1>2, <1>3, <1>5
    <2> HIDE DEF j
    <2>2. j \in Occupied(t)
        BY <2>1, MovedBackFacts DEF Removing
    <2>3. u.mKeyVals[j] = t.mKeyVals[m]
        BY <2>1, RemovedSlot
    <2> QED
        BY <1>1, <1>4, <2>1, <2>2, <2>3
<1>6. CASE m < i \/ last < m
    <2>1. m # last
        BY <1>1, <1>3, <1>6
    <2>2. u.mKeyVals[m] = t.mKeyVals[m]
        BY <1>3, <1>6, RemovedSlot
    <2> QED
        BY <1>4, <2>1, <2>2
<1> QED
    BY <1>1, <1>3, <1>5, <1>6

LEMMA RemovedDistinct ==
    ASSUME NEW t, NEW u, NEW i, NEW last, Removing(t, u, i, last)
    PROVE  Distinct(u)
<1>1. i \in Nat /\ last \in Nat /\ i <= last
    BY MovedBackFacts DEF Removing
<1>2. Sound(t)
    BY MovedBackFacts DEF Removing
<1>3. ASSUME NEW j \in Occupied(u), NEW m \in Occupied(u), u.mKeyVals[j].key = u.mKeyVals[m].key
      PROVE  j = m
    <2>1. From(i, last, j) \in Occupied(t) /\ From(i, last, m) \in Occupied(t)
        BY RemovedFrom
    <2>2. t.mKeyVals[From(i, last, j)].key = t.mKeyVals[From(i, last, m)].key
        BY <1>3, RemovedFrom
    <2>3. From(i, last, j) = From(i, last, m)
        BY <1>2, <2>1, <2>2, OneSlot
    <2>4. j \in Nat /\ m \in Nat /\ j # last /\ m # last
        BY RemovedFrom, RemovedTaken
    <2> QED
        BY <1>1, <2>3, <2>4 DEF From
<1> QED
    BY <1>3 DEF Distinct

LEMMA RemovedCounted ==
    ASSUME NEW t, NEW u, NEW i, NEW last, Removing(t, u, i, last)
    PROVE  Counted(u)
<1>1. Sound(t) /\ last \in Occupied(t)
    BY MovedBackFacts DEF Removing
<1>2. u.mNumElements = t.mNumElements - 1
    BY Zenon DEF Removing, Removed
<1>3. IsFiniteSet(Occupied(t)) /\ t.mNumElements = Cardinality(Occupied(t))
    BY <1>1, OccupiedFinite
<1>4. Cardinality(Occupied(t) \ {last}) = Cardinality(Occupied(t)) - 1
    BY <1>1, <1>3, FS_RemoveElement
<1> QED
    BY <1>2, <1>3, <1>4, RemovedTaken DEF Counted

LEMMA RemovedLimited ==
    ASSUME NEW t, NEW u, NEW i, NEW last, Removing(t, u, i, last)
    PROVE  Limited(u)
<1>1. Sound(t) /\ t.mInfoInc \in Nat
    BY MovedBackFacts DEF Removing
<1>2. /\ SameNumbers(t, u) /\ u.mNumElements = t.mNumElements - 1
      /\ u.mMaxNumElementsAllowed = t.mMaxNumElementsAllowed
    BY Zenon DEF Removing, Removed
<1>3. /\ Allowed(u) = Allowed(t)
      /\ \A info : Fits(u, info) <=> Fits(t, info)
    BY <1>2, NumbersKept
<1>4. Limited(t)
    BY <1>1 DEF Sound, HasMemory
<1>5. u.mNumElements <= Allowed(u)
    <2>1. t.mNumElements \in Nat /\ Allowed(t) \in Nat /\ t.mNumElements <= Allowed(t)
        <3>1. t \in Members /\ t.mMask # 0
            BY <1>1, MemoryFacts
        <3> QED
            BY <1>4, <3>1, EndType, MembersType DEF Limited
    <2> QED
        BY <1>2, <1>3, <2>1
<1>6. ASSUME u.mMaxNumElementsAllowed # 0, NEW j \in Occupied(u)
      PROVE  Fits(t, InfoAt(u, j))
    <2>1. AllFit(t)
        BY <1>2, <1>4, <1>6 DEF Limited
    <2>2. \A m \in Occupied(t) : InfoAt(t, m) \in Nat /\ Fits(t, InfoAt(t, m))
        <3>1. ASSUME NEW m \in Occupied(t)
              PROVE  InfoAt(t, m) \in Nat /\ InfoAt(t, m) = t.mInfo[m]
            <4>1. m \in Nat /\ m < End(t)
                BY <1>1, NodeFacts
            <4>2. m \in 0 .. End(t)
                BY <1>1, <4>1, MemoryFacts
            <4> QED
                BY <1>1, <4>2, MemoryFacts
        <3> QED
            BY <2>1, <3>1 DEF AllFit
    <2>3. j \in Nat /\ j \in Slots(t) /\ j # last /\ j \in Occupied(t)
        BY RemovedFrom, RemovedTaken
    <2>4. i \in Nat /\ last \in Nat /\ i <= last
        BY MovedBackFacts DEF Removing
    <2>5. CASE i <= j /\ j < last
        <3> DEFINE m == j + 1
        <3>1. /\ m \in Occupied(t)
              /\ InfoAt(u, j) = InfoAt(t, m) - t.mInfoInc
              /\ InfoAt(t, m) >= 2 * t.mInfoInc
            BY <2>3, <2>5, RemovedSlot
        <3> HIDE DEF m
        <3>2. InfoAt(t, m) \in Nat /\ InfoAt(t, m) + t.mInfoInc <= InfoMax /\ InfoMax \in Nat
            BY <2>2, <3>1, HashAssumption DEF Fits
        <3>3. InfoAt(u, j) + t.mInfoInc <= InfoMax
            BY <1>1, <3>1, <3>2
        <3> QED
            BY <3>3 DEF Fits
    <2>6. CASE j < i \/ last < j
        BY <2>2, <2>3, <2>6, RemovedSlot
    <2> QED
        BY <2>3, <2>4, <2>5, <2>6
<1>7. \A j \in Occupied(u) : InfoAt(u, j) = u.mInfo[j]
    <2>1. \A j \in Slots(t) : InfoAt(u, j) = u.mInfo[j]
        BY RemovingFacts
    <2> QED
        BY <2>1, RemovedFrom
<1>8. u.mMaxNumElementsAllowed # 0 => AllFit(u)
    BY <1>3, <1>6, <1>7 DEF AllFit
<1> QED
    BY <1>2, <1>3, <1>4, <1>5, <1>8 DEF Limited

\* What an erasure of the node in slot i does.
LEMMA RemoveKeeps ==
    ASSUME NEW t, Sound(t), NEW i \in Occupied(t), NEW u, u = shiftDown(t, i)
    PROVE  /\ Keeps(t, u)
           /\ End(u) = End(t)
           /\ NodesOf(u) = NodesOf(t) \ {t.mKeyVals[i]}
           /\ KeysFrom(u, i) = KeysFrom(t, i) \ {t.mKeyVals[i].key}
           /\ u.mNumElements = t.mNumElements - 1
<1> DEFINE last == LastMoved(t, i)
<1>1. MovedBack(t, i, last)
    BY LastMovedType
<1>2. Removed(t, u, i, last)
    BY <1>1, RemoveMembers
<1> HIDE DEF last
<1>3. Removing(t, u, i, last)
    BY <1>1, <1>2 DEF Removing
<1>4. u \in Members /\ SameNumbers(t, u) /\ u.mMask # 0
    <2>1. t.mMask # 0
        BY MemoryFacts
    <2> QED
        BY <1>2, <2>1, Zenon DEF Removed, SameNumbers
<1>5. End(u) = End(t) /\ Slots(u) = Slots(t) /\ Allowed(u) = Allowed(t) /\ (Halved(u) <=> Halved(t))
    BY <1>4, NumbersKept
<1>6. Memory(u)
    <2>1. /\ u.mKeyVals \in [Slots(t) -> Node \cup {NoNode}]
          /\ u.mInfo \in [0 .. End(t) -> 0 .. InfoMax]
        BY <1>2, Zenon DEF Removed
    <2>2. last \in Nat /\ End(t) \in Nat /\ last < End(t)
        BY <1>1, MovedBackFacts
    <2>3. End(t) # last /\ ~(End(t) < last) /\ End(t) \in 0 .. End(t)
        BY <2>2
    <2>4. InfoAt(u, End(t)) = IF End(t) = last THEN 0
                              ELSE IF i <= End(t) /\ End(t) < last
                                   THEN InfoAt(t, End(t) + 1) - t.mInfoInc
                              ELSE InfoAt(t, End(t))
        BY <1>2, <2>3, Zenon DEF Removed
    <2>5. InfoAt(t, End(t)) = 1
        BY MemoryFacts
    <2>6. InfoAt(u, End(t)) = u.mInfo[End(t)]
        BY <2>1, <2>3 DEF InfoAt
    <2> QED
        BY <1>5, <2>1, <2>3, <2>4, <2>5, <2>6 DEF Memory
<1>7. /\ Taken(u) /\ AtDistance(program.hash, u) /\ Sorted(u) /\ Distinct(u) /\ Limited(u)
      /\ Counted(u)
    BY <1>3, RemovedTaken, RemovedAtDistance, RemovedSorted, RemovedDistinct, RemovedLimited,
       RemovedCounted
<1>8. Halved(t) /\ program.hash \in Hashes
    BY DEF Sound, HasMemory
<1>9. Sound(u)
    BY <1>4, <1>5, <1>6, <1>7, <1>8 DEF Sound, HasMemory
<1>10. Keeps(t, u)
    BY <1>4, <1>5, <1>9 DEF Keeps, SameNumbers
<1>11. ASSUME NEW j \in Occupied(u)
       PROVE  /\ u.mKeyVals[j] \in NodesOf(t) \ {t.mKeyVals[i]}
              /\ u.mKeyVals[j].key # t.mKeyVals[i].key
              /\ j >= i => u.mKeyVals[j].key \in KeysFrom(t, i)
    <2> DEFINE m == From(i, last, j)
    <2>1. m \in Occupied(t) \ {i} /\ u.mKeyVals[j] = t.mKeyVals[m] /\ (j >= i => m >= i)
        BY <1>3, RemovedFrom
    <2> HIDE DEF m
    <2>2. u.mKeyVals[j].key # t.mKeyVals[i].key
        BY <2>1, OneSlot
    <2> QED
        BY <2>1, <2>2 DEF NodesOf, KeysFrom
<1>12. ASSUME NEW m \in Occupied(t), t.mKeyVals[m] # t.mKeyVals[i] \/ m # i
       PROVE  \E j \in Occupied(u) : u.mKeyVals[j] = t.mKeyVals[m] /\ (m >= i => j >= i)
    BY <1>3, <1>12, RemovedKept
<1>13. NodesOf(u) = NodesOf(t) \ {t.mKeyVals[i]}
    <2>1. NodesOf(u) \subseteq NodesOf(t) \ {t.mKeyVals[i]}
        BY <1>11 DEF NodesOf
    <2>2. NodesOf(t) \ {t.mKeyVals[i]} \subseteq NodesOf(u)
        BY <1>12 DEF NodesOf
    <2> QED
        BY <2>1, <2>2
<1>14. KeysFrom(u, i) = KeysFrom(t, i) \ {t.mKeyVals[i].key}
    <2>1. KeysFrom(u, i) \subseteq KeysFrom(t, i) \ {t.mKeyVals[i].key}
        BY <1>11 DEF KeysFrom
    <2>2. ASSUME NEW m \in Occupied(t), m >= i, t.mKeyVals[m].key # t.mKeyVals[i].key
          PROVE  t.mKeyVals[m].key \in KeysFrom(u, i)
        <3>1. m # i
            BY <2>2
        <3>2. PICK j \in Occupied(u) : u.mKeyVals[j] = t.mKeyVals[m] /\ (m >= i => j >= i)
            BY <1>12, <3>1
        <3> QED
            BY <2>2, <3>2 DEF KeysFrom
    <2>3. KeysFrom(t, i) \ {t.mKeyVals[i].key} \subseteq KeysFrom(u, i)
        BY <2>2 DEF KeysFrom
    <2> QED
        BY <2>1, <2>3
<1>15. u.mNumElements = t.mNumElements - 1
    BY <1>2, Zenon DEF Removed
<1> QED
    BY <1>5, <1>10, <1>13, <1>14, <1>15

-----------------------------------------------------------------------------
(***************************************************************************)
(* Halving the info bytes.                                                 *)
(***************************************************************************)

HalvedBytes(t) ==
    [i \in DOMAIN t.mInfo |-> IF i = End(t) THEN 1 ELSE t.mInfo[i] \div 2]

LEMMA IncreasedMembers ==
    ASSUME NEW t, IsTable(t)
    PROVE  IncreaseInfo(t) =
               [mHashMultiplier |-> t.mHashMultiplier, mKeyVals |-> t.mKeyVals,
                mInfo |-> HalvedBytes(t), mNumElements |-> t.mNumElements, mMask |-> t.mMask,
                mMaxNumElementsAllowed |-> Allowed(t), mInfoInc |-> t.mInfoInc \div 2,
                mInfoHashShift |-> t.mInfoHashShift + 1]
<1> DEFINE m == t.mHashMultiplier
           n == t.mKeyVals
           b == t.mInfo
           c == t.mNumElements
           k == t.mMask
           l == t.mMaxNumElementsAllowed
           i == t.mInfoInc
           h == t.mInfoHashShift
           inc == t.mInfoInc \div 2
           shift == t.mInfoHashShift + 1
           bytes == HalvedBytes(t)
           limit == Allowed(t)
<1>0. t = [mHashMultiplier |-> m, mKeyVals |-> n, mInfo |-> b, mNumElements |-> c, mMask |-> k,
           mMaxNumElementsAllowed |-> l, mInfoInc |-> i, mInfoHashShift |-> h]
    BY DEF IsTable
<1>1. IncreaseInfo(t) = [t EXCEPT !.mInfoInc = inc, !.mInfoHashShift = shift, !.mInfo = bytes,
                                  !.mMaxNumElementsAllowed = limit]
    BY Zenon DEF IncreaseInfo, HalvedBytes, Allowed
<1> HIDE DEF m, n, b, c, k, l, i, h, inc, shift, bytes, limit
<1> DEFINE t1 == [t EXCEPT !.mInfoInc = inc]
           t2 == [t1 EXCEPT !.mInfoHashShift = shift]
           t3 == [t2 EXCEPT !.mInfo = bytes]
           t4 == [t3 EXCEPT !.mMaxNumElementsAllowed = limit]
<1>2. t4 = [t EXCEPT !.mInfoInc = inc, !.mInfoHashShift = shift, !.mInfo = bytes,
                     !.mMaxNumElementsAllowed = limit]
    OBVIOUS
<1>3. t1 = [mHashMultiplier |-> m, mKeyVals |-> n, mInfo |-> b, mNumElements |-> c, mMask |-> k,
            mMaxNumElementsAllowed |-> l, mInfoInc |-> inc, mInfoHashShift |-> h]
    BY <1>0
<1> HIDE DEF t1
<1>4. t2 = [mHashMultiplier |-> m, mKeyVals |-> n, mInfo |-> b, mNumElements |-> c, mMask |-> k,
            mMaxNumElementsAllowed |-> l, mInfoInc |-> inc, mInfoHashShift |-> shift]
    BY <1>3
<1> HIDE DEF t2
<1>5. t3 = [mHashMultiplier |-> m, mKeyVals |-> n, mInfo |-> bytes, mNumElements |-> c,
            mMask |-> k, mMaxNumElementsAllowed |-> l, mInfoInc |-> inc,
            mInfoHashShift |-> shift]
    BY <1>4
<1> HIDE DEF t3
<1>6. t4 = [mHashMultiplier |-> m, mKeyVals |-> n, mInfo |-> bytes, mNumElements |-> c,
            mMask |-> k, mMaxNumElementsAllowed |-> limit, mInfoInc |-> inc,
            mInfoHashShift |-> shift]
    BY <1>5
<1> HIDE DEF t4
<1> QED
    BY <1>1, <1>2, <1>6, Zenon DEF m, n, c, k, inc, shift, bytes, limit

\* The numbers when a table's bytes are halved: its step is even then.
LEMMA HalvedNumbers ==
    ASSUME NEW t, Sound(t), CanIncreaseInfo(t), NEW u, u = IncreaseInfo(t)
    PROVE  /\ u \in Members
           /\ u.mHashMultiplier = t.mHashMultiplier /\ u.mKeyVals = t.mKeyVals
           /\ u.mMask = t.mMask /\ u.mNumElements = t.mNumElements
           /\ u.mMaxNumElementsAllowed = Allowed(t)
           /\ u.mInfoHashShift = t.mInfoHashShift + 1
           /\ t.mInfoInc = 2 * u.mInfoInc
           /\ u.mInfoInc \in Nat
           /\ Halved(u)
           /\ u.mInfo \in [0 .. End(t) -> 0 .. InfoMax]
           /\ u.mInfo[End(t)] = 1
           /\ \A i \in Slots(t) : u.mInfo[i] = t.mInfo[i] \div 2
<1>1. t \in Members /\ Halved(t) /\ t.mMask # 0
    BY DEF Sound, HasMemory
<1>2. u = [mHashMultiplier |-> t.mHashMultiplier, mKeyVals |-> t.mKeyVals,
           mInfo |-> HalvedBytes(t), mNumElements |-> t.mNumElements, mMask |-> t.mMask,
           mMaxNumElementsAllowed |-> Allowed(t), mInfoInc |-> t.mInfoInc \div 2,
           mInfoHashShift |-> t.mInfoHashShift + 1]
    BY <1>1, MembersType, IncreasedMembers DEF IsTable
<1>3. /\ IsTable(u)
      /\ u.mHashMultiplier = t.mHashMultiplier /\ u.mKeyVals = t.mKeyVals
      /\ u.mMask = t.mMask /\ u.mNumElements = t.mNumElements
      /\ u.mMaxNumElementsAllowed = Allowed(t) /\ u.mInfo = HalvedBytes(t)
      /\ u.mInfoHashShift = t.mInfoHashShift + 1 /\ u.mInfoInc = t.mInfoInc \div 2
    BY <1>2 DEF IsTable
<1> DEFINE s == t.mInfoHashShift
           n == InitialInfoNumBits - s
           p == PowerOfTwo[n - 1]
           q == PowerOfTwo[s]
<1>4. s \in Nat /\ n \in Nat /\ n # 0 /\ n - 1 \in Nat /\ (n - 1) + 1 = n
    BY <1>1, MembersType, HashAssumption
<1>5. t.mInfoInc = PowerOfTwo[n] /\ InitialInfoInc = t.mInfoInc * q
    BY <1>1 DEF Halved
<1>6. PowerOfTwo[n] = 2 * p /\ p \in Nat \ {0} /\ q \in Nat \ {0} /\ PowerOfTwo[s + 1] = 2 * q
    <2> HIDE DEF n, s
    <2>1. PowerOfTwo[(n - 1) + 1] = 2 * PowerOfTwo[n - 1] /\ PowerOfTwo[s + 1] = 2 * PowerOfTwo[s]
        BY <1>4, PowerOfTwoSteps
    <2> QED
        BY <1>4, <2>1, PowerOfTwoType
<1>7. t.mInfoInc > 2
    BY DEF CanIncreaseInfo
<1>8. n # 1
    BY <1>5, <1>6, <1>7, PowerOfTwoSteps
<1>9. InitialInfoNumBits - (s + 1) = n - 1 /\ s + 1 \in 0 .. InitialInfoNumBits - 1
    <2>1. InitialInfoNumBits \in Nat
        BY HashAssumption
    <2> HIDE DEF p, q, s
    <2> QED
        BY <1>4, <1>8, <2>1
<1> HIDE DEF n, p, q, s
<1>10. t.mInfoInc \div 2 = p /\ t.mInfoInc = 2 * p
    BY <1>5, <1>6
<1>11. InitialInfoInc = p * (2 * q)
    BY <1>5, <1>6
<1>12. u.mInfoInc = p /\ u.mInfoInc \in Nat /\ t.mInfoInc = 2 * u.mInfoInc
    BY <1>3, <1>6, <1>10
<1>13. Halved(u)
    BY <1>3, <1>6, <1>9, <1>11, <1>12 DEF Halved, s, p
<1>14. End(t) \in Nat /\ Slots(t) = 0 .. End(t) - 1 /\ InfoMax \in Nat
       /\ t.mInfo \in [0 .. End(t) -> 0 .. InfoMax] /\ 2 * t.mInfoInc - 1 <= InfoMax
       /\ t.mInfoInc \in Nat
    BY MemoryFacts
<1>15. u.mInfo = [i \in 0 .. End(t) |-> IF i = End(t) THEN 1 ELSE t.mInfo[i] \div 2]
    BY <1>3, <1>14 DEF HalvedBytes
<1>16. 1 <= InfoMax
    BY <1>7, <1>14
<1>17. ASSUME NEW i \in 0 .. End(t)
       PROVE  (IF i = End(t) THEN 1 ELSE t.mInfo[i] \div 2) \in 0 .. InfoMax
    <2>1. t.mInfo[i] \in 0 .. InfoMax
        BY <1>14
    <2> DEFINE v == t.mInfo[i]
    <2> HIDE DEF v
    <2>2. v \in 0 .. InfoMax => v \div 2 \in 0 .. InfoMax
        BY <1>14
    <2> QED
        BY <1>14, <1>16, <2>1, <2>2 DEF v
<1>18. u.mInfo \in [0 .. End(t) -> 0 .. InfoMax]
    BY <1>15, <1>17
<1>19. u.mInfo[End(t)] = 1
    BY <1>14, <1>15
<1>20. \A i \in Slots(t) : u.mInfo[i] = t.mInfo[i] \div 2
    BY <1>14, <1>15
<1>21. u \in Members
    <2>1. u.mKeyVals \in [0 .. End(t) - 1 -> Node \cup {NoNode}]
        BY <1>3, <1>14, MemoryFacts
    <2>2. End(t) + 1 \in Nat /\ (End(t) + 1) - 1 = End(t)
        BY <1>14
    <2>3. u.mInfo \in [0 .. (End(t) + 1) - 1 -> 0 .. InfoMax]
        BY <1>18, <2>2
    <2>4. t.mHashMultiplier \in 0 .. NumMultipliers - 1 /\ t.mMask \in Nat /\ t.mNumElements \in Nat
        BY <1>1, MembersType
    <2>5. Allowed(t) \in Nat
        BY <1>1, EndType
    <2>6. /\ u.mHashMultiplier \in 0 .. NumMultipliers - 1
          /\ u.mNumElements \in Nat /\ u.mMask \in Nat /\ u.mMaxNumElementsAllowed \in Nat
          /\ u.mInfoInc \in Nat /\ u.mInfoHashShift \in 0 .. InitialInfoNumBits - 1
        BY <2>4, <2>5, <1>3, <1>9, <1>12 DEF s
    <2> QED
        BY <1>3, <1>14, <2>1, <2>2, <2>3, <2>6, MembersOf
<1> QED
    BY <1>3, <1>12, <1>13, <1>18, <1>19, <1>20, <1>21

\* A byte and what is left of it.
LEMMA HalfByte ==
    ASSUME NEW hash \in Hashes, NEW t \in Members, NEW u \in Members, NEW k \in Keys,
           u.mHashMultiplier = t.mHashMultiplier,
           u.mInfoHashShift = t.mInfoHashShift + 1,
           t.mInfoInc = 2 * u.mInfoInc, Halved(t), Halved(u), NEW d \in Nat
    PROVE  InfoBy(hash, u, k, d) = InfoBy(hash, t, k, d) \div 2
<1> DEFINE x == hash[t.mHashMultiplier][k] % InitialInfoInc
           p == PowerOfTwo[t.mInfoHashShift]
           m == u.mInfoInc
           a == x \div p
           b == x \div (2 * p)
<1>1. x \in Nat
    BY HashType, InitialInfoIncType
<1>2. p \in Nat \ {0} /\ m \in Nat
    BY IncrementType
<1>3. PowerOfTwo[t.mInfoHashShift + 1] = 2 * p
    <2>1. t.mInfoHashShift \in Nat
        BY MembersType, HashAssumption
    <2> QED
        BY <2>1, PowerOfTwoSteps
<1>4. InfoBy(hash, t, k, d) = 2 * m + a + d * (2 * m)
    BY Zenon DEF InfoBy
<1>5. InfoBy(hash, u, k, d) = m + b + d * m
    BY <1>3, Zenon DEF InfoBy
<1> HIDE DEF x, p, m
<1>6. a \in Nat /\ b = a \div 2
    BY <1>1, <1>2
<1> HIDE DEF a, b
<1> DEFINE e == d * m
<1>7. e \in Nat /\ d * (2 * m) = 2 * e
    BY <1>2
<1>8. InfoBy(hash, t, k, d) = 2 * m + a + 2 * e /\ InfoBy(hash, u, k, d) = m + b + e
    BY <1>4, <1>5, <1>7
<1> HIDE DEF e
<1>9. (2 * m + a + 2 * e) \div 2 = m + (a \div 2) + e
    BY <1>2, <1>6, <1>7
<1> QED
    BY <1>6, <1>8, <1>9

\* What halving the info bytes does.
LEMMA IncreaseKeeps ==
    ASSUME NEW t, Sound(t), CanIncreaseInfo(t), NEW u, u = IncreaseInfo(t)
    PROVE  /\ Keeps(t, u)
           /\ NodesOf(u) = NodesOf(t)
           /\ u.mNumElements = t.mNumElements
           /\ u.mMaxNumElementsAllowed = Allowed(t)
<1>1. /\ u \in Members
      /\ u.mHashMultiplier = t.mHashMultiplier /\ u.mKeyVals = t.mKeyVals
      /\ u.mMask = t.mMask /\ u.mNumElements = t.mNumElements
      /\ u.mMaxNumElementsAllowed = Allowed(t)
      /\ u.mInfoHashShift = t.mInfoHashShift + 1
      /\ t.mInfoInc = 2 * u.mInfoInc /\ u.mInfoInc \in Nat
      /\ Halved(u)
    BY HalvedNumbers
<1>2. /\ u.mInfo \in [0 .. End(t) -> 0 .. InfoMax]
      /\ u.mInfo[End(t)] = 1
      /\ \A i \in Slots(t) : u.mInfo[i] = t.mInfo[i] \div 2
    BY HalvedNumbers
<1>3. program.hash \in Hashes /\ t \in Members /\ t.mMask # 0 /\ Halved(t) /\ Limited(t)
      /\ Distinct(t) /\ AtDistance(program.hash, t)
    BY DEF Sound, HasMemory
<1>4. End(u) = End(t) /\ Slots(u) = Slots(t) /\ Allowed(u) = Allowed(t)
    BY <1>1, Zenon DEF End, Slots, Allowed
<1>5. /\ End(t) \in Nat /\ Slots(t) = 0 .. End(t) - 1 /\ InfoMax \in Nat
      /\ t.mInfoInc \in Nat /\ t.mInfoInc >= 2 /\ 2 * t.mInfoInc - 1 <= InfoMax
    BY MemoryFacts
<1>6. \A i \in 0 .. End(t) : t.mInfo[i] \in Nat /\ t.mInfo[i] <= InfoMax /\ InfoAt(t, i) = t.mInfo[i]
    BY MemoryFacts
<1>7. Memory(u)
    <2>1. t.mKeyVals \in [Slots(t) -> Node \cup {NoNode}]
        BY MemoryFacts
    <2> QED
        BY <1>1, <1>2, <1>4, <2>1 DEF Memory
<1>8. Occupied(t) \subseteq Slots(t) /\ \A i \in Slots(t) : i \in 0 .. End(t) /\ i \in Nat
    BY <1>5, SlotFacts
<1>9. ASSUME NEW i \in Occupied(t)
      PROVE  t.mInfo[i] >= t.mInfoInc
    <2>1. InfoAt(t, i) >= t.mInfoInc
        BY NodeFacts
    <2> QED
        BY <1>6, <1>8, <2>1
<1>10. ASSUME NEW i \in Slots(t)
       PROVE  /\ u.mInfo[i] # 0 <=> t.mInfo[i] # 0
              /\ u.mInfo[i] # 0 <=> i \in Occupied(t)
    <2>1. t.mInfo[i] # 0 <=> i \in Occupied(t)
        BY DEF Occupied
    <2>2. t.mInfo[i] # 0 => t.mInfo[i] >= 2
        <3>1. t.mInfo[i] # 0 => t.mInfo[i] >= t.mInfoInc /\ t.mInfo[i] \in Nat
            BY <1>6, <1>8, <1>9, <2>1
        <3> QED
            BY <1>5, <3>1
    <2> DEFINE v == t.mInfo[i]
    <2>3. v \in Nat /\ u.mInfo[i] = v \div 2 /\ (v # 0 => v >= 2)
        BY <1>2, <1>6, <1>8, <2>2
    <2> HIDE DEF v
    <2>4. u.mInfo[i] # 0 <=> v # 0
        BY <2>3
    <2> QED
        BY <2>1, <2>4 DEF v
<1>11. Occupied(u) = Occupied(t)
    BY <1>4, <1>8, <1>10 DEF Occupied
<1>12. Taken(u)
    <2>1. \A i \in Slots(t) : i \in Occupied(t) <=> t.mKeyVals[i] # NoNode
        BY SlotFacts
    <2> QED
        BY <1>1, <1>4, <1>10, <2>1 DEF Taken
<1>13. AtDistance(program.hash, u)
    <2> SUFFICES ASSUME NEW i \in Occupied(t)
                 PROVE  /\ i >= HomeBy(program.hash, u, t.mKeyVals[i].key)
                        /\ u.mInfo[i] = InfoBy(program.hash, u, t.mKeyVals[i].key,
                                               i - HomeBy(program.hash, u, t.mKeyVals[i].key))
        BY <1>1, <1>11 DEF AtDistance
    <2> DEFINE k == t.mKeyVals[i].key
               h == HomeBy(program.hash, t, k)
               d == i - h
    <2>1. k \in Keys /\ i \in Nat
        BY NodeFacts
    <2>2. i >= h /\ t.mInfo[i] = InfoBy(program.hash, t, k, d)
        BY <1>3 DEF AtDistance
    <2>3. HomeBy(program.hash, u, k) = h
        BY <1>1, Zenon DEF HomeBy
    <2> HIDE DEF k
    <2>4. h \in 0 .. t.mMask /\ t.mMask \in Nat
        BY <1>3, <2>1, HomeType, MembersType
    <2> HIDE DEF h
    <2>5. d \in Nat
        BY <2>1, <2>2, <2>4
    <2> HIDE DEF d
    <2>6. InfoBy(program.hash, u, k, d) = InfoBy(program.hash, t, k, d) \div 2
        BY <1>1, <1>3, <2>1, <2>5, HalfByte
    <2>7. u.mInfo[i] = InfoBy(program.hash, u, k, d)
        BY <1>2, <1>8, <2>2, <2>6
    <2> QED
        BY <2>2, <2>3, <2>7 DEF k, d
<1>14. Sorted(u)
    <2> SUFFICES ASSUME NEW i \in Slots(t)
                 PROVE  \/ u.mInfo[i + 1] < 2 * u.mInfoInc
                        \/ u.mInfo[i] # 0 /\ u.mInfo[i + 1] <= u.mInfo[i] + u.mInfoInc
        BY <1>4 DEF Sorted
    <2> DEFINE m == u.mInfoInc
               v == t.mInfo[i]
               w == t.mInfo[i + 1]
    <2>1. i \in 0 .. End(t) /\ i + 1 \in 0 .. End(t) /\ (i + 1 # End(t) => i + 1 \in Slots(t))
        BY <1>5
    <2>2. m \in Nat /\ m # 0
        BY <1>1, <1>5
    <2>3. v \in Nat /\ w \in Nat /\ u.mInfo[i] = v \div 2
        BY <1>2, <1>6, <2>1
    <2>4. CASE i + 1 = End(t)
        BY <1>2, <2>2, <2>4
    <2>5. CASE i + 1 # End(t)
        <3>1. u.mInfo[i + 1] = w \div 2
            BY <1>2, <2>1, <2>5
        <3>2. w < 2 * t.mInfoInc \/ (v # 0 /\ w <= v + t.mInfoInc)
            BY DEF Sound, HasMemory, Sorted
        <3>3. w < 4 * m \/ (v # 0 /\ w <= v + 2 * m)
            BY <1>1, <2>2, <2>3, <3>2
        <3>4. v # 0 => u.mInfo[i] # 0
            BY <1>10
        <3> HIDE DEF m, v, w
        <3>5. w < 4 * m => w \div 2 < 2 * m
            BY <2>2, <2>3
        <3>6. w <= v + 2 * m => w \div 2 <= (v \div 2) + m
            BY <2>2, <2>3
        <3>7. w \div 2 < 2 * m \/ (u.mInfo[i] # 0 /\ w \div 2 <= (v \div 2) + m)
            BY <3>3, <3>4, <3>5, <3>6
        <3> QED
            BY <2>3, <3>1, <3>7 DEF m
    <2> QED
        BY <2>4, <2>5
<1>15. Distinct(u)
    BY <1>1, <1>3, <1>11 DEF Distinct
<1>16. AllFit(u)
    <2> SUFFICES ASSUME NEW i \in Occupied(t) PROVE Fits(u, u.mInfo[i])
        BY <1>11 DEF AllFit
    <2> DEFINE v == t.mInfo[i]
               m == u.mInfoInc
    <2>1. v \in Nat /\ v <= InfoMax /\ u.mInfo[i] = v \div 2
        BY <1>2, <1>6, <1>8
    <2>2. m \in Nat /\ 4 * m - 1 <= InfoMax /\ m # 0
        BY <1>1, <1>5
    <2> HIDE DEF v, m
    <2>3. (v \div 2) + m <= InfoMax
        BY <1>5, <2>1, <2>2
    <2> QED
        BY <2>1, <2>3 DEF Fits, m
<1>17. Limited(u)
    BY <1>1, <1>3, <1>4, <1>16 DEF Limited
<1>18. Counted(u)
    BY <1>1, <1>11, OccupiedFinite DEF Counted
<1>19. Sound(u)
    BY <1>1, <1>3, <1>7, <1>12, <1>13, <1>14, <1>15, <1>17, <1>18 DEF Sound, HasMemory
<1>20. NodesOf(u) = NodesOf(t)
    BY <1>1, <1>11 DEF NodesOf
<1> QED
    BY <1>1, <1>4, <1>19, <1>20 DEF Keeps

-----------------------------------------------------------------------------
(***************************************************************************)
(* New memory, and the nodes of the old one.                               *)
(***************************************************************************)

Multipliers == 0 .. NumMultipliers - 1

NoNodes(size)  == [i \in 0 .. calcNumElementsWithBuffer(size) - 1 |-> NoNode]
NoBytes(size)  == [i \in 0 .. calcNumElementsWithBuffer(size) |->
                      IF i = calcNumElementsWithBuffer(size) THEN 1 ELSE 0]

Fresh(multiplier, size, limit) ==
    [mHashMultiplier |-> multiplier, mKeyVals |-> NoNodes(size), mInfo |-> NoBytes(size),
     mNumElements |-> 0, mMask |-> size - 1, mMaxNumElementsAllowed |-> limit,
     mInfoInc |-> InitialInfoInc, mInfoHashShift |-> 0]

LEMMA FreshSound ==
    ASSUME program.hash \in Hashes, NEW multiplier \in Multipliers, NEW size \in Nat \ {0, 1},
           NEW limit \in {0, calcMaxNumElementsAllowed(size)},
           NEW u, u = Fresh(multiplier, size, limit)
    PROVE  /\ Sound(u)
           /\ Occupied(u) = {} /\ NodesOf(u) = {} /\ KeysFrom(u, 0) = {}
           /\ u.mNumElements = 0
           /\ u.mMask = size - 1
           /\ Allowed(u) = calcMaxNumElementsAllowed(size)
<1>1. /\ IsTable(u)
      /\ u.mHashMultiplier = multiplier /\ u.mKeyVals = NoNodes(size) /\ u.mInfo = NoBytes(size)
      /\ u.mNumElements = 0 /\ u.mMask = size - 1 /\ u.mMaxNumElementsAllowed = limit
      /\ u.mInfoInc = InitialInfoInc /\ u.mInfoHashShift = 0
    BY DEF Fresh, IsTable
<1> DEFINE n == calcNumElementsWithBuffer(size)
<1>2. size \in Nat /\ u.mMask \in Nat /\ u.mMask # 0 /\ u.mMask + 1 = size
    BY <1>1
<1>3. Allowed(u) = calcMaxNumElementsAllowed(size) /\ calcMaxNumElementsAllowed(size) \in Nat
    BY <1>2, AllowedType DEF Allowed
<1>4. n \in Nat /\ n >= size
    BY <1>2, BufferType
<1>5. End(u) = n
    BY <1>2 DEF End
<1>6. u.mKeyVals = [i \in 0 .. n - 1 |-> NoNode]
      /\ u.mInfo = [i \in 0 .. n |-> IF i = n THEN 1 ELSE 0]
    BY <1>1 DEF NoNodes, NoBytes
<1> HIDE DEF n
<1>7. InfoMax \in Nat /\ InfoMax >= 1
    BY InitialInfoIncType, HashAssumption
<1>8. u.mKeyVals \in [0 .. n - 1 -> Node \cup {NoNode}] /\ u.mInfo \in [0 .. n -> 0 .. InfoMax]
      /\ u.mInfo[n] = 1
    BY <1>4, <1>6, <1>7
<1>9. Slots(u) = 0 .. n - 1
    BY <1>5 DEF Slots
<1>10. \A i \in 0 .. n - 1 : u.mInfo[i] = 0 /\ u.mKeyVals[i] = NoNode
    BY <1>4, <1>6
<1>11. Occupied(u) = {}
    BY <1>9, <1>10 DEF Occupied
<1>12. u \in Members
    <2>1. n + 1 \in Nat /\ (n + 1) - 1 = n
        BY <1>4
    <2>2. u.mInfo \in [0 .. (n + 1) - 1 -> 0 .. InfoMax]
        BY <1>8, <2>1
    <2>3. InitialInfoInc \in Nat /\ 0 \in 0 .. InitialInfoNumBits - 1 /\ limit \in Nat
        BY <1>3, InitialInfoIncType, HashAssumption
    <2>4. /\ u.mHashMultiplier \in 0 .. NumMultipliers - 1
          /\ u.mNumElements \in Nat /\ u.mMask \in Nat /\ u.mMaxNumElementsAllowed \in Nat
          /\ u.mInfoInc \in Nat /\ u.mInfoHashShift \in 0 .. InitialInfoNumBits - 1
        BY <1>1, <1>2, <2>3 DEF Multipliers
    <2> QED
        BY <1>1, <1>4, <1>8, <2>1, <2>2, <2>4, MembersOf
<1>13. Memory(u)
    BY <1>5, <1>8, <1>9 DEF Memory
<1>14. Halved(u)
    <2>1. InitialInfoNumBits - 0 = InitialInfoNumBits
        BY HashAssumption
    <2> QED
        BY <1>1, <2>1, InitialInfoIncType DEF Halved, InitialInfoInc
<1>15. Taken(u)
    BY <1>9, <1>10 DEF Taken
<1>16. AtDistance(program.hash, u) /\ Distinct(u)
    BY <1>11, Zenon DEF AtDistance, Distinct
<1>17. Sorted(u)
    <2> SUFFICES ASSUME NEW i \in 0 .. n - 1
                 PROVE  u.mInfo[i + 1] < 2 * u.mInfoInc
        BY <1>9 DEF Sorted
    <2>1. i + 1 \in 0 .. n
        BY <1>4
    <2>2. u.mInfo[i + 1] \in {0, 1}
        BY <1>6, <2>1
    <2>3. u.mInfoInc \in Nat /\ u.mInfoInc >= 2
        BY <1>1, InitialInfoIncType
    <2> QED
        BY <2>2, <2>3
<1>18. Limited(u)
    <2>1. AllFit(u)
        BY <1>11, Zenon DEF AllFit
    <2>2. u.mNumElements <= Allowed(u)
        BY <1>1, <1>3
    <2> QED
        BY <1>1, <1>3, <2>1, <2>2 DEF Limited
<1>19. Counted(u)
    BY <1>1, <1>11, FS_EmptySet DEF Counted
<1>20. Sound(u)
    BY <1>2, <1>12, <1>13, <1>14, <1>15, <1>16, <1>17, <1>18, <1>19 DEF Sound, HasMemory
<1>21. NodesOf(u) = {} /\ KeysFrom(u, 0) = {}
    BY <1>11 DEF NodesOf, KeysFrom
<1> QED
    BY <1>1, <1>3, <1>11, <1>20, <1>21

\* initData() allocates it.
LEMMA InitDataFresh ==
    ASSUME NEW t, NEW size
    PROVE  initData(t, size) =
               Fresh(t.mHashMultiplier, size, calcMaxNumElementsAllowed(size))
BY Zenon DEF initData, Fresh, NoNodes, NoBytes

\* A Shape, from a table that is Sound.
LEMMA SoundShape ==
    ASSUME NEW t, Sound(t)
    PROVE  Shape(program.hash, t) /\ t.mMask # 0
BY DEF Sound, Shape, HasMemory

LEMMA ShapeSound ==
    ASSUME program.hash \in Hashes, NEW t, Shape(program.hash, t), t.mMask # 0
    PROVE  Sound(t)
BY ShapeCases DEF Sound

\* A table without memory, of any multiplier.
LEMMA NoMemoryShape ==
    ASSUME NEW multiplier \in Multipliers, NEW u, u = initMembers(multiplier)
    PROVE  /\ Shape(program.hash, u)
           /\ Occupied(u) = {} /\ NodesOf(u) = {}
           /\ u.mMask = 0 /\ u.mNumElements = 0
<1>1. /\ u.mHashMultiplier = multiplier /\ u.mKeyVals = <<>> /\ u.mInfo = <<>>
      /\ u.mNumElements = 0 /\ u.mMask = 0 /\ u.mMaxNumElementsAllowed = 0
      /\ u.mInfoInc = InitialInfoInc /\ u.mInfoHashShift = 0
      /\ IsTable(u)
    BY DEF initMembers, IsTable
<1>2. <<>> \in [0 .. 0 - 1 -> Node \cup {NoNode}] /\ <<>> \in [0 .. 0 - 1 -> 0 .. InfoMax]
    OBVIOUS
<1>3. InitialInfoInc \in Nat /\ 0 \in 0 .. InitialInfoNumBits - 1
    BY InitialInfoIncType, HashAssumption
<1>4. u \in Members
    <2>1. /\ u.mHashMultiplier \in 0 .. NumMultipliers - 1
          /\ u.mNumElements \in Nat /\ u.mMask \in Nat /\ u.mMaxNumElementsAllowed \in Nat
          /\ u.mInfoInc \in Nat /\ u.mInfoHashShift \in 0 .. InitialInfoNumBits - 1
        BY <1>1, <1>3 DEF Multipliers
    <2>2. 0 \in Nat
        OBVIOUS
    <2> QED
        BY <1>1, <1>2, <2>1, <2>2, MembersOf
<1>5. u = initMembers(u.mHashMultiplier)
    BY <1>1
<1>6. Shape(program.hash, u)
    BY <1>4, <1>5 DEF Shape
<1>7. Occupied(u) = {}
    BY <1>4, <1>5, NoMemory
<1> QED
    BY <1>1, <1>6, <1>7 DEF NodesOf

\* clear().
LEMMA ClearedShape ==
    ASSUME program.hash \in Hashes, NEW t, Shape(program.hash, t), NEW u, u = Cleared(t)
    PROVE  Shape(program.hash, u) /\ Occupied(u) = {} /\ NodesOf(u) = {}
<1>1. CASE isEmpty(t)
    <2>1. u = t
        BY <1>1 DEF Cleared
    <2>2. Cardinality(Occupied(t)) = 0
        BY <1>1, ShapeCases DEF isEmpty
    <2>3. IsFiniteSet(Occupied(t))
        <3>1. CASE t.mMask = 0
            BY <3>1, ShapeCases, NoMemory, FS_EmptySet
        <3>2. CASE t.mMask # 0
            BY <3>2, ShapeSound, OccupiedFinite
        <3> QED
            BY <3>1, <3>2
    <2>4. Occupied(t) = {}
        BY <2>2, <2>3, FS_EmptySet
    <2> QED
        BY <2>1, <2>4 DEF NodesOf
<1>2. CASE ~isEmpty(t)
    <2>1. t.mMask # 0
        BY <1>2, ShapeCases, NoMemory DEF isEmpty
    <2>2. Sound(t)
        BY <2>1, ShapeSound
    <2> DEFINE size == t.mMask + 1
               w == initData(t, size)
               limit == t.mMaxNumElementsAllowed
    <2>3. size \in Nat \ {0, 1}
        <3>1. t.mMask \in Nat
            BY <2>2, MemoryFacts
        <3> QED
            BY <2>1, <3>1
    <2>4. w = Fresh(t.mHashMultiplier, size, calcMaxNumElementsAllowed(size))
        BY InitDataFresh
    <2>5. IsTable(w)
        BY <2>4 DEF Fresh, IsTable
    <2>6. u = [w EXCEPT !.mMaxNumElementsAllowed = limit]
        BY <1>2, Zenon DEF Cleared
    <2>7. limit \in {0, calcMaxNumElementsAllowed(size)}
        BY <2>2 DEF Sound, HasMemory, Limited, Allowed
    <2>8. t.mHashMultiplier \in Multipliers
        BY <2>2, MemoryFacts, MembersType DEF Multipliers
    <2> HIDE DEF size, w, limit
    <2>9. u = [mHashMultiplier |-> w.mHashMultiplier, mKeyVals |-> w.mKeyVals,
               mInfo |-> w.mInfo, mNumElements |-> w.mNumElements, mMask |-> w.mMask,
               mMaxNumElementsAllowed |-> limit,
               mInfoInc |-> w.mInfoInc, mInfoHashShift |-> w.mInfoHashShift]
        BY <2>5, <2>6, Replaced, Zenon
    <2>10. u = Fresh(t.mHashMultiplier, size, limit)
        BY <2>4, <2>9 DEF Fresh
    <2> QED
        BY <2>3, <2>7, <2>8, <2>10, FreshSound, SoundShape
<1> QED
    BY <1>1, <1>2

-----------------------------------------------------------------------------
(* The nodes that are to be moved.                                         *)

OldNodes(t) == Restrict(t.mKeyVals, {i \in DOMAIN t.mKeyVals : t.mInfo[i] # 0})

LEMMA OldNodesType ==
    ASSUME program.hash \in Hashes, NEW t, Shape(program.hash, t),
           NEW old, old = OldNodes(t)
    PROVE  /\ DOMAIN old = Occupied(t)
           /\ Occupied(t) \in SUBSET Nat
           /\ IsFiniteSet(Occupied(t))
           /\ Cardinality(Occupied(t)) = t.mNumElements
           /\ old \in [DOMAIN old -> Node]
           /\ \A i \in DOMAIN old : old[i] = t.mKeyVals[i]
           /\ \A i, j \in DOMAIN old : old[i].key = old[j].key => i = j
           /\ Range(old) = NodesOf(t)
<1> DEFINE D == {i \in DOMAIN t.mKeyVals : t.mInfo[i] # 0}
<1>1. D = Occupied(t)
    <2>1. CASE t.mMask = 0
        <3>1. t.mKeyVals = <<>>
            BY <2>1, ShapeCases DEF initMembers
        <3>2. DOMAIN t.mKeyVals = {}
            BY <3>1
        <3>3. Occupied(t) = {}
            BY <2>1, ShapeCases, NoMemory
        <3> QED
            BY <3>2, <3>3
    <2>2. CASE t.mMask # 0
        <3>1. Sound(t)
            BY <2>2, ShapeSound
        <3>2. DOMAIN t.mKeyVals = Slots(t)
            BY <3>1, MemoryFacts
        <3> QED
            BY <3>2 DEF Occupied
    <2> QED
        BY <2>1, <2>2
<1> HIDE DEF D
<1>2. old = [i \in D |-> t.mKeyVals[i]]
    BY Zenon DEF OldNodes, Restrict, D
<1>3. DOMAIN old = Occupied(t) /\ \A i \in DOMAIN old : old[i] = t.mKeyVals[i]
    BY <1>1, <1>2
<1>4. Occupied(t) \in SUBSET Nat /\ IsFiniteSet(Occupied(t))
      /\ (\A i \in Occupied(t) : t.mKeyVals[i] \in Node)
      /\ \A i, j \in Occupied(t) : t.mKeyVals[i].key = t.mKeyVals[j].key => i = j
    <2>1. CASE t.mMask = 0
        <3>1. Occupied(t) = {}
            BY <2>1, ShapeCases, NoMemory
        <3> QED
            BY <3>1, FS_EmptySet
    <2>2. CASE t.mMask # 0
        <3>1. Sound(t)
            BY <2>2, ShapeSound
        <3>2. \A i \in Occupied(t) : i \in Nat /\ t.mKeyVals[i] \in Node
            BY <3>1, NodeFacts
        <3> QED
            BY <3>1, <3>2, OccupiedFinite, OneSlot
    <2> QED
        BY <2>1, <2>2
<1>5. old \in [DOMAIN old -> Node]
    BY <1>1, <1>2, <1>4
<1>6. \A i, j \in DOMAIN old : old[i].key = old[j].key => i = j
    BY <1>3, <1>4
<1>7. Range(old) = NodesOf(t)
    BY <1>3 DEF Range, NodesOf
<1>8. Cardinality(Occupied(t)) = t.mNumElements
    BY ShapeCases
<1> QED
    BY <1>3, <1>4, <1>5, <1>6, <1>7, <1>8

\* Rehashing begins: new memory of a size that is large enough, with any multiplier.
LEMMA RehashBegins ==
    ASSUME program.hash \in Hashes, NEW t, Shape(program.hash, t),
           NEW multiplier \in Multipliers, NEW size \in Nat \ {0, 1},
           t.mNumElements <= calcMaxNumElementsAllowed(size),
           NEW u, u = Fresh(multiplier, size, calcMaxNumElementsAllowed(size)),
           NEW old, old = OldNodes(t)
    PROVE  /\ Sound(u)
           /\ NodesOf(u) = {}
           /\ OldOK(old, u)
           /\ Range(old) = NodesOf(t)
<1>1. /\ Sound(u) /\ NodesOf(u) = {} /\ KeysFrom(u, 0) = {} /\ u.mNumElements = 0
      /\ Allowed(u) = calcMaxNumElementsAllowed(size)
    BY FreshSound
<1>2. /\ DOMAIN old = Occupied(t) /\ Occupied(t) \in SUBSET Nat /\ IsFiniteSet(Occupied(t))
      /\ Cardinality(Occupied(t)) = t.mNumElements
      /\ old \in [DOMAIN old -> Node]
      /\ \A i, j \in DOMAIN old : old[i].key = old[j].key => i = j
      /\ Range(old) = NodesOf(t)
    BY OldNodesType
<1>3. t.mNumElements \in Nat
    BY ShapeCases, MembersType
<1>4. u.mNumElements + Cardinality(DOMAIN old) <= Allowed(u)
    BY <1>1, <1>2, <1>3
<1>5. OldOK(old, u)
    BY <1>1, <1>2, <1>4, SoundShape DEF OldOK
<1> QED
    BY <1>1, <1>2, <1>5

-----------------------------------------------------------------------------
(***************************************************************************)
(* The steps of an insertion and of a rehash, on the table.                *)
(***************************************************************************)

KeysOf(nodes) == {node.key : node \in nodes}

LEMMA AllKeys ==
    ASSUME NEW t, Sound(t)
    PROVE  /\ KeysFrom(t, 0) = KeysOf(NodesOf(t))
           /\ NodesOf(t) \subseteq Node
<1>1. \A i \in Occupied(t) : i >= 0 /\ t.mKeyVals[i] \in Node
    <2> TAKE i \in Occupied(t)
    <2>1. i \in Nat /\ t.mKeyVals[i] \in Node
        BY NodeFacts
    <2> QED
        BY <2>1
<1> QED
    BY <1>1 DEF KeysFrom, KeysOf, NodesOf

LEMMA Fields ==
    ASSUME NEW u, NEW m, NEW n, NEW b, NEW c, NEW k, NEW l, NEW i, NEW h,
           u = [mHashMultiplier |-> m, mKeyVals |-> n, mInfo |-> b, mNumElements |-> c,
                mMask |-> k, mMaxNumElementsAllowed |-> l, mInfoInc |-> i, mInfoHashShift |-> h]
    PROVE  /\ IsTable(u)
           /\ u.mHashMultiplier = m /\ u.mKeyVals = n /\ u.mInfo = b /\ u.mNumElements = c
           /\ u.mMask = k /\ u.mMaxNumElementsAllowed = l /\ u.mInfoInc = i
           /\ u.mInfoHashShift = h
BY DEF IsTable

\* The value of a key that is there is replaced.
Assigned(t, i, v)  == [t EXCEPT !.mKeyVals[i].value = v]
NodeWith(k, v)     == [key |-> k, value |-> v]

LEMMA AssignKeeps ==
    ASSUME NEW t, Sound(t), NEW i \in Occupied(t), NEW v \in Values,
           NEW u, u = Assigned(t, i, v),
           NEW node, node = NodeWith(t.mKeyVals[i].key, v)
    PROVE  /\ Keeps(t, u)
           /\ node \in Node
           /\ NodesOf(u) = (NodesOf(t) \ {t.mKeyVals[i]}) \cup {node}
<1> DEFINE nodes == [t.mKeyVals EXCEPT ![i] = node]
<1>1. t \in Members /\ t.mMask # 0 /\ IsTable(t)
    BY MemoryFacts, MembersType DEF IsTable
<1>2. i \in Slots(t) /\ t.mKeyVals[i] \in Node /\ t.mKeyVals[i] # NoNode /\ t.mKeyVals[i].key \in Keys
    BY NodeFacts, SlotFacts
<1>3. [t.mKeyVals[i] EXCEPT !.value = v] = node /\ node \in Node
    BY <1>2 DEF Node, NodeWith
<1>4. [t.mKeyVals EXCEPT ![i].value = v] = nodes
    <2>1. [t.mKeyVals EXCEPT ![i].value = v] =
              [t.mKeyVals EXCEPT ![i] = [t.mKeyVals[i] EXCEPT !.value = v]]
        OBVIOUS
    <2> QED
        BY <1>3, <2>1
<1>5. u = [t EXCEPT !.mKeyVals = nodes]
    <2>1. u = [t EXCEPT !.mKeyVals = [t.mKeyVals EXCEPT ![i].value = v]]
        BY DEF Assigned
    <2> QED
        BY <1>4, <2>1
<1> HIDE DEF nodes
<1>6. u = [mHashMultiplier |-> t.mHashMultiplier, mKeyVals |-> nodes, mInfo |-> t.mInfo,
           mNumElements |-> t.mNumElements, mMask |-> t.mMask,
           mMaxNumElementsAllowed |-> t.mMaxNumElementsAllowed,
           mInfoInc |-> t.mInfoInc, mInfoHashShift |-> t.mInfoHashShift]
    BY <1>1, <1>5, Replaced, Zenon
<1>7. /\ IsTable(u) /\ SameNumbers(t, u)
      /\ u.mKeyVals = nodes /\ u.mInfo = t.mInfo /\ u.mNumElements = t.mNumElements
      /\ u.mMaxNumElementsAllowed = t.mMaxNumElementsAllowed
    <2>1. /\ IsTable(u)
          /\ u.mHashMultiplier = t.mHashMultiplier /\ u.mMask = t.mMask
          /\ u.mInfoInc = t.mInfoInc /\ u.mInfoHashShift = t.mInfoHashShift
          /\ u.mKeyVals = nodes /\ u.mInfo = t.mInfo /\ u.mNumElements = t.mNumElements
          /\ u.mMaxNumElementsAllowed = t.mMaxNumElementsAllowed
        BY <1>6, Fields
    <2> QED
        BY <2>1, Zenon DEF SameNumbers
<1>8. /\ End(u) = End(t) /\ Slots(u) = Slots(t) /\ Allowed(u) = Allowed(t)
      /\ (Halved(u) <=> Halved(t))
    BY <1>7, NumbersKept
<1>9. \A info : Fits(u, info) <=> Fits(t, info)
    BY <1>7, NumbersKept
<1>10. /\ \A k : HomeBy(program.hash, u, k) = HomeBy(program.hash, t, k)
       /\ \A k, d : InfoBy(program.hash, u, k, d) = InfoBy(program.hash, t, k, d)
    BY <1>7, NumbersKept
<1>11. /\ End(t) \in Nat /\ Slots(t) = 0 .. End(t) - 1
       /\ t.mKeyVals \in [Slots(t) -> Node \cup {NoNode}]
       /\ t.mInfo \in [0 .. End(t) -> 0 .. InfoMax]
    BY MemoryFacts
<1>12. u.mKeyVals \in [Slots(t) -> Node \cup {NoNode}]
    <2>1. node \in Node
        BY <1>3
    <2>2. u.mKeyVals = [t.mKeyVals EXCEPT ![i] = node]
        BY <1>7 DEF nodes
    <2> QED
        BY <1>11, <2>1, <2>2
<1>13. \A j \in Slots(t) : u.mKeyVals[j] = IF j = i THEN node ELSE t.mKeyVals[j]
    BY <1>7, <1>11 DEF nodes
<1>14. Occupied(u) = Occupied(t) /\ Occupied(t) \subseteq Slots(t)
    BY <1>7, <1>8, SlotFacts DEF Occupied
<1>15. \A j \in Slots(t) : /\ u.mKeyVals[j] # NoNode <=> t.mKeyVals[j] # NoNode
                           /\ j \in Occupied(t) => u.mKeyVals[j].key = t.mKeyVals[j].key
    <2>1. node # NoNode /\ node.key = t.mKeyVals[i].key
        BY <1>3, HashAssumption DEF NodeWith
    <2> QED
        BY <1>2, <1>13, <2>1
<1>16. u \in Members
    <2>1. u.mKeyVals \in [0 .. End(t) - 1 -> Node \cup {NoNode}]
        BY <1>11, <1>12
    <2>2. End(t) + 1 \in Nat /\ (End(t) + 1) - 1 = End(t)
        BY <1>11
    <2>3. u.mInfo \in [0 .. (End(t) + 1) - 1 -> 0 .. InfoMax]
        BY <1>7, <1>11, <2>2
    <2>4. /\ t.mHashMultiplier \in 0 .. NumMultipliers - 1
          /\ t.mNumElements \in Nat /\ t.mMask \in Nat /\ t.mMaxNumElementsAllowed \in Nat
          /\ t.mInfoInc \in Nat /\ t.mInfoHashShift \in 0 .. InitialInfoNumBits - 1
        BY <1>1, MembersType
    <2>5. /\ u.mHashMultiplier \in 0 .. NumMultipliers - 1
          /\ u.mNumElements \in Nat /\ u.mMask \in Nat /\ u.mMaxNumElementsAllowed \in Nat
          /\ u.mInfoInc \in Nat /\ u.mInfoHashShift \in 0 .. InitialInfoNumBits - 1
        BY <1>7, <2>4 DEF SameNumbers
    <2> QED
        BY <1>7, <1>11, <2>1, <2>2, <2>3, <2>5, MembersOf
<1>17. /\ program.hash \in Hashes /\ Memory(t) /\ Halved(t) /\ Taken(t)
       /\ AtDistance(program.hash, t) /\ Sorted(t) /\ Distinct(t) /\ Limited(t) /\ Counted(t)
    BY DEF Sound, HasMemory
<1>18. Memory(u)
    BY <1>7, <1>8, <1>12, <1>17 DEF Memory
<1>19. Taken(u)
    BY <1>7, <1>8, <1>15, <1>17 DEF Taken
<1>20. AtDistance(program.hash, u)
    <2>1. ASSUME NEW j \in Occupied(u)
          PROVE  /\ j >= HomeBy(program.hash, u, u.mKeyVals[j].key)
                 /\ u.mInfo[j] = InfoBy(program.hash, u, u.mKeyVals[j].key,
                                        j - HomeBy(program.hash, u, u.mKeyVals[j].key))
        <3> DEFINE k == u.mKeyVals[j].key
        <3>1. j \in Occupied(t) /\ k = t.mKeyVals[j].key
            BY <1>14, <1>15
        <3> HIDE DEF k
        <3>2. /\ j >= HomeBy(program.hash, t, k)
              /\ t.mInfo[j] = InfoBy(program.hash, t, k, j - HomeBy(program.hash, t, k))
            BY <1>17, <3>1, Zenon DEF AtDistance
        <3>3. HomeBy(program.hash, u, k) = HomeBy(program.hash, t, k)
              /\ \A d : InfoBy(program.hash, u, k, d) = InfoBy(program.hash, t, k, d)
            BY <1>10, Zenon
        <3>4. u.mInfo[j] = t.mInfo[j]
            BY <1>7
        <3>5. /\ j >= HomeBy(program.hash, u, k)
              /\ u.mInfo[j] = InfoBy(program.hash, u, k, j - HomeBy(program.hash, u, k))
            BY <3>2, <3>3, <3>4, Zenon
        <3> QED
            BY <3>5 DEF k
    <2> QED
        BY <2>1, Zenon DEF AtDistance
<1>21. Sorted(u)
    BY <1>7, <1>8, <1>17 DEF Sorted, SameNumbers
<1>22. Distinct(u)
    BY <1>14, <1>15, <1>17 DEF Distinct
<1>23. Limited(u)
    BY <1>7, <1>8, <1>9, <1>14, <1>17 DEF Limited, AllFit
<1>24. Counted(u)
    BY <1>7, <1>14, <1>17 DEF Counted
<1>25. Keeps(t, u)
    BY <1>1, <1>7, <1>8, <1>16, <1>17, <1>18, <1>19, <1>20, <1>21, <1>22, <1>23, <1>24
       DEF Keeps, Sound, HasMemory, SameNumbers
<1>26. NodesOf(u) \subseteq (NodesOf(t) \ {t.mKeyVals[i]}) \cup {node}
    <2> SUFFICES ASSUME NEW j \in Occupied(t), j # i
                 PROVE  t.mKeyVals[j] # t.mKeyVals[i]
        BY <1>13, <1>14 DEF NodesOf
    <2> QED
        BY OneSlot
<1>27. (NodesOf(t) \ {t.mKeyVals[i]}) \cup {node} \subseteq NodesOf(u)
    BY <1>13, <1>14 DEF NodesOf
<1> QED
    BY <1>3, <1>25, <1>26, <1>27

\* The node of an insertion takes the spot that was prepared.
LEMMA InsertKeeps ==
    ASSUME program.hash \in Hashes, NEW t, Shape(program.hash, t), NEW node \in Node,
           Candidates(t, node.key) = {}, ~Full(t),
           NEW u, u = Put(t, node, LastCandidate(t, node.key))
    PROVE  /\ Sound(t)
           /\ Keeps(t, u)
           /\ node.key \notin KeysOf(NodesOf(t))
           /\ NodesOf(u) = NodesOf(t) \cup {node}
<1>1. t \in Members /\ node.key \in Keys
    BY ShapeCases DEF Node
<1>2. t.mMask # 0
    BY <1>1, ShapeCases, NoMemory DEF Full
<1>3. Sound(t)
    BY <1>2, ShapeSound
<1>4. /\ t.mNumElements \in Nat /\ t.mMaxNumElementsAllowed \in Nat
      /\ t.mMaxNumElementsAllowed \in {0, Allowed(t)}
      /\ t.mMaxNumElementsAllowed # 0 => AllFit(t)
    BY <1>1, <1>3, MembersType DEF Sound, HasMemory, Limited
<1>5. t.mNumElements < Allowed(t) /\ AllFit(t)
    BY <1>4 DEF Full
<1>6. \A i \in Occupied(t) : t.mKeyVals[i].key # node.key
    BY <1>1, <1>3, CandidatesFound
<1>7. Place(t, node.key, LastCandidate(t, node.key))
    BY <1>1, <1>3, AfterEqualBytes
<1>8. MayPut(t, node, LastCandidate(t, node.key))
    BY <1>3, <1>5, <1>6, <1>7 DEF MayPut
<1>9. node.key \notin KeysOf(NodesOf(t))
    BY <1>6 DEF KeysOf, NodesOf
<1> QED
    BY <1>3, <1>8, <1>9, PutKeeps

\* A node of the old memory is moved to a table that has room and bytes for it.
LEMMA MoveOne ==
    ASSUME NEW t, Sound(t), NEW old, OldOK(old, t), t.mMaxNumElementsAllowed # 0,
           NEW i \in DOMAIN old, NEW u, u = insert_move(t, old[i])
    PROVE  /\ Keeps(t, u)
           /\ NodesOf(u) = NodesOf(t) \cup {old[i]}
           /\ u.mNumElements = t.mNumElements + 1
<1>1. old[i] \in Node /\ old[i].key \in Keys
    BY DEF OldOK, Node
<1>2. AllFit(t)
    BY DEF Sound, HasMemory, Limited
<1>3. t.mNumElements < Allowed(t)
    <2>1. IsFiniteSet(DOMAIN old) /\ t.mNumElements + Cardinality(DOMAIN old) <= Allowed(t)
        BY DEF OldOK
    <2>2. Cardinality(DOMAIN old) \in Nat /\ Cardinality(DOMAIN old) # 0
        BY <2>1, FS_CardinalityType, FS_EmptySet
    <2>3. t.mNumElements \in Nat /\ Allowed(t) \in Nat
        <3>1. t \in Members /\ t.mMask # 0
            BY MemoryFacts
        <3> QED
            BY <3>1, EndType, MembersType
    <2> QED
        BY <2>1, <2>2, <2>3
<1>4. \A j \in Occupied(t) : t.mKeyVals[j].key # old[i].key
    BY AllKeys DEF OldOK, KeysOf, NodesOf
<1> DEFINE k == old[i].key
           d == Min({e \in Distances(t) : Info(t, k, e) > Seen(t, k, e)})
<1>5. Place(t, k, d)
    BY <1>1, FirstLarger
<1>6. u = Put(t, old[i], d)
    BY Zenon DEF insert_move
<1> HIDE DEF d
<1>7. MayPut(t, old[i], d)
    BY <1>1, <1>2, <1>3, <1>4, <1>5 DEF MayPut
<1> QED
    BY <1>6, <1>7, PutKeeps

LEMMA MoveKeeps ==
    ASSUME NEW t, Sound(t), NEW old, OldOK(old, t), old # <<>>,
           ~(t.mMaxNumElementsAllowed = 0 /\ ~CanIncreaseInfo(t)),
           NEW i, i = Min(DOMAIN old),
           NEW u, u = insert_move(IF t.mMaxNumElementsAllowed = 0 THEN IncreaseInfo(t) ELSE t,
                                  old[i]),
           NEW rest, rest = Restrict(old, DOMAIN old \ {i})
    PROVE  /\ Keeps(t, u)
           /\ OldOK(rest, u)
           /\ NodesOf(u) \cup Range(rest) = NodesOf(t) \cup Range(old)
<1>1. DOMAIN old \in SUBSET Nat /\ IsFiniteSet(DOMAIN old) /\ old \in [DOMAIN old -> Node]
    BY DEF OldOK
<1>2. DOMAIN old # {}
    <2>1. DOMAIN old = {} => old = <<>>
        BY <1>1
    <2> QED
        BY <2>1
<1>3. i \in DOMAIN old
    BY <1>1, <1>2, LeastNat
<1> DEFINE w == IF t.mMaxNumElementsAllowed = 0 THEN IncreaseInfo(t) ELSE t
<1>4. /\ Keeps(t, w) /\ NodesOf(w) = NodesOf(t) /\ w.mNumElements = t.mNumElements
      /\ w.mMaxNumElementsAllowed # 0
    <2>1. CASE t.mMaxNumElementsAllowed = 0
        <3>1. w = IncreaseInfo(t) /\ CanIncreaseInfo(t)
            BY <2>1
        <3> HIDE DEF w
        <3>2. /\ Keeps(t, w) /\ NodesOf(w) = NodesOf(t) /\ w.mNumElements = t.mNumElements
              /\ w.mMaxNumElementsAllowed = Allowed(t)
            BY <3>1, IncreaseKeeps
        <3>3. Allowed(t) # 0
            <4>1. t.mNumElements + Cardinality(DOMAIN old) <= Allowed(t)
                BY DEF OldOK
            <4>2. Cardinality(DOMAIN old) \in Nat /\ Cardinality(DOMAIN old) # 0
                BY <1>1, <1>2, FS_CardinalityType, FS_EmptySet
            <4>3. t.mNumElements \in Nat
                BY MemoryFacts, MembersType
            <4> QED
                BY <4>1, <4>2, <4>3
        <3> QED
            BY <3>2, <3>3
    <2>2. CASE t.mMaxNumElementsAllowed # 0
        BY <2>2 DEF Keeps
    <2> QED
        BY <2>1, <2>2
<1> HIDE DEF w
<1>5. Sound(w) /\ Allowed(w) = Allowed(t) /\ w.mMask = t.mMask
    BY <1>4 DEF Keeps
<1>6. KeysFrom(w, 0) = KeysFrom(t, 0)
    BY <1>4, <1>5, AllKeys
<1>7. OldOK(old, w)
    BY <1>4, <1>5, <1>6 DEF OldOK
<1>8. u = insert_move(w, old[i])
    BY DEF w
<1>9. Keeps(w, u) /\ NodesOf(u) = NodesOf(w) \cup {old[i]} /\ u.mNumElements = w.mNumElements + 1
    BY <1>3, <1>4, <1>5, <1>7, <1>8, MoveOne
<1>10. Sound(u) /\ Allowed(u) = Allowed(t) /\ u.mMask = t.mMask
    BY <1>5, <1>9 DEF Keeps
<1>11. rest = [j \in DOMAIN old \ {i} |-> old[j]]
    BY Zenon DEF Restrict
<1>12. DOMAIN rest = DOMAIN old \ {i} /\ \A j \in DOMAIN rest : rest[j] = old[j]
    BY <1>11
<1>13. DOMAIN rest \in SUBSET Nat /\ rest \in [DOMAIN rest -> Node]
    BY <1>1, <1>11, <1>12
<1>14. IsFiniteSet(DOMAIN rest) /\ Cardinality(DOMAIN rest) = Cardinality(DOMAIN old) - 1
    BY <1>1, <1>3, <1>12, FS_RemoveElement
<1>15. \A j, m \in DOMAIN rest : rest[j].key = rest[m].key => j = m
    <2>1. \A j, m \in DOMAIN old : old[j].key = old[m].key => j = m
        BY Zenon DEF OldOK
    <2> QED
        BY <1>12, <2>1
<1>16. KeysFrom(u, 0) = KeysFrom(t, 0) \cup {old[i].key}
    <2>1. KeysOf(NodesOf(u)) = KeysOf(NodesOf(t)) \cup {old[i].key}
        BY <1>4, <1>9 DEF KeysOf
    <2> QED
        BY <1>10, <2>1, AllKeys
<1>17. \A j \in DOMAIN rest : rest[j].key \notin KeysFrom(u, 0)
    <2>1. \A j \in DOMAIN old : old[j].key \notin KeysFrom(t, 0)
        BY DEF OldOK
    <2>2. \A j \in DOMAIN old : old[j].key = old[i].key => j = i
        BY <1>3 DEF OldOK
    <2> QED
        BY <1>12, <1>16, <2>1, <2>2
<1>18. u.mNumElements + Cardinality(DOMAIN rest) <= Allowed(u)
    <2>1. t.mNumElements + Cardinality(DOMAIN old) <= Allowed(t)
        BY DEF OldOK
    <2>2. Cardinality(DOMAIN old) \in Nat
        BY <1>1, FS_CardinalityType
    <2>3. t.mNumElements \in Nat /\ Allowed(t) \in Nat
        <3>1. t \in Members /\ t.mMask # 0
            BY MemoryFacts
        <3> QED
            BY <3>1, EndType, MembersType
    <2>4. u.mNumElements = t.mNumElements + 1
        BY <1>4, <1>9
    <2> QED
        BY <1>10, <1>14, <2>1, <2>2, <2>3, <2>4
<1>19. u.mMask # 0
    BY <1>10, SoundShape
<1>20. OldOK(rest, u)
    BY <1>13, <1>14, <1>15, <1>17, <1>18, <1>19 DEF OldOK
<1>21. Range(rest) \cup {old[i]} = Range(old)
    BY <1>3, <1>12 DEF Range
<1>22. NodesOf(u) \cup Range(rest) = NodesOf(t) \cup Range(old)
    BY <1>4, <1>9, <1>21
<1> QED
    BY <1>10, <1>20, <1>22 DEF Keeps

-----------------------------------------------------------------------------
(***************************************************************************)
(* Iterators: what is ahead of one.                                        *)
(***************************************************************************)

LEMMA NextNode ==
    ASSUME NEW t, Sound(t), NEW i \in Nat, i <= End(t), NEW j, j = fastForward(t, i)
    PROVE  /\ j \in Occupied(t) \cup {End(t)}
           /\ KeysFrom(t, j) = KeysFrom(t, i)
<1> DEFINE T == {m \in i .. End(t) : InfoAt(t, m) # 0}
<1>1. End(t) \in Nat /\ InfoAt(t, End(t)) = 1 /\ Slots(t) = 0 .. End(t) - 1
    BY MemoryFacts
<1>2. T \in SUBSET Nat /\ End(t) \in T
    BY <1>1
<1>3. j = Min(T)
    BY DEF fastForward
<1>4. j \in T /\ \A m \in T : j <= m
    BY <1>2, <1>3, LeastNat
<1>5. j \in Nat /\ i <= j /\ j <= End(t) /\ InfoAt(t, j) # 0
    BY <1>1, <1>4
<1>6. j \in Occupied(t) \cup {End(t)}
    <2>1. j \in Slots(t) \/ j = End(t)
        BY <1>1, <1>5
    <2> QED
        BY <1>5, <2>1, SlotFacts
<1>7. \A m \in Occupied(t) : m >= i <=> m >= j
    <2> TAKE m \in Occupied(t)
    <2>1. m \in Nat /\ m < End(t) /\ InfoAt(t, m) # 0
        <3>1. m \in Nat /\ m < End(t)
            BY NodeFacts
        <3>2. InfoAt(t, m) # 0
            BY SlotFacts
        <3> QED
            BY <3>1, <3>2
    <2>2. m >= i => m \in T
        BY <1>1, <2>1
    <2> HIDE DEF T
    <2> QED
        BY <1>4, <1>5, <2>1, <2>2
<1> HIDE DEF T
<1>8. {m \in Occupied(t) : m >= j} = {m \in Occupied(t) : m >= i}
    BY <1>7
<1>9. KeysFrom(t, j) = KeysFrom(t, i)
    BY <1>8, Zenon DEF KeysFrom
<1> QED
    BY <1>6, <1>9

LEMMA OneAhead ==
    ASSUME NEW t, Sound(t), NEW i \in Nat, i < End(t)
    PROVE  /\ i \in Occupied(t) => /\ KeysFrom(t, i) = KeysFrom(t, i + 1) \cup {t.mKeyVals[i].key}
                                   /\ t.mKeyVals[i].key \notin KeysFrom(t, i + 1)
           /\ i \notin Occupied(t) => KeysFrom(t, i) = KeysFrom(t, i + 1)
<1>1. \A m \in Occupied(t) : m \in Nat
    BY NodeFacts
<1>2. \A m \in Occupied(t) : m >= i <=> m = i \/ m >= i + 1
    BY <1>1
<1>3. i \notin {m \in Occupied(t) : m >= i + 1}
    BY <1>1
<1>4. ASSUME i \in Occupied(t)
      PROVE  /\ KeysFrom(t, i) = KeysFrom(t, i + 1) \cup {t.mKeyVals[i].key}
             /\ t.mKeyVals[i].key \notin KeysFrom(t, i + 1)
    <2>1. {m \in Occupied(t) : m >= i} = {m \in Occupied(t) : m >= i + 1} \cup {i}
        BY <1>2, <1>4
    <2>2. KeysFrom(t, i) = KeysFrom(t, i + 1) \cup {t.mKeyVals[i].key}
        BY <2>1 DEF KeysFrom
    <2>3. \A m \in Occupied(t) : t.mKeyVals[m].key = t.mKeyVals[i].key => m = i
        BY <1>4, OneSlot
    <2>4. t.mKeyVals[i].key \notin KeysFrom(t, i + 1)
        BY <1>3, <2>3 DEF KeysFrom
    <2> QED
        BY <2>2, <2>4
<1>5. ASSUME i \notin Occupied(t)
      PROVE  KeysFrom(t, i) = KeysFrom(t, i + 1)
    <2>1. {m \in Occupied(t) : m >= i} = {m \in Occupied(t) : m >= i + 1}
        BY <1>2, <1>5
    <2> QED
        BY <2>1, Zenon DEF KeysFrom
<1> QED
    BY <1>4, <1>5

LEMMA NothingAhead ==
    ASSUME program.hash \in Hashes, NEW t, Shape(program.hash, t)
    PROVE  KeysFrom(t, End(t)) = {} /\ End(t) \notin Occupied(t)
<1>1. CASE t.mMask = 0
    <2>1. Occupied(t) = {}
        BY <1>1, ShapeCases, NoMemory
    <2> QED
        BY <2>1 DEF KeysFrom
<1>2. CASE t.mMask # 0
    <2>1. Sound(t)
        BY <1>2, ShapeSound
    <2>2. End(t) \in Nat
        BY <2>1, MemoryFacts
    <2>3. \A m \in Occupied(t) : m \in Nat /\ m < End(t)
        BY <2>1, NodeFacts
    <2>4. \A m \in Occupied(t) : ~(m >= End(t)) /\ m # End(t)
        BY <2>2, <2>3
    <2> QED
        BY <2>4 DEF KeysFrom
<1> QED
    BY <1>1, <1>2

\* A table with a node has memory.
LEMMA OccupiedSound ==
    ASSUME program.hash \in Hashes, NEW t, Shape(program.hash, t), NEW i \in Occupied(t)
    PROVE  Sound(t)
<1>1. t.mMask # 0
    BY ShapeCases, NoMemory
<1> QED
    BY <1>1, ShapeSound

\* begin() has all of them ahead.
LEMMA BeginAhead ==
    ASSUME program.hash \in Hashes, NEW t, Shape(program.hash, t), NEW i, i = begin(t)
    PROVE  /\ i \in Occupied(t) \cup {End(t)}
           /\ KeysFrom(t, i) = KeysOf(NodesOf(t))
<1>1. CASE isEmpty(t)
    <2>1. i = End(t)
        BY <1>1 DEF begin
    <2>2. Occupied(t) = {}
        <3>1. t.mMask = 0 => Occupied(t) = {}
            BY ShapeCases, NoMemory
        <3>2. t.mMask # 0 => IsFiniteSet(Occupied(t)) /\ Cardinality(Occupied(t)) = 0
            BY <1>1, ShapeSound, OccupiedFinite DEF isEmpty
        <3> QED
            BY <3>1, <3>2, FS_EmptySet
    <2> QED
        BY <2>1, <2>2 DEF KeysFrom, KeysOf, NodesOf
<1>2. CASE ~isEmpty(t)
    <2>1. i = fastForward(t, 0)
        BY <1>2 DEF begin
    <2>2. t.mMask # 0
        BY <1>2, ShapeCases, NoMemory DEF isEmpty
    <2>3. Sound(t)
        BY <2>2, ShapeSound
    <2>4. 0 \in Nat /\ 0 <= End(t)
        BY <2>3, MemoryFacts
    <2>5. i \in Occupied(t) \cup {End(t)} /\ KeysFrom(t, i) = KeysFrom(t, 0)
        BY <2>1, <2>3, <2>4, NextNode
    <2> QED
        BY <2>3, <2>5, AllKeys
<1> QED
    BY <1>1, <1>2

\* What is ahead after operator++ ...
LEMMA AdvanceAhead ==
    ASSUME NEW t, Sound(t), NEW i \in Occupied(t), NEW j, j = fastForward(t, i + 1)
    PROVE  /\ j \in Occupied(t) \cup {End(t)}
           /\ KeysFrom(t, j) = KeysFrom(t, i) \ {t.mKeyVals[i].key}
           /\ t.mKeyVals[i].key \in KeysFrom(t, i)
<1>1. i \in Nat /\ i < End(t) /\ End(t) \in Nat
    BY NodeFacts, MemoryFacts
<1>2. i + 1 \in Nat /\ i + 1 <= End(t)
    BY <1>1
<1>3. j \in Occupied(t) \cup {End(t)} /\ KeysFrom(t, j) = KeysFrom(t, i + 1)
    BY <1>2, NextNode
<1>4. KeysFrom(t, i) = KeysFrom(t, i + 1) \cup {t.mKeyVals[i].key}
      /\ t.mKeyVals[i].key \notin KeysFrom(t, i + 1)
    BY <1>1, OneAhead
<1> QED
    BY <1>3, <1>4

\* ... and after an erasure.
LEMMA EraseAhead ==
    ASSUME NEW t, Sound(t), NEW i \in Occupied(t), NEW u, u = shiftDown(t, i),
           NEW j, j = AfterErase(u, i)
    PROVE  /\ j \in Occupied(u) \cup {End(u)}
           /\ KeysFrom(u, j) = KeysFrom(t, i) \ {t.mKeyVals[i].key}
           /\ t.mKeyVals[i].key \in KeysFrom(t, i)
<1>1. i \in Nat /\ i < End(t) /\ End(t) \in Nat
    BY NodeFacts, MemoryFacts
<1>2. Sound(u) /\ End(u) = End(t) /\ KeysFrom(u, i) = KeysFrom(t, i) \ {t.mKeyVals[i].key}
    BY RemoveKeeps DEF Keeps
<1>3. t.mKeyVals[i].key \in KeysFrom(t, i)
    BY <1>1, OneAhead
<1>4. i \in Slots(u)
    BY <1>1, <1>2, MemoryFacts
<1>5. CASE InfoAt(u, i) # 0
    <2>1. j = i /\ i \in Occupied(u)
        BY <1>2, <1>4, <1>5, SlotFacts DEF AfterErase
    <2> QED
        BY <1>2, <1>3, <2>1
<1>6. CASE InfoAt(u, i) = 0
    <2>1. j = fastForward(u, i + 1) /\ i \notin Occupied(u)
        BY <1>2, <1>4, <1>6, SlotFacts DEF AfterErase
    <2>2. i + 1 \in Nat /\ i + 1 <= End(u)
        BY <1>1, <1>2
    <2>3. j \in Occupied(u) \cup {End(u)} /\ KeysFrom(u, j) = KeysFrom(u, i + 1)
        BY <1>2, <2>1, <2>2, NextNode
    <2>4. KeysFrom(u, i) = KeysFrom(u, i + 1)
        BY <1>1, <1>2, <2>1, OneAhead
    <2> QED
        BY <1>2, <1>3, <2>3, <2>4
<1> QED
    BY <1>5, <1>6

-----------------------------------------------------------------------------
(***************************************************************************)
(* The steps: what a change of a table does to the nodes there are.        *)
(***************************************************************************)

\* The nodes of table t become these, and those of the others stay.
Changed(t, nodes) == \A n \in Tables : NodesIn(n)' = IF n = t THEN nodes ELSE NodesIn(n)

\* No nodes are being moved.
Settled == call \in InsertCalls \cup {Idle}

LEMMA SettledAt ==
    ASSUME NEW c \in InsertCalls \cup {Idle}
    PROVE  c.at # "rehash"
BY DEF InsertCalls, Idle

LEMMA CallTypes ==
    ASSUME CallOK
    PROVE  /\ call.at \in {"insert", "idle", "rehash"}
           /\ call.at = "insert" => call \in InsertCalls
           /\ call.at = "idle" => call = Idle
           /\ call.at = "rehash" => Moving
           /\ Settled => call.at # "rehash"
           /\ IsIdle => Settled
           /\ Settled /\ ~IsIdle => call \in InsertCalls
<1>1. ASSUME call \in InsertCalls
      PROVE  call.at = "insert"
    BY <1>1 DEF InsertCalls
<1>2. Idle.at = "idle"
    BY DEF Idle
<1>3. Moving => call.at = "rehash"
    BY Zenon DEF Moving
<1> QED
    BY <1>1, <1>2, <1>3 DEF CallOK, Settled, IsIdle

LEMMA SettledNodes ==
    ASSUME Settled, NEW t
    PROVE  NodesIn(t) = NodesOf(table[t])
<1>1. call.at # "rehash"
    BY SettledAt DEF Settled
<1> QED
    BY <1>1 DEF NodesIn, NodesOf

LEMMA MovingNodes ==
    ASSUME Moving, NEW t
    PROVE  NodesIn(t) = NodesOf(table[t]) \cup (IF t = call.table THEN Range(call.old) ELSE {})
<1>1. call.at = "rehash"
    BY DEF Moving
<1> QED
    BY <1>1 DEF NodesIn, NodesOf

\* The tables, as an array.
LEMMA ShapesType ==
    ASSUME ShapesOK
    PROVE  /\ program \in Programs /\ program.hash \in Hashes
           /\ program.tables \subseteq Tables /\ program.nodes \subseteq Node
           /\ program.sizes \subseteq Nat
           /\ DOMAIN table = Tables
           /\ \A t \in Tables : /\ Shape(program.hash, table[t])
                                /\ table[t] \in Members
                                /\ table[t].mHashMultiplier \in Multipliers
                                /\ table[t].mNumElements \in Nat
<1>1. program \in Programs /\ \A t \in Tables : Shape(program.hash, table[t])
    BY DEF ShapesOK
<1>2. DOMAIN table = Tables
    <2>1. \A f : f = [name \in Tables |-> table[name]] => DOMAIN f = Tables
        OBVIOUS
    <2> QED
        BY <2>1, Zenon DEF ShapesOK
<1>3. \A t \in Tables : /\ table[t] \in Members
                        /\ table[t].mHashMultiplier \in Multipliers
                        /\ table[t].mNumElements \in Nat
    BY <1>1, ShapeCases, MembersType DEF Multipliers
<1> QED
    BY <1>1, <1>2, <1>3, ProgramType

\* One table is replaced, and two.
LEMMA OneReplaced ==
    ASSUME ShapesOK, NEW t \in Tables, NEW members, Shape(program.hash, members),
           table' = [table EXCEPT ![t] = members], program' = program
    PROVE  /\ ShapesOK'
           /\ table'[t] = members
           /\ \A n \in Tables : n # t => table'[n] = table[n]
<1>1. DOMAIN table = Tables /\ \A n \in Tables : Shape(program.hash, table[n])
    BY ShapesType
<1>2. table'[t] = members /\ \A n \in Tables : n # t => table'[n] = table[n]
    BY <1>1
<1>3. table' = [n \in Tables |-> table'[n]]
    BY <1>1
<1>4. \A n \in Tables : Shape(program.hash, table'[n])
    BY <1>1, <1>2
<1>5. program' \in Programs
    BY DEF ShapesOK
<1> QED
    BY <1>2, <1>3, <1>4, <1>5 DEF ShapesOK

LEMMA TwoReplaced ==
    ASSUME ShapesOK, NEW t \in Tables, NEW u \in Tables,
           NEW members, Shape(program.hash, members), NEW others, Shape(program.hash, others),
           SetBoth(t, members, u, others)
    PROVE  /\ ShapesOK' /\ t # u
           /\ table'[t] = members /\ table'[u] = others
           /\ \A n \in Tables : n # t /\ n # u => table'[n] = table[n]
<1>1. DOMAIN table = Tables /\ \A n \in Tables : Shape(program.hash, table[n])
    BY ShapesType
<1>0. t # u /\ table' = [table EXCEPT ![t] = members, ![u] = others] /\ program' = program
    BY Zenon DEF SetBoth
<1>2. /\ table'[t] = members /\ table'[u] = others
      /\ \A n \in Tables : n # t /\ n # u => table'[n] = table[n]
    BY <1>0, <1>1
<1>3. table' = [n \in Tables |-> table'[n]]
    BY <1>0, <1>1
<1>4. \A n \in Tables : Shape(program.hash, table'[n])
    BY <1>0, <1>1, <1>2
<1>5. program' \in Programs
    BY <1>0 DEF ShapesOK
<1> QED
    BY <1>0, <1>2, <1>3, <1>4, <1>5 DEF ShapesOK

\* Most calls replace the members of a table in one step.
LEMMA SetStep ==
    ASSUME Invariant, Settled, NEW t \in Tables, NEW members, Shape(program.hash, members),
           Set(t, members), Settled'
    PROVE  Invariant' /\ Changed(t, NodesOf(members))
<1>1. ShapesOK'
      /\ table'[t] = members /\ \A n \in Tables : n # t => table'[n] = table[n]
    BY OneReplaced DEF Set, Invariant
<1>2. IterationOK'
    BY DEF Set, IterationOK
<1>3. CallOK'
    BY DEF CallOK, Settled
<1>4. \A n \in Tables : NodesIn(n)' = NodesOf(table'[n])
    <2>1. call'.at # "rehash"
        BY SettledAt DEF Settled
    <2> QED
        BY <2>1 DEF NodesIn, NodesOf
<1>5. \A n \in Tables : NodesIn(n) = NodesOf(table[n])
    BY SettledNodes
<1> QED
    BY <1>1, <1>2, <1>3, <1>4, <1>5 DEF Invariant, Changed

LEMMA SetBothStep ==
    ASSUME Invariant, Settled, NEW t \in Tables, NEW u \in Tables,
           NEW members, Shape(program.hash, members), NEW others, Shape(program.hash, others),
           SetBoth(t, members, u, others), Settled'
    PROVE  /\ Invariant' /\ t # u
           /\ \A n \in Tables : NodesIn(n)' = IF n = t THEN NodesOf(members)
                                              ELSE IF n = u THEN NodesOf(others)
                                              ELSE NodesIn(n)
<1>1. /\ ShapesOK' /\ t # u
      /\ table'[t] = members /\ table'[u] = others
      /\ \A n \in Tables : n # t /\ n # u => table'[n] = table[n]
    <2>1. ShapesOK
        BY DEF Invariant
    <2> QED
        BY <2>1, TwoReplaced
<1>2. IterationOK'
    BY DEF SetBoth, IterationOK
<1>3. CallOK'
    BY DEF CallOK, Settled
<1>4. \A n \in Tables : NodesIn(n)' = NodesOf(table'[n])
    <2>1. call'.at # "rehash"
        BY SettledAt DEF Settled
    <2> QED
        BY <2>1 DEF NodesIn, NodesOf
<1>5. \A n \in Tables : NodesIn(n) = NodesOf(table[n])
    BY SettledNodes
<1> QED
    BY <1>1, <1>2, <1>3, <1>4, <1>5 DEF Invariant

\* Nothing happens to the tables.
LEMMA KeepStep ==
    ASSUME Invariant, Settled, UNCHANGED <<program, table>>, Settled', IterationOK'
    PROVE  Invariant' /\ \A n \in Tables : NodesIn(n)' = NodesIn(n)
<1>1. ShapesOK'
    BY DEF ShapesOK, Invariant
<1>2. CallOK'
    BY DEF CallOK, Settled
<1>3. \A n \in Tables : NodesIn(n)' = NodesOf(table'[n])
    <2>1. call'.at # "rehash"
        BY SettledAt DEF Settled
    <2> QED
        BY <2>1 DEF NodesIn, NodesOf
<1>4. \A n \in Tables : NodesIn(n) = NodesOf(table[n])
    BY SettledNodes
<1> QED
    BY <1>1, <1>2, <1>3, <1>4 DEF Invariant

\* Nodes begin to be moved to new memory.
LEMMA RehashStep ==
    ASSUME Invariant, Settled, NEW t \in Tables, NEW members,
           members.mKeyVals = table[t].mKeyVals, members.mInfo = table[t].mInfo,
           members.mHashMultiplier \in Multipliers,
           NEW size \in Nat \ {0, 1}, table[t].mNumElements <= calcMaxNumElementsAllowed(size),
           NEW then \in InsertCalls \cup {Idle}, Rehash(t, members, size, then)
    PROVE  Invariant' /\ Changed(t, NodesOf(table[t]))
<1> DEFINE u   == initData(members, size)
           old == OldNodes(table[t])
<1>1. ShapesOK /\ program.hash \in Hashes /\ Shape(program.hash, table[t])
    BY ShapesType DEF Invariant
<1>2. u = Fresh(members.mHashMultiplier, size, calcMaxNumElementsAllowed(size))
    BY InitDataFresh
<1>3. Set(t, u) /\ call' = [at |-> "rehash", table |-> t, then |-> then, old |-> old]
    BY Zenon DEF Rehash, OldNodes
<1> HIDE DEF u, old
<1>4. old = OldNodes(table[t])
    BY DEF old
<1>5. /\ Sound(u) /\ NodesOf(u) = {} /\ OldOK(old, u) /\ Range(old) = NodesOf(table[t])
    BY <1>1, <1>2, <1>4, RehashBegins
<1>6. Shape(program.hash, u)
    BY <1>5, SoundShape
<1>7. ShapesOK' /\ table'[t] = u /\ \A n \in Tables : n # t => table'[n] = table[n]
    BY <1>1, <1>3, <1>6, OneReplaced DEF Set
<1>8. /\ call'.at = "rehash" /\ call'.table = t /\ call'.then = then /\ call'.old = old
    BY <1>3
<1>9. Moving'
    BY <1>3, <1>5, <1>7, <1>8, Zenon DEF Moving
<1>10. CallOK'
    BY <1>9 DEF CallOK
<1>11. IterationOK'
    BY <1>3 DEF Set, IterationOK
<1>12. ASSUME NEW n \in Tables
       PROVE  NodesIn(n)' = NodesOf(table'[n]) \cup (IF n = t THEN Range(old) ELSE {})
    BY <1>8 DEF NodesIn, NodesOf
<1>13. \A n \in Tables : NodesIn(n) = NodesOf(table[n])
    BY SettledNodes
<1>14. Changed(t, NodesOf(table[t]))
    <2> SUFFICES ASSUME NEW n \in Tables
                 PROVE  NodesIn(n)' = IF n = t THEN NodesOf(table[t]) ELSE NodesIn(n)
        BY DEF Changed
    <2>1. CASE n = t
        <3>1. NodesIn(n)' = NodesOf(u) \cup Range(old)
            BY <1>7, <1>12, <2>1
        <3> QED
            BY <1>5, <2>1, <3>1
    <2>2. CASE n # t
        <3>1. NodesIn(n)' = NodesOf(table[n])
            BY <1>7, <1>12, <2>2
        <3> QED
            BY <1>13, <2>2, <3>1
    <2> QED
        BY <2>1, <2>2
<1> QED
    BY <1>7, <1>10, <1>11, <1>14 DEF Invariant

-----------------------------------------------------------------------------
(* Insertions and rehashes.                                                *)

LEMMA InsertStep ==
    ASSUME Invariant, NEW t \in program.tables, NEW node \in program.nodes, NEW assign \in BOOLEAN,
           Insert(t, node, assign)
    PROVE  Invariant' /\ outcome' = "none" /\ \A n \in Tables : NodesIn(n)' = NodesIn(n)
<1>1. ShapesOK /\ CallOK /\ IterationOK
    BY DEF Invariant
<1>2. t \in Tables /\ node \in Node
    BY <1>1, ShapesType
<1>3. /\ IsIdle /\ outcome' = "none" /\ UNCHANGED <<program, table>> /\ UNCHANGED iteration
      /\ call' = [at |-> "insert", table |-> t, node |-> node, assign |-> assign, attempt |-> 1]
    BY DEF Insert
<1>4. Settled
    BY <1>1, <1>3, CallTypes
<1>5. Settled'
    BY <1>2, <1>3 DEF Settled, InsertCalls
<1>6. IterationOK'
    BY <1>1, <1>3 DEF IterationOK
<1> QED
    BY <1>3, <1>4, <1>5, <1>6, KeepStep

\* An insertion in progress.
LEMMA AttemptType ==
    ASSUME Invariant, call.at = "insert"
    PROVE  /\ call \in InsertCalls /\ Settled
           /\ call.table \in Tables /\ call.node \in Node /\ call.node.key \in Keys
           /\ call.node.value \in Values /\ call.attempt \in Nat
           /\ call.assign \in BOOLEAN
           /\ program.hash \in Hashes /\ Shape(program.hash, table[call.table])
           /\ \A n \in Tables : NodesIn(n) = NodesOf(table[n])
<1>1. call \in InsertCalls
    BY CallTypes DEF Invariant
<1>2. /\ call.table \in Tables /\ call.node \in Node /\ call.attempt \in Nat
      /\ call.assign \in BOOLEAN
    BY <1>1 DEF InsertCalls
<1>3. call.node.key \in Keys /\ call.node.value \in Values
    BY <1>2 DEF Node
<1>4. Settled
    BY <1>1 DEF Settled
<1>5. program.hash \in Hashes /\ Shape(program.hash, table[call.table])
    BY <1>2, ShapesType DEF Invariant
<1> QED
    BY <1>1, <1>2, <1>3, <1>4, <1>5, SettledNodes

LEMMA KeyFoundStep ==
    ASSUME Invariant, KeyFound
    PROVE  /\ Invariant'
           /\ call.table \in Tables
           /\ \/ /\ outcome' = "assigned"
                 /\ \E old \in NodesIn(call.table) :
                       /\ old.key = call.node.key
                       /\ call.node.key \in Keys /\ call.node.value \in Values
                       /\ Changed(call.table, (NodesIn(call.table) \ {old})
                                              \cup {NodeWith(call.node.key, call.node.value)})
              \/ /\ outcome' = "found"
                 /\ NodesIn(call.table) # {}
                 /\ Changed(call.table, NodesIn(call.table))
<1> DEFINE ct == call.table
           t  == table[ct]
           k  == call.node.key
<1>1. call.at = "insert"
    BY DEF KeyFound, Attempting
<1>2. /\ call \in InsertCalls /\ Settled /\ ct \in Tables /\ k \in Keys
      /\ call.node.value \in Values /\ program.hash \in Hashes /\ Shape(program.hash, t)
      /\ NodesIn(ct) = NodesOf(t)
    BY <1>1, AttemptType
<1>3. PICK d \in Candidates(t, k) :
          Set(ct, IF call.assign
                  THEN [t EXCEPT !.mKeyVals[Home(t, k) + d].value = call.node.value]
                  ELSE t)
    BY Zenon DEF KeyFound
<1>4. call' = Idle /\ outcome' = IF call.assign THEN "assigned" ELSE "found"
    BY Zenon DEF KeyFound, Return
<1>5. Settled'
    BY <1>4 DEF Settled
<1> HIDE DEF t, k
<1>6. t.mMask # 0
    BY <1>2, <1>3, NoCandidates
<1>7. Sound(t)
    BY <1>2, <1>6, ShapeSound
<1> DEFINE i == Home(t, k) + d
<1>8. i \in Occupied(t) /\ t.mKeyVals[i].key = k
    BY <1>2, <1>3, <1>7, CandidatesFound
<1>9. CASE call.assign
    <2>1. Set(ct, Assigned(t, i, call.node.value))
        BY <1>3, <1>9, Zenon DEF Assigned
    <2> DEFINE u == Assigned(t, i, call.node.value)
               node == NodeWith(t.mKeyVals[i].key, call.node.value)
               old == t.mKeyVals[i]
    <2> HIDE DEF i
    <2>2. Keeps(t, u) /\ NodesOf(u) = (NodesOf(t) \ {old}) \cup {node}
        BY <1>2, <1>7, <1>8, AssignKeeps
    <2>3. Shape(program.hash, u)
        BY <2>2, SoundShape DEF Keeps
    <2> HIDE DEF u
    <2>4. Set(ct, u)
        BY <2>1 DEF u
    <2>5. Invariant' /\ Changed(ct, NodesOf(u))
        BY <1>2, <1>5, <2>3, <2>4, SetStep
    <2>6. old \in NodesIn(ct) /\ old.key = k /\ node = NodeWith(k, call.node.value)
        BY <1>2, <1>8 DEF NodesOf
    <2>7. outcome' = "assigned"
        BY <1>4, <1>9
    <2> HIDE DEF old, node
    <2>8. Changed(ct, (NodesIn(ct) \ {old}) \cup {NodeWith(k, call.node.value)})
        BY <1>2, <2>2, <2>5, <2>6
    <2> QED
        BY <1>2, <2>5, <2>6, <2>7, <2>8 DEF k
<1>10. CASE ~call.assign
    <2>1. Set(ct, t)
        BY <1>3, <1>10, Zenon
    <2>2. Invariant' /\ Changed(ct, NodesOf(t))
        BY <1>2, <1>5, <2>1, SetStep
    <2>3. NodesIn(ct) # {}
        BY <1>2, <1>8 DEF NodesOf
    <2>4. outcome' = "found"
        BY <1>4, <1>10
    <2> QED
        BY <1>2, <2>2, <2>3, <2>4
<1> QED
    BY <1>9, <1>10

LEMMA InsertNodeStep ==
    ASSUME Invariant, InsertNode
    PROVE  /\ Invariant'
           /\ outcome' = "inserted"
           /\ call.table \in Tables /\ call.node \in Node
           /\ call.node.key \notin KeysOf(NodesIn(call.table))
           /\ Changed(call.table, NodesIn(call.table) \cup {call.node})
<1> DEFINE ct == call.table
           t  == table[ct]
           node == call.node
           u  == Put(t, node, LastCandidate(t, node.key))
<1>1. call.at = "insert"
    BY DEF InsertNode, Attempting
<1>2. /\ call \in InsertCalls /\ Settled /\ ct \in Tables /\ node \in Node
      /\ program.hash \in Hashes /\ Shape(program.hash, t) /\ NodesIn(ct) = NodesOf(t)
    BY <1>1, AttemptType
<1>3. Candidates(t, node.key) = {} /\ ~Full(t) /\ Set(ct, u)
    BY Zenon DEF InsertNode, KeyIsNew
<1>4. call' = Idle /\ outcome' = "inserted"
    BY Zenon DEF InsertNode, Return
<1>5. Settled'
    BY <1>4 DEF Settled
<1> HIDE DEF t, node
<1>6. Keeps(t, u) /\ node.key \notin KeysOf(NodesOf(t)) /\ NodesOf(u) = NodesOf(t) \cup {node}
    BY <1>2, <1>3, InsertKeeps
<1> HIDE DEF u
<1>7. Shape(program.hash, u)
    BY <1>6, SoundShape DEF Keeps
<1>8. Invariant' /\ Changed(ct, NodesOf(u))
    BY <1>2, <1>3, <1>5, <1>7, SetStep
<1> QED
    BY <1>2, <1>4, <1>6, <1>8 DEF node

LEMMA IncreaseSizeStep ==
    ASSUME Invariant, IncreaseSize
    PROVE  /\ Invariant'
           /\ call.table \in Tables
           /\ Changed(call.table, NodesIn(call.table))
<1> DEFINE ct == call.table
           t  == table[ct]
           next == NextAttempt
<1>1. call.at = "insert"
    BY DEF IncreaseSize, Attempting
<1>2. /\ call \in InsertCalls /\ Settled /\ ct \in Tables
      /\ program.hash \in Hashes /\ Shape(program.hash, t) /\ NodesIn(ct) = NodesOf(t)
    BY <1>1, AttemptType
<1>3. t \in Members /\ t.mHashMultiplier \in Multipliers /\ t.mMask \in Nat /\ t.mNumElements \in Nat
    BY <1>2, ShapeCases, MembersType DEF Multipliers
<1>4. next \in InsertCalls
    <2>1. call \in [at : {"insert"}, table : Tables, node : Node, assign : BOOLEAN, attempt : Nat]
        BY <1>2 DEF InsertCalls
    <2>2. call.attempt + 1 \in Nat
        BY <2>1
    <2> QED
        BY <2>1, <2>2 DEF NextAttempt, InsertCalls
<1> HIDE DEF next
<1>5. \/ t.mMask = 0 /\ Set(ct, initData(t, InitialNumElements)) /\ call' = next
      \/ t.mMask # 0 /\ CanIncreaseInfo(t) /\ Set(ct, IncreaseInfo(t)) /\ call' = next
      \/ t.mMask # 0 /\ Rehash(ct, t, 2 * (t.mMask + 1), next)
      \/ t.mMask # 0 /\ Rehash(ct, [t EXCEPT !.mHashMultiplier = (@ + 1) % NumMultipliers],
                               t.mMask + 1, next)
    BY Zenon DEF IncreaseSize, next
<1> HIDE DEF t
<1>6. CASE t.mMask = 0 /\ Set(ct, initData(t, InitialNumElements)) /\ call' = next
    <2> DEFINE u == initData(t, InitialNumElements)
               limit == calcMaxNumElementsAllowed(InitialNumElements)
    <2>1. u = Fresh(t.mHashMultiplier, InitialNumElements, limit)
        BY InitDataFresh
    <2>2. InitialNumElements \in Nat \ {0, 1}
        BY HashAssumption
    <2>3. Set(ct, u)
        BY <1>6
    <2> HIDE DEF u
    <2>4. Sound(u) /\ NodesOf(u) = {}
        BY <1>2, <1>3, <2>1, <2>2, FreshSound
    <2>5. Shape(program.hash, u)
        BY <2>4, SoundShape
    <2>6. NodesOf(t) = {}
        BY <1>2, <1>6, ShapeCases, NoMemory DEF NodesOf
    <2>7. Settled'
        BY <1>4, <1>6 DEF Settled
    <2>8. Invariant' /\ Changed(ct, NodesOf(u))
        BY <1>2, <2>3, <2>5, <2>7, SetStep
    <2> QED
        BY <1>2, <2>4, <2>6, <2>8
<1>7. CASE t.mMask # 0 /\ CanIncreaseInfo(t) /\ Set(ct, IncreaseInfo(t)) /\ call' = next
    <2> DEFINE u == IncreaseInfo(t)
    <2>1. Sound(t)
        BY <1>2, <1>7, ShapeSound
    <2>2. Set(ct, u)
        BY <1>7
    <2>3. Keeps(t, u) /\ NodesOf(u) = NodesOf(t)
        BY <1>7, <2>1, IncreaseKeeps
    <2> HIDE DEF u
    <2>4. Shape(program.hash, u)
        BY <2>3, SoundShape DEF Keeps
    <2>5. Settled'
        BY <1>4, <1>7 DEF Settled
    <2>6. Invariant' /\ Changed(ct, NodesOf(u))
        BY <1>2, <2>2, <2>4, <2>5, SetStep
    <2> QED
        BY <1>2, <2>3, <2>6
<1>8. t.mMask # 0 => t.mNumElements <= calcMaxNumElementsAllowed(t.mMask + 1)
    BY <1>2, ShapeCases DEF HasMemory, Limited, Allowed
<1>9. CASE t.mMask # 0 /\ Rehash(ct, t, 2 * (t.mMask + 1), next)
    <2> DEFINE size == 2 * (t.mMask + 1)
    <2>1. size \in Nat \ {0, 1}
        BY <1>3
    <2>2. t.mNumElements <= calcMaxNumElementsAllowed(size)
        <3> DEFINE s == t.mMask + 1
        <3>1. s \in Nat
            BY <1>3
        <3> HIDE DEF s
        <3>2. /\ calcMaxNumElementsAllowed(s) \in Nat /\ calcMaxNumElementsAllowed(2 * s) \in Nat
              /\ calcMaxNumElementsAllowed(s) <= calcMaxNumElementsAllowed(2 * s)
            BY <3>1, AllowedType, AllowedGrows
        <3>3. t.mNumElements <= calcMaxNumElementsAllowed(s)
            BY <1>8, <1>9 DEF s
        <3>4. t.mNumElements <= calcMaxNumElementsAllowed(2 * s)
            BY <1>3, <3>2, <3>3
        <3> QED
            BY <3>4 DEF s
    <2>3. Rehash(ct, t, size, next)
        BY <1>9
    <2> HIDE DEF size
    <2>4. Invariant' /\ Changed(ct, NodesOf(table[ct]))
        BY <1>2, <1>3, <1>4, <2>1, <2>2, <2>3, RehashStep DEF t
    <2> QED
        BY <1>2, <2>4 DEF t
<1>10. CASE t.mMask # 0 /\ Rehash(ct, [t EXCEPT !.mHashMultiplier = (@ + 1) % NumMultipliers],
                                  t.mMask + 1, next)
    <2> DEFINE m == [t EXCEPT !.mHashMultiplier = (@ + 1) % NumMultipliers]
               size == t.mMask + 1
               x == (t.mHashMultiplier + 1) % NumMultipliers
    <2>1. x \in Multipliers
        <3>1. t.mHashMultiplier + 1 \in Nat /\ NumMultipliers \in Nat \ {0}
            BY <1>3, HashAssumption DEF Multipliers
        <3> QED
            BY <3>1 DEF Multipliers
    <2>2. IsTable(t)
        BY <1>3, MembersType DEF IsTable
    <2> HIDE DEF x
    <2>3. m = [t EXCEPT !.mHashMultiplier = x]
        BY DEF x
    <2>4. m.mKeyVals = t.mKeyVals /\ m.mInfo = t.mInfo /\ m.mHashMultiplier = x
        BY <2>2, <2>3 DEF IsTable
    <2>5. Rehash(ct, m, size, next)
        BY <1>10
    <2>6. size \in Nat \ {0, 1} /\ t.mNumElements <= calcMaxNumElementsAllowed(size)
        BY <1>3, <1>8, <1>10
    <2> HIDE DEF m, size
    <2>7. Invariant' /\ Changed(ct, NodesOf(table[ct]))
        BY <1>2, <1>4, <2>1, <2>4, <2>5, <2>6, RehashStep DEF t
    <2> QED
        BY <1>2, <2>7 DEF t
<1> QED
    BY <1>5, <1>6, <1>7, <1>9, <1>10

LEMMA GiveUpStep ==
    ASSUME Invariant, GiveUp
    PROVE  /\ Invariant' /\ outcome' = "overflow_error"
           /\ call.table \in Tables
           /\ Changed(call.table, NodesIn(call.table))
<1>1. call.at = "insert" /\ call' = Idle /\ outcome' = "overflow_error"
      /\ UNCHANGED <<program, table>> /\ UNCHANGED iteration
    BY DEF GiveUp, Return
<1>2. Settled /\ call.table \in Tables
    BY <1>1, AttemptType
<1>3. Settled'
    BY <1>1 DEF Settled
<1>4. IterationOK'
    BY <1>1 DEF IterationOK, Invariant
<1>5. Invariant' /\ \A n \in Tables : NodesIn(n)' = NodesIn(n)
    BY <1>1, <1>2, <1>3, <1>4, KeepStep
<1> QED
    BY <1>1, <1>2, <1>5 DEF Changed

\* Nodes on the way.
LEMMA MovingType ==
    ASSUME Invariant, call.at = "rehash"
    PROVE  /\ Moving
           /\ call.table \in Tables /\ call.then \in InsertCalls \cup {Idle}
           /\ OldOK(call.old, table[call.table])
           /\ program.hash \in Hashes /\ Shape(program.hash, table[call.table])
           /\ Sound(table[call.table])
           /\ \A n \in Tables :
                 NodesIn(n) = NodesOf(table[n])
                              \cup (IF n = call.table THEN Range(call.old) ELSE {})
<1>1. Moving /\ ShapesOK
    BY CallTypes DEF Invariant
<1>2. call.table \in Tables /\ call.then \in InsertCalls \cup {Idle}
      /\ OldOK(call.old, table[call.table])
    BY <1>1, Zenon DEF Moving
<1>3. program.hash \in Hashes /\ Shape(program.hash, table[call.table])
    BY <1>1, <1>2, ShapesType
<1>4. table[call.table].mMask # 0
    BY <1>2 DEF OldOK
<1>5. Sound(table[call.table])
    BY <1>3, <1>4, ShapeSound
<1> QED
    BY <1>1, <1>2, <1>3, <1>5, MovingNodes

\* What is lost when a rehash overflows, and that nothing is lost when it does not.
LEMMA MoveNodeStep ==
    ASSUME Invariant, MoveNode
    PROVE  /\ Invariant'
           /\ call.table \in Tables
           /\ \/ /\ outcome' = "overflow_error"
                 /\ NodesOf(table[call.table]) \subseteq NodesIn(call.table)
                 /\ Changed(call.table, NodesOf(table[call.table]))
              \/ /\ outcome' = outcome
                 /\ Changed(call.table, NodesIn(call.table))
<1> DEFINE ct  == call.table
           t   == table[ct]
           old == call.old
           i   == Min(DOMAIN old)
           w   == IF t.mMaxNumElementsAllowed = 0 THEN IncreaseInfo(t) ELSE t
           rest == Restrict(old, DOMAIN old \ {i})
           u   == insert_move(w, old[i])
<1>1. call.at = "rehash" /\ old # <<>>
    BY DEF MoveNode
<1>2. /\ Moving /\ ct \in Tables /\ call.then \in InsertCalls \cup {Idle} /\ OldOK(old, t)
      /\ Sound(t)
      /\ \A n \in Tables : NodesIn(n) = NodesOf(table[n]) \cup (IF n = ct THEN Range(old) ELSE {})
    BY <1>1, MovingType
<1>3. \/ /\ Return("overflow_error") /\ UNCHANGED <<program, table>> /\ UNCHANGED iteration
      \/ /\ ~(t.mMaxNumElementsAllowed = 0 /\ ~CanIncreaseInfo(t))
         /\ Set(ct, u)
         /\ call' = [call EXCEPT !.old = rest]
         /\ UNCHANGED outcome
    BY Zenon DEF MoveNode
<1> HIDE DEF i, w, rest, u
<1>4. CASE Return("overflow_error") /\ UNCHANGED <<program, table>> /\ UNCHANGED iteration
    <2>1. call' = Idle /\ outcome' = "overflow_error"
        BY <1>4 DEF Return
    <2>2. CallOK'
        BY <2>1 DEF CallOK
    <2>3. ShapesOK' /\ IterationOK'
        BY <1>4 DEF ShapesOK, IterationOK, Invariant
    <2>4. \A n \in Tables : NodesIn(n)' = NodesOf(table[n])
        <3>1. call'.at # "rehash"
            BY <2>1, SettledAt
        <3> QED
            BY <1>4, <3>1 DEF NodesIn, NodesOf
    <2>5. Changed(ct, NodesOf(t))
        BY <1>2, <2>4 DEF Changed
    <2>6. NodesOf(t) \subseteq NodesIn(ct)
        BY <1>2
    <2> QED
        BY <1>2, <2>1, <2>2, <2>3, <2>5, <2>6 DEF Invariant
<1>5. CASE /\ ~(t.mMaxNumElementsAllowed = 0 /\ ~CanIncreaseInfo(t))
           /\ Set(ct, u)
           /\ call' = [call EXCEPT !.old = rest]
           /\ UNCHANGED outcome
    <2>1. Keeps(t, u) /\ OldOK(rest, u) /\ NodesOf(u) \cup Range(rest) = NodesOf(t) \cup Range(old)
        <3>1. Sound(t) /\ OldOK(old, t) /\ old # <<>>
              /\ ~(t.mMaxNumElementsAllowed = 0 /\ ~CanIncreaseInfo(t))
            BY <1>1, <1>2, <1>5
        <3>2. i = Min(DOMAIN old) /\ rest = Restrict(old, DOMAIN old \ {i})
            BY DEF i, rest
        <3>3. w = IF t.mMaxNumElementsAllowed = 0 THEN IncreaseInfo(t) ELSE t
            BY DEF w
        <3>4. u = insert_move(w, old[i])
            BY DEF u
        <3> HIDE DEF t, old, ct
        <3> QED
            BY <3>1, <3>2, <3>3, <3>4, MoveKeeps
    <2>2. Shape(program.hash, u)
        BY <2>1, SoundShape DEF Keeps
    <2>3. ShapesOK' /\ table'[ct] = u /\ \A n \in Tables : n # ct => table'[n] = table[n]
        BY <1>2, <1>5, <2>2, OneReplaced DEF Set, Invariant
    <2>4. IterationOK'
        BY <1>5 DEF Set, IterationOK
    <2>5. call = [at |-> "rehash", table |-> call.table, then |-> call.then, old |-> call.old]
        BY <1>1, <1>2, Zenon DEF Moving
    <2>6. call' = [at |-> "rehash", table |-> call.table, then |-> call.then, old |-> rest]
        BY <1>5, <2>5
    <2>7. /\ call'.at = "rehash" /\ call'.table = ct /\ call'.then = call.then
          /\ call'.old = rest
        BY <2>6
    <2>8. Moving'
        BY <1>2, <2>1, <2>3, <2>6, <2>7, Zenon DEF Moving
    <2>9. ASSUME NEW n \in Tables
          PROVE  NodesIn(n)' = NodesOf(table'[n]) \cup (IF n = ct THEN Range(rest) ELSE {})
        BY <2>7 DEF NodesIn, NodesOf
    <2>10. Changed(ct, NodesIn(ct))
        <3> SUFFICES ASSUME NEW n \in Tables PROVE NodesIn(n)' = NodesIn(n)
            BY DEF Changed
        <3>1. CASE n = ct
            <4>1. NodesIn(n)' = NodesOf(u) \cup Range(rest)
                BY <2>3, <2>9, <3>1
            <4> QED
                BY <1>2, <2>1, <3>1, <4>1
        <3>2. CASE n # ct
            BY <1>2, <2>3, <2>9, <3>2
        <3> QED
            BY <3>1, <3>2
    <2>11. CallOK'
        BY <2>8 DEF CallOK
    <2> QED
        BY <1>2, <1>5, <2>3, <2>4, <2>10, <2>11 DEF Invariant
<1> QED
    BY <1>3, <1>4, <1>5

LEMMA NodesMovedStep ==
    ASSUME Invariant, NodesMoved
    PROVE  Invariant' /\ outcome' = outcome /\ \A n \in Tables : NodesIn(n)' = NodesIn(n)
<1>1. /\ call.at = "rehash" /\ call.old = <<>> /\ call' = call.then
      /\ UNCHANGED <<program, table>> /\ UNCHANGED iteration /\ UNCHANGED outcome
    BY DEF NodesMoved
<1>2. /\ call.then \in InsertCalls \cup {Idle}
      /\ \A n \in Tables :
            NodesIn(n) = NodesOf(table[n]) \cup (IF n = call.table THEN Range(call.old) ELSE {})
    BY <1>1, MovingType
<1>3. Range(call.old) = {}
    <2>1. \A f : f = <<>> => DOMAIN f = {}
        OBVIOUS
    <2>2. DOMAIN call.old = {}
        BY <1>1, <2>1
    <2> QED
        BY <2>2 DEF Range
<1>4. call'.at # "rehash"
    BY <1>1, <1>2, SettledAt
<1>5. \A n \in Tables : NodesIn(n)' = NodesOf(table[n])
    BY <1>1, <1>4 DEF NodesIn, NodesOf
<1>6. CallOK'
    BY <1>1, <1>2 DEF CallOK
<1>7. ShapesOK' /\ IterationOK'
    BY <1>1 DEF ShapesOK, IterationOK, Invariant
<1>8. ASSUME NEW n \in Tables
      PROVE  NodesIn(n) = NodesOf(table[n])
    <2>1. NodesIn(n) = NodesOf(table[n]) \cup (IF n = call.table THEN {} ELSE {})
        BY <1>2, <1>3
    <2> QED
        BY <2>1
<1>9. Invariant'
    BY <1>6, <1>7 DEF Invariant
<1> QED
    BY <1>1, <1>5, <1>8, <1>9

\* The sizes that are asked for.
LEMMA SizeForType ==
    ASSUME NEW n \in Nat, Fitting(n) # {}
    PROVE  SizeFor(n) \in Nat \ {0, 1} /\ n <= calcMaxNumElementsAllowed(SizeFor(n))
<1>1. MemorySizes \subseteq Nat \ {0, 1}
    <2> SUFFICES ASSUME NEW j \in 0 .. MaxDoublings
                 PROVE  InitialNumElements * PowerOfTwo[j] \in Nat \ {0, 1}
        BY DEF MemorySizes
    <2> DEFINE p == PowerOfTwo[j]
               e == InitialNumElements
    <2>1. p \in Nat \ {0} /\ e \in Nat /\ e >= 2
        BY PowerOfTwoType, HashAssumption
    <2> HIDE DEF p, e
    <2>2. e * p \in Nat /\ e <= e * p
        BY <2>1, TimesAtLeast
    <2> QED
        BY <2>1, <2>2 DEF p, e
<1>2. Fitting(n) \in SUBSET Nat
    BY <1>1 DEF Fitting
<1>3. SizeFor(n) \in Fitting(n)
    BY <1>2, LeastNat DEF SizeFor
<1>4. SizeFor(n) \in MemorySizes /\ calcMaxNumElementsAllowed(SizeFor(n)) >= n
    BY <1>3 DEF Fitting
<1>5. calcMaxNumElementsAllowed(SizeFor(n)) \in Nat
    BY <1>1, <1>4, AllowedType
<1> QED
    BY <1>1, <1>4, <1>5

LEMMA IdleType ==
    ASSUME Invariant, IsIdle, NEW t \in program.tables
    PROVE  /\ Settled /\ t \in Tables
           /\ program.hash \in Hashes /\ Shape(program.hash, table[t])
           /\ table[t].mHashMultiplier \in Multipliers /\ table[t].mNumElements \in Nat
           /\ \A n \in Tables : NodesIn(n) = NodesOf(table[n])
<1>1. Settled
    BY CallTypes DEF Invariant
<1> QED
    BY <1>1, SettledNodes, ShapesType DEF Invariant

LEMMA ResizeStep ==
    ASSUME Invariant, IsIdle, NEW t \in program.tables, NEW n \in Nat, Fitting(n) # {},
           table[t].mNumElements <= n, Rehash(t, table[t], SizeFor(n), Idle)
    PROVE  Invariant' /\ outcome' = "none" /\ t \in Tables /\ Changed(t, NodesIn(t))
<1>1. /\ Settled /\ t \in Tables /\ table[t].mHashMultiplier \in Multipliers
      /\ table[t].mNumElements \in Nat /\ NodesIn(t) = NodesOf(table[t])
    BY IdleType
<1> DEFINE size == SizeFor(n)
<1>2. size \in Nat \ {0, 1} /\ n <= calcMaxNumElementsAllowed(size)
    BY SizeForType
<1>3. Rehash(t, table[t], size, Idle)
    OBVIOUS
<1>4. outcome' = "none"
    BY DEF Rehash
<1> HIDE DEF size
<1>5. table[t].mNumElements <= calcMaxNumElementsAllowed(size)
    <2>1. calcMaxNumElementsAllowed(size) \in Nat
        BY <1>2, AllowedType
    <2> QED
        BY <1>1, <1>2, <2>1
<1>6. Invariant' /\ Changed(t, NodesOf(table[t]))
    BY <1>1, <1>2, <1>3, <1>5, RehashStep
<1> QED
    BY <1>1, <1>4, <1>6

LEMMA ReserveStep ==
    ASSUME Invariant, NEW t \in program.tables, NEW c \in program.sizes, NEW forced \in BOOLEAN,
           reserve(t, c, forced)
    PROVE  Invariant' /\ outcome' = "none" /\ t \in Tables /\ Changed(t, NodesIn(t))
<1> DEFINE e == table[t].mNumElements
           n == IF c > e THEN c ELSE e
<1>1. IsIdle
    BY DEF reserve
<1>2. e \in Nat /\ c \in Nat
    BY <1>1, IdleType, ShapesType DEF Invariant
<1>3. Fitting(n) # {} /\ Rehash(t, table[t], SizeFor(n), Idle)
    BY Zenon DEF reserve
<1>4. n \in Nat /\ e <= n
    <2> HIDE DEF e
    <2> QED
        BY <1>2
<1> HIDE DEF n
<1> QED
    BY <1>1, <1>3, <1>4, ResizeStep

LEMMA CompactStep ==
    ASSUME Invariant, NEW t \in program.tables, compact(t)
    PROVE  Invariant' /\ outcome' = "none" /\ t \in Tables /\ Changed(t, NodesIn(t))
<1> DEFINE n == table[t].mNumElements
<1>1. IsIdle /\ Fitting(n) # {} /\ Rehash(t, table[t], SizeFor(n), Idle)
    BY DEF compact
<1>2. n \in Nat /\ n <= n
    BY <1>1, IdleType
<1> QED
    BY <1>1, <1>2, ResizeStep

-----------------------------------------------------------------------------
(***************************************************************************)
(* The calls that take one step.                                           *)
(***************************************************************************)

\* What a search that did not come to the end has come to.
LEMMA Found ==
    ASSUME Invariant, IsIdle, NEW t \in program.tables, NEW k \in Keys,
           NEW i \in {findIdx(table[t], k), eraseIdx(table[t], k)}, i # End(table[t])
    PROVE  /\ i \in Occupied(table[t]) /\ table[t].mKeyVals[i].key = k
           /\ Sound(table[t])
<1>1. program.hash \in Hashes /\ Shape(program.hash, table[t])
    BY IdleType
<1>2. i \in Occupied(table[t]) /\ table[t].mKeyVals[i].key = k
    BY <1>1, Searches
<1> QED
    BY <1>1, <1>2, OccupiedSound

\* An entry is removed, and it alone.
LEMMA RemoveStep ==
    ASSUME Invariant, IsIdle, NEW t \in program.tables, NEW k \in Keys,
           NEW i \in {findIdx(table[t], k), eraseIdx(table[t], k)}, i # End(table[t]),
           Set(t, shiftDown(table[t], i)), Return("erased")
    PROVE  /\ Invariant' /\ outcome' = "erased" /\ t \in Tables
           /\ \E node \in NodesIn(t) : node.key = k /\ Changed(t, NodesIn(t) \ {node})
<1> DEFINE tt == table[t]
           u  == shiftDown(tt, i)
           node == tt.mKeyVals[i]
<1>1. i \in Occupied(tt) /\ node.key = k /\ Sound(tt)
    BY Found
<1>2. Settled /\ t \in Tables /\ NodesIn(t) = NodesOf(tt)
    BY IdleType
<1>3. call' = Idle /\ outcome' = "erased"
    BY DEF Return
<1>4. Settled'
    BY <1>3 DEF Settled
<1>5. Set(t, u)
    OBVIOUS
<1>6. node \in NodesOf(tt)
    BY <1>1 DEF NodesOf
<1> HIDE DEF node
<1>7. Keeps(tt, u) /\ NodesOf(u) = NodesOf(tt) \ {node}
    <2> HIDE DEF tt, u
    <2> QED
        BY <1>1, RemoveKeeps DEF u, node
<1>8. Shape(program.hash, u)
    BY <1>7, SoundShape DEF Keeps
<1> HIDE DEF u
<1>9. Invariant' /\ Changed(t, NodesOf(u))
    BY <1>2, <1>4, <1>5, <1>8, SetStep
<1> QED
    BY <1>1, <1>2, <1>3, <1>6, <1>7, <1>9

LEMMA EraseKeyStep ==
    ASSUME Invariant, NEW t \in program.tables, NEW k \in Keys,
           EraseKey(t, k) \/ EraseFound(t, k)
    PROVE  /\ Invariant' /\ outcome' = "erased" /\ t \in Tables
           /\ \E node \in NodesIn(t) : node.key = k /\ Changed(t, NodesIn(t) \ {node})
<1>1. CASE EraseKey(t, k)
    <2> DEFINE i == eraseIdx(table[t], k)
    <2>1. IsIdle /\ i # End(table[t]) /\ Set(t, shiftDown(table[t], i)) /\ Return("erased")
        BY <1>1, Zenon DEF EraseKey
    <2>2. i \in {findIdx(table[t], k), eraseIdx(table[t], k)}
        OBVIOUS
    <2> HIDE DEF i
    <2> QED
        BY <2>1, <2>2, RemoveStep
<1>2. CASE EraseFound(t, k)
    <2> DEFINE i == findIdx(table[t], k)
    <2>1. IsIdle /\ i # End(table[t]) /\ Set(t, shiftDown(table[t], i)) /\ Return("erased")
        BY <1>2, Zenon DEF EraseFound, contains
    <2>2. i \in {findIdx(table[t], k), eraseIdx(table[t], k)}
        OBVIOUS
    <2> HIDE DEF i
    <2> QED
        BY <2>1, <2>2, RemoveStep
<1> QED
    BY <1>1, <1>2

LEMMA NewTableShape == Shape(program.hash, NewTable) /\ NodesOf(NewTable) = {}
<1>1. 0 \in Multipliers
    BY HashAssumption DEF Multipliers
<1> QED
    BY <1>1, NoMemoryShape DEF NewTable

\* A table is replaced by an idle call that returns at once.
LEMMA ReplaceStep ==
    ASSUME Invariant, IsIdle, NEW t \in program.tables, NEW members,
           Shape(program.hash, members), Set(t, members), NEW result, Return(result)
    PROVE  /\ Invariant' /\ outcome' = result /\ t \in Tables
           /\ Changed(t, NodesOf(members))
<1>1. Settled /\ t \in Tables
    BY IdleType
<1>2. call' = Idle /\ outcome' = result
    BY DEF Return
<1>3. Settled'
    BY <1>2 DEF Settled
<1> QED
    BY <1>1, <1>2, <1>3, SetStep

LEMMA ClearStep ==
    ASSUME Invariant, NEW t \in program.tables, clear(t) \/ Destroy(t)
    PROVE  Invariant' /\ outcome' = "cleared" /\ t \in Tables /\ Changed(t, {})
<1>1. CASE clear(t)
    <2>1. IsIdle /\ Set(t, Cleared(table[t])) /\ Return("cleared")
        BY <1>1 DEF clear
    <2>2. program.hash \in Hashes /\ Shape(program.hash, table[t])
        BY <2>1, IdleType
    <2>3. Shape(program.hash, Cleared(table[t])) /\ NodesOf(Cleared(table[t])) = {}
        BY <2>2, ClearedShape
    <2> QED
        BY <2>1, <2>3, ReplaceStep
<1>2. CASE Destroy(t)
    <2>1. IsIdle /\ Set(t, NewTable) /\ Return("cleared")
        BY <1>2 DEF Destroy
    <2> QED
        BY <2>1, NewTableShape, ReplaceStep
<1> QED
    BY <1>1, <1>2

\* Copies, and nodes that change hands: the shapes of the two tables, and what they hold.
Shaped(t) == program.hash \in Hashes /\ Shape(program.hash, t)

LEMMA InitShape ==
    ASSUME NEW t, Shaped(t)
    PROVE  Shaped(init(t)) /\ NodesOf(init(t)) = {}
<1>1. program.hash \in Hashes /\ Shape(program.hash, t)
    BY DEF Shaped
<1>2. t \in Members
    BY <1>1, ShapeCases
<1>3. t.mHashMultiplier \in Multipliers
    BY <1>2, MembersType DEF Multipliers
<1>4. init(t) = initMembers(t.mHashMultiplier)
    BY DEF init
<1>5. Shape(program.hash, init(t)) /\ NodesOf(init(t)) = {}
    BY <1>3, <1>4, NoMemoryShape
<1> QED
    BY <1>1, <1>5 DEF Shaped

LEMMA NewTableShaped ==
    ASSUME program.hash \in Hashes
    PROVE  Shaped(NewTable) /\ NodesOf(NewTable) = {}
BY NewTableShape DEF Shaped

\* A table without memory, or without elements, holds nothing.
LEMMA EmptyNodes ==
    ASSUME NEW t, Shaped(t), t.mMask = 0 \/ isEmpty(t)
    PROVE  NodesOf(t) = {}
<1>1. CASE t.mMask = 0
    <2>1. Occupied(t) = {}
        <3>1. Slots(t) = {}
            BY <1>1 DEF Slots, End
        <3> QED
            BY <3>1 DEF Occupied
    <2> QED
        BY <2>1 DEF NodesOf
<1>2. CASE t.mMask # 0
    <2>1. Sound(t)
        BY <1>2, ShapeSound DEF Shaped
    <2>2. IsFiniteSet(Occupied(t)) /\ Cardinality(Occupied(t)) = 0
        BY <1>2, <2>1, OccupiedFinite DEF isEmpty
    <2>3. Occupied(t) = {}
        BY <2>2, FS_EmptySet
    <2> QED
        BY <2>3 DEF NodesOf
<1> QED
    BY <1>1, <1>2

\* A move assignment: the nodes of u go to t, and u has none then.
LEMMA MovedShapes ==
    ASSUME NEW t, Shaped(t), NEW u, Shaped(u), NEW m, m = Moved(t, u)
    PROVE  /\ Shaped(m[1]) /\ Shaped(m[2])
           /\ NodesOf(m[1]) = NodesOf(u) /\ NodesOf(m[2]) = {}
<1>1. CASE u.mMask # 0
    <2>1. m[1] = u /\ m[2] = init(u)
        BY <1>1 DEF Moved
    <2> QED
        BY <2>1, InitShape
<1>2. CASE u.mMask = 0
    <2>1. m[1] = Cleared(t) /\ m[2] = u
        BY <1>2 DEF Moved
    <2>2. Shaped(Cleared(t)) /\ NodesOf(Cleared(t)) = {}
        BY ClearedShape DEF Shaped
    <2>3. NodesOf(u) = {}
        BY <1>2, EmptyNodes
    <2> QED
        BY <2>1, <2>2, <2>3
<1> QED
    BY <1>1, <1>2

LEMMA IdleShaped ==
    ASSUME Invariant, IsIdle, NEW t \in program.tables
    PROVE  Shaped(table[t]) /\ NodesIn(t) = NodesOf(table[t]) /\ t \in Tables
BY IdleType DEF Shaped

\* Two tables are replaced by an idle call that returns at once.
LEMMA ExchangeStep ==
    ASSUME Invariant, IsIdle, NEW t \in program.tables, NEW u \in program.tables,
           NEW members, Shaped(members), NEW others, Shaped(others),
           SetBoth(t, members, u, others), NEW result, Return(result)
    PROVE  /\ Invariant' /\ outcome' = result /\ t \in Tables /\ u \in Tables /\ t # u
           /\ \A n \in Tables : NodesIn(n)' = IF n = t THEN NodesOf(members)
                                              ELSE IF n = u THEN NodesOf(others)
                                              ELSE NodesIn(n)
<1>1. Settled /\ t \in Tables /\ u \in Tables
    BY IdleType
<1>2. call' = Idle /\ outcome' = result
    BY DEF Return
<1>3. Settled'
    BY <1>2 DEF Settled
<1>4. Shape(program.hash, members) /\ Shape(program.hash, others)
    BY DEF Shaped
<1> QED
    BY <1>1, <1>2, <1>3, <1>4, SetBothStep

LEMMA MoveStep ==
    ASSUME Invariant, NEW t \in program.tables, NEW u \in program.tables,
           MoveConstruct(t, u) \/ MoveAssign(t, u)
    PROVE  /\ Invariant' /\ outcome' = "moved" /\ t \in Tables /\ u \in Tables /\ t # u
           /\ \A n \in Tables : NodesIn(n)' = IF n = t THEN NodesIn(u)
                                              ELSE IF n = u THEN {} ELSE NodesIn(n)
<1>1. IsIdle /\ Return("moved")
    BY DEF MoveConstruct, MoveAssign
<1>2. /\ Shaped(table[t]) /\ Shaped(table[u])
      /\ NodesIn(t) = NodesOf(table[t]) /\ NodesIn(u) = NodesOf(table[u])
    BY <1>1, IdleShaped
<1>3. CASE MoveConstruct(t, u) /\ table[u].mMask # 0
    <2>1. SetBoth(t, table[u], u, init(table[u]))
        BY <1>3, Zenon DEF MoveConstruct
    <2>2. Shaped(init(table[u])) /\ NodesOf(init(table[u])) = {}
        BY <1>2, InitShape
    <2> QED
        BY <1>1, <1>2, <2>1, <2>2, ExchangeStep
<1>4. CASE MoveConstruct(t, u) /\ table[u].mMask = 0
    <2>1. SetBoth(t, NewTable, u, table[u])
        BY <1>4, Zenon DEF MoveConstruct
    <2>2. Shaped(NewTable) /\ NodesOf(NewTable) = {}
        BY <1>2, NewTableShaped DEF Shaped
    <2>3. NodesOf(table[u]) = {}
        BY <1>2, <1>4, EmptyNodes
    <2> QED
        BY <1>1, <1>2, <2>1, <2>2, <2>3, ExchangeStep
<1>5. CASE MoveAssign(t, u)
    <2> DEFINE m == Moved(table[t], table[u])
    <2>1. SetBoth(t, m[1], u, m[2])
        BY <1>5, Zenon DEF MoveAssign
    <2>2. /\ Shaped(m[1]) /\ Shaped(m[2])
          /\ NodesOf(m[1]) = NodesOf(table[u]) /\ NodesOf(m[2]) = {}
        BY <1>2, MovedShapes
    <2> HIDE DEF m
    <2> QED
        BY <1>1, <1>2, <2>1, <2>2, ExchangeStep
<1> QED
    BY <1>3, <1>4, <1>5

LEMMA SwapStep ==
    ASSUME Invariant, NEW t \in program.tables, NEW u \in program.tables, Swap(t, u)
    PROVE  /\ Invariant' /\ outcome' = "swapped" /\ t \in Tables /\ u \in Tables /\ t # u
           /\ \A n \in Tables : NodesIn(n)' = IF n = t THEN NodesIn(u)
                                              ELSE IF n = u THEN NodesIn(t) ELSE NodesIn(n)
<1> DEFINE first == IF table[u].mMask # 0 THEN <<table[u], init(table[u])>>
                                          ELSE <<NewTable, table[u]>>
           second == Moved(first[2], table[t])
           third  == Moved(second[2], first[1])
<1>1. IsIdle /\ Return("swapped")
    BY DEF Swap
<1>2. /\ Shaped(table[t]) /\ Shaped(table[u])
      /\ NodesIn(t) = NodesOf(table[t]) /\ NodesIn(u) = NodesOf(table[u])
    BY <1>1, IdleShaped
<1>3. SetBoth(t, third[1], u, second[1])
    BY Zenon DEF Swap
<1>4. Shaped(first[1]) /\ Shaped(first[2]) /\ NodesOf(first[1]) = NodesOf(table[u])
    <2>1. CASE table[u].mMask # 0
        BY <1>2, <2>1, InitShape
    <2>2. CASE table[u].mMask = 0
        <3>1. Shaped(NewTable) /\ NodesOf(NewTable) = {}
            BY <1>2, NewTableShaped DEF Shaped
        <3>2. NodesOf(table[u]) = {}
            BY <1>2, <2>2, EmptyNodes
        <3> QED
            BY <1>2, <2>2, <3>1, <3>2
    <2> QED
        BY <2>1, <2>2
<1> HIDE DEF first
<1>5. /\ Shaped(second[1]) /\ Shaped(second[2]) /\ NodesOf(second[1]) = NodesOf(table[t])
    BY <1>2, <1>4, MovedShapes
<1> HIDE DEF second
<1>6. Shaped(third[1]) /\ NodesOf(third[1]) = NodesOf(table[u])
    BY <1>4, <1>5, MovedShapes
<1> HIDE DEF third
<1> QED
    BY <1>1, <1>2, <1>3, <1>5, <1>6, ExchangeStep

LEMMA CopyStep ==
    ASSUME Invariant, NEW t \in program.tables, NEW u \in program.tables,
           CopyConstruct(t, u) \/ CopyAssign(t, u)
    PROVE  /\ Invariant' /\ outcome' = "copied" /\ t \in Tables /\ u \in Tables
           /\ Changed(t, NodesIn(u))
<1> DEFINE fresh == IF CopyConstruct(t, u) THEN NewTable ELSE init(table[t])
           members == IF isEmpty(table[u]) THEN fresh ELSE table[u]
<1>1. IsIdle /\ Return("copied")
    BY DEF CopyConstruct, CopyAssign
<1>2. /\ Shaped(table[t]) /\ Shaped(table[u])
      /\ NodesIn(u) = NodesOf(table[u]) /\ u \in Tables
    BY <1>1, IdleShaped
<1>3. Shaped(fresh) /\ NodesOf(fresh) = {}
    BY <1>2, InitShape, NewTableShaped DEF Shaped
<1>4. Set(t, members)
    <2>1. CASE CopyConstruct(t, u)
        BY <2>1 DEF CopyConstruct
    <2>2. CASE ~CopyConstruct(t, u)
        BY <2>2 DEF CopyAssign
    <2> QED
        BY <2>1, <2>2
<1> HIDE DEF fresh
<1>5. Shaped(members) /\ NodesOf(members) = NodesOf(table[u])
    <2>1. CASE isEmpty(table[u])
        BY <1>2, <1>3, <2>1, EmptyNodes
    <2>2. CASE ~isEmpty(table[u])
        BY <1>2, <2>2
    <2> QED
        BY <2>1, <2>2
<1> HIDE DEF members
<1>6. Shape(program.hash, members)
    BY <1>5 DEF Shaped
<1>7. /\ Invariant' /\ outcome' = "copied" /\ t \in Tables /\ Changed(t, NodesOf(members))
    BY <1>1, <1>4, <1>6, ReplaceStep
<1> QED
    BY <1>2, <1>5, <1>7

-----------------------------------------------------------------------------
(***************************************************************************)
(* The steps of an iterator.                                               *)
(***************************************************************************)

\* The keys that a table's nodes have are those it maps.
LEMMA ContentsKeys ==
    ASSUME NEW t \in Tables
    PROVE  DOMAIN Contents(t) = KeysOf(NodesIn(t))
BY DEF Contents, KeysOf

LEMMA BeginStep ==
    ASSUME Invariant, NEW t \in program.tables, Begin(t)
    PROVE  Invariant' /\ outcome' = outcome /\ \A n \in Tables : NodesIn(n)' = NodesIn(n)
<1> DEFINE i  == begin(table[t])
           ks == DOMAIN Contents(t)
<1>1. /\ IsIdle /\ iteration' = [table |-> t, at |-> i, keys |-> ks, met |-> {}]
      /\ UNCHANGED <<program, table>> /\ UNCHANGED call /\ UNCHANGED outcome
    BY DEF Begin
<1>2. /\ Settled /\ t \in Tables
      /\ program.hash \in Hashes /\ Shape(program.hash, table[t])
      /\ NodesIn(t) = NodesOf(table[t])
    BY <1>1, IdleType
<1>3. i \in Occupied(table[t]) \cup {End(table[t])} /\ KeysFrom(table[t], i) = KeysOf(NodesOf(table[t]))
    BY <1>2, BeginAhead
<1>4. ks = KeysFrom(table[t], i)
    BY <1>2, <1>3, ContentsKeys
<1> HIDE DEF i, ks
<1>5. /\ iteration'.table = t /\ iteration'.at = i /\ iteration'.keys = ks /\ iteration'.met = {}
      /\ iteration' = [table |-> iteration'.table, at |-> iteration'.at,
                       keys |-> iteration'.keys, met |-> iteration'.met]
    BY <1>1
<1>6. table' = table
    BY <1>1
<1>7. IterationOK'
    BY <1>2, <1>3, <1>4, <1>5, <1>6 DEF IterationOK
<1>8. Settled'
    BY <1>1, <1>2 DEF Settled
<1> QED
    BY <1>1, <1>2, <1>7, <1>8, KeepStep

\* An iterator that is not at the end is at a node.
LEMMA IteratingAt ==
    ASSUME Invariant, Iterating
    PROVE  /\ Settled /\ iteration.table \in Tables
           /\ iteration.at \in Occupied(table[iteration.table])
           /\ Sound(table[iteration.table])
<1>1. IsIdle /\ iteration # NoIter /\ iteration.at # End(table[iteration.table])
    BY DEF Iterating
<1>2. Settled
    BY <1>1, CallTypes DEF Invariant
<1>3. iteration.table \in Tables
    BY <1>1, Zenon DEF IterationOK, Invariant
<1>4. iteration.at \in Occupied(table[iteration.table]) \cup {End(table[iteration.table])}
    BY <1>1, Zenon DEF IterationOK, Invariant
<1>5. iteration.at \in Occupied(table[iteration.table])
    BY <1>1, <1>4
<1>6. program.hash \in Hashes /\ Shape(program.hash, table[iteration.table])
    BY <1>3, ShapesType DEF Invariant
<1> QED
    BY <1>2, <1>3, <1>5, <1>6, OccupiedSound

\* It has met the node that it leaves behind.
LEMMA Progress ==
    ASSUME Invariant, Iterating,
           NEW u, table'[iteration.table] = u,
           NEW j \in Occupied(u) \cup {End(u)},
           NEW k, k = table[iteration.table].mKeyVals[iteration.at].key,
           KeysFrom(u, j) = KeysFrom(table[iteration.table], iteration.at) \ {k},
           k \in KeysFrom(table[iteration.table], iteration.at),
           iteration' = [iteration EXCEPT !.at = j, !.met = Met]
    PROVE  IterationOK'
<1> DEFINE ahead == KeysFrom(table[iteration.table], iteration.at)
<1>1. iteration # NoIter
    BY DEF Iterating
<1>2. iteration = [table |-> iteration.table, at |-> iteration.at,
                   keys |-> iteration.keys, met |-> iteration.met]
    BY <1>1, Zenon DEF IterationOK, Invariant
<1>3. iteration.table \in Tables
    BY <1>1, Zenon DEF IterationOK, Invariant
<1>4. iteration.keys = iteration.met \cup ahead /\ iteration.met \cap ahead = {}
    BY <1>1, Zenon DEF IterationOK, Invariant
<1>5. Met = iteration.met \cup {k}
    BY DEF Met
<1> HIDE DEF ahead
<1>6. iteration.keys = Met \cup KeysFrom(u, j) /\ Met \cap KeysFrom(u, j) = {}
    BY <1>4, <1>5 DEF ahead
<1>7. iteration' = [table |-> iteration.table, at |-> j, keys |-> iteration.keys, met |-> Met]
    BY <1>2
<1>8. /\ iteration'.table = iteration.table /\ iteration'.at = j
      /\ iteration'.keys = iteration.keys /\ iteration'.met = Met
      /\ iteration' = [table |-> iteration'.table, at |-> iteration'.at,
                       keys |-> iteration'.keys, met |-> iteration'.met]
    BY <1>7
<1> QED
    BY <1>3, <1>6, <1>8 DEF IterationOK

LEMMA AdvanceStep ==
    ASSUME Invariant, Advance
    PROVE  Invariant' /\ outcome' = outcome /\ \A n \in Tables : NodesIn(n)' = NodesIn(n)
<1> DEFINE t == table[iteration.table]
           i == iteration.at
           j == fastForward(t, i + 1)
           k == t.mKeyVals[i].key
<1>1. /\ Iterating /\ iteration' = [iteration EXCEPT !.at = j, !.met = Met]
      /\ UNCHANGED <<program, table>> /\ UNCHANGED call /\ UNCHANGED outcome
    BY DEF Advance
<1>2. Settled /\ i \in Occupied(t) /\ Sound(t)
    BY <1>1, IteratingAt
<1>3. /\ j \in Occupied(t) \cup {End(t)} /\ k \in KeysFrom(t, i)
      /\ KeysFrom(t, j) = KeysFrom(t, i) \ {k}
    <2> HIDE DEF t, i
    <2> QED
        BY <1>2, AdvanceAhead DEF j, k
<1>4. table'[iteration.table] = t
    BY <1>1
<1> HIDE DEF j
<1>5. IterationOK'
    BY <1>1, <1>3, <1>4, Progress
<1>6. Settled'
    BY <1>1, <1>2 DEF Settled
<1> QED
    BY <1>1, <1>2, <1>5, <1>6, KeepStep

LEMMA EraseAndGoOnStep ==
    ASSUME Invariant, EraseAndGoOn
    PROVE  /\ Invariant' /\ outcome' = "erased" /\ iteration.table \in Tables
           /\ \E node \in NodesIn(iteration.table) :
                 Changed(iteration.table, NodesIn(iteration.table) \ {node})
<1> DEFINE it == iteration.table
           t == table[it]
           i == iteration.at
           u == shiftDown(t, i)
           j == AfterErase(u, i)
           k == t.mKeyVals[i].key
           node == t.mKeyVals[i]
<1>1. /\ Iterating /\ table' = [table EXCEPT ![it] = u]
      /\ iteration' = [iteration EXCEPT !.at = j, !.met = Met]
      /\ Return("erased") /\ UNCHANGED program
    BY DEF EraseAndGoOn
<1>2. Settled /\ i \in Occupied(t) /\ Sound(t) /\ it \in Tables
    BY <1>1, IteratingAt
<1>3. /\ j \in Occupied(u) \cup {End(u)} /\ k \in KeysFrom(t, i)
      /\ KeysFrom(u, j) = KeysFrom(t, i) \ {k}
    <2> HIDE DEF t, i
    <2> QED
        BY <1>2, EraseAhead DEF u, j, k
<1>4. Keeps(t, u) /\ NodesOf(u) = NodesOf(t) \ {node} /\ node \in NodesOf(t)
    <2>1. node \in NodesOf(t)
        BY <1>2 DEF NodesOf
    <2> HIDE DEF t, i, node
    <2>2. Keeps(t, u) /\ NodesOf(u) = NodesOf(t) \ {t.mKeyVals[i]}
        BY <1>2, RemoveKeeps DEF u
    <2>3. node = t.mKeyVals[i]
        BY DEF node
    <2> QED
        BY <2>1, <2>2, <2>3
<1>5. Shape(program.hash, u)
    BY <1>4, SoundShape DEF Keeps
<1> HIDE DEF u, j, node
<1>6. /\ ShapesOK' /\ table'[it] = u
      /\ \A n \in Tables : n # it => table'[n] = table[n]
    BY <1>1, <1>2, <1>5, OneReplaced DEF Invariant
<1>7. IterationOK'
    BY <1>1, <1>3, <1>6, Progress
<1>8. call' = Idle /\ outcome' = "erased"
    BY <1>1 DEF Return
<1>9. CallOK'
    BY <1>8 DEF CallOK
<1>10. \A n \in Tables : NodesIn(n)' = NodesOf(table'[n])
    <2>1. call'.at # "rehash"
        BY <1>8, SettledAt
    <2> QED
        BY <2>1 DEF NodesIn, NodesOf
<1>11. \A n \in Tables : NodesIn(n) = NodesOf(table[n])
    BY <1>2, SettledNodes
<1>12. Changed(it, NodesIn(it) \ {node}) /\ node \in NodesIn(it)
    <2>1. NodesIn(it) = NodesOf(t)
        BY <1>2, <1>11
    <2>2. \A n \in Tables : NodesIn(n)' = IF n = it THEN NodesIn(it) \ {node} ELSE NodesIn(n)
        BY <1>4, <1>6, <1>10, <1>11, <2>1
    <2> QED
        BY <1>4, <2>1, <2>2 DEF Changed
<1> QED
    BY <1>2, <1>6, <1>7, <1>8, <1>9, <1>12 DEF Invariant

-----------------------------------------------------------------------------
(***************************************************************************)
(* The invariant.                                                          *)
(***************************************************************************)

LEMMA InitInvariant == Init => Invariant
<1> SUFFICES ASSUME Init PROVE Invariant
    OBVIOUS
<1>1. program \in Programs /\ call = Idle /\ iteration = NoIter
    BY DEF Init
<1>2. table = [t \in Tables |-> NewTable]
    BY DEF Init
<1>3. Shape(program.hash, NewTable)
    BY NewTableShape
<1> HIDE DEF NewTable
<1>4. \A t \in Tables : Shape(program.hash, table[t])
    BY <1>2, <1>3
<1>5. table = [name \in Tables |-> table[name]]
    BY <1>2
<1>6. ShapesOK
    BY <1>1, <1>4, <1>5 DEF ShapesOK
<1> QED
    BY <1>1, <1>6 DEF Invariant, CallOK, IterationOK

LEMMA NextInvariant == Invariant /\ [Next]_vars => Invariant'
<1> SUFFICES ASSUME Invariant, [Next]_vars PROVE Invariant'
    OBVIOUS
<1>1. CASE Call
    <2>1. PICK t \in program.tables :
            \/ \E node \in program.nodes, assign \in BOOLEAN : Insert(t, node, assign)
            \/ \E c \in program.sizes, forced \in BOOLEAN : reserve(t, c, forced)
            \/ compact(t)
            \/ \E k \in Keys : EraseKey(t, k) \/ EraseFound(t, k)
            \/ clear(t) \/ Destroy(t)
            \/ \E u \in program.tables : \/ MoveConstruct(t, u) \/ MoveAssign(t, u) \/ Swap(t, u)
                                 \/ CopyConstruct(t, u) \/ CopyAssign(t, u)
            \/ Begin(t)
        BY <1>1, Zenon DEF Call
    <2>2. CASE \E node \in program.nodes, assign \in BOOLEAN : Insert(t, node, assign)
        BY <2>2, InsertStep
    <2>3. CASE \E c \in program.sizes, forced \in BOOLEAN : reserve(t, c, forced)
        BY <2>3, ReserveStep
    <2>4. CASE compact(t)
        BY <2>4, CompactStep
    <2>5. CASE \E k \in Keys : EraseKey(t, k) \/ EraseFound(t, k)
        BY <2>5, EraseKeyStep
    <2>6. CASE clear(t) \/ Destroy(t)
        BY <2>6, ClearStep
    <2>7. CASE \E u \in program.tables : \/ MoveConstruct(t, u) \/ MoveAssign(t, u) \/ Swap(t, u)
                                         \/ CopyConstruct(t, u) \/ CopyAssign(t, u)
        BY <2>7, MoveStep, SwapStep, CopyStep
    <2>8. CASE Begin(t)
        BY <2>8, BeginStep
    <2> QED
        BY <2>1, <2>2, <2>3, <2>4, <2>5, <2>6, <2>7, <2>8
<1>2. CASE Step
    BY <1>2, KeyFoundStep, InsertNodeStep, IncreaseSizeStep, GiveUpStep, MoveNodeStep,
       NodesMovedStep DEF Step
<1>3. CASE Advance
    BY <1>3, AdvanceStep
<1>4. CASE EraseAndGoOn
    BY <1>4, EraseAndGoOnStep
<1>5. CASE UNCHANGED vars
    BY <1>5 DEF vars, Invariant, ShapesOK, CallOK, Moving, IterationOK
<1> QED
    BY <1>1, <1>2, <1>3, <1>4, <1>5 DEF Next

\* What the other theorems rest on.  shiftUp(), shiftDown() and try_increase_info() keep the
\* info bytes in the order that lets a search stop at the first smaller one; the nodes that
\* rehashPowerOfTwo() has not moved yet have room in the new memory and keys that are not
\* there; and an iterator has met all keys but those ahead of it (robin_hood.h:1373-1621,
\* 2489-2707).
THEOREM TableInvariant == Spec => []Invariant
<1> QED
    BY InitInvariant, NextInvariant, PTL DEF Spec

-----------------------------------------------------------------------------
(***************************************************************************)
(* The properties of a state.                                              *)
(***************************************************************************)

\* A table that has memory is as TableOK says.
LEMMA TableOfShape ==
    ASSUME program.hash \in Hashes, NEW t, Shape(program.hash, t)
    PROVE  /\ t.mNumElements = Cardinality(Occupied(t))
           /\ t.mMask # 0 =>
                /\ t.mInfo[End(t)] = 1
                /\ DOMAIN t.mKeyVals = Slots(t)
                /\ \A i \in Slots(t) : t.mInfo[i] # 0 <=> t.mKeyVals[i] # NoNode
                /\ \A i \in Occupied(t) :
                    /\ i >= Home(t, t.mKeyVals[i].key)
                    /\ t.mInfo[i] = Info(t, t.mKeyVals[i].key, i - Home(t, t.mKeyVals[i].key))
                    /\ Fits(t, t.mInfo[i]) \/ t.mMaxNumElementsAllowed = 0
<1>1. t.mNumElements = Cardinality(Occupied(t))
    BY ShapeCases
<1>2. ASSUME t.mMask # 0
      PROVE  /\ t.mInfo[End(t)] = 1
             /\ DOMAIN t.mKeyVals = Slots(t)
             /\ \A i \in Slots(t) : t.mInfo[i] # 0 <=> t.mKeyVals[i] # NoNode
             /\ \A i \in Occupied(t) :
                    /\ i >= Home(t, t.mKeyVals[i].key)
                    /\ t.mInfo[i] = Info(t, t.mKeyVals[i].key, i - Home(t, t.mKeyVals[i].key))
                    /\ Fits(t, t.mInfo[i]) \/ t.mMaxNumElementsAllowed = 0
    <2>1. HasMemory(program.hash, t)
        BY <1>2, ShapeCases
    <2>2. t.mInfo[End(t)] = 1 /\ DOMAIN t.mKeyVals = Slots(t)
        BY <2>1 DEF HasMemory, Memory
    <2>3. \A i \in Slots(t) : t.mInfo[i] # 0 <=> t.mKeyVals[i] # NoNode
        BY <2>1 DEF HasMemory, Taken
    <2>4. \A i \in Occupied(t) :
                /\ i >= Home(t, t.mKeyVals[i].key)
                /\ t.mInfo[i] = Info(t, t.mKeyVals[i].key, i - Home(t, t.mKeyVals[i].key))
        BY <2>1 DEF HasMemory, AtDistance, HomeBy, InfoBy, Home, Info, Hash
    <2>5. t.mMaxNumElementsAllowed # 0 => \A i \in Occupied(t) : Fits(t, t.mInfo[i])
        BY <2>1, Zenon DEF HasMemory, Limited, AllFit
    <2> QED
        BY <2>2, <2>3, <2>4, <2>5
<1> QED
    BY <1>1, <1>2

LEMMA TableOKHolds == Invariant => TableOK
<1> SUFFICES ASSUME Invariant PROVE TableOK
    OBVIOUS
<1>1. program.hash \in Hashes /\ \A name \in Tables : Shape(program.hash, table[name])
    BY ShapesType DEF Invariant
<1> QED
    BY <1>1, TableOfShape DEF TableOK

\* In every reachable state every table is in shape, also between the steps that move
\* its nodes to new memory: the sentinel stands, info bytes are those of the keys at
\* their distance from home and have not wrapped, and mNumElements counts the nodes
\* (robin_hood.h:1493-1535, 1572-1621, 2551-2672).
THEOREM TablesInShape == Spec => []TableOK
<1> QED
    BY TableInvariant, TableOKHolds, PTL

LEMMA FindsEntriesHolds == Invariant => FindsEntries
<1> SUFFICES ASSUME Invariant, NEW name \in Tables, NEW k \in Keys
             PROVE  {findIdx(table[name], k), eraseIdx(table[name], k)} =
                        IF \E i \in Occupied(table[name]) : table[name].mKeyVals[i].key = k
                        THEN {i \in Occupied(table[name]) : table[name].mKeyVals[i].key = k}
                        ELSE {End(table[name])}
    BY DEF FindsEntries
<1> DEFINE t == table[name]
<1>1. program.hash \in Hashes /\ Shape(program.hash, t)
    BY ShapesType DEF Invariant
<1> HIDE DEF t
<1>2. /\ \A i \in Occupied(t) : t.mKeyVals[i].key = k => findIdx(t, k) = i /\ eraseIdx(t, k) = i
      /\ (\A i \in Occupied(t) : t.mKeyVals[i].key # k) =>
             findIdx(t, k) = End(t) /\ eraseIdx(t, k) = End(t)
    BY <1>1, Searches
<1>3. CASE \E i \in Occupied(t) : t.mKeyVals[i].key = k
    <2>1. PICK i \in Occupied(t) : t.mKeyVals[i].key = k
        BY <1>3
    <2>2. findIdx(t, k) = i /\ eraseIdx(t, k) = i
        BY <1>2, <2>1
    <2>3. {j \in Occupied(t) : t.mKeyVals[j].key = k} = {i}
        BY <1>2, <2>1, <2>2
    <2> QED
        BY <1>3, <2>2, <2>3 DEF t
<1>4. CASE \A i \in Occupied(t) : t.mKeyVals[i].key # k
    <2>1. findIdx(t, k) = End(t) /\ eraseIdx(t, k) = End(t)
        BY <1>2, <1>4
    <2> QED
        BY <1>4, <2>1 DEF t
<1> QED
    BY <1>3, <1>4

\* In every reachable state find() and erase() come to the one slot that has the key, or
\* to the end when there is none, after whatever shifts, halved bytes and new hashes
\* (robin_hood.h:1540-1563, 2247-2268).
THEOREM EveryEntryFound == Spec => []FindsEntries
<1> QED
    BY TableInvariant, FindsEntriesHolds, PTL

LEMMA IterationExactHolds == Invariant => IterationExact
<1> SUFFICES ASSUME Invariant, iteration # NoIter
             PROVE  IF iteration.at = End(table[iteration.table])
                    THEN iteration.met = iteration.keys
                    ELSE /\ iteration.at \in Occupied(table[iteration.table])
                         /\ table[iteration.table].mKeyVals[iteration.at].key
                                \in iteration.keys \ iteration.met
    BY DEF IterationExact
<1> DEFINE t == table[iteration.table]
           i == iteration.at
<1>1. iteration.table \in Tables
    BY Zenon DEF IterationOK, Invariant
<1>2. program.hash \in Hashes /\ Shape(program.hash, t)
    BY <1>1, ShapesType DEF Invariant
<1>3. i \in Occupied(t) \cup {End(t)}
    BY Zenon DEF IterationOK, Invariant
<1>4. iteration.keys = iteration.met \cup KeysFrom(t, i) /\ iteration.met \cap KeysFrom(t, i) = {}
    BY Zenon DEF IterationOK, Invariant
<1> HIDE DEF t, i
<1>5. CASE i = End(t)
    <2>1. KeysFrom(t, i) = {}
        BY <1>2, <1>5, NothingAhead
    <2>2. iteration.met = iteration.keys
        BY <1>4, <2>1
    <2> QED
        BY <1>5, <2>2 DEF t, i
<1>6. CASE i # End(t)
    <2>1. i \in Occupied(t)
        BY <1>3, <1>6
    <2>2. Sound(t)
        BY <1>2, <2>1, OccupiedSound
    <2>3. t.mKeyVals[i].key \in KeysFrom(t, i)
        <3> DEFINE j == fastForward(t, i + 1)
        <3>1. j = fastForward(t, i + 1)
            OBVIOUS
        <3> HIDE DEF j
        <3> QED
            BY <2>1, <2>2, <3>1, AdvanceAhead
    <2>4. t.mKeyVals[i].key \in iteration.keys \ iteration.met
        BY <1>4, <2>3
    <2> QED
        BY <1>6, <2>1, <2>4 DEF t, i
<1> QED
    BY <1>5, <1>6

\* An iterator meets every key the table had when begin() was called, and each once,
\* also when it erases on its way: at the end it has met them all, and before that it is
\* at a node whose key it has not met (robin_hood.h:1373-1448, 2228-2245).
THEOREM IterationsExact == Spec => []IterationExact
<1> QED
    BY TableInvariant, IterationExactHolds, PTL

-----------------------------------------------------------------------------
(***************************************************************************)
(* What a table maps.                                                      *)
(***************************************************************************)

\* Nodes of which no two have the same key, and the map that they are.
Unique(nodes) ==
    /\ nodes \subseteq Node
    /\ \A node, other \in nodes : node.key = other.key => node = other

MapOf(nodes) == [k \in KeysOf(nodes) |-> (CHOOSE node \in nodes : node.key = k).value]

LEMMA ContentsMap ==
    ASSUME NEW t
    PROVE  Contents(t) = MapOf(NodesIn(t))
BY DEF Contents, MapOf, KeysOf

LEMMA MapOfValue ==
    ASSUME NEW nodes, Unique(nodes)
    PROVE  /\ DOMAIN MapOf(nodes) = KeysOf(nodes)
           /\ \A node \in nodes : node.key \in KeysOf(nodes) /\ MapOf(nodes)[node.key] = node.value
           /\ KeysOf(nodes) \subseteq Keys
           /\ \A k \in KeysOf(nodes) : \E node \in nodes : node.key = k
<1>1. DOMAIN MapOf(nodes) = KeysOf(nodes)
    BY DEF MapOf
<1>2. ASSUME NEW node \in nodes
      PROVE  node.key \in KeysOf(nodes) /\ MapOf(nodes)[node.key] = node.value
    <2>1. node.key \in KeysOf(nodes)
        BY DEF KeysOf
    <2> DEFINE chosen == CHOOSE other \in nodes : other.key = node.key
    <2>2. chosen \in nodes /\ chosen.key = node.key
        OBVIOUS
    <2>3. chosen = node
        BY <2>2 DEF Unique
    <2>4. MapOf(nodes)[node.key] = chosen.value
        BY <2>1 DEF MapOf
    <2> QED
        BY <2>1, <2>3, <2>4
<1>3. \A k \in KeysOf(nodes) : \E node \in nodes : node.key = k
    BY DEF KeysOf
<1>4. KeysOf(nodes) \subseteq Keys
    BY <1>3 DEF Unique, Node
<1> QED
    BY <1>1, <1>2, <1>3, <1>4

\* The map tells which nodes there are.
LEMMA SameMap ==
    ASSUME NEW nodes, Unique(nodes), NEW others, Unique(others)
    PROVE  MapOf(nodes) = MapOf(others) <=> nodes = others
<1>1. ASSUME NEW S, Unique(S), NEW T, Unique(T), MapOf(S) = MapOf(T), NEW node \in S
      PROVE  node \in T
    <2>1. node.key \in KeysOf(S) /\ MapOf(S)[node.key] = node.value /\ DOMAIN MapOf(S) = KeysOf(S)
        BY <1>1, MapOfValue
    <2>2. DOMAIN MapOf(T) = KeysOf(T)
        BY <1>1, MapOfValue
    <2>3. PICK other \in T : other.key = node.key
        BY <1>1, <2>1, <2>2 DEF KeysOf
    <2>4. MapOf(T)[other.key] = other.value
        BY <1>1, <2>3, MapOfValue
    <2>5. other.value = node.value
        BY <1>1, <2>1, <2>3, <2>4
    <2>6. other \in Node /\ node \in Node
        BY <1>1, <2>3 DEF Unique
    <2>7. other = node
        BY <2>3, <2>5, <2>6 DEF Node
    <2> QED
        BY <2>3, <2>7
<1>2. MapOf(nodes) = MapOf(others) => nodes \subseteq others /\ others \subseteq nodes
    BY <1>1
<1> QED
    BY <1>2

\* The nodes of a table have different keys, and there are as many as it says.
LEMMA NodesOfShape ==
    ASSUME NEW t, Shaped(t)
    PROVE  /\ Unique(NodesOf(t))
           /\ IsFiniteSet(NodesOf(t)) /\ Cardinality(NodesOf(t)) = t.mNumElements
<1>1. CASE t.mMask = 0
    <2>1. NodesOf(t) = {}
        BY <1>1, EmptyNodes
    <2>2. t = initMembers(t.mHashMultiplier) /\ t \in Members
        BY <1>1, ShapeCases DEF Shaped
    <2>3. t.mNumElements = 0
        BY <2>2, NoMemory
    <2> QED
        BY <2>1, <2>3, FS_EmptySet DEF Unique
<1>2. CASE t.mMask # 0
    <2>1. Sound(t)
        BY <1>2, ShapeSound DEF Shaped
    <2>2. NodesOf(t) \subseteq Node
        BY <2>1, AllKeys
    <2>3. \A i, j \in Occupied(t) : t.mKeyVals[i].key = t.mKeyVals[j].key => i = j
        BY <2>1, OneSlot
    <2>4. Unique(NodesOf(t))
        BY <2>2, <2>3 DEF Unique, NodesOf
    <2> DEFINE f == [i \in Occupied(t) |-> t.mKeyVals[i]]
    <2>5. f \in Bijection(Occupied(t), NodesOf(t))
        <3>1. f \in [Occupied(t) -> NodesOf(t)]
            BY DEF NodesOf
        <3>2. \A node \in NodesOf(t) : \E i \in Occupied(t) : f[i] = node
            BY DEF NodesOf
        <3>3. \A i, j \in Occupied(t) : f[i] = f[j] => i = j
            BY <2>3
        <3> HIDE DEF f
        <3> QED
            BY <3>1, <3>2, <3>3 DEF Bijection, Injection, IsInjective, Surjection
    <2>6. ExistsBijection(Occupied(t), NodesOf(t))
        BY <2>5 DEF ExistsBijection
    <2>7. IsFiniteSet(Occupied(t)) /\ t.mNumElements = Cardinality(Occupied(t))
        BY <2>1, OccupiedFinite
    <2> QED
        BY <2>4, <2>6, <2>7, FS_Bijection
<1> QED
    BY <1>1, <1>2

\* What the comparison of two tables compares.
LEMMA EqualNodes ==
    ASSUME NEW t, Shaped(t), NEW other, Shaped(other)
    PROVE  Equal(t, other) <=> NodesOf(t) = NodesOf(other)
<1>1. /\ Unique(NodesOf(t)) /\ IsFiniteSet(NodesOf(t))
      /\ Cardinality(NodesOf(t)) = t.mNumElements
      /\ Unique(NodesOf(other)) /\ IsFiniteSet(NodesOf(other))
      /\ Cardinality(NodesOf(other)) = other.mNumElements
    BY NodesOfShape
<1> DEFINE Same(i) == /\ contains(t, other.mKeyVals[i].key)
                      /\ t.mKeyVals[findIdx(t, other.mKeyVals[i].key)].value
                            = other.mKeyVals[i].value
<1>2. ASSUME NEW i \in Occupied(other)
      PROVE  Same(i) <=> other.mKeyVals[i] \in NodesOf(t)
    <2> DEFINE node == other.mKeyVals[i]
               j == findIdx(t, node.key)
    <2>1. node \in NodesOf(other)
        BY DEF NodesOf
    <2>2. node \in Node /\ node.key \in Keys
        BY <1>1, <2>1 DEF Unique, Node
    <2>3. Same(i) <=> j # End(t) /\ t.mKeyVals[j].value = node.value
        BY DEF contains
    <2> HIDE DEF node, Same
    <2>4. /\ \A m \in Occupied(t) : t.mKeyVals[m].key = node.key => j = m
          /\ (\A m \in Occupied(t) : t.mKeyVals[m].key # node.key) => j = End(t)
        BY <2>2, Searches DEF Shaped
    <2>5. End(t) \notin Occupied(t)
        BY NothingAhead DEF Shaped
    <2> HIDE DEF j
    <2>6. ASSUME j # End(t), t.mKeyVals[j].value = node.value
          PROVE  node \in NodesOf(t)
        <3>1. j \in Occupied(t) /\ t.mKeyVals[j].key = node.key
            BY <2>4, <2>6
        <3>2. t.mKeyVals[j] \in NodesOf(t)
            BY <3>1 DEF NodesOf
        <3>3. t.mKeyVals[j] \in Node
            BY <1>1, <3>2 DEF Unique
        <3>4. t.mKeyVals[j] = node
            BY <2>2, <2>6, <3>1, <3>3 DEF Node
        <3> QED
            BY <3>2, <3>4
    <2>7. ASSUME node \in NodesOf(t)
          PROVE  j # End(t) /\ t.mKeyVals[j].value = node.value
        <3>1. PICK m \in Occupied(t) : t.mKeyVals[m] = node
            BY <2>7 DEF NodesOf
        <3>2. j = m
            BY <2>4, <3>1
        <3> QED
            BY <2>5, <3>1, <3>2
    <2> QED
        BY <2>3, <2>6, <2>7 DEF node
<1>3. Equal(t, other) <=> /\ t.mNumElements = other.mNumElements
                          /\ \A i \in Occupied(other) : Same(i)
    BY DEF Equal, Occupied
<1> HIDE DEF Same
<1>4. (\A i \in Occupied(other) : Same(i)) <=> NodesOf(other) \subseteq NodesOf(t)
    BY <1>2 DEF NodesOf
<1>5. ASSUME t.mNumElements = other.mNumElements, NodesOf(other) \subseteq NodesOf(t)
      PROVE  NodesOf(t) = NodesOf(other)
    BY <1>1, <1>5, FS_Subset
<1>6. NodesOf(t) = NodesOf(other) => t.mNumElements = other.mNumElements
    BY <1>1
<1> QED
    BY <1>3, <1>4, <1>5, <1>6

LEMMA EqualExactHolds == Invariant => EqualExact
<1> SUFFICES ASSUME Invariant, IsIdle, NEW t \in Tables, NEW u \in Tables
             PROVE  Equal(table[t], table[u]) <=> Contents(t) = Contents(u)
    BY DEF EqualExact
<1>1. program.hash \in Hashes /\ \A n \in Tables : Shape(program.hash, table[n])
    BY ShapesType DEF Invariant
<1>2. Shaped(table[t]) /\ Shaped(table[u])
    BY <1>1 DEF Shaped
<1>3. Settled
    BY CallTypes DEF Invariant
<1>4. NodesIn(t) = NodesOf(table[t]) /\ NodesIn(u) = NodesOf(table[u])
    BY <1>3, SettledNodes
<1>5. Contents(t) = MapOf(NodesOf(table[t])) /\ Contents(u) = MapOf(NodesOf(table[u]))
    BY <1>4, ContentsMap
<1>6. Unique(NodesOf(table[t])) /\ Unique(NodesOf(table[u]))
    BY <1>2, NodesOfShape
<1> QED
    BY <1>2, <1>5, <1>6, SameMap, EqualNodes

\* Between calls operator== tells whether two tables hold the same entries, in whatever
\* slots and with whatever hash multiplier: it counts them and looks one table's up in
\* the other (robin_hood.h:1855-1871).
THEOREM ComparisonsExact == Spec => []EqualExact
<1> QED
    BY TableInvariant, EqualExactHolds, PTL

-----------------------------------------------------------------------------
(***************************************************************************)
(* The table implements a map: what happens to the map when the nodes      *)
(* change.                                                                 *)
(***************************************************************************)

\* A map is known by the nodes it comes from.
LEMMA MapIs ==
    ASSUME NEW nodes, Unique(nodes), NEW f, f = [k \in DOMAIN f |-> f[k]],
           DOMAIN f = KeysOf(nodes), \A node \in nodes : f[node.key] = node.value
    PROVE  MapOf(nodes) = f
<1>1. DOMAIN MapOf(nodes) = KeysOf(nodes) /\ MapOf(nodes) = [k \in KeysOf(nodes) |-> MapOf(nodes)[k]]
    BY DEF MapOf
<1>2. ASSUME NEW k \in KeysOf(nodes)
      PROVE  MapOf(nodes)[k] = f[k]
    <2>1. PICK node \in nodes : node.key = k
        BY DEF KeysOf
    <2> QED
        BY <2>1, MapOfValue
<1> QED
    BY <1>1, <1>2

LEMMA MapOfNone == MapOf({}) = Map!Nothing
<1> DEFINE f == Map!Nothing
<1>1. DOMAIN f = {} /\ f = [k \in DOMAIN f |-> f[k]]
    <2>1. \A g : g = <<>> => DOMAIN g = {} /\ g = [k \in DOMAIN g |-> g[k]]
        OBVIOUS
    <2> QED
        BY <2>1 DEF Map!Nothing
<1>2. KeysOf({}) = {} /\ Unique({})
    BY DEF KeysOf, Unique
<1> HIDE DEF f
<1>3. MapOf({}) = f
    BY <1>1, <1>2, MapIs
<1> QED
    BY <1>3 DEF f

LEMMA MapOfWith ==
    ASSUME NEW nodes, Unique(nodes), NEW node \in Node, node.key \notin KeysOf(nodes)
    PROVE  MapOf(nodes \cup {node}) = Map!With(MapOf(nodes), node.key, node.value)
<1> DEFINE f == Map!With(MapOf(nodes), node.key, node.value)
           all == nodes \cup {node}
<1>1. /\ DOMAIN MapOf(nodes) = KeysOf(nodes)
      /\ \A n \in nodes : n.key \in KeysOf(nodes) /\ MapOf(nodes)[n.key] = n.value
    BY MapOfValue
<1>2. /\ DOMAIN f = KeysOf(nodes) \cup {node.key} /\ f = [k \in DOMAIN f |-> f[k]]
      /\ f[node.key] = node.value
      /\ \A k \in KeysOf(nodes) : f[k] = MapOf(nodes)[k]
    BY <1>1 DEF Map!With
<1> HIDE DEF f
<1>3. KeysOf(all) = KeysOf(nodes) \cup {node.key}
    BY DEF KeysOf
<1>4. Unique(all)
    BY <1>1 DEF Unique
<1>5. \A n \in all : f[n.key] = n.value
    BY <1>1, <1>2
<1> HIDE DEF all
<1>6. MapOf(all) = f
    BY <1>2, <1>3, <1>4, <1>5, MapIs
<1> QED
    BY <1>6 DEF f, all

LEMMA MapOfAssigned ==
    ASSUME NEW nodes, Unique(nodes), NEW old \in nodes, NEW k \in Keys, old.key = k, NEW v \in Values
    PROVE  /\ k \in DOMAIN MapOf(nodes)
           /\ MapOf((nodes \ {old}) \cup {NodeWith(k, v)}) = Map!With(MapOf(nodes), k, v)
<1> DEFINE f == Map!With(MapOf(nodes), k, v)
           node == NodeWith(k, v)
           all == (nodes \ {old}) \cup {node}
<1>1. /\ DOMAIN MapOf(nodes) = KeysOf(nodes)
      /\ \A n \in nodes : n.key \in KeysOf(nodes) /\ MapOf(nodes)[n.key] = n.value
    BY MapOfValue
<1>2. node \in Node /\ node.key = k /\ node.value = v
    BY DEF NodeWith, Node
<1>3. k \in KeysOf(nodes)
    BY <1>1
<1>4. /\ DOMAIN f = KeysOf(nodes) /\ f = [x \in DOMAIN f |-> f[x]]
      /\ f[k] = v
      /\ \A x \in KeysOf(nodes) : x # k => f[x] = MapOf(nodes)[x]
    BY <1>1, <1>3 DEF Map!With
<1> HIDE DEF f, node
<1>5. \A n \in nodes : n.key = k => n = old
    BY DEF Unique
<1>6. KeysOf(all) = KeysOf(nodes)
    BY <1>2, <1>5 DEF KeysOf
<1>7. Unique(all)
    BY <1>2, <1>5 DEF Unique
<1>8. \A n \in all : f[n.key] = n.value
    BY <1>1, <1>2, <1>4, <1>5
<1> HIDE DEF all
<1>9. MapOf(all) = f
    BY <1>4, <1>6, <1>7, <1>8, MapIs
<1> QED
    BY <1>1, <1>3, <1>9 DEF f, all, node

LEMMA MapOfSome ==
    ASSUME NEW nodes, Unique(nodes), NEW some, some \subseteq nodes
    PROVE  /\ KeysOf(some) \subseteq DOMAIN MapOf(nodes)
           /\ MapOf(some) = Map!Restrict(MapOf(nodes), KeysOf(some))
<1> DEFINE f == Map!Restrict(MapOf(nodes), KeysOf(some))
<1>1. /\ DOMAIN MapOf(nodes) = KeysOf(nodes)
      /\ \A n \in nodes : n.key \in KeysOf(nodes) /\ MapOf(nodes)[n.key] = n.value
    BY MapOfValue
<1>2. KeysOf(some) \subseteq KeysOf(nodes)
    BY DEF KeysOf
<1>3. /\ DOMAIN f = KeysOf(some) /\ f = [x \in DOMAIN f |-> f[x]]
      /\ \A x \in KeysOf(some) : f[x] = MapOf(nodes)[x]
    BY DEF Map!Restrict
<1> HIDE DEF f
<1>4. Unique(some)
    BY DEF Unique
<1>5. \A n \in some : f[n.key] = n.value
    BY <1>1, <1>3 DEF KeysOf
<1>6. MapOf(some) = f
    BY <1>3, <1>4, <1>5, MapIs
<1> QED
    BY <1>1, <1>2, <1>6 DEF f

LEMMA MapOfWithout ==
    ASSUME NEW nodes, Unique(nodes), NEW node \in nodes, NEW k, node.key = k
    PROVE  /\ k \in DOMAIN MapOf(nodes) /\ k \in Keys
           /\ MapOf(nodes \ {node}) = Map!Restrict(MapOf(nodes), DOMAIN MapOf(nodes) \ {k})
<1> DEFINE some == nodes \ {node}
<1>1. DOMAIN MapOf(nodes) = KeysOf(nodes) /\ k \in KeysOf(nodes) /\ KeysOf(nodes) \subseteq Keys
    BY MapOfValue
<1>2. \A n \in nodes : n.key = k => n = node
    BY DEF Unique
<1>3. KeysOf(some) = KeysOf(nodes) \ {k}
    BY <1>2 DEF KeysOf
<1>4. MapOf(some) = Map!Restrict(MapOf(nodes), KeysOf(some))
    <2>1. some \subseteq nodes
        OBVIOUS
    <2> HIDE DEF some
    <2> QED
        BY <2>1, MapOfSome
<1> QED
    BY <1>1, <1>3, <1>4

\* The nodes a table has, those not moved yet among them, have different keys.
LEMMA NodesUnique ==
    ASSUME Invariant, NEW t \in Tables
    PROVE  Unique(NodesIn(t))
<1>1. program.hash \in Hashes /\ Shape(program.hash, table[t])
    BY ShapesType DEF Invariant
<1>2. Unique(NodesOf(table[t]))
    BY <1>1, NodesOfShape DEF Shaped
<1>3. CASE call.at # "rehash"
    BY <1>2, <1>3 DEF NodesIn, NodesOf
<1>4. CASE call.at = "rehash"
    <2>1. /\ OldOK(call.old, table[call.table])
          /\ NodesIn(t) = NodesOf(table[t]) \cup (IF t = call.table THEN Range(call.old) ELSE {})
          /\ Sound(table[call.table])
        BY <1>4, MovingType
    <2>2. CASE t # call.table
        BY <1>2, <2>1, <2>2
    <2>3. CASE t = call.table
        <3> DEFINE old == call.old
        <3>1. NodesIn(t) = NodesOf(table[t]) \cup Range(old)
            BY <2>1, <2>3
        <3>2. /\ old \in [DOMAIN old -> Node]
              /\ \A i, j \in DOMAIN old : old[i].key = old[j].key => i = j
              /\ \A i \in DOMAIN old : old[i].key \notin KeysFrom(table[t], 0)
            BY <2>1, <2>3 DEF OldOK
        <3>3. KeysFrom(table[t], 0) = KeysOf(NodesOf(table[t]))
            BY <2>1, <2>3, AllKeys
        <3> HIDE DEF old
        <3>4. /\ Range(old) \subseteq Node
              /\ \A n, m \in Range(old) : n.key = m.key => n = m
              /\ \A n \in Range(old) : n.key \notin KeysOf(NodesOf(table[t]))
            BY <3>2, <3>3 DEF Range
        <3>5. \A n \in Range(old), m \in NodesOf(table[t]) : n.key # m.key
            BY <3>4 DEF KeysOf
        <3>6. Unique(NodesOf(table[t]) \cup Range(old))
            BY <1>2, <3>4, <3>5 DEF Unique
        <3> QED
            BY <3>1, <3>6
    <2> QED
        BY <2>2, <2>3
<1> QED
    BY <1>3, <1>4

-----------------------------------------------------------------------------
(***************************************************************************)
(* Every step of the table is a step of the map, or none.                  *)
(***************************************************************************)

\* The maps that the tables are.
Mapped == [t \in Tables |-> Contents(t)]

LEMMA MappedAt ==
    ASSUME Invariant, NEW t \in Tables
    PROVE  /\ Mapped[t] = MapOf(NodesIn(t))
           /\ Unique(NodesIn(t))
BY ContentsMap, NodesUnique DEF Mapped

LEMMA ContentsThen ==
    ASSUME NEW t, NEW nodes, NodesIn(t)' = nodes
    PROVE  Contents(t)' = MapOf(nodes)
BY DEF Contents, MapOf, KeysOf

LEMMA MappedThen ==
    ASSUME NEW f, \A t \in Tables : NodesIn(t)' = f[t]
    PROVE  Mapped' = [t \in Tables |-> MapOf(f[t])]
<1>1. \A t \in Tables : Contents(t)' = MapOf(f[t])
    BY ContentsThen
<1> QED
    BY <1>1 DEF Mapped

LEMMA MappedStays ==
    ASSUME Invariant, \A t \in Tables : NodesIn(t)' = NodesIn(t)
    PROVE  Mapped' = Mapped
<1>1. \A t \in Tables : Contents(t)' = Contents(t)
    BY ContentsThen, ContentsMap
<1> QED
    BY <1>1 DEF Mapped

LEMMA MappedSame ==
    ASSUME Invariant, NEW t, Changed(t, NodesIn(t))
    PROVE  Mapped' = Mapped
<1>1. \A n \in Tables : NodesIn(n)' = NodesIn(n)
    BY DEF Changed
<1> QED
    BY <1>1, MappedStays

LEMMA MappedBecomes ==
    ASSUME Invariant, NEW t \in Tables, NEW nodes, Changed(t, nodes)
    PROVE  /\ Mapped' = [Mapped EXCEPT ![t] = MapOf(nodes)]
           /\ Map!Becomes(t, MapOf(nodes))
<1>1. \A n \in Tables : Contents(n)' = IF n = t THEN MapOf(nodes) ELSE Contents(n)
    <2>1. \A n \in Tables : NodesIn(n)' = IF n = t THEN nodes ELSE NodesIn(n)
        BY DEF Changed
    <2> QED
        BY <2>1, ContentsThen, ContentsMap
<1>2. Mapped' = [Mapped EXCEPT ![t] = MapOf(nodes)]
    BY <1>1 DEF Mapped
<1> QED
    BY <1>2 DEF Map!Becomes, Mapped

MapStep == Map!Next \/ UNCHANGED <<Mapped, outcome>>

LEMMA KeepMaps ==
    ASSUME Mapped' = Mapped, outcome' \in {outcome, "none"}
    PROVE  MapStep
<1>1. CASE outcome' = outcome
    BY <1>1 DEF MapStep
<1>2. CASE outcome' = "none"
    BY <1>2 DEF MapStep, Map!Next, Map!Keep, Mapped
<1> QED
    BY <1>1, <1>2

LEMMA EraseMaps ==
    ASSUME Invariant, NEW t \in Tables, NEW node \in NodesIn(t), Changed(t, NodesIn(t) \ {node}),
           outcome' = "erased"
    PROVE  MapStep
<1> DEFINE k == node.key
<1>1. Mapped[t] = MapOf(NodesIn(t)) /\ Unique(NodesIn(t))
    BY MappedAt
<1>2. /\ k \in DOMAIN Mapped[t] /\ k \in Keys
      /\ MapOf(NodesIn(t) \ {node}) = Map!Restrict(Mapped[t], DOMAIN Mapped[t] \ {k})
    BY <1>1, MapOfWithout
<1>3. Map!Becomes(t, MapOf(NodesIn(t) \ {node}))
    BY MappedBecomes
<1> HIDE DEF k
<1>4. Map!Erase(t, k)
    BY <1>2, <1>3 DEF Map!Erase, Mapped
<1> QED
    BY <1>2, <1>4 DEF MapStep, Map!Next

LEMMA OverflowMaps ==
    ASSUME Invariant, NEW t \in Tables, NEW nodes, nodes \subseteq NodesIn(t), Changed(t, nodes),
           outcome' = "overflow_error"
    PROVE  MapStep
<1>1. Mapped[t] = MapOf(NodesIn(t)) /\ Unique(NodesIn(t))
    BY MappedAt
<1>2. /\ KeysOf(nodes) \in SUBSET DOMAIN Mapped[t]
      /\ MapOf(nodes) = Map!Restrict(Mapped[t], KeysOf(nodes))
    BY <1>1, MapOfSome
<1>3. Map!Becomes(t, MapOf(nodes))
    BY MappedBecomes
<1>4. \E ks \in SUBSET DOMAIN Mapped[t] : Map!Becomes(t, Map!Restrict(Mapped[t], ks))
    BY <1>2, <1>3
<1>5. Map!Overflow(t)
    BY <1>4 DEF Map!Overflow, Mapped
<1> QED
    BY <1>5 DEF MapStep, Map!Next

LEMMA ClearMaps ==
    ASSUME Invariant, NEW t \in Tables, Changed(t, {}), outcome' = "cleared"
    PROVE  MapStep
<1>1. Map!Becomes(t, MapOf({}))
    BY MappedBecomes
<1>2. Map!Clear(t)
    BY <1>1, MapOfNone DEF Map!Clear
<1> QED
    BY <1>2 DEF MapStep, Map!Next

LEMMA CopyMaps ==
    ASSUME Invariant, NEW t \in Tables, NEW u \in Tables, Changed(t, NodesIn(u)),
           outcome' = "copied"
    PROVE  MapStep
<1>1. Map!Becomes(t, MapOf(NodesIn(u))) /\ Mapped[u] = MapOf(NodesIn(u))
    BY MappedBecomes, MappedAt
<1>2. Map!Copy(t, u)
    BY <1>1 DEF Map!Copy, Mapped
<1> QED
    BY <1>2 DEF MapStep, Map!Next

LEMMA MoveMaps ==
    ASSUME Invariant, NEW t \in Tables, NEW u \in Tables, t # u,
           \A n \in Tables : NodesIn(n)' = IF n = t THEN NodesIn(u)
                                           ELSE IF n = u THEN {} ELSE NodesIn(n),
           outcome' = "moved"
    PROVE  MapStep
<1>1. \A n \in Tables : Contents(n)' = IF n = t THEN Contents(u)
                                       ELSE IF n = u THEN Map!Nothing ELSE Contents(n)
    BY ContentsThen, ContentsMap, MapOfNone
<1>2. Mapped' = [Mapped EXCEPT ![t] = Mapped[u], ![u] = Map!Nothing]
    BY <1>1 DEF Mapped
<1>3. Map!Move(t, u)
    BY <1>2 DEF Map!Move, Mapped
<1> QED
    BY <1>3 DEF MapStep, Map!Next

LEMMA SwapMaps ==
    ASSUME Invariant, NEW t \in Tables, NEW u \in Tables, t # u,
           \A n \in Tables : NodesIn(n)' = IF n = t THEN NodesIn(u)
                                           ELSE IF n = u THEN NodesIn(t) ELSE NodesIn(n),
           outcome' = "swapped"
    PROVE  MapStep
<1>1. \A n \in Tables : Contents(n)' = IF n = t THEN Contents(u)
                                       ELSE IF n = u THEN Contents(t) ELSE Contents(n)
    BY ContentsThen, ContentsMap
<1>2. Mapped' = [Mapped EXCEPT ![t] = Mapped[u], ![u] = Mapped[t]]
    BY <1>1 DEF Mapped
<1>3. Map!Swap(t, u)
    BY <1>2 DEF Map!Swap, Mapped
<1> QED
    BY <1>3 DEF MapStep, Map!Next

LEMMA KeyFoundMaps ==
    ASSUME Invariant, KeyFound
    PROVE  MapStep
<1> DEFINE t == call.table
           k == call.node.key
           v == call.node.value
<1>1. /\ t \in Tables
      /\ \/ /\ outcome' = "assigned"
            /\ \E old \in NodesIn(t) :
                  /\ old.key = k /\ k \in Keys /\ v \in Values
                  /\ Changed(t, (NodesIn(t) \ {old}) \cup {NodeWith(k, v)})
         \/ /\ outcome' = "found" /\ NodesIn(t) # {} /\ Changed(t, NodesIn(t))
    BY KeyFoundStep
<1> HIDE DEF t, k, v
<1>2. Mapped[t] = MapOf(NodesIn(t)) /\ Unique(NodesIn(t))
    BY <1>1, MappedAt
<1>3. ASSUME outcome' = "assigned",
             NEW old \in NodesIn(t), old.key = k, k \in Keys, v \in Values,
             Changed(t, (NodesIn(t) \ {old}) \cup {NodeWith(k, v)})
      PROVE  MapStep
    <2>1. /\ k \in DOMAIN Mapped[t]
          /\ MapOf((NodesIn(t) \ {old}) \cup {NodeWith(k, v)}) = Map!With(Mapped[t], k, v)
        BY <1>2, <1>3, MapOfAssigned
    <2>2. Map!Becomes(t, MapOf((NodesIn(t) \ {old}) \cup {NodeWith(k, v)}))
        BY <1>1, <1>3, MappedBecomes
    <2>3. Map!Assign(t, k, v)
        BY <1>3, <2>1, <2>2 DEF Map!Assign, Mapped
    <2> QED
        BY <1>1, <1>3, <2>3 DEF MapStep, Map!Next
<1>4. ASSUME outcome' = "found", NodesIn(t) # {}, Changed(t, NodesIn(t))
      PROVE  MapStep
    <2>1. Mapped' = Mapped
        BY <1>4, MappedSame
    <2>2. DOMAIN Mapped[t] # {}
        BY <1>2, <1>4, MapOfValue
    <2>3. Map!Found(t)
        BY <1>4, <2>1, <2>2 DEF Map!Found, Mapped
    <2> QED
        BY <1>1, <2>3 DEF MapStep, Map!Next
<1> QED
    BY <1>1, <1>3, <1>4

LEMMA InsertNodeMaps ==
    ASSUME Invariant, InsertNode
    PROVE  MapStep
<1> DEFINE t == call.table
           node == call.node
<1>1. /\ outcome' = "inserted" /\ t \in Tables /\ node \in Node
      /\ node.key \notin KeysOf(NodesIn(t)) /\ Changed(t, NodesIn(t) \cup {node})
    BY InsertNodeStep
<1> HIDE DEF t, node
<1>2. Mapped[t] = MapOf(NodesIn(t)) /\ Unique(NodesIn(t))
    BY <1>1, MappedAt
<1>3. node.key \notin DOMAIN Mapped[t]
    BY <1>1, <1>2, MapOfValue
<1>4. MapOf(NodesIn(t) \cup {node}) = Map!With(Mapped[t], node.key, node.value)
    BY <1>1, <1>2, MapOfWith
<1>5. Map!Becomes(t, MapOf(NodesIn(t) \cup {node}))
    BY <1>1, MappedBecomes
<1>6. node.key \in Keys /\ node.value \in Values
    BY <1>1 DEF Node
<1>7. Map!Insert(t, node.key, node.value)
    BY <1>1, <1>3, <1>4, <1>5 DEF Map!Insert, Mapped
<1> QED
    BY <1>1, <1>6, <1>7 DEF MapStep, Map!Next

LEMMA IncreaseSizeMaps ==
    ASSUME Invariant, IncreaseSize
    PROVE  MapStep
<1>1. Mapped' = Mapped
    BY IncreaseSizeStep, MappedSame
<1>2. outcome' \in {outcome, "none"}
    <2> DEFINE t == table[call.table]
    <2>1. \/ UNCHANGED outcome
          \/ Rehash(call.table, t, 2 * (t.mMask + 1), NextAttempt)
          \/ Rehash(call.table, [t EXCEPT !.mHashMultiplier = (@ + 1) % NumMultipliers],
                    t.mMask + 1, NextAttempt)
        BY Zenon DEF IncreaseSize
    <2> QED
        BY <2>1 DEF Rehash
<1> QED
    BY <1>1, <1>2, KeepMaps

LEMMA NextMaps == Invariant /\ [Next]_vars => MapStep
<1> SUFFICES ASSUME Invariant, [Next]_vars PROVE MapStep
    OBVIOUS
<1>1. CASE Call
    <2>1. PICK t \in program.tables :
            \/ \E node \in program.nodes, assign \in BOOLEAN : Insert(t, node, assign)
            \/ \E c \in program.sizes, forced \in BOOLEAN : reserve(t, c, forced)
            \/ compact(t)
            \/ \E k \in Keys : EraseKey(t, k) \/ EraseFound(t, k)
            \/ clear(t) \/ Destroy(t)
            \/ \E u \in program.tables : \/ MoveConstruct(t, u) \/ MoveAssign(t, u) \/ Swap(t, u)
                                 \/ CopyConstruct(t, u) \/ CopyAssign(t, u)
            \/ Begin(t)
        BY <1>1, Zenon DEF Call
    <2>2. CASE \E node \in program.nodes, assign \in BOOLEAN : Insert(t, node, assign)
        BY <2>2, InsertStep, MappedStays, KeepMaps
    <2>3. CASE \/ \E c \in program.sizes, forced \in BOOLEAN : reserve(t, c, forced)
               \/ compact(t)
        BY <2>3, ReserveStep, CompactStep, MappedSame, KeepMaps
    <2>4. CASE \E k \in Keys : EraseKey(t, k) \/ EraseFound(t, k)
        BY <2>4, EraseKeyStep, EraseMaps
    <2>5. CASE clear(t) \/ Destroy(t)
        BY <2>5, ClearStep, ClearMaps
    <2>6. ASSUME NEW u \in program.tables, MoveConstruct(t, u) \/ MoveAssign(t, u)
          PROVE  MapStep
        BY <2>6, MoveStep, MoveMaps
    <2>7. ASSUME NEW u \in program.tables, Swap(t, u)
          PROVE  MapStep
        BY <2>7, SwapStep, SwapMaps
    <2>8. ASSUME NEW u \in program.tables, CopyConstruct(t, u) \/ CopyAssign(t, u)
          PROVE  MapStep
        BY <2>8, CopyStep, CopyMaps
    <2>9. CASE Begin(t)
        BY <2>9, BeginStep, MappedStays, KeepMaps
    <2> QED
        BY <2>1, <2>2, <2>3, <2>4, <2>5, <2>6, <2>7, <2>8, <2>9
<1>2. CASE KeyFound \/ InsertNode \/ IncreaseSize
    BY <1>2, KeyFoundMaps, InsertNodeMaps, IncreaseSizeMaps
<1>3. CASE GiveUp
    BY <1>3, GiveUpStep, OverflowMaps
<1>4. CASE MoveNode
    BY <1>4, MoveNodeStep, OverflowMaps, MappedSame, KeepMaps
<1>5. CASE NodesMoved
    BY <1>5, NodesMovedStep, MappedStays, KeepMaps
<1>6. CASE Advance
    BY <1>6, AdvanceStep, MappedStays, KeepMaps
<1>7. CASE EraseAndGoOn
    BY <1>7, EraseAndGoOnStep, EraseMaps
<1>8. CASE UNCHANGED vars
    <2>1. /\ UNCHANGED <<program, table>> /\ UNCHANGED <<call, iteration>>
          /\ UNCHANGED outcome
        BY <1>8 DEF vars
    <2>2. \A t \in Tables : NodesIn(t)' = NodesIn(t)
        BY <2>1 DEF NodesIn, NodesOf
    <2> QED
        BY <2>1, <2>2, MappedStays, KeepMaps
<1> QED
    BY <1>1, <1>2, <1>3, <1>4, <1>5, <1>6, <1>7, <1>8 DEF Next, Step

LEMMA MapInit == Init => Map!Init
<1> SUFFICES ASSUME Init PROVE Map!Init
    OBVIOUS
<1>1. ASSUME NEW t \in Tables
      PROVE  Contents(t) = Map!Nothing
    <2>1. table[t] = NewTable
        BY DEF Init
    <2>2. NodesOf(table[t]) = {}
        BY <2>1, NewTableShape
    <2>3. Settled
        BY DEF Init, Settled
    <2>4. NodesIn(t) = {}
        BY <2>2, <2>3, SettledNodes
    <2> QED
        BY <2>4, ContentsMap, MapOfNone
<1>2. outcome = "none"
    BY DEF Init
<1> QED
    BY <1>1, <1>2 DEF Map!Init

\* The table is a map to those who use it: an insertion adds or assigns the one entry, an
\* erasure takes the one away, a rehash, halved info bytes and shifted nodes change none,
\* copies, moves and swaps transfer them all, and where the hash is so bad that a call
\* throws, what is left are entries of before (robin_hood.h:1474-1737, 1876-2334,
\* 2489-2672).
THEOREM TableImplementsMap == Spec => ImplementsUnorderedMap
<1>1. Invariant /\ [Next]_vars => [Map!Next]_<<[t \in Tables |-> Contents(t)], outcome>>
    BY NextMaps DEF MapStep, Mapped
<1> QED
    BY <1>1, MapInit, TableInvariant, PTL DEF Spec, ImplementsUnorderedMap, Map!Spec
=============================================================================
