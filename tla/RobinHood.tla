------------------------------ MODULE RobinHood ------------------------------
(***************************************************************************)
(* The hash map of include/utils/robin_hood.h (detail::Table), in which a  *)
(* book keeps its orders and the markets their symbols and books.          *)
(*                                                                         *)
(* An open-addressing table: each slot has an info byte, 0 when it is      *)
(* free, else bits of the hash plus mInfoInc for every step from the slot  *)
(* the key hashes to, and one to start with.  A search moves on as long as *)
(* the info byte it would have there is not larger than the one it sees.   *)
(* The loops over slots are within one step; an insertion takes a step per *)
(* attempt, and moving the nodes into new memory a step per node, since it *)
(* may fail at each.                                                       *)
(***************************************************************************)
EXTENDS Integers, FiniteSetsExt, Functions, TLC

CONSTANTS
    Tables, Keys, Values,
    Programs,            \* what uses the tables: a hash function, that is, for each
                         \* multiplier the keys' mixed hashes; its tables; the nodes
                         \* it inserts; and the sizes it asks for
    NumMultipliers,      \* how many multipliers there are before they repeat (2^62)
    InfoMax,             \* largest value of an info byte (0xFF)
    InitialInfoNumBits,  \* hash bits an info byte starts with (5)
    InitialNumElements,  \* slots of the first memory (8)
    MaxLoadFactor100,    \* 80
    MaxAttempts,         \* attempts of an insertion (256)
    MaxDoublings,        \* bound on the memory asked for: InitialNumElements doubled so often
    NoNode               \* a slot without a node

PowerOfTwo[n \in Nat] == IF n = 0 THEN 1 ELSE 2 * PowerOfTwo[n - 1]

InitialInfoInc == PowerOfTwo[InitialInfoNumBits]

Hashes == [0 .. NumMultipliers - 1 -> [Keys -> Nat]]

Node == [key : Keys, value : Values]

ASSUME HashAssumption ==
    /\ Programs \subseteq [hash : Hashes, tables : SUBSET Tables,
                          nodes : SUBSET Node, sizes : SUBSET Nat]
    /\ NumMultipliers \in Nat \ {0}
    /\ InitialInfoNumBits \in Nat \ {0}
    /\ InfoMax \in Nat
    /\ 2 * InitialInfoInc - 1 <= InfoMax
    /\ InitialNumElements \in Nat \ {0, 1}
    /\ MaxLoadFactor100 \in 11 .. 99
    /\ MaxAttempts \in Nat
    /\ MaxDoublings \in Nat
    /\ NoNode \notin Node

VARIABLES
    program,    \* the program that runs
    table,      \* the members of each table
    call,       \* the insertion or change of size in progress
    iteration,  \* an iterator in use, and history: the keys there were and those met
    outcome     \* what the last call returned or threw

vars == <<program, table, call, iteration, outcome>>

Idle   == [at |-> "idle"]
NoIter == [at |-> "none"]
IsIdle == call = Idle

-----------------------------------------------------------------------------
(* Sizes, and the members of a table.                                      *)

calcMaxNumElementsAllowed(size) == (size * MaxLoadFactor100) \div 100

calcNumElementsWithBuffer(size) == size + Min({calcMaxNumElementsAllowed(size), InfoMax})

\* No memory; mInfo and mKeyVals point to mMask, whose bytes are 0.
initMembers(multiplier) ==
    [mHashMultiplier |-> multiplier, mKeyVals |-> <<>>, mInfo |-> <<>>, mNumElements |-> 0,
     mMask |-> 0, mMaxNumElementsAllowed |-> 0, mInfoInc |-> InitialInfoInc,
     mInfoHashShift |-> 0]

\* Table(), and the table a destructor leaves to the next one.
NewTable == initMembers(0)

isEmpty(t) == t.mNumElements = 0

\* The index of end(), where the sentinel is.
End(t) == IF t.mMask = 0 THEN 0 ELSE calcNumElementsWithBuffer(t.mMask + 1)

Slots(t) == 0 .. End(t) - 1

\* What a read of mInfo[i] gives; behind the sentinel there are zeros.
InfoAt(t, i) == IF i \in DOMAIN t.mInfo THEN t.mInfo[i] ELSE 0

initData(t, size) ==
    [mHashMultiplier |-> t.mHashMultiplier,
     mKeyVals |-> [i \in 0 .. calcNumElementsWithBuffer(size) - 1 |-> NoNode],
     mInfo |-> [i \in 0 .. calcNumElementsWithBuffer(size) |->
                    IF i = calcNumElementsWithBuffer(size) THEN 1 ELSE 0],
     mNumElements |-> 0,
     mMask |-> size - 1,
     mMaxNumElementsAllowed |-> calcMaxNumElementsAllowed(size),
     mInfoInc |-> InitialInfoInc,
     mInfoHashShift |-> 0]

-----------------------------------------------------------------------------
(* Searching.                                                              *)

Hash(t, k) == program.hash[t.mHashMultiplier][k]

\* keyToIdx(): the slot where the search for a key begins, ...
Home(t, k) == (Hash(t, k) \div InitialInfoInc) % (t.mMask + 1)

\* ... and the info byte it compares with, d slots further on.
Info(t, k, d) ==
    t.mInfoInc + (Hash(t, k) % InitialInfoInc) \div PowerOfTwo[t.mInfoHashShift] + d * t.mInfoInc

Seen(t, k, d) == InfoAt(t, Home(t, k) + d)

\* The distances a search may go: the sentinel stops it.
Distances(t) == 0 .. End(t) + 1

Matches(t, k, d) ==
    /\ Info(t, k, d) = Seen(t, k, d)
    /\ t.mKeyVals[Home(t, k) + d].key = k

\* Mutated form of findIdx: the search ends at the first larger info byte it sees.
findIdx_strict(t, k) ==
    LET hits == {d \in Distances(t) : /\ Matches(t, k, d)
                                      /\ \A e \in 0 .. d : Info(t, k, e) = Seen(t, k, e)}
    IN  IF hits = {} THEN End(t) ELSE Home(t, k) + Min(hits)

\* The loop looks at two slots before it tests whether to go on.
findIdx(t, k) ==
    LET hits == {d \in Distances(t) :
                    /\ Matches(t, k, d)
                    /\ \A e \in 1 .. d : e % 2 = 0 => Info(t, k, e) <= Seen(t, k, e)}
    IN  IF hits = {} THEN End(t) ELSE Home(t, k) + Min(hits)

\* erase(key) looks for itself, slot by slot.
eraseIdx(t, k) ==
    LET hits == {d \in Distances(t) : /\ Matches(t, k, d)
                                      /\ \A e \in 1 .. d : Info(t, k, e) <= Seen(t, k, e)}
    IN  IF hits = {} THEN End(t) ELSE Home(t, k) + Min(hits)

contains(t, k) == findIdx(t, k) # End(t)

\* fastForward(): the next slot with a node, or the end.
fastForward(t, i) == Min({j \in i .. End(t) : InfoAt(t, j) # 0})

begin(t) == IF isEmpty(t) THEN End(t) ELSE fastForward(t, 0)

\* Mutated form of Equal: the numbers of entries are not compared.
Equal_uncounted(t, other) ==
    \A i \in Slots(other) : other.mInfo[i] # 0 =>
        /\ contains(t, other.mKeyVals[i].key)
        /\ t.mKeyVals[findIdx(t, other.mKeyVals[i].key)].value = other.mKeyVals[i].value

\* operator==: as many entries, and each of the other's is found here.
Equal(t, other) ==
    /\ t.mNumElements = other.mNumElements
    /\ \A i \in Slots(other) : other.mInfo[i] # 0 =>
        /\ contains(t, other.mKeyVals[i].key)
        /\ t.mKeyVals[findIdx(t, other.mKeyVals[i].key)].value = other.mKeyVals[i].value

-----------------------------------------------------------------------------
(* Changes of the slots.                                                   *)

Byte(v) == v % (InfoMax + 1)

Fits(t, info) == info + t.mInfoInc <= InfoMax

\* Half of shiftUp, and a mutated form of it: the limit is not set to 0 when an info
\* byte gets as large as a byte can be.
shiftUp_unnoticed(t, spot, to) ==
    [t EXCEPT
        !.mKeyVals = [i \in DOMAIN @ |-> IF to < i /\ i <= spot THEN @[i - 1] ELSE @[i]],
        !.mInfo = [i \in DOMAIN @ |-> IF to < i /\ i <= spot THEN Byte(@[i - 1] + t.mInfoInc)
                                      ELSE @[i]]]

\* The nodes from `to' up to the free slot `spot' move one slot on.
shiftUp(t, spot, to) ==
    [shiftUp_unnoticed(t, spot, to) EXCEPT
        !.mMaxNumElementsAllowed =
            IF \A i \in to .. spot - 1 : Fits(t, Byte(t.mInfo[i] + t.mInfoInc)) THEN @ ELSE 0]

\* The nodes behind slot i that are not at home move back by one; with the count,
\* which both callers decrement.
shiftDown(t, i) ==
    LET last == Min({j \in i .. End(t) : InfoAt(t, j + 1) < 2 * t.mInfoInc})
    IN  [t EXCEPT
            !.mKeyVals = [j \in DOMAIN @ |-> IF j = last THEN NoNode
                                             ELSE IF i <= j /\ j < last THEN @[j + 1] ELSE @[j]],
            !.mInfo = [j \in DOMAIN @ |-> IF j = last THEN 0
                                          ELSE IF i <= j /\ j < last
                                               THEN Byte(@[j + 1] - t.mInfoInc) ELSE @[j]],
            !.mNumElements = @ - 1]

\* A node takes the slot d from its home; what is there moves up to the next free slot.
Put(t, node, d) ==
    LET to      == Home(t, node.key) + d
        spot    == Min({i \in to .. End(t) + 1 : InfoAt(t, i) = 0})
        shifted == shiftUp(t, spot, to)
    IN  [shifted EXCEPT
            !.mKeyVals = [i \in DOMAIN @ |-> IF i = to THEN node ELSE @[i]],
            !.mInfo = [i \in DOMAIN @ |-> IF i = to THEN Byte(Info(t, node.key, d)) ELSE @[i]],
            !.mMaxNumElementsAllowed = IF Fits(t, Info(t, node.key, d)) THEN @ ELSE 0,
            !.mNumElements = @ + 1]

\* try_increase_info(): half the hash bits leave the info bytes, if there are any to
\* spare; the sentinel is restored.
CanIncreaseInfo(t) == t.mInfoInc > 2

IncreaseInfo(t) ==
    [t EXCEPT !.mInfoInc = @ \div 2,
              !.mInfoHashShift = @ + 1,
              !.mInfo = [i \in DOMAIN @ |-> IF i = End(t) THEN 1 ELSE @[i] \div 2],
              !.mMaxNumElementsAllowed = calcMaxNumElementsAllowed(t.mMask + 1)]

\* insert_move(): for a node whose key is not in the table.
insert_move(t, node) ==
    Put(t, node, Min({d \in Distances(t) : Info(t, node.key, d) > Seen(t, node.key, d)}))

\* clear(): the memory stays, and so does a limit of 0.
Cleared(t) ==
    IF isEmpty(t) THEN t
    ELSE [initData(t, t.mMask + 1) EXCEPT !.mMaxNumElementsAllowed = t.mMaxNumElementsAllowed]

-----------------------------------------------------------------------------
Init ==
    /\ program \in Programs
    /\ table = [t \in Tables |-> NewTable]
    /\ call = Idle
    /\ iteration = NoIter
    /\ outcome = "none"

\* A call that changes table t ends the iterations there are.
Set(t, members) ==
    /\ table' = [table EXCEPT ![t] = members]
    /\ iteration' = NoIter
    /\ UNCHANGED program

Return(result) == call' = Idle /\ outcome' = result

-----------------------------------------------------------------------------
(* emplace(), insert(), try_emplace(), insert_or_assign(), operator[]: what *)
(* insertKeyPrepareEmptySpot() does, and the node put in the spot.         *)

Insert(t, node, assign) ==
    /\ IsIdle
    /\ call' = [at |-> "insert", table |-> t, node |-> node, assign |-> assign, attempt |-> 1]
    /\ outcome' = "none"
    /\ UNCHANGED <<program, table, iteration>>

\* Where an attempt comes to look, as long as its info byte is less than what it sees,
nextWhileLess(t, k) == Min({d \in Distances(t) : Info(t, k, d) >= Seen(t, k, d)})

\* ... and from there, as long as they are equal.
LastCandidate(t, k) ==
    Min({d \in nextWhileLess(t, k) .. End(t) + 1 : Info(t, k, d) # Seen(t, k, d)})

Candidates(t, k) == {d \in nextWhileLess(t, k) .. LastCandidate(t, k) - 1 : Matches(t, k, d)}

Attempting == call.at = "insert" /\ call.attempt <= MaxAttempts

KeyFound ==
    /\ Attempting
    /\ \E d \in Candidates(table[call.table], call.node.key) :
        LET t == table[call.table]
        IN  Set(call.table,
                IF call.assign
                THEN [t EXCEPT !.mKeyVals[Home(t, call.node.key) + d].value = call.node.value]
                ELSE t)
    /\ Return(IF call.assign THEN "assigned" ELSE "found")

Full(t) == t.mNumElements >= t.mMaxNumElementsAllowed

KeyIsNew(t) == Candidates(t, call.node.key) = {}

InsertNode ==
    /\ Attempting
    /\ LET t == table[call.table]
       IN  /\ KeyIsNew(t)
           /\ ~Full(t)
           /\ Set(call.table, Put(t, call.node, LastCandidate(t, call.node.key)))
    /\ Return("inserted")

\* Mutated form of NextAttempt: attempts are not counted.
NextAttempt_uncounted == call

NextAttempt == [call EXCEPT !.attempt = @ + 1]

\* rehashPowerOfTwo(): new memory, into which the nodes are then moved one by one.
Rehash(t, members, size, then) ==
    /\ Set(t, initData(members, size))
    /\ call' = [at |-> "rehash", table |-> t, then |-> then,
                old |-> Restrict(members.mKeyVals,
                                 {i \in DOMAIN members.mKeyVals : members.mInfo[i] # 0})]
    /\ outcome' = "none"

\* increase_size().
Allowed(t) == calcMaxNumElementsAllowed(t.mMask + 1)

\* The memory is used well enough for the hash to look good: a table half full.
Crowded(t) == 2 * t.mNumElements >= Allowed(t)

IncreaseSize ==
    /\ Attempting
    /\ LET t == table[call.table]
       IN  /\ KeyIsNew(t)
           /\ Full(t)
           /\ IF t.mMask = 0
              THEN /\ Set(call.table, initData(t, InitialNumElements))
                   /\ call' = NextAttempt
                   /\ UNCHANGED outcome
              ELSE IF t.mNumElements < Allowed(t) /\ CanIncreaseInfo(t)
              THEN /\ Set(call.table, IncreaseInfo(t))
                   /\ call' = NextAttempt
                   /\ UNCHANGED outcome
              ELSE IF Crowded(t)
              THEN Rehash(call.table, t, 2 * (t.mMask + 1), NextAttempt)
              ELSE Rehash(call.table,
                          [t EXCEPT !.mHashMultiplier = (@ + 1) % NumMultipliers],
                          t.mMask + 1, NextAttempt)

\* Enough attempts failed.
GiveUp ==
    /\ call.at = "insert"
    /\ call.attempt > MaxAttempts
    /\ Return("overflow_error")
    /\ UNCHANGED <<program, table, iteration>>

\* One node of the old memory is moved, unless the table overflows; it and those
\* not moved yet are lost then.
MoveNode ==
    /\ call.at = "rehash"
    /\ call.old # <<>>
    /\ LET t == table[call.table]
           i == Min(DOMAIN call.old)
       IN  IF t.mMaxNumElementsAllowed = 0 /\ ~CanIncreaseInfo(t)
           THEN /\ Return("overflow_error")
                /\ UNCHANGED <<program, table, iteration>>
           ELSE /\ Set(call.table,
                       insert_move(IF t.mMaxNumElementsAllowed = 0 THEN IncreaseInfo(t) ELSE t,
                                   call.old[i]))
                /\ call' = [call EXCEPT !.old = Restrict(@, DOMAIN @ \ {i})]
                /\ UNCHANGED outcome

NodesMoved ==
    /\ call.at = "rehash"
    /\ call.old = <<>>
    /\ call' = call.then
    /\ UNCHANGED <<program, table, iteration, outcome>>

-----------------------------------------------------------------------------
(* The other operations.                                                   *)

\* The sizes of the memory a table may be asked for, and the least for so many elements.
MemorySizes == {InitialNumElements * PowerOfTwo[j] : j \in 0 .. MaxDoublings}
Fitting(n)  == {size \in MemorySizes : calcMaxNumElementsAllowed(size) >= n}
SizeFor(n)  == Min(Fitting(n))

\* reserve(c), and rehash(c) when forced.
reserve(t, c, forced) ==
    /\ IsIdle
    /\ LET n == IF c > table[t].mNumElements THEN c ELSE table[t].mNumElements
       IN  /\ Fitting(n) # {}
           /\ forced \/ SizeFor(n) > table[t].mMask + 1
           /\ Rehash(t, table[t], SizeFor(n), Idle)

compact(t) ==
    /\ IsIdle
    /\ Fitting(table[t].mNumElements) # {}
    /\ SizeFor(table[t].mNumElements) < table[t].mMask + 1
    /\ Rehash(t, table[t], SizeFor(table[t].mNumElements), Idle)

\* erase(key), and find() with erase(iterator), where the key is there.
EraseKey(t, k) ==
    /\ IsIdle
    /\ eraseIdx(table[t], k) # End(table[t])
    /\ Set(t, shiftDown(table[t], eraseIdx(table[t], k)))
    /\ Return("erased")

EraseFound(t, k) ==
    /\ IsIdle
    /\ contains(table[t], k)
    /\ Set(t, shiftDown(table[t], findIdx(table[t], k)))
    /\ Return("erased")

clear(t) ==
    /\ IsIdle
    /\ Set(t, Cleared(table[t]))
    /\ Return("cleared")

\* The table is destroyed, and another made in its place: empty, by moving or as a copy.
Destroy(t) ==
    /\ IsIdle
    /\ Set(t, NewTable)
    /\ Return("cleared")

SetBoth(t, members, u, others) ==
    /\ t # u
    /\ table' = [table EXCEPT ![t] = members, ![u] = others]
    /\ iteration' = NoIter
    /\ UNCHANGED program

\* init() keeps the multiplier.
init(t) == initMembers(t.mHashMultiplier)

MoveConstruct(t, u) ==
    /\ IsIdle
    /\ IF table[u].mMask # 0
       THEN SetBoth(t, table[u], u, init(table[u]))
       ELSE SetBoth(t, NewTable, u, table[u])
    /\ Return("moved")

\* Mutated form of Moved: the table moved from keeps its memory.
Moved_keeps(t, u) == IF u.mMask # 0 THEN <<u, u>> ELSE <<Cleared(t), u>>

\* t = std::move(u): the two tables then.
Moved(t, u) == IF u.mMask # 0 THEN <<u, init(u)>> ELSE <<Cleared(t), u>>

MoveAssign(t, u) ==
    /\ IsIdle
    /\ SetBoth(t, Moved(table[t], table[u])[1], u, Moved(table[t], table[u])[2])
    /\ Return("moved")

\* swap() constructs one table from the other and assigns twice.
Swap(t, u) ==
    /\ IsIdle
    /\ LET constructed == IF table[u].mMask # 0 THEN <<table[u], init(table[u])>>
                                                ELSE <<NewTable, table[u]>>
           assigned    == Moved(constructed[2], table[t])
           last        == Moved(assigned[2], constructed[1])
       IN  SetBoth(t, last[1], u, assigned[1])
    /\ Return("swapped")

CopyConstruct(t, u) ==
    /\ IsIdle
    /\ t # u
    /\ Set(t, IF isEmpty(table[u]) THEN NewTable ELSE table[u])
    /\ Return("copied")

\* Only a table with entries brings its multiplier.
CopyAssign(t, u) ==
    /\ IsIdle
    /\ t # u
    /\ Set(t, IF isEmpty(table[u]) THEN init(table[t]) ELSE table[u])
    /\ Return("copied")

-----------------------------------------------------------------------------
(* Iterators.                                                              *)

\* Slots with a node, and what a table holds: the nodes not moved yet are its own.
Occupied(t) == {i \in Slots(t) : t.mInfo[i] # 0}

NodesIn(t) ==
    {table[t].mKeyVals[i] : i \in Occupied(table[t])}
    \cup (IF call.at = "rehash" /\ call.table = t THEN Range(call.old) ELSE {})

Contents(t) ==
    LET nodes == NodesIn(t)
    IN  [k \in {node.key : node \in nodes} |-> (CHOOSE node \in nodes : node.key = k).value]

Begin(t) ==
    /\ IsIdle
    /\ iteration' = [table |-> t, at |-> begin(table[t]), keys |-> DOMAIN Contents(t), met |-> {}]
    /\ UNCHANGED <<program, table, call, outcome>>

Iterating ==
    /\ IsIdle
    /\ iteration # NoIter
    /\ iteration.at # End(table[iteration.table])

Met == iteration.met \cup {table[iteration.table].mKeyVals[iteration.at].key}

\* operator++.
Advance ==
    /\ Iterating
    /\ iteration' = [iteration EXCEPT !.at = fastForward(table[iteration.table], @ + 1),
                                     !.met = Met]
    /\ UNCHANGED <<program, table, call, outcome>>

\* Mutated form of AfterErase: always one slot further.
AfterErase_advances(t, i) == fastForward(t, i + 1)

\* erase(iterator) returns the same position when a node was moved there.
AfterErase(t, i) == IF InfoAt(t, i) # 0 THEN i ELSE fastForward(t, i + 1)

EraseAndGoOn ==
    /\ Iterating
    /\ LET t == shiftDown(table[iteration.table], iteration.at)
       IN  /\ table' = [table EXCEPT ![iteration.table] = t]
           /\ iteration' = [iteration EXCEPT !.at = AfterErase(t, @), !.met = Met]
    /\ Return("erased")
    /\ UNCHANGED program

-----------------------------------------------------------------------------
(* The system.                                                             *)

Call ==
    \E t \in program.tables :
        \/ \E node \in program.nodes, assign \in BOOLEAN : Insert(t, node, assign)
        \/ \E c \in program.sizes, forced \in BOOLEAN : reserve(t, c, forced)
        \/ compact(t)
        \/ \E k \in Keys : EraseKey(t, k) \/ EraseFound(t, k)
        \/ clear(t) \/ Destroy(t)
        \/ \E u \in program.tables : \/ MoveConstruct(t, u) \/ MoveAssign(t, u) \/ Swap(t, u)
                             \/ CopyConstruct(t, u) \/ CopyAssign(t, u)
        \/ Begin(t)

\* The steps of a call in progress.
Step == KeyFound \/ InsertNode \/ IncreaseSize \/ GiveUp \/ MoveNode \/ NodesMoved

Next == Call \/ Step \/ Advance \/ EraseAndGoOn

\* A call runs to its end on the thread that made it; nobody has to call.  This is
\* WF_vars(Step): Step is enabled exactly while a call is in progress.
Fairness == []<>IsIdle \/ []<><<Step>>_vars

Spec == Init /\ [][Next]_vars /\ Fairness

-----------------------------------------------------------------------------
(* Properties.                                                             *)

\* Every table that has memory is in shape, also while its nodes are being moved:
\* the sentinel stands, so that searches and iterations end; a slot is taken exactly
\* when its info byte says so; the byte is the one its key has at that distance from
\* home, however often nodes were shifted, the bytes halved and the hash changed; one
\* that could not grow any more is noticed before it wraps; and the count is right
\* (robin_hood.h:1493-1535, 1572-1621, 2551-2672).
TableOK ==
    \A name \in Tables : LET t == table[name] IN
        /\ t.mNumElements = Cardinality(Occupied(t))
        /\ t.mMask # 0 =>
            /\ t.mInfo[End(t)] = 1
            /\ DOMAIN t.mKeyVals = Slots(t)
            /\ \A i \in Slots(t) : t.mInfo[i] # 0 <=> t.mKeyVals[i] # NoNode
            /\ \A i \in Occupied(t) :
                LET k == t.mKeyVals[i].key
                IN  /\ i >= Home(t, k) /\ t.mInfo[i] = Info(t, k, i - Home(t, k))
                    /\ Fits(t, t.mInfo[i]) \/ t.mMaxNumElementsAllowed = 0

\* No entry is out of reach and none is there twice: find(), and erase(), which looks
\* for itself, come to the one slot that has the key, or find nothing when none has
\* (robin_hood.h:1540-1563, 2247-2268).
FindsEntries ==
    \A name \in Tables, k \in Keys : LET t == table[name] IN
        {findIdx(t, k), eraseIdx(t, k)} =
            IF \E i \in Occupied(t) : t.mKeyVals[i].key = k
            THEN {i \in Occupied(t) : t.mKeyVals[i].key = k}
            ELSE {End(t)}

\* An iteration meets every entry once, also when it erases entries on its way, which
\* moves others back over the iterator (robin_hood.h:1373-1448, 2228-2245).
IterationExact ==
    iteration # NoIter /\ IsIdle =>
        LET t == table[iteration.table]
        IN  IF iteration.at = End(t) THEN iteration.met = iteration.keys
            ELSE /\ iteration.at \in Occupied(t)
                 /\ t.mKeyVals[iteration.at].key \in iteration.keys \ iteration.met

\* Tables are equal exactly when they hold the same entries, in whatever slots and
\* with whatever hash multiplier (robin_hood.h:1855-1871).
EqualExact ==
    IsIdle => \A t, u \in Tables : Equal(table[t], table[u]) <=> Contents(t) = Contents(u)

\* The table is a map: its calls do to its entries what they say, and nothing else.
Map == INSTANCE UnorderedMap WITH map <- [t \in Tables |-> Contents(t)]
ImplementsUnorderedMap == Map!Spec

\* Every insertion returns or throws, whatever the hash function: it does not halve,
\* rehash and grow for ever (robin_hood.h:2585-2642, 2675-2707).
CallsReturn == ~IsIdle ~> IsIdle
=============================================================================
