------------------------- MODULE MapOrderBookProofs -------------------------
(***************************************************************************)
(* Proofs about MapOrderBook: the maps of levels, the map of orders and    *)
(* the iterators of the wrappers agree in every reachable state, and the   *)
(* book is never crossed.                                                  *)
(*                                                                         *)
(* The inductive invariant has two shapes.  Outside a rebuild of trailing  *)
(* levels the six maps hold every order exactly once (Static); during one, *)
(* the map being rebuilt and the new map share its orders (Mid).  Both are *)
(* predicates of values, so that what one update of the book preserves is  *)
(* a lemma of its own, used by every action that makes that update.        *)
(***************************************************************************)
EXTENDS MapOrderBook, LevelProofs

LevelIds(level) == ToSet(level.orders)

HoldsAt(map, p, id) == p \in DOMAIN map /\ id \in LevelIds(map[p])

Typed(ords, lit, lvs) ==
    /\ IsMap(ords, Ids, OrderRecord)
    /\ lit \in [DOMAIN ords -> UInt64]
    /\ lvs = [m \in Maps |-> lvs[m]]
    /\ \A m \in Maps : IsMap(lvs[m], UInt64, LevelRecord)

\* The orders of a level rest, belong to its map and carry its key.
Fits(level, m, p, ords, lit) ==
    /\ IsInjective(level.orders)
    /\ \A id \in LevelIds(level) : id \in DOMAIN ords /\ MapOf(ords[id]) = m /\ lit[id] = p

Keyed(id, ords, lit) == ords[id].id = id /\ lit[id] = KeyOf(ords[id])

Static(ords, lit, lvs) ==
    /\ Typed(ords, lit, lvs)
    /\ \A m \in Maps : \A p \in DOMAIN lvs[m] :
        ~empty(lvs[m][p]) /\ Fits(lvs[m][p], m, p, ords, lit)
    /\ \A id \in DOMAIN ords :
        Keyed(id, ords, lit) /\ HoldsAt(lvs[MapOf(ords[id])], lit[id], id)

Mid(ords, lit, lvs, new, source) ==
    /\ Typed(ords, lit, lvs)
    /\ IsMap(new, UInt64, LevelRecord)
    /\ \A m \in Maps : \A p \in DOMAIN lvs[m] :
        /\ m # source => ~empty(lvs[m][p])
        /\ Fits(lvs[m][p], m, p, ords, lit)
    /\ \A p \in DOMAIN new : ~empty(new[p]) /\ Fits(new[p], source, p, ords, lit)
    /\ \A p \in DOMAIN new, q \in DOMAIN lvs[source] :
        LevelIds(new[p]) \cap LevelIds(lvs[source][q]) = {}
    /\ \A id \in DOMAIN ords :
        /\ Keyed(id, ords, lit)
        /\ \/ HoldsAt(lvs[MapOf(ords[id])], lit[id], id)
           \/ MapOf(ords[id]) = source /\ HoldsAt(new, lit[id], id)

-----------------------------------------------------------------------------
(* Types of what the book computes.                                        *)

\* Every order belongs to one of the six maps, under a key in range.
LEMMA MapOfType ==
    ASSUME NEW o \in OrderRecord
    PROVE  MapOf(o) \in Maps /\ KeyOf(o) \in UInt64
  BY DEF MapOf, KeyOf, Maps, OrderRecord, OrderSide

\* What the operations of Level return, and what they do to the queue.
LEMMA LevelType ==
    ASSUME NEW level \in LevelRecord, NEW o \in OrderRecord, NEW amount \in UInt64
    PROVE  /\ NewLevel \in LevelRecord
           /\ addOrder(level, o) \in LevelRecord
           /\ addOrder(level, o).orders = Append(level.orders, o.id)
           /\ reduceVolume(level, amount) \in LevelRecord
           /\ reduceVolume(level, amount).orders = level.orders
           /\ popFront(level, o).orders = Tail(level.orders)
           /\ deleteOrder(level, o).orders = RemoveFirst(level.orders, o.id)
           /\ popFront(level, o).volume \in UInt64
           /\ deleteOrder(level, o).volume \in UInt64
<1>1. 0 \in UInt64
  BY WidthAssumption DEF UInt64
<1>2. /\ Minus(level.volume, o.open_quantity) \in UInt64
      /\ Plus(level.volume, o.open_quantity) \in UInt64
      /\ Minus(level.volume, amount) \in UInt64
  BY ArithmeticType DEF LevelRecord, OrderRecord
<1>3. Append(level.orders, o.id) \in Seq(Ids)
  BY DEF LevelRecord, OrderRecord
<1>4. reduceVolume(level, amount) \in LevelRecord
  BY <1>2 DEF LevelRecord, reduceVolume
<1> QED BY <1>1, <1>2, <1>3, <1>4
        DEF LevelRecord, NewLevel, addOrder, reduceVolume, popFront, deleteOrder

-----------------------------------------------------------------------------
(* Outside a rebuild.                                                      *)

\* insertLimitOrder, insertStopOrder, insertTrailingStopOrder: a new id joins the
\* level of its key.
LEMMA InsertStatic ==
    ASSUME NEW ords, NEW lit, NEW lvs, Static(ords, lit, lvs),
           NEW o \in OrderRecord, o.id \notin DOMAIN ords
    PROVE  Static(Put(ords, o.id, o), Put(lit, o.id, KeyOf(o)),
                  [lvs EXCEPT ![MapOf(o)] = Enqueue(@, KeyOf(o), o)])
<1> DEFINE m0    == MapOf(o)
           p0    == KeyOf(o)
           ords2 == Put(ords, o.id, o)
           lit2  == Put(lit, o.id, p0)
           old   == IF p0 \in DOMAIN lvs[m0] THEN lvs[m0][p0] ELSE NewLevel
           lvs2  == [lvs EXCEPT ![m0] = Enqueue(@, p0, o)]
<1>1. m0 \in Maps /\ p0 \in UInt64 /\ o.id \in Ids
  BY MapOfType DEF OrderRecord
<1>2. Typed(ords, lit, lvs)
  BY DEF Static
<1>3. /\ old \in LevelRecord
      /\ IsInjective(old.orders)
      /\ o.id \notin LevelIds(old)
      /\ \A id \in LevelIds(old) : id \in DOMAIN ords /\ MapOf(ords[id]) = m0 /\ lit[id] = p0
  <2>1. CASE p0 \in DOMAIN lvs[m0]
    BY <1>1, <1>2, <2>1 DEF Static, Typed, Fits, IsMap
  <2>2. CASE p0 \notin DOMAIN lvs[m0]
    <3>1. NewLevel \in LevelRecord
      BY WidthAssumption DEF NewLevel, LevelRecord, UInt64
    <3> QED BY <2>2, <3>1, EmptyQueue DEF NewLevel, LevelIds
  <2> QED BY <2>1, <2>2
<1>4. /\ addOrder(old, o) \in LevelRecord
      /\ ~empty(addOrder(old, o))
      /\ IsInjective(addOrder(old, o).orders)
      /\ LevelIds(addOrder(old, o)) = LevelIds(old) \cup {o.id}
  <2>1. /\ addOrder(old, o) \in LevelRecord
        /\ addOrder(old, o).orders = Append(old.orders, o.id)
    BY <1>1, <1>3, LevelType
  <2>2. old.orders \in Seq(Ids)
    BY <1>3 DEF LevelRecord
  <2>3. o.id \notin ToSet(old.orders)
    BY <1>3 DEF LevelIds
  <2> HIDE DEF old
  <2>4. /\ Append(old.orders, o.id) # <<>>
        /\ IsInjective(Append(old.orders, o.id))
        /\ ToSet(Append(old.orders, o.id)) = ToSet(old.orders) \cup {o.id}
    BY <1>1, <1>3, <2>2, <2>3, AppendElements
  <2> QED BY <2>1, <2>4 DEF LevelIds, empty
<1>5. /\ DOMAIN lvs2 = Maps
      /\ lvs2[m0] = Put(lvs[m0], p0, addOrder(old, o))
      /\ \A m \in Maps : m # m0 => lvs2[m] = lvs[m]
  BY <1>1, <1>2 DEF Typed, Enqueue
<1>6. /\ DOMAIN lvs2[m0] = DOMAIN lvs[m0] \cup {p0}
      /\ lvs2[m0][p0] = addOrder(old, o)
      /\ \A p \in DOMAIN lvs[m0] : p # p0 => lvs2[m0][p] = lvs[m0][p]
  BY <1>5 DEF Put
<1>7. /\ DOMAIN ords2 = DOMAIN ords \cup {o.id} /\ ords2[o.id] = o
      /\ DOMAIN lit2 = DOMAIN ords \cup {o.id} /\ lit2[o.id] = p0
      /\ \A id \in DOMAIN ords : ords2[id] = ords[id] /\ lit2[id] = lit[id]
  BY <1>2 DEF Put, Typed
<1>8. Typed(ords2, lit2, lvs2)
  <2>1. IsMap(ords2, Ids, OrderRecord)
    BY <1>1, <1>2, PutType DEF Typed
  <2>2. lit2 \in [DOMAIN ords2 -> UInt64]
    BY <1>1, <1>2, <1>7 DEF Typed, Put
  <2>3. lvs2 = [m \in Maps |-> lvs2[m]]
    BY <1>2 DEF Typed
  <2>4. \A m \in Maps : IsMap(lvs2[m], UInt64, LevelRecord)
    <3>1. IsMap(lvs2[m0], UInt64, LevelRecord)
      BY <1>1, <1>2, <1>4, <1>5, PutType DEF Typed
    <3> QED BY <1>2, <1>5, <3>1 DEF Typed
  <2> QED BY <2>1, <2>2, <2>3, <2>4 DEF Typed
<1> HIDE DEF ords2, lit2, lvs2, old, m0, p0
<1>9. ASSUME NEW m \in Maps, NEW p \in DOMAIN lvs2[m]
      PROVE  ~empty(lvs2[m][p]) /\ Fits(lvs2[m][p], m, p, ords2, lit2)
  <2>1. CASE m = m0 /\ p = p0
    BY <1>3, <1>4, <1>6, <1>7, <2>1 DEF Fits, m0
  <2>2. CASE ~(m = m0 /\ p = p0)
    <3>1. p \in DOMAIN lvs[m] /\ lvs2[m][p] = lvs[m][p]
      BY <1>5, <1>6, <2>2
    <3> QED BY <1>7, <3>1 DEF Static, Fits
  <2> QED BY <2>1, <2>2
<1>10. ASSUME NEW id \in DOMAIN ords2
       PROVE  Keyed(id, ords2, lit2) /\ HoldsAt(lvs2[MapOf(ords2[id])], lit2[id], id)
  <2>1. CASE id = o.id
    BY <1>4, <1>6, <1>7, <2>1 DEF Keyed, HoldsAt, m0, p0
  <2>2. CASE id # o.id
    <3>1. /\ id \in DOMAIN ords /\ ords2[id] = ords[id] /\ lit2[id] = lit[id]
          /\ Keyed(id, ords, lit) /\ HoldsAt(lvs[MapOf(ords[id])], lit[id], id)
      BY <1>7, <2>2 DEF Static
    <3>2. MapOf(ords[id]) \in Maps
      BY <1>2, <3>1, MapOfType DEF Typed, IsMap
    <3>3. HoldsAt(lvs2[MapOf(ords[id])], lit[id], id)
      BY <1>4, <1>5, <1>6, <3>1, <3>2 DEF HoldsAt, old
    <3> QED BY <3>1, <3>3 DEF Keyed
  <2> QED BY <2>1, <2>2
<1>11. Static(ords2, lit2, lvs2)
  BY <1>8, <1>9, <1>10 DEF Static
<1> QED BY <1>11 DEF ords2, lit2, lvs2, m0, p0

\* The three steps of taking amounts or orders out.  First, a level's volume:
LEMMA ReduceVolumeStatic ==
    ASSUME NEW ords, NEW lit, NEW lvs, Static(ords, lit, lvs),
           NEW m0 \in Maps, NEW p0 \in DOMAIN lvs[m0], NEW amount \in UInt64
    PROVE  Static(ords, lit,
                  [lvs EXCEPT ![m0] = Put(@, p0, reduceVolume(@[p0], amount))])
<1> DEFINE lvs2 == [lvs EXCEPT ![m0] = Put(@, p0, reduceVolume(@[p0], amount))]
<1>1. Typed(ords, lit, lvs)
  BY DEF Static
<1>2. p0 \in UInt64 /\ lvs[m0][p0] \in LevelRecord
  BY <1>1 DEF Typed, IsMap
<1>3. /\ reduceVolume(lvs[m0][p0], amount) \in LevelRecord
      /\ reduceVolume(lvs[m0][p0], amount).orders = lvs[m0][p0].orders
  BY <1>2, ArithmeticType DEF reduceVolume, LevelRecord
<1>4. /\ lvs2[m0] = Put(lvs[m0], p0, reduceVolume(lvs[m0][p0], amount))
      /\ lvs2 = [m \in Maps |-> lvs2[m]]
      /\ \A m \in Maps : m # m0 => lvs2[m] = lvs[m]
  BY <1>1 DEF Typed
<1> HIDE DEF lvs2
<1>5. \A m \in Maps :
        /\ DOMAIN lvs2[m] = DOMAIN lvs[m]
        /\ \A p \in DOMAIN lvs[m] : lvs2[m][p].orders = lvs[m][p].orders
  BY <1>3, <1>4 DEF Put
<1>6. \A m \in Maps : IsMap(lvs2[m], UInt64, LevelRecord)
  BY <1>1, <1>2, <1>3, <1>4, PutType DEF Typed
<1>7. Typed(ords, lit, lvs2)
  BY <1>1, <1>4, <1>6 DEF Typed
<1>8. ASSUME NEW m \in Maps, NEW p \in DOMAIN lvs2[m]
      PROVE  ~empty(lvs2[m][p]) /\ Fits(lvs2[m][p], m, p, ords, lit)
  BY <1>5 DEF Static, Fits, LevelIds, empty
<1>9. ASSUME NEW id \in DOMAIN ords
      PROVE  Keyed(id, ords, lit) /\ HoldsAt(lvs2[MapOf(ords[id])], lit[id], id)
  <2>1. MapOf(ords[id]) \in Maps
    BY <1>1, MapOfType DEF Typed, IsMap
  <2> QED BY <1>5, <2>1 DEF Static, HoldsAt, LevelIds
<1> QED BY <1>7, <1>8, <1>9 DEF Static, lvs2

\* then an order changes in place, but neither its id, its map nor its key:
LEMMA UpdateStatic ==
    ASSUME NEW ords, NEW lit, NEW lvs, Static(ords, lit, lvs),
           NEW o \in OrderRecord, o.id \in DOMAIN ords,
           MapOf(o) = MapOf(ords[o.id]), KeyOf(o) = KeyOf(ords[o.id])
    PROVE  Static(Put(ords, o.id, o), lit, lvs)
<1> DEFINE ords2 == Put(ords, o.id, o)
<1>1. Typed(ords, lit, lvs)
  BY DEF Static
<1>2. /\ DOMAIN ords2 = DOMAIN ords
      /\ ords2[o.id] = o
      /\ \A id \in DOMAIN ords : id # o.id => ords2[id] = ords[id]
  BY DEF Put
<1>3. IsMap(ords2, Ids, OrderRecord)
  BY <1>1, PutType DEF Typed, OrderRecord
<1> HIDE DEF ords2
<1>4. Typed(ords2, lit, lvs)
  BY <1>1, <1>2, <1>3 DEF Typed
<1>5. \A id \in DOMAIN ords : MapOf(ords2[id]) = MapOf(ords[id]) /\ KeyOf(ords2[id]) = KeyOf(ords[id])
  BY <1>2
<1>6. ASSUME NEW m \in Maps, NEW p \in DOMAIN lvs[m]
      PROVE  ~empty(lvs[m][p]) /\ Fits(lvs[m][p], m, p, ords2, lit)
  BY <1>2, <1>5 DEF Static, Fits
<1>7. ASSUME NEW id \in DOMAIN ords2
      PROVE  Keyed(id, ords2, lit) /\ HoldsAt(lvs[MapOf(ords2[id])], lit[id], id)
  BY <1>2, <1>5 DEF Static, Keyed
<1> QED BY <1>4, <1>6, <1>7 DEF Static, ords2

\* and deleteOrder takes an order, and its level when it was the last, out.
LEMMA EraseStatic ==
    ASSUME NEW ords, NEW lit, NEW lvs, Static(ords, lit, lvs),
           NEW o \in OrderRecord, o.id \in DOMAIN ords, MapOf(o) = MapOf(ords[o.id])
    PROVE  Static(Without(ords, o.id), Without(lit, o.id),
                  [lvs EXCEPT ![MapOf(o)] = Unlink(@, lit[o.id], o)])
<1> DEFINE m0    == MapOf(o)
           p0    == lit[o.id]
           ords2 == Without(ords, o.id)
           lit2  == Without(lit, o.id)
           left  == deleteOrder(lvs[m0][p0], o)
           lvs2  == [lvs EXCEPT ![m0] = Unlink(@, p0, o)]
<1>1. Typed(ords, lit, lvs) /\ m0 \in Maps
  BY MapOfType DEF Static
<1>2. /\ p0 \in DOMAIN lvs[m0] /\ o.id \in LevelIds(lvs[m0][p0])
      /\ lvs[m0][p0] \in LevelRecord /\ p0 \in UInt64
      /\ IsInjective(lvs[m0][p0].orders)
  BY <1>1 DEF Static, HoldsAt, Typed, IsMap, Fits
<1>3. /\ left \in LevelRecord
      /\ IsInjective(left.orders)
      /\ LevelIds(left) = LevelIds(lvs[m0][p0]) \ {o.id}
  <2>1. lvs[m0][p0].orders \in Seq(Ids) /\ o.id \in ToSet(lvs[m0][p0].orders)
    BY <1>2 DEF LevelRecord, LevelIds
  <2>2. left.orders = RemoveFirst(lvs[m0][p0].orders, o.id) /\ left.volume \in UInt64
    BY <1>2, ArithmeticType DEF deleteOrder, LevelRecord, OrderRecord
  <2>3. /\ RemoveFirst(lvs[m0][p0].orders, o.id) \in Seq(Ids)
        /\ IsInjective(RemoveFirst(lvs[m0][p0].orders, o.id))
        /\ ToSet(RemoveFirst(lvs[m0][p0].orders, o.id)) = ToSet(lvs[m0][p0].orders) \ {o.id}
    BY <1>2, <2>1, RemoveFirstElements
  <2>4. left = [volume |-> left.volume, orders |-> left.orders]
    BY DEF deleteOrder
  <2>5. left \in LevelRecord
    BY <2>2, <2>3, <2>4 DEF LevelRecord
  <2> QED BY <2>2, <2>3, <2>5 DEF LevelIds
<1>4. /\ lvs2 = [m \in Maps |-> lvs2[m]]
      /\ \A m \in Maps : m # m0 => lvs2[m] = lvs[m]
      /\ lvs2[m0] = IF empty(left) THEN Without(lvs[m0], p0) ELSE Put(lvs[m0], p0, left)
  <2>1. Unlink(lvs[m0], p0, o)
            = IF empty(left) THEN Without(lvs[m0], p0) ELSE Put(lvs[m0], p0, left)
    BY DEF Unlink
  <2>2. lvs2 = [lvs EXCEPT ![m0] = Unlink(lvs[m0], p0, o)]
    OBVIOUS
  <2>3. DOMAIN lvs = Maps /\ lvs = [m \in Maps |-> lvs[m]]
    BY <1>1 DEF Typed
  <2> HIDE DEF lvs2, left, m0, p0
  <2> QED BY <1>1, <2>1, <2>2, <2>3
<1>5. /\ DOMAIN lvs2[m0] = IF empty(left) THEN DOMAIN lvs[m0] \ {p0} ELSE DOMAIN lvs[m0]
      /\ ~empty(left) => lvs2[m0][p0] = left
      /\ \A p \in DOMAIN lvs[m0] : p # p0 => lvs2[m0][p] = lvs[m0][p]
  <2> HIDE DEF lvs2, left, m0, p0
  <2> QED BY <1>2, <1>4 DEF Put, Without
<1>6. /\ DOMAIN ords2 = DOMAIN ords \ {o.id}
      /\ DOMAIN lit2 = DOMAIN ords \ {o.id}
      /\ \A id \in DOMAIN ords2 : ords2[id] = ords[id] /\ lit2[id] = lit[id]
  BY <1>1 DEF Without, Typed
<1>7. Typed(ords2, lit2, lvs2)
  <2>1. IsMap(ords2, Ids, OrderRecord)
    BY <1>1, WithoutType DEF Typed
  <2>2. lit2 \in [DOMAIN ords2 -> UInt64]
    BY <1>1, <1>6 DEF Typed, Without
  <2>3. IsMap(lvs2[m0], UInt64, LevelRecord)
    BY <1>1, <1>2, <1>3, <1>4, PutType, WithoutType DEF Typed
  <2>4. \A m \in Maps : IsMap(lvs2[m], UInt64, LevelRecord)
    BY <1>1, <1>4, <2>3 DEF Typed
  <2> QED BY <1>4, <2>1, <2>2, <2>4 DEF Typed
<1> HIDE DEF ords2, lit2, lvs2, left, m0, p0
<1>8. ASSUME NEW m \in Maps, NEW p \in DOMAIN lvs2[m]
      PROVE  ~empty(lvs2[m][p]) /\ Fits(lvs2[m][p], m, p, ords2, lit2)
  <2>1. CASE m = m0 /\ p = p0
    <3>1. ~empty(left) /\ lvs2[m][p] = left
      BY <1>5, <2>1
    <3>2. Fits(lvs[m0][p0], m0, p0, ords, lit)
      BY <1>1, <1>2 DEF Static
    <3> QED BY <1>3, <1>6, <2>1, <3>1, <3>2 DEF Fits
  <2>2. CASE ~(m = m0 /\ p = p0)
    <3>1. p \in DOMAIN lvs[m] /\ lvs2[m][p] = lvs[m][p]
      BY <1>4, <1>5, <2>2
    <3>2. ~empty(lvs[m][p]) /\ Fits(lvs[m][p], m, p, ords, lit)
      BY <3>1 DEF Static
    <3>3. o.id \notin LevelIds(lvs[m][p])
      BY <2>2, <3>2 DEF Fits, m0, p0
    <3> QED BY <1>6, <3>1, <3>2, <3>3 DEF Fits
  <2> QED BY <2>1, <2>2
<1>9. ASSUME NEW id \in DOMAIN ords2
      PROVE  Keyed(id, ords2, lit2) /\ HoldsAt(lvs2[MapOf(ords2[id])], lit2[id], id)
  <2>1. /\ id \in DOMAIN ords /\ id # o.id /\ ords2[id] = ords[id] /\ lit2[id] = lit[id]
        /\ Keyed(id, ords, lit) /\ HoldsAt(lvs[MapOf(ords[id])], lit[id], id)
    BY <1>6 DEF Static
  <2>2. MapOf(ords[id]) \in Maps
    BY <1>1, <2>1, MapOfType DEF Typed, IsMap
  <2>3. CASE MapOf(ords[id]) = m0 /\ lit[id] = p0
    <3>1. id \in LevelIds(left)
      BY <1>3, <2>1, <2>3 DEF HoldsAt
    <3>2. ~empty(left)
      BY <3>1, EmptyQueue DEF empty, LevelIds
    <3> QED BY <1>2, <1>5, <2>1, <2>3, <3>1, <3>2 DEF HoldsAt, Keyed
  <2>4. CASE ~(MapOf(ords[id]) = m0 /\ lit[id] = p0)
    BY <1>4, <1>5, <2>1, <2>2, <2>4 DEF HoldsAt, Keyed
  <2> QED BY <2>3, <2>4
<1>10. Static(ords2, lit2, lvs2)
  BY <1>7, <1>8, <1>9 DEF Static
<1> QED BY <1>10 DEF ords2, lit2, lvs2, m0, p0

-----------------------------------------------------------------------------
(* During a rebuild.                                                       *)

\* The rebuild starts with an empty new map.
LEMMA BeginMid ==
    ASSUME NEW ords, NEW lit, NEW lvs, Static(ords, lit, lvs), NEW source \in Maps
    PROVE  Mid(ords, lit, lvs, EmptyMap, source)
<1>1. IsMap(EmptyMap, UInt64, LevelRecord)
  BY DEF IsMap, EmptyMap
<1>2. DOMAIN EmptyMap = {}
  BY DEF EmptyMap
<1> QED BY <1>1, <1>2 DEF Mid, Static

\* The swap, once the old levels are drained.
LEMMA SwapStatic ==
    ASSUME NEW ords, NEW lit, NEW lvs, NEW new, NEW source \in Maps,
           Mid(ords, lit, lvs, new, source),
           \A q \in DOMAIN lvs[source] : empty(lvs[source][q])
    PROVE  Static(ords, lit, [lvs EXCEPT ![source] = new])
<1> DEFINE lvs2 == [lvs EXCEPT ![source] = new]
<1>1. Typed(ords, lit, lvs) /\ IsMap(new, UInt64, LevelRecord)
  BY DEF Mid
<1>2. /\ lvs2 = [m \in Maps |-> lvs2[m]]
      /\ lvs2[source] = new
      /\ \A m \in Maps : m # source => lvs2[m] = lvs[m]
  BY <1>1 DEF Typed
<1> HIDE DEF lvs2
<1>3. Typed(ords, lit, lvs2)
  BY <1>1, <1>2 DEF Typed
<1>4. ASSUME NEW m \in Maps, NEW p \in DOMAIN lvs2[m]
      PROVE  ~empty(lvs2[m][p]) /\ Fits(lvs2[m][p], m, p, ords, lit)
  BY <1>2 DEF Mid
<1>5. ASSUME NEW id \in DOMAIN ords
      PROVE  Keyed(id, ords, lit) /\ HoldsAt(lvs2[MapOf(ords[id])], lit[id], id)
  <2>1. MapOf(ords[id]) \in Maps
    BY <1>1, MapOfType DEF Typed, IsMap
  <2>2. ~HoldsAt(lvs[source], lit[id], id)
    BY EmptyQueue DEF HoldsAt, LevelIds, empty
  <2> QED BY <1>2, <2>1, <2>2 DEF Mid
<1> QED BY <1>3, <1>4, <1>5 DEF Static, lvs2

\* One order moves: o is the front order of an old level with its new stop price.
LEMMA MoveMid ==
    ASSUME NEW ords, NEW lit, NEW lvs, NEW new, NEW source \in Maps,
           Mid(ords, lit, lvs, new, source),
           NEW p0 \in DOMAIN lvs[source], ~empty(lvs[source][p0]),
           NEW o \in OrderRecord, o.id = front(lvs[source][p0]),
           MapOf(o) = MapOf(ords[o.id]), KeyOf(o) = o.stop_price
    PROVE  /\ o.id \in DOMAIN ords
           /\ Mid(Put(ords, o.id, o), Put(lit, o.id, o.stop_price),
                  [lvs EXCEPT ![source] = Put(@, p0, popFront(@[p0], o))],
                  Enqueue(new, o.stop_price, o), source)
<1> DEFINE p1    == o.stop_price
           level == lvs[source][p0]
           ords2 == Put(ords, o.id, o)
           lit2  == Put(lit, o.id, p1)
           rest  == popFront(level, o)
           lvs2  == [lvs EXCEPT ![source] = Put(@, p0, rest)]
           old   == IF p1 \in DOMAIN new THEN new[p1] ELSE NewLevel
           new2  == Enqueue(new, p1, o)
<1>1. Typed(ords, lit, lvs) /\ IsMap(new, UInt64, LevelRecord) /\ p1 \in UInt64 /\ o.id \in Ids
  BY DEF Mid, OrderRecord
<1>2. level \in LevelRecord /\ p0 \in UInt64 /\ Fits(level, source, p0, ords, lit)
  BY <1>1 DEF Mid, Typed, IsMap
<1>3. /\ o.id \in LevelIds(level)
      /\ rest \in LevelRecord
      /\ IsInjective(rest.orders)
      /\ LevelIds(rest) = LevelIds(level) \ {o.id}
  <2>1. level.orders \in Seq(Ids) /\ IsInjective(level.orders) /\ level.orders # <<>>
        /\ o.id = Head(level.orders)
    BY <1>2 DEF LevelRecord, Fits, empty, front
  <2>2. /\ o.id \in ToSet(level.orders)
        /\ Tail(level.orders) \in Seq(Ids)
        /\ IsInjective(Tail(level.orders))
        /\ ToSet(Tail(level.orders)) = ToSet(level.orders) \ {o.id}
    BY <2>1, TailElements
  <2>3. rest.orders = Tail(level.orders) /\ rest.volume \in UInt64
    BY <1>2, ArithmeticType DEF popFront, LevelRecord, OrderRecord
  <2>4. rest = [volume |-> rest.volume, orders |-> rest.orders]
    BY DEF popFront
  <2>5. rest \in LevelRecord
    BY <2>2, <2>3, <2>4 DEF LevelRecord
  <2> QED BY <2>2, <2>3, <2>5 DEF LevelIds
<1>4. o.id \in DOMAIN ords /\ MapOf(ords[o.id]) = source /\ lit[o.id] = p0
  BY <1>2, <1>3 DEF Fits
<1>5. \A p \in DOMAIN new : o.id \notin LevelIds(new[p])
  BY <1>3 DEF Mid
<1>6. /\ old \in LevelRecord
      /\ IsInjective(old.orders)
      /\ o.id \notin LevelIds(old)
      /\ \A id \in LevelIds(old) : id \in DOMAIN ords /\ MapOf(ords[id]) = source /\ lit[id] = p1
      /\ \A q \in DOMAIN lvs[source] : LevelIds(old) \cap LevelIds(lvs[source][q]) = {}
  <2>1. CASE p1 \in DOMAIN new
    <3>1. old = new[p1] /\ old \in LevelRecord
      BY <1>1, <2>1 DEF IsMap
    <3>2. Fits(new[p1], source, p1, ords, lit)
      BY <2>1 DEF Mid
    <3>3. \A q \in DOMAIN lvs[source] : LevelIds(old) \cap LevelIds(lvs[source][q]) = {}
      BY <2>1, <3>1 DEF Mid
    <3> QED BY <1>5, <2>1, <3>1, <3>2, <3>3 DEF Fits
  <2>2. CASE p1 \notin DOMAIN new
    <3>1. NewLevel \in LevelRecord
      BY WidthAssumption DEF NewLevel, LevelRecord, UInt64
    <3> QED BY <2>2, <3>1, EmptyQueue DEF NewLevel, LevelIds
  <2> QED BY <2>1, <2>2
<1>7. /\ addOrder(old, o) \in LevelRecord
      /\ ~empty(addOrder(old, o))
      /\ IsInjective(addOrder(old, o).orders)
      /\ LevelIds(addOrder(old, o)) = LevelIds(old) \cup {o.id}
  <2> HIDE DEF old
  <2>1. /\ addOrder(old, o) \in LevelRecord
        /\ addOrder(old, o).orders = Append(old.orders, o.id)
    BY <1>1, <1>6, LevelType
  <2>2. old.orders \in Seq(Ids) /\ o.id \notin ToSet(old.orders)
    BY <1>6 DEF LevelRecord, LevelIds
  <2>3. /\ Append(old.orders, o.id) # <<>>
        /\ IsInjective(Append(old.orders, o.id))
        /\ ToSet(Append(old.orders, o.id)) = ToSet(old.orders) \cup {o.id}
    BY <1>1, <1>6, <2>2, AppendElements
  <2> QED BY <2>1, <2>3 DEF LevelIds, empty
<1>8. /\ lvs2 = [m \in Maps |-> lvs2[m]]
      /\ \A m \in Maps : m # source => lvs2[m] = lvs[m]
      /\ lvs2[source] = Put(lvs[source], p0, rest)
      /\ DOMAIN lvs2[source] = DOMAIN lvs[source]
      /\ lvs2[source][p0] = rest
      /\ \A p \in DOMAIN lvs[source] : p # p0 => lvs2[source][p] = lvs[source][p]
  BY <1>1 DEF Typed, Put
<1>9. /\ new2 = Put(new, p1, addOrder(old, o))
      /\ DOMAIN new2 = DOMAIN new \cup {p1}
      /\ new2[p1] = addOrder(old, o)
      /\ \A p \in DOMAIN new : p # p1 => new2[p] = new[p]
  BY DEF Enqueue, Put
<1>10. /\ DOMAIN ords2 = DOMAIN ords /\ ords2[o.id] = o
       /\ DOMAIN lit2 = DOMAIN ords /\ lit2[o.id] = p1
       /\ \A id \in DOMAIN ords : id # o.id => ords2[id] = ords[id] /\ lit2[id] = lit[id]
       /\ \A id \in DOMAIN ords : MapOf(ords2[id]) = MapOf(ords[id])
  BY <1>1, <1>4 DEF Put, Typed
<1>11. Typed(ords2, lit2, lvs2) /\ IsMap(new2, UInt64, LevelRecord)
  <2>1. IsMap(ords2, Ids, OrderRecord)
    BY <1>1, PutType DEF Typed
  <2>2. lit2 \in [DOMAIN ords2 -> UInt64]
    BY <1>1, <1>10 DEF Typed, Put
  <2>3. IsMap(lvs2[source], UInt64, LevelRecord)
    BY <1>1, <1>2, <1>3, <1>8, PutType DEF Typed
  <2>4. \A m \in Maps : IsMap(lvs2[m], UInt64, LevelRecord)
    BY <1>1, <1>8, <2>3 DEF Typed
  <2>5. IsMap(new2, UInt64, LevelRecord)
    BY <1>1, <1>7, <1>9, PutType
  <2> QED BY <1>8, <2>1, <2>2, <2>4, <2>5 DEF Typed
<1> HIDE DEF ords2, lit2, lvs2, new2, rest, old, p1, level
<1>12. ASSUME NEW m \in Maps, NEW p \in DOMAIN lvs2[m]
       PROVE  /\ m # source => ~empty(lvs2[m][p])
              /\ Fits(lvs2[m][p], m, p, ords2, lit2)
  <2>1. CASE m = source /\ p = p0
    BY <1>2, <1>3, <1>8, <1>10, <2>1 DEF Fits
  <2>2. CASE ~(m = source /\ p = p0)
    <3>1. p \in DOMAIN lvs[m] /\ lvs2[m][p] = lvs[m][p]
      BY <1>8, <2>2
    <3>2. (m # source => ~empty(lvs[m][p])) /\ Fits(lvs[m][p], m, p, ords, lit)
      BY <3>1 DEF Mid
    <3>3. o.id \notin LevelIds(lvs[m][p])
      BY <1>4, <2>2, <3>2 DEF Fits
    <3> QED BY <1>10, <3>1, <3>2, <3>3 DEF Fits
  <2> QED BY <2>1, <2>2
<1>13. ASSUME NEW p \in DOMAIN new2
       PROVE  ~empty(new2[p]) /\ Fits(new2[p], source, p, ords2, lit2)
  <2>1. CASE p = p1
    BY <1>4, <1>6, <1>7, <1>9, <1>10, <2>1 DEF Fits
  <2>2. CASE p # p1
    <3>1. p \in DOMAIN new /\ new2[p] = new[p] /\ o.id \notin LevelIds(new[p])
      BY <1>5, <1>9, <2>2
    <3>2. ~empty(new[p]) /\ Fits(new[p], source, p, ords, lit)
      BY <3>1 DEF Mid
    <3> QED BY <1>10, <3>1, <3>2 DEF Fits
  <2> QED BY <2>1, <2>2
<1>14. ASSUME NEW p \in DOMAIN new2, NEW q \in DOMAIN lvs2[source]
       PROVE  LevelIds(new2[p]) \cap LevelIds(lvs2[source][q]) = {}
  <2>1. q \in DOMAIN lvs[source]
        /\ LevelIds(lvs2[source][q]) = LevelIds(lvs[source][q]) \ {o.id}
    <3>1. CASE q = p0
      BY <1>3, <1>8, <3>1 DEF level
    <3>2. CASE q # p0
      <4>1. q \in DOMAIN lvs[source] /\ Fits(lvs[source][q], source, q, ords, lit)
        BY <1>8 DEF Mid
      <4> QED BY <1>4, <1>8, <3>2, <4>1 DEF Fits
    <3> QED BY <3>1, <3>2
  <2>2. CASE p = p1
    BY <1>6, <1>7, <1>9, <2>1, <2>2
  <2>3. CASE p # p1
    BY <1>9, <2>1, <2>3 DEF Mid
  <2> QED BY <2>2, <2>3
<1>15. ASSUME NEW id \in DOMAIN ords2
       PROVE  /\ Keyed(id, ords2, lit2)
              /\ \/ HoldsAt(lvs2[MapOf(ords2[id])], lit2[id], id)
                 \/ MapOf(ords2[id]) = source /\ HoldsAt(new2, lit2[id], id)
  <2>1. CASE id = o.id
    BY <1>4, <1>7, <1>9, <1>10, <2>1 DEF Keyed, HoldsAt, p1
  <2>2. CASE id # o.id
    <3>1. id \in DOMAIN ords /\ ords2[id] = ords[id] /\ lit2[id] = lit[id]
      BY <1>10, <2>2
    <3>2. /\ Keyed(id, ords, lit)
          /\ \/ HoldsAt(lvs[MapOf(ords[id])], lit[id], id)
             \/ MapOf(ords[id]) = source /\ HoldsAt(new, lit[id], id)
      BY <3>1 DEF Mid
    <3>3. MapOf(ords[id]) \in Maps
      BY <1>1, <3>1, MapOfType DEF Typed, IsMap
    <3>4. HoldsAt(lvs[MapOf(ords[id])], lit[id], id) => HoldsAt(lvs2[MapOf(ords[id])], lit[id], id)
      BY <1>3, <1>8, <2>2, <3>3 DEF HoldsAt, level
    <3>5. HoldsAt(new, lit[id], id) => HoldsAt(new2, lit[id], id)
      BY <1>7, <1>9 DEF HoldsAt, old
    <3> QED BY <3>1, <3>2, <3>4, <3>5 DEF Keyed
  <2> QED BY <2>1, <2>2
<1>16. Mid(ords2, lit2, lvs2, new2, source)
  BY <1>11, <1>12, <1>13, <1>14, <1>15 DEF Mid
<1> QED BY <1>4, <1>16 DEF ords2, lit2, lvs2, new2, rest, p1, level

-----------------------------------------------------------------------------
(* The inductive invariant.                                                *)

Scalars ==
    /\ last_traded_price \in UInt64
    /\ trailing_bid_price \in UInt64
    /\ trailing_ask_price \in UInt64
    /\ IsMap(feed, Ids, OrderRecord)
    /\ pc \in {"idle", "add", "match", "activate", "endRound"} \cup ActivationPCs \cup UpdatePCs
    /\ ret \in {"activate"} \cup ActivationPCs
    /\ taker \in OrderRecord \cup {NoOrder}
    /\ pc \in {"add", "match"} <=> taker # NoOrder
    /\ trigger_price \in UInt64
    /\ activated \in BOOLEAN
    /\ rescans \in 0 .. 2
    /\ IsMap(new_trailing_levels, UInt64, LevelRecord)

Shape ==
    /\ ~Moving => /\ Static(orders, level_it, levels)
                  /\ new_trailing_levels = EmptyMap
    /\ Moving => Mid(orders, level_it, levels, new_trailing_levels, UpdatedMap[pc])

\* The order in flight is not in the book, is of a type that trades while it is
\* matched, and a running call still owes a pass over the stop orders.
Flight ==
    /\ taker # NoOrder => taker.id \notin DOMAIN orders
    /\ pc = "match" => taker.type \in {"Limit", "Market"}
    /\ pc # "idle" => rescans > 0

Inv == Scalars /\ Shape /\ Flight

\* The invariant gives the type invariant.
LEMMA InvTypeOK == Inv => BookTypeOK
<1> SUFFICES ASSUME Inv PROVE BookTypeOK
  OBVIOUS
<1>1. Typed(orders, level_it, levels)
  BY DEF Inv, Shape, Static, Mid
<1> QED BY <1>1 DEF Inv, Scalars, BookTypeOK, Typed

\* The invariant gives the agreement of the three views.
LEMMA InvIndexConsistent == Inv => IndexConsistent
<1> SUFFICES ASSUME Inv PROVE IndexConsistent
  OBVIOUS
<1>1. CASE ~Moving
  <2>1. Static(orders, level_it, levels) /\ new_trailing_levels = EmptyMap
    BY <1>1 DEF Inv, Shape
  <2>2. \A id \in DOMAIN orders : Home(id) = MapOf(orders[id]) /\ MapOf(orders[id]) \in Maps
    BY <2>1, MapOfType DEF Home, InNewMap, EmptyMap, Static, Typed, IsMap
  <2>3. \A m \in Maps : LevelsOf(m) = levels[m]
    BY DEF LevelsOf, Maps, NewMap
  <2>4. DOMAIN LevelsOf(NewMap) = {}
    BY <2>1 DEF LevelsOf, EmptyMap
  <2>5. ASSUME NEW m \in AllMaps, NEW p \in DOMAIN LevelsOf(m)
        PROVE  /\ ~empty(LevelsOf(m)[p])
               /\ IsInjective(Queue(m, p))
               /\ \A id \in ToSet(Queue(m, p)) :
                    id \in DOMAIN orders /\ Home(id) = m /\ level_it[id] = p
    <3>1. m \in Maps
      BY <2>4, <2>5 DEF AllMaps
    <3> QED BY <2>1, <2>2, <2>3, <2>5, <3>1 DEF Static, Fits, Queue, LevelIds
  <2>6. ASSUME NEW id \in DOMAIN orders
        PROVE  /\ orders[id].id = id
               /\ level_it[id] = KeyOf(orders[id])
               /\ level_it[id] \in DOMAIN LevelsOf(Home(id))
               /\ id \in ToSet(Queue(Home(id), level_it[id]))
    BY <2>1, <2>2, <2>3 DEF Static, Keyed, HoldsAt, Queue, LevelIds
  <2> QED BY <2>5, <2>6 DEF IndexConsistent
<1>2. CASE Moving
  <2> DEFINE source == UpdatedMap[pc]
  <2>1. Mid(orders, level_it, levels, new_trailing_levels, source) /\ source \in Maps
    BY <1>2 DEF Inv, Shape, Moving, UpdatedMap, Maps, OrderSide
  <2> HIDE DEF source
  <2>2. \A id \in DOMAIN orders : MapOf(orders[id]) \in Maps
    BY <2>1, MapOfType DEF Mid, Typed, IsMap
  <2>3. /\ \A m \in Maps : LevelsOf(m) = levels[m]
        /\ LevelsOf(NewMap) = new_trailing_levels
    BY DEF LevelsOf, Maps, NewMap
  <2>4. \A id \in DOMAIN orders : InNewMap(id) <=> HoldsAt(new_trailing_levels, level_it[id], id)
    BY <2>1, <2>3 DEF InNewMap, HoldsAt, Mid, Fits, Queue, LevelIds
  <2>5. ASSUME NEW m \in Maps, NEW p \in DOMAIN levels[m], NEW id \in LevelIds(levels[m][p])
        PROVE  id \in DOMAIN orders /\ Home(id) = m /\ level_it[id] = p
    <3>1. id \in DOMAIN orders /\ MapOf(orders[id]) = m /\ level_it[id] = p
      BY <2>1, <2>5 DEF Mid, Fits
    <3>2. ~InNewMap(id)
      <4>1. SUFFICES ASSUME HoldsAt(new_trailing_levels, p, id) PROVE FALSE
        BY <2>4, <3>1
      <4>2. m = source
        BY <2>1, <3>1, <4>1 DEF HoldsAt, Mid, Fits
      <4> QED BY <2>1, <2>5, <4>1, <4>2 DEF HoldsAt, Mid
    <3> QED BY <3>1, <3>2 DEF Home
  <2>6. ASSUME NEW p \in DOMAIN new_trailing_levels, NEW id \in LevelIds(new_trailing_levels[p])
        PROVE  id \in DOMAIN orders /\ Home(id) = NewMap /\ level_it[id] = p
    <3>1. id \in DOMAIN orders /\ level_it[id] = p
      BY <2>1, <2>6 DEF Mid, Fits
    <3> QED BY <2>3, <2>6, <3>1 DEF Home, InNewMap, Queue, LevelIds
  <2>7. ASSUME NEW m \in AllMaps, NEW p \in DOMAIN LevelsOf(m)
        PROVE  /\ empty(LevelsOf(m)[p]) => Moving /\ m = UpdatedMap[pc]
               /\ IsInjective(Queue(m, p))
               /\ \A id \in ToSet(Queue(m, p)) :
                    id \in DOMAIN orders /\ Home(id) = m /\ level_it[id] = p
    <3>1. CASE m \in Maps
      BY <1>2, <2>1, <2>3, <2>5, <2>7, <3>1 DEF Mid, Fits, Queue, LevelIds, source
    <3>2. CASE m = NewMap
      BY <2>1, <2>3, <2>6, <2>7, <3>2 DEF Mid, Fits, Queue, LevelIds
    <3> QED BY <3>1, <3>2 DEF AllMaps
  <2>8. ASSUME NEW id \in DOMAIN orders
        PROVE  /\ orders[id].id = id
               /\ level_it[id] = KeyOf(orders[id])
               /\ level_it[id] \in DOMAIN LevelsOf(Home(id))
               /\ id \in ToSet(Queue(Home(id), level_it[id]))
    <3>1. Keyed(id, orders, level_it)
      BY <2>1 DEF Mid
    <3>2. CASE InNewMap(id)
      BY <2>3, <2>4, <3>1, <3>2 DEF Home, HoldsAt, Queue, LevelIds, Keyed
    <3>3. CASE ~InNewMap(id)
      <4>1. HoldsAt(levels[MapOf(orders[id])], level_it[id], id)
        BY <2>1, <2>4, <3>3 DEF Mid
      <4> QED BY <2>2, <2>3, <3>1, <3>3, <4>1 DEF Home, HoldsAt, Queue, LevelIds, Keyed
    <3> QED BY <3>2, <3>3
  <2> QED BY <2>7, <2>8 DEF IndexConsistent
<1> QED BY <1>1, <1>2

\* The book is constructed empty (map_orderbook.cpp:8-14).
LEMMA InitInv == Init => Inv
<1> SUFFICES ASSUME Init PROVE Inv
  OBVIOUS
<1>1. /\ IsMap([id \in {} |-> NoOrder], Ids, OrderRecord)
      /\ IsMap(EmptyMap, UInt64, LevelRecord)
      /\ DOMAIN EmptyMap = {}
      /\ 0 \in UInt64 /\ UINT64_MAX \in UInt64
  BY WidthAssumption DEF IsMap, EmptyMap, UInt64
<1>2. Scalars
  <2>1. taker \in OrderRecord \cup {NoOrder} /\ (pc \in {"add", "match"} <=> taker # NoOrder)
    BY DEF Init
  <2>2. IsMap(feed, Ids, OrderRecord) /\ IsMap(new_trailing_levels, UInt64, LevelRecord)
    BY <1>1 DEF Init
  <2>3. /\ last_traded_price \in UInt64
        /\ trailing_bid_price \in UInt64
        /\ trailing_ask_price \in UInt64
        /\ trigger_price \in UInt64
        /\ rescans \in 0 .. 2
    BY <1>1 DEF Init
  <2>4. activated \in BOOLEAN
    BY DEF Init
  <2>5. /\ pc \in {"idle", "add", "match", "activate", "endRound"} \cup ActivationPCs \cup UpdatePCs
        /\ ret \in {"activate"} \cup ActivationPCs
    BY DEF Init
  <2> QED BY <2>1, <2>2, <2>3, <2>4, <2>5 DEF Scalars
<1>3. Static(orders, level_it, levels)
  BY <1>1 DEF Init, Static, Typed
<1> QED BY <1>2, <1>3 DEF Init, Inv, Shape, Flight, Moving

-----------------------------------------------------------------------------
(* What the updates of the book do to a Static book.                       *)

\* The insertion of the order in flight,
LEMMA InsertAction ==
    ASSUME Static(orders, level_it, levels), NEW o \in OrderRecord,
           o.id \notin DOMAIN orders, Insert(o)
    PROVE  Static(orders', level_it', levels')
  BY InsertStatic DEF Insert

\* deleteOrder(), also from a map whose level volume was reduced before,
LEMMA EraseAction ==
    ASSUME NEW lvs, Static(orders, level_it, lvs), NEW o \in OrderRecord,
           o.id \in DOMAIN orders, MapOf(o) = MapOf(orders[o.id]), Erase(o, lvs)
    PROVE  /\ Static(orders', level_it', levels')
           /\ DOMAIN orders' = DOMAIN orders \ {o.id}
<1>1. Static(orders', level_it', levels')
  BY EraseStatic DEF Erase
<1>2. DOMAIN orders' = DOMAIN orders \ {o.id}
  BY DEF Erase, Without
<1> QED BY <1>1, <1>2

\* and the three steps above together, as trades and cancels make them.
LEMMA ReduceAction ==
    ASSUME Static(orders, level_it, levels), NEW o \in OrderRecord, NEW amount \in UInt64,
           o.id \in DOMAIN orders, MapOf(o) = MapOf(orders[o.id]),
           KeyOf(o) = KeyOf(orders[o.id]), Reduce(o, amount)
    PROVE  /\ Static(orders', level_it', levels')
           /\ DOMAIN orders' \subseteq DOMAIN orders
<1> DEFINE reduced == [levels EXCEPT ![MapOf(o)] =
                        Put(@, level_it[o.id], reduceVolume(@[level_it[o.id]], amount))]
<1>1. MapOf(o) \in Maps
  BY MapOfType
<1>2. level_it[o.id] \in DOMAIN levels[MapOf(o)]
  BY DEF Static, HoldsAt
<1>3. Static(orders, level_it, reduced)
  BY <1>1, <1>2, ReduceVolumeStatic
<1>4. CASE isFilled(o)
  <2>1. Erase(o, reduced)
    BY <1>4 DEF Reduce
  <2> HIDE DEF reduced
  <2> QED BY <1>3, <2>1, EraseAction
<1>5. CASE ~isFilled(o)
  <2>1. orders' = Put(orders, o.id, o) /\ level_it' = level_it /\ levels' = reduced
    BY <1>5 DEF Reduce
  <2>2. DOMAIN orders' = DOMAIN orders
    BY <2>1 DEF Put
  <2> HIDE DEF reduced
  <2> QED BY <1>3, <2>1, <2>2, UpdateStatic
<1> QED BY <1>4, <1>5

\* The front order of a level is the resting order its id names (Level::front).
LEMMA FrontInBook ==
    ASSUME NEW ords, NEW lit, NEW lvs, Typed(ords, lit, lvs),
           NEW m \in Maps, NEW p \in DOMAIN lvs[m],
           ~empty(lvs[m][p]), Fits(lvs[m][p], m, p, ords, lit)
    PROVE  LET id == front(lvs[m][p])
           IN  /\ id \in LevelIds(lvs[m][p])
               /\ id \in DOMAIN ords
               /\ id \in Ids
               /\ ords[id] \in OrderRecord
               /\ MapOf(ords[id]) = m
               /\ lit[id] = p
<1> DEFINE level == lvs[m][p]
<1>1. level.orders \in Seq(Ids)
  BY DEF Typed, IsMap, LevelRecord
<1>2. front(level) \in LevelIds(level)
  BY <1>1, TailElements DEF front, LevelIds, Fits, empty
<1> QED BY <1>2 DEF Fits, Typed, IsMap

\* A trade, a cancel and a new trailing stop price leave an order in its map; the
\* first two also leave it under its key.
LEMMA SameKey ==
    ASSUME NEW o \in OrderRecord, NEW p, NEW q
    PROVE  /\ execute(o, p, q).id = o.id /\ setQuantity(o, q).id = o.id
           /\ execute(o, p, q).type = o.type
           /\ MapOf(execute(o, p, q)) = MapOf(o) /\ KeyOf(execute(o, p, q)) = KeyOf(o)
           /\ MapOf(setQuantity(o, q)) = MapOf(o) /\ KeyOf(setQuantity(o, q)) = KeyOf(o)
           /\ execute(o, p, q).last_executed_quantity = q
  BY DEF execute, setQuantity, MapOf, KeyOf, OrderRecord

\* What the event handler knows keeps its type.
LEMMA ReportType ==
    ASSUME NEW f, IsMap(f, Ids, OrderRecord), NEW o \in OrderRecord
    PROVE  IsMap(Report(f, o), Ids, OrderRecord)
<1>1. o.id \in Ids
  BY DEF OrderRecord
<1> QED BY <1>1, PutType, WithoutType DEF Report

\* The stop price of a trailing order and the price of a market order are in
\* range, and change neither the identity nor the map of the order.
LEMMA PriceType ==
    ASSUME last_traded_price \in UInt64, NEW o \in OrderRecord
    PROVE  /\ lastTradedPriceAsk \in UInt64 /\ lastTradedPriceBid \in UInt64
           /\ calculateStopPrice(o) \in OrderRecord
           /\ calculateStopPrice(o).id = o.id
           /\ calculateStopPrice(o).type = o.type
           /\ MapOf(calculateStopPrice(o)) = MapOf(o)
           /\ Priced(o) \in OrderRecord
           /\ Priced(o).id = o.id
           /\ Priced(o).type = o.type
<1>1. lastTradedPriceAsk \in UInt64 /\ lastTradedPriceBid \in UInt64
  BY WidthAssumption DEF lastTradedPriceAsk, lastTradedPriceBid, UInt64
<1> DEFINE market == MarketPrice(o.side)
           trail  == o.trail_amount
           price  == IF o.side = "Ask"
                     THEN IF market > trail THEN market - trail ELSE 0
                     ELSE IF market < UINT64_MAX - trail THEN market + trail ELSE UINT64_MAX
<1>2. market \in UInt64 /\ trail \in UInt64
  BY <1>1 DEF MarketPrice, OrderRecord
<1>3. price \in UInt64
  <2> HIDE DEF market, trail
  <2> QED BY <1>2, WidthAssumption DEF UInt64
<1>4. calculateStopPrice(o) = setStopPrice(o, price)
  BY DEF calculateStopPrice
<1> HIDE DEF price
<1>5. /\ calculateStopPrice(o) \in OrderRecord
      /\ calculateStopPrice(o).id = o.id
      /\ calculateStopPrice(o).type = o.type
      /\ MapOf(calculateStopPrice(o)) = MapOf(o)
  BY <1>3, <1>4 DEF setStopPrice, OrderRecord, MapOf
<1>6. 0 \in UInt64 /\ UINT64_MAX \in UInt64
  BY WidthAssumption DEF UInt64
<1>7. Priced(o) \in OrderRecord /\ Priced(o).id = o.id /\ Priced(o).type = o.type
  BY <1>6 DEF Priced, setPrice, OrderRecord
<1> QED BY <1>1, <1>5, <1>7

-----------------------------------------------------------------------------
(* Every action preserves the invariant.                                   *)

\* Outside a rebuild the invariant gives a Static book and an empty new map,
LEMMA Outside ==
    ASSUME Inv, pc \notin {"moveAsk", "moveBid"}
    PROVE  /\ Static(orders, level_it, levels)
           /\ Typed(orders, level_it, levels)
           /\ new_trailing_levels = EmptyMap
  BY DEF Inv, Shape, Moving, Static

\* and a Static book, outside a rebuild, is what it asks for.
LEMMA ShapeNext ==
    ASSUME Static(orders', level_it', levels'), pc' \notin {"moveAsk", "moveBid"},
           new_trailing_levels' = EmptyMap
    PROVE  Shape'
  BY DEF Shape, Moving

\* addOrder() up to the matching: the order in flight is new to the book.
LEMMA AddOrderInv ==
    ASSUME Inv, NEW id \in Ids, NEW r \in Submissions, AddOrder(id, r)
    PROVE  Inv'
<1> DEFINE o == Construct(id, r)
<1>1. o \in OrderRecord /\ o.id = id /\ o # NoOrder
  BY ConstructType, InputAssumption DEF Construct
<1> HIDE DEF o
<1>2. IsMap(feed', Ids, OrderRecord)
  BY <1>1, PutType DEF AddOrder, Inv, Scalars, o
<1>3. taker' = o /\ pc' = "add" /\ rescans' = 1 /\ pc = "idle" /\ id \notin DOMAIN orders
  BY DEF AddOrder, Submit, o
<1>4. Scalars'
  <2>1. taker' \in OrderRecord \cup {NoOrder} /\ (pc' \in {"add", "match"} <=> taker' # NoOrder)
    BY <1>1, <1>3
  <2> QED BY <1>2, <1>3, <2>1 DEF AddOrder, Inv, Scalars, prices
<1>5. Shape'
  <2>1. /\ orders' = orders /\ level_it' = level_it /\ levels' = levels
        /\ new_trailing_levels' = new_trailing_levels
    BY DEF AddOrder, book
  <2> QED BY <1>3, <2>1, Outside, ShapeNext
<1>6. Flight'
  BY <1>1, <1>3 DEF AddOrder, Flight, book
<1> QED BY <1>4, <1>5, <1>6 DEF Inv

\* Both overloads of executeOrder(): a trade takes an amount out of the book.
LEMMA TradeInv ==
    ASSUME Inv, pc = "idle", NEW id \in DOMAIN orders, NEW q \in UInt64, NEW p \in UInt64,
           TradeAt(id, q, p), ReturnThroughActivation
    PROVE  Inv'
<1> DEFINE amount == Least(q, orders[id].open_quantity)
           o      == execute(orders[id], p, amount)
<1>1. Static(orders, level_it, levels) /\ new_trailing_levels = EmptyMap
      /\ orders[id] \in OrderRecord /\ orders[id].id = id /\ id \in Ids
  BY Outside DEF Static, Keyed, Typed, IsMap
<1>2. amount \in UInt64
  BY <1>1, ArithmeticType DEF OrderRecord
<1> HIDE DEF amount
<1>3. /\ o \in OrderRecord /\ o.id = id /\ o.last_executed_quantity = amount
      /\ MapOf(o) = MapOf(orders[id]) /\ KeyOf(o) = KeyOf(orders[id])
  <2>1. o \in OrderRecord
    BY <1>1, <1>2, MutatorType
  <2>2. /\ o.id = orders[id].id /\ o.last_executed_quantity = amount
        /\ MapOf(o) = MapOf(orders[id]) /\ KeyOf(o) = KeyOf(orders[id])
    BY <1>1, SameKey
  <2> QED BY <1>1, <2>1, <2>2
<1>4. /\ Reduce(o, o.last_executed_quantity) /\ feed' = Report(feed, o)
      /\ last_traded_price' = p
      /\ UNCHANGED <<trailing_bid_price, trailing_ask_price>>
  BY DEF TradeAt, amount
<1> HIDE DEF o
<1>5. Static(orders', level_it', levels') /\ DOMAIN orders' \subseteq DOMAIN orders
  BY <1>1, <1>2, <1>3, <1>4, ReduceAction
<1>6. IsMap(feed', Ids, OrderRecord)
  BY <1>3, <1>4, ReportType DEF Inv, Scalars
<1>7. taker' = taker /\ taker = NoOrder
  BY DEF ReturnThroughActivation, Inv, Scalars
<1>8. Scalars'
  <2>1. taker' \in OrderRecord \cup {NoOrder} /\ (pc' \in {"add", "match"} <=> taker' # NoOrder)
    BY <1>7 DEF ReturnThroughActivation
  <2> QED BY <1>4, <1>6, <2>1 DEF ReturnThroughActivation, Inv, Scalars
<1>9. Shape'
  BY <1>1, <1>5, ShapeNext DEF ReturnThroughActivation
<1>10. Flight'
  BY <1>7 DEF ReturnThroughActivation, Flight
<1> QED BY <1>8, <1>9, <1>10 DEF Inv

\* cancelOrder(), also of more than is open.
LEMMA CancelOrderInv ==
    ASSUME Inv, NEW id \in Ids, NEW q \in CancelQuantities, CancelOrder(id, q)
    PROVE  Inv'
<1> DEFINE o      == setQuantity(orders[id], q)
           amount == Minus(orders[id].open_quantity, o.open_quantity)
<1>1. Static(orders, level_it, levels) /\ new_trailing_levels = EmptyMap
      /\ id \in DOMAIN orders /\ orders[id] \in OrderRecord /\ orders[id].id = id /\ q \in UInt64
  BY Outside, InputAssumption DEF CancelOrder, Static, Keyed, Typed, IsMap
<1>2. /\ o \in OrderRecord /\ o.id = id
      /\ MapOf(o) = MapOf(orders[id]) /\ KeyOf(o) = KeyOf(orders[id])
  BY <1>1, MutatorType, SameKey
<1>3. Reduce(o, amount) /\ feed' = Report(feed, o)
  BY DEF CancelOrder
<1>4. amount \in UInt64
  <2> HIDE DEF o
  <2> QED BY <1>1, <1>2, ArithmeticType DEF OrderRecord
<1> HIDE DEF o, amount
<1>5. Static(orders', level_it', levels')
  BY <1>1, <1>2, <1>3, <1>4, ReduceAction
<1>6. IsMap(feed', Ids, OrderRecord)
  BY <1>2, <1>3, ReportType DEF Inv, Scalars
<1>7. taker' = taker /\ taker = NoOrder
  BY DEF CancelOrder, ReturnThroughActivation, Inv, Scalars
<1>8. Scalars'
  <2>1. taker' \in OrderRecord \cup {NoOrder} /\ (pc' \in {"add", "match"} <=> taker' # NoOrder)
    BY <1>7 DEF CancelOrder, ReturnThroughActivation
  <2> QED BY <1>6, <2>1 DEF CancelOrder, ReturnThroughActivation, Inv, Scalars, prices
<1>9. Shape'
  BY <1>1, <1>5, ShapeNext DEF CancelOrder, ReturnThroughActivation
<1>10. Flight'
  BY <1>7 DEF CancelOrder, ReturnThroughActivation, Flight
<1> QED BY <1>8, <1>9, <1>10 DEF Inv

\* deleteOrder().
LEMMA DeleteOrderInv ==
    ASSUME Inv, NEW id \in Ids, DeleteOrder(id)
    PROVE  Inv'
<1>1. Static(orders, level_it, levels) /\ new_trailing_levels = EmptyMap
      /\ id \in DOMAIN orders /\ orders[id] \in OrderRecord /\ orders[id].id = id
  BY Outside DEF DeleteOrder, Static, Keyed, Typed, IsMap
<1>2. Static(orders', level_it', levels')
  BY <1>1, EraseAction DEF DeleteOrder
<1>3. IsMap(feed', Ids, OrderRecord)
  BY WithoutType DEF DeleteOrder, Inv, Scalars
<1>4. taker' = taker /\ taker = NoOrder
  BY DEF DeleteOrder, ReturnThroughActivation, Inv, Scalars
<1>5. Scalars'
  <2>1. taker' \in OrderRecord \cup {NoOrder} /\ (pc' \in {"add", "match"} <=> taker' # NoOrder)
    BY <1>4 DEF DeleteOrder, ReturnThroughActivation
  <2> QED BY <1>3, <2>1 DEF DeleteOrder, ReturnThroughActivation, Inv, Scalars, prices
<1>6. Shape'
  BY <1>1, <1>2, ShapeNext DEF DeleteOrder, ReturnThroughActivation
<1>7. Flight'
  BY <1>4 DEF DeleteOrder, ReturnThroughActivation, Flight
<1> QED BY <1>5, <1>6, <1>7 DEF Inv

\* replaceOrder(): the order leaves the book before its copy is added.
LEMMA ReplaceOrderInv ==
    ASSUME Inv, NEW id \in Ids, NEW new_id \in Ids, NEW p \in ReplacePrices,
           ReplaceOrder(id, new_id, p)
    PROVE  Inv'
<1> DEFINE o == setPrice(setOrderID(orders[id], new_id), p)
<1>1. Static(orders, level_it, levels) /\ new_trailing_levels = EmptyMap
      /\ id \in DOMAIN orders /\ orders[id] \in OrderRecord /\ orders[id].id = id /\ p \in UInt64
  BY Outside, InputAssumption DEF ReplaceOrder, Static, Keyed, Typed, IsMap
<1>2. o \in OrderRecord /\ o.id = new_id /\ o # NoOrder
  <2>1. o \in OrderRecord /\ o.id = new_id
    BY <1>1 DEF setPrice, setOrderID, OrderRecord
  <2> QED BY <2>1, InputAssumption
<1>3. /\ Erase(orders[id], levels) /\ taker' = o /\ pc' = "add" /\ rescans' = 2
      /\ feed' = Put(Without(feed, id), new_id, o)
      /\ new_id = id \/ new_id \notin DOMAIN orders
  BY DEF ReplaceOrder, Submit
<1> HIDE DEF o
<1>4. Static(orders', level_it', levels') /\ DOMAIN orders' = DOMAIN orders \ {id}
  BY <1>1, <1>3, EraseAction
<1>5. IsMap(feed', Ids, OrderRecord)
  <2>1. IsMap(Without(feed, id), Ids, OrderRecord)
    BY WithoutType DEF Inv, Scalars
  <2> QED BY <1>2, <1>3, <2>1, PutType
<1>6. Scalars'
  <2>1. taker' \in OrderRecord \cup {NoOrder} /\ (pc' \in {"add", "match"} <=> taker' # NoOrder)
    BY <1>2, <1>3
  <2> QED BY <1>3, <1>5, <2>1 DEF ReplaceOrder, Inv, Scalars, prices
<1>7. Shape'
  BY <1>1, <1>3, <1>4, ShapeNext DEF ReplaceOrder
<1>8. Flight'
  BY <1>2, <1>3, <1>4 DEF Flight
<1> QED BY <1>6, <1>7, <1>8 DEF Inv

\* addLimitOrder() and addMarketOrder() up to the loop of match().
LEMMA BeginMatchInv ==
    ASSUME Inv, BeginMatch
    PROVE  Inv'
<1>1. taker \in OrderRecord /\ taker.id \notin DOMAIN orders
  BY DEF BeginMatch, Inv, Scalars, Flight
<1>2. taker' = Priced(taker) /\ taker' \in OrderRecord /\ taker' # NoOrder
      /\ taker'.id = taker.id /\ taker'.type = taker.type
  <2>1. taker' = Priced(taker)
    BY DEF BeginMatch
  <2>2. Priced(taker) \in OrderRecord /\ Priced(taker).id = taker.id /\ Priced(taker).type = taker.type
    BY <1>1, PriceType DEF Inv, Scalars
  <2> QED BY <2>1, <2>2, InputAssumption
<1>3. Scalars'
  <2>1. taker' \in OrderRecord \cup {NoOrder} /\ (pc' \in {"add", "match"} <=> taker' # NoOrder)
    BY <1>2 DEF BeginMatch
  <2> QED BY <2>1 DEF BeginMatch, Inv, Scalars, prices, loop
<1>4. Shape'
  <2>1. /\ orders' = orders /\ level_it' = level_it /\ levels' = levels
        /\ new_trailing_levels' = new_trailing_levels
    BY DEF BeginMatch, book, loop
  <2> QED BY <2>1, Outside, ShapeNext DEF BeginMatch
<1>5. Flight'
  BY <1>1, <1>2 DEF BeginMatch, Inv, Flight, book, loop
<1> QED BY <1>3, <1>4, <1>5 DEF Inv

\* An order in flight that leaves the book as it is.
LEMMA DiscardInv ==
    ASSUME Inv, pc \in {"add", "match"}, Discard
    PROVE  Inv'
<1>1. pc' \in {"activate"} \cup ActivationPCs
  BY DEF Discard, Settled, Inv, Scalars
<1>2. IsMap(feed', Ids, OrderRecord)
  BY WithoutType DEF Discard, Inv, Scalars
<1>3. Scalars'
  <2>1. taker' \in OrderRecord \cup {NoOrder} /\ (pc' \in {"add", "match"} <=> taker' # NoOrder)
    BY <1>1 DEF Discard, Settled, ActivationPCs
  <2> QED BY <1>1, <1>2, <2>1 DEF Discard, Settled, Inv, Scalars, prices, loop
<1>4. Shape'
  <2>1. /\ orders' = orders /\ level_it' = level_it /\ levels' = levels
        /\ new_trailing_levels' = new_trailing_levels
    BY DEF Discard, book, loop
  <2> QED BY <1>1, <2>1, Outside, ShapeNext DEF ActivationPCs
<1>5. Flight'
  BY <1>1 DEF Discard, Settled, Inv, Flight, loop, ActivationPCs
<1> QED BY <1>3, <1>4, <1>5 DEF Inv

\* One trade of match(): the resting order is the front of a level of the book.
LEMMA MatchOneInv ==
    ASSUME Inv, MatchOne
    PROVE  Inv'
<1> DEFINE m == <<"Limit", Opposite(taker.side)>>
<1>1. PICK p \in DOMAIN levels[m] :
        LET resting  == orders[front(levels[m][p])]
            quantity == Least(taker.open_quantity, resting.open_quantity)
            maker    == execute(resting, resting.price, quantity)
        IN  /\ taker' = execute(taker, resting.price, quantity)
            /\ Reduce(maker, maker.last_executed_quantity)
            /\ feed' = Report(Put(feed, taker.id, taker'), maker)
            /\ last_traded_price' = resting.price
  BY DEF MatchOne
<1> DEFINE resting  == orders[front(levels[m][p])]
           quantity == Least(taker.open_quantity, resting.open_quantity)
           maker    == execute(resting, resting.price, quantity)
<1>2. /\ taker' = execute(taker, resting.price, quantity)
      /\ Reduce(maker, maker.last_executed_quantity)
      /\ feed' = Report(Put(feed, taker.id, taker'), maker)
      /\ last_traded_price' = resting.price
  BY <1>1
<1>3. /\ Static(orders, level_it, levels) /\ Typed(orders, level_it, levels)
      /\ new_trailing_levels = EmptyMap
  BY Outside DEF MatchOne
<1>4. m \in Maps
  BY DEF Maps, Opposite, OrderSide
<1>5. taker \in OrderRecord /\ taker.id \notin DOMAIN orders /\ taker.type \in {"Limit", "Market"}
  BY DEF MatchOne, Inv, Scalars, Flight
<1> HIDE DEF m
<1>6. resting \in OrderRecord /\ resting.id \in DOMAIN orders /\ orders[resting.id] = resting
  <2>1. ~empty(levels[m][p]) /\ Fits(levels[m][p], m, p, orders, level_it)
    BY <1>3, <1>4 DEF Static
  <2>2. front(levels[m][p]) \in DOMAIN orders /\ resting \in OrderRecord
    BY <1>3, <1>4, <2>1, FrontInBook
  <2> QED BY <1>3, <2>2 DEF Static, Keyed
<1> HIDE DEF resting
<1>7. quantity \in UInt64 /\ resting.price \in UInt64
  BY <1>5, <1>6, ArithmeticType DEF OrderRecord
<1> HIDE DEF quantity
<1>8. maker \in OrderRecord
  BY <1>6, <1>7, MutatorType DEF OrderRecord
<1>9. /\ maker.id = resting.id /\ maker.last_executed_quantity = quantity
      /\ MapOf(maker) = MapOf(resting) /\ KeyOf(maker) = KeyOf(resting)
  BY <1>6, SameKey
<1> HIDE DEF maker
<1>10. Static(orders', level_it', levels') /\ DOMAIN orders' \subseteq DOMAIN orders
  BY <1>2, <1>3, <1>6, <1>7, <1>8, <1>9, ReduceAction
<1>11. taker' \in OrderRecord /\ taker'.id = taker.id /\ taker'.type = taker.type
  <2>1. execute(taker, resting.price, quantity) \in OrderRecord
    BY <1>5, <1>7, MutatorType DEF OrderRecord
  <2>2. /\ execute(taker, resting.price, quantity).id = taker.id
        /\ execute(taker, resting.price, quantity).type = taker.type
    BY <1>5, SameKey
  <2> QED BY <1>2, <2>1, <2>2
<1>12. IsMap(feed', Ids, OrderRecord)
  <2>1. taker.id \in Ids
    BY <1>5 DEF OrderRecord
  <2>2. IsMap(Put(feed, taker.id, taker'), Ids, OrderRecord)
    BY <1>11, <2>1, PutType DEF Inv, Scalars
  <2> QED BY <1>2, <1>8, <2>2, ReportType
<1>13. pc = "match" /\ pc' = "match"
  BY DEF MatchOne
<1>14. Scalars'
  <2>1. taker' \in OrderRecord \cup {NoOrder} /\ (pc' \in {"add", "match"} <=> taker' # NoOrder)
    BY <1>11, <1>13, InputAssumption
  <2> QED BY <1>2, <1>7, <1>12, <2>1 DEF MatchOne, Inv, Scalars, loop
<1>15. Shape'
  BY <1>3, <1>10, <1>13, ShapeNext DEF MatchOne, loop
<1>16. Flight'
  BY <1>5, <1>10, <1>11, <1>13 DEF MatchOne, Inv, Flight, loop
<1> QED BY <1>14, <1>15, <1>16 DEF Inv

\* insertLimitOrder, insertStopOrder and insertTrailingStopOrder: the order in
\* flight, or its copy with a new stop price, comes to rest.
LEMMA RestInv ==
    ASSUME Inv, pc \in {"add", "match"}, NEW o \in OrderRecord, o.id = taker.id,
           Insert(o), Settled, UNCHANGED <<prices, feed, loop>>
    PROVE  Inv'
<1>1. Static(orders, level_it, levels) /\ new_trailing_levels = EmptyMap
      /\ taker.id \notin DOMAIN orders
  BY Outside DEF Inv, Scalars, Flight
<1>2. Static(orders', level_it', levels')
  BY <1>1, InsertAction
<1>3. pc' \in {"activate"} \cup ActivationPCs
  BY DEF Settled, Inv, Scalars
<1>4. Scalars'
  <2>1. taker' \in OrderRecord \cup {NoOrder} /\ (pc' \in {"add", "match"} <=> taker' # NoOrder)
    BY <1>3 DEF Settled, ActivationPCs
  <2> QED BY <1>3, <2>1 DEF Settled, Inv, Scalars, prices, loop
<1>5. Shape'
  BY <1>1, <1>2, <1>3, ShapeNext DEF ActivationPCs, loop
<1>6. Flight'
  BY <1>3 DEF Settled, Inv, Flight, loop, ActivationPCs
<1> QED BY <1>4, <1>5, <1>6 DEF Inv

\* A limit order comes to rest under its price (map_orderbook.cpp:145-161),
LEMMA InsertLimitOrderInv ==
    ASSUME Inv, InsertLimitOrder
    PROVE  Inv'
<1>1. taker \in OrderRecord
  BY DEF InsertLimitOrder, MatchDone, Inv, Scalars
<1> QED BY <1>1, RestInv DEF InsertLimitOrder, MatchDone

\* a stop order under its stop price (map_orderbook.cpp:189-233).
LEMMA InsertStopOrderInv ==
    ASSUME Inv, InsertStopOrder
    PROVE  Inv'
<1>1. taker \in OrderRecord
  BY DEF InsertStopOrder, Inv, Scalars
<1>2. Entering(taker) \in OrderRecord /\ Entering(taker).id = taker.id
  BY <1>1, PriceType DEF Entering, Inv, Scalars
<1> QED BY <1>2, RestInv DEF InsertStopOrder

\* addStopOrder() when the stop price is already reached.
LEMMA ConvertOnEntryInv ==
    ASSUME Inv, ConvertOnEntry
    PROVE  Inv'
<1>1. taker \in OrderRecord /\ taker.id \notin DOMAIN orders /\ taker.id \in Ids
  BY DEF ConvertOnEntry, Inv, Scalars, Flight, OrderRecord
<1>2. taker' \in OrderRecord /\ taker'.id = taker.id /\ taker' # NoOrder
  <2>1. Converted(taker) \in OrderRecord
    BY <1>1, MutatorType, WidthAssumption DEF UInt64
  <2>2. Converted(taker).id = taker.id
    BY <1>1 DEF Converted, OrderRecord
  <2> QED BY <2>1, <2>2, InputAssumption DEF ConvertOnEntry
<1>3. IsMap(feed', Ids, OrderRecord)
  BY <1>1, <1>2, PutType DEF ConvertOnEntry, Inv, Scalars
<1>4. Scalars'
  <2>1. taker' \in OrderRecord \cup {NoOrder} /\ (pc' \in {"add", "match"} <=> taker' # NoOrder)
    BY <1>2 DEF ConvertOnEntry
  <2> QED BY <1>3, <2>1 DEF ConvertOnEntry, Inv, Scalars, prices, loop
<1>5. Shape'
  <2>1. /\ orders' = orders /\ level_it' = level_it /\ levels' = levels
        /\ new_trailing_levels' = new_trailing_levels
    BY DEF ConvertOnEntry, book, loop
  <2> QED BY <2>1, Outside, ShapeNext DEF ConvertOnEntry
<1>6. Flight'
  BY <1>1, <1>2 DEF ConvertOnEntry, Inv, Flight, book, loop
<1> QED BY <1>4, <1>5, <1>6 DEF Inv

\* Steps outside a rebuild that move control and leave the book, the order in
\* flight and what the call owes alone.
LEMMA ControlInv ==
    ASSUME Inv, pc \notin {"idle", "add", "match", "moveAsk", "moveBid"},
           UNCHANGED <<book, last_traded_price, feed, ret, taker, new_trailing_levels>>,
           trailing_bid_price' \in UInt64, trailing_ask_price' \in UInt64,
           trigger_price' \in UInt64, activated' \in BOOLEAN, rescans' \in 0 .. 2,
           pc' \in {"idle", "activate", "endRound"} \cup ActivationPCs \cup {"updateAsk", "updateBid"},
           pc' # "idle" => rescans' > 0
    PROVE  Inv'
<1>1. /\ orders' = orders /\ level_it' = level_it /\ levels' = levels
      /\ new_trailing_levels' = new_trailing_levels /\ taker' = taker
  BY DEF book
<1>2. taker = NoOrder
  BY DEF Inv, Scalars
<1>3. Scalars'
  <2>1. taker' \in OrderRecord \cup {NoOrder} /\ (pc' \in {"add", "match"} <=> taker' # NoOrder)
    BY <1>1, <1>2 DEF ActivationPCs
  <2>2. pc' \in {"idle", "add", "match", "activate", "endRound"} \cup ActivationPCs \cup UpdatePCs
    BY DEF UpdatePCs
  <2> QED BY <2>1, <2>2 DEF Inv, Scalars
<1>4. Shape'
  BY <1>1, Outside, ShapeNext DEF ActivationPCs
<1>5. Flight'
  BY <1>1, <1>2 DEF Flight, ActivationPCs
<1> QED BY <1>3, <1>4, <1>5 DEF Inv

\* A round of activateStopOrders() begins.
LEMMA BeginRoundInv ==
    ASSUME Inv, BeginRound
    PROVE  Inv'
<1>1. trigger_price' \in UInt64
  BY WidthAssumption DEF BeginRound, lastTradedPriceAsk, UInt64, Inv, Scalars
<1> QED BY <1>1, ControlInv DEF BeginRound, Inv, Scalars, Flight, prices, ActivationPCs

\* An activation loop ends and the next part of the round begins.
LEMMA LoopDoneInv ==
    ASSUME Inv, LoopDone
    PROVE  Inv'
<1>1. trigger_price' \in UInt64
  BY WidthAssumption
  DEF LoopDone, lastTradedPriceAsk, lastTradedPriceBid, UInt64, Inv, Scalars
<1>2. /\ pc \notin {"idle", "add", "match", "moveAsk", "moveBid"}
      /\ pc' \in ActivationPCs \cup {"updateAsk", "updateBid"}
  BY DEF LoopDone, ActivationLoop, AfterLoop, ActivationPCs
<1>3. pc' # "idle" /\ rescans' > 0 /\ rescans' \in 0 .. 2 /\ activated' \in BOOLEAN
  BY <1>2 DEF LoopDone, Inv, Scalars, Flight, ActivationPCs
<1> QED BY <1>1, <1>2, <1>3, ControlInv DEF LoopDone, Inv, Scalars, prices

\* The references of the trailing stops and the price of the next loop.
LEMMA UpdateDoneType ==
    ASSUME Inv, pc \in UpdatePCs, UpdateDone
    PROVE  /\ trailing_bid_price' \in UInt64 /\ trailing_ask_price' \in UInt64
           /\ trigger_price' \in UInt64
           /\ pc' \in {"askStop", "endRound"}
  BY DEF UpdateDone, lastTradedPriceBid, Inv, Scalars

\* An update with nothing to move.
LEMMA SkipUpdateInv ==
    ASSUME Inv, SkipUpdate
    PROVE  Inv'
<1>1. /\ trailing_bid_price' \in UInt64 /\ trailing_ask_price' \in UInt64
      /\ trigger_price' \in UInt64
      /\ pc' \in {"askStop", "endRound"}
  BY UpdateDoneType DEF SkipUpdate, UpdatePCs
<1>2. rescans' > 0 /\ rescans' \in 0 .. 2 /\ activated' \in BOOLEAN
  BY DEF SkipUpdate, Inv, Scalars, Flight
<1> QED BY <1>1, <1>2, ControlInv DEF SkipUpdate, ActivationPCs

\* The end of a round: another one, another call, or the return of the call.
LEMMA EndRoundInv ==
    ASSUME Inv, EndRound
    PROVE  Inv'
<1>1. rescans \in 0 .. 2 /\ rescans > 0
  BY DEF EndRound, Inv, Scalars, Flight
<1>2. rescans' \in 0 .. 2 /\ (pc' # "idle" => rescans' > 0) /\ pc' \in {"idle", "activate"}
  BY <1>1 DEF EndRound
<1> QED BY <1>2, ControlInv DEF EndRound, Inv, Scalars, prices

\* activateStopOrder(): the order leaves the stop levels and is in flight again.
LEMMA ActivateStopOrderInv ==
    ASSUME Inv, ActivateStopOrder
    PROVE  Inv'
<1> DEFINE m == ActivationLoop[pc]
<1>1. PICK p \in ReachedLevels :
        LET o == orders[front(levels[m][p])]
        IN  /\ Erase(o, levels)
            /\ Submit(Converted(o))
            /\ feed' = Put(feed, o.id, Converted(o))
  BY DEF ActivateStopOrder
<1> DEFINE o == orders[front(levels[m][p])]
<1>2. /\ Erase(o, levels) /\ taker' = Converted(o) /\ pc' = "add"
      /\ feed' = Put(feed, o.id, Converted(o))
  BY <1>1 DEF Submit
<1>3. pc \in ActivationPCs /\ m \in Maps /\ p \in DOMAIN levels[m]
  BY DEF ActivateStopOrder, ActivationLoop, ActivationPCs, Maps, OrderSide, ReachedLevels
<1>4. /\ Static(orders, level_it, levels) /\ Typed(orders, level_it, levels)
      /\ new_trailing_levels = EmptyMap
  BY <1>3, Outside DEF ActivationPCs
<1> HIDE DEF m
<1>5. o \in OrderRecord /\ o.id \in DOMAIN orders /\ orders[o.id] = o /\ o.id \in Ids
  <2>1. ~empty(levels[m][p]) /\ Fits(levels[m][p], m, p, orders, level_it)
    BY <1>3, <1>4 DEF Static
  <2>2. front(levels[m][p]) \in DOMAIN orders /\ o \in OrderRecord
    BY <1>3, <1>4, <2>1, FrontInBook
  <2> QED BY <1>4, <2>2 DEF Static, Keyed, OrderRecord
<1> HIDE DEF o
<1>6. Static(orders', level_it', levels') /\ DOMAIN orders' = DOMAIN orders \ {o.id}
  BY <1>2, <1>4, <1>5, EraseAction
<1>7. taker' \in OrderRecord /\ taker'.id = o.id /\ taker' # NoOrder
  <2>1. Converted(o) \in OrderRecord
    BY <1>5, MutatorType, WidthAssumption DEF UInt64
  <2>2. Converted(o).id = o.id
    BY <1>5 DEF Converted, OrderRecord
  <2> QED BY <1>2, <2>1, <2>2, InputAssumption
<1>8. IsMap(feed', Ids, OrderRecord)
  BY <1>2, <1>5, <1>7, PutType DEF Inv, Scalars
<1>9. Scalars'
  <2>1. taker' \in OrderRecord \cup {NoOrder} /\ (pc' \in {"add", "match"} <=> taker' # NoOrder)
    BY <1>2, <1>7
  <2>2. ret' \in {"activate"} \cup ActivationPCs /\ activated' \in BOOLEAN
    BY <1>3 DEF ActivateStopOrder
  <2> QED BY <1>2, <1>8, <2>1, <2>2 DEF ActivateStopOrder, Inv, Scalars, prices
<1>10. Shape'
  BY <1>2, <1>4, <1>6, ShapeNext DEF ActivateStopOrder
<1>11. Flight'
  BY <1>2, <1>3, <1>6, <1>7 DEF ActivateStopOrder, Inv, Flight, ActivationPCs
<1> QED BY <1>9, <1>10, <1>11 DEF Inv

\* updateAskStopOrders() and updateBidStopOrders(): the rebuild begins,
LEMMA BeginUpdateInv ==
    ASSUME Inv, BeginUpdate
    PROVE  Inv'
<1>1. /\ orders' = orders /\ level_it' = level_it /\ levels' = levels
      /\ new_trailing_levels' = EmptyMap /\ taker' = taker /\ taker = NoOrder
      /\ Static(orders, level_it, levels)
  BY Outside DEF BeginUpdate, book, loop, Inv, Scalars
<1>2. pc' \in {"moveAsk", "moveBid"}
  BY DEF BeginUpdate
<1>3. UpdatedMap[pc'] \in Maps
  BY <1>2 DEF UpdatedMap, Maps, OrderSide
<1>4. Scalars'
  <2>1. taker' \in OrderRecord \cup {NoOrder} /\ (pc' \in {"add", "match"} <=> taker' # NoOrder)
    BY <1>1, <1>2
  <2>2. pc' \in UpdatePCs
    BY <1>2 DEF UpdatePCs
  <2> QED BY <2>1, <2>2 DEF BeginUpdate, Inv, Scalars, prices, loop
<1>5. Shape'
  BY <1>1, <1>2, <1>3, BeginMid DEF Shape, Moving
<1>6. Flight'
  BY <1>1, <1>2 DEF BeginUpdate, Inv, Flight, loop
<1> QED BY <1>4, <1>5, <1>6 DEF Inv

\* moves the orders one by one
LEMMA MoveOrderInv ==
    ASSUME Inv, MoveOrder
    PROVE  Inv'
<1> DEFINE m == UpdatedMap[pc]
<1>1. pc \in {"moveAsk", "moveBid"} /\ pc' = pc /\ taker' = taker /\ taker = NoOrder
  BY DEF MoveOrder, Inv, Scalars
<1>2. m \in Maps /\ m[1] = "Trailing"
  BY <1>1 DEF UpdatedMap, Maps, OrderSide
<1>3. Mid(orders, level_it, levels, new_trailing_levels, m)
  BY <1>1 DEF Inv, Shape, Moving
<1>4. PICK p \in DOMAIN levels[m] :
        /\ ~empty(levels[m][p])
        /\ LET o == calculateStopPrice(orders[front(levels[m][p])])
           IN  /\ orders' = Put(orders, o.id, o)
               /\ level_it' = Put(level_it, o.id, o.stop_price)
               /\ levels' = [levels EXCEPT ![m] = Put(@, p, popFront(@[p], o))]
               /\ new_trailing_levels' = Enqueue(new_trailing_levels, o.stop_price, o)
               /\ feed' = Put(feed, o.id, o)
  BY DEF MoveOrder
<1> DEFINE resting == orders[front(levels[m][p])]
           o       == calculateStopPrice(resting)
<1>5. /\ orders' = Put(orders, o.id, o)
      /\ level_it' = Put(level_it, o.id, o.stop_price)
      /\ levels' = [levels EXCEPT ![m] = Put(@, p, popFront(@[p], o))]
      /\ new_trailing_levels' = Enqueue(new_trailing_levels, o.stop_price, o)
      /\ feed' = Put(feed, o.id, o)
  BY <1>4
<1>6. UpdatedMap[pc'] = m
  BY <1>1
<1> HIDE DEF m
<1>7. /\ resting \in OrderRecord /\ resting.id = front(levels[m][p])
      /\ orders[resting.id] = resting /\ MapOf(resting) = m
  <2>1. Typed(orders, level_it, levels) /\ Fits(levels[m][p], m, p, orders, level_it)
    BY <1>2, <1>3 DEF Mid
  <2>2. /\ front(levels[m][p]) \in DOMAIN orders /\ resting \in OrderRecord
        /\ MapOf(resting) = m
    BY <1>2, <1>4, <2>1, FrontInBook
  <2> QED BY <1>3, <2>2 DEF Mid, Keyed
<1> HIDE DEF resting
<1>8. /\ o \in OrderRecord /\ o.id = resting.id /\ MapOf(o) = m
  BY <1>7, PriceType DEF Inv, Scalars
<1> HIDE DEF o
<1>9. KeyOf(o) = o.stop_price
  BY <1>2, <1>8 DEF MapOf, KeyOf
<1>10. Mid(orders', level_it', levels', new_trailing_levels', m)
  <2>1. /\ ~empty(levels[m][p])
        /\ o.id = front(levels[m][p])
        /\ MapOf(o) = MapOf(orders[o.id])
    BY <1>4, <1>7, <1>8
  <2>2. Mid(Put(orders, o.id, o), Put(level_it, o.id, o.stop_price),
            [levels EXCEPT ![m] = Put(@, p, popFront(@[p], o))],
            Enqueue(new_trailing_levels, o.stop_price, o), m)
    BY <1>2, <1>3, <1>8, <1>9, <2>1, MoveMid
  <2> QED BY <1>5, <2>2
<1>11. IsMap(feed', Ids, OrderRecord)
  BY <1>5, <1>8, PutType DEF Inv, Scalars, OrderRecord
<1>12. Scalars'
  <2>1. taker' \in OrderRecord \cup {NoOrder} /\ (pc' \in {"add", "match"} <=> taker' # NoOrder)
    BY <1>1
  <2>2. IsMap(new_trailing_levels', UInt64, LevelRecord)
    BY <1>10 DEF Mid
  <2> QED BY <1>1, <1>11, <2>1, <2>2 DEF MoveOrder, Inv, Scalars, prices
<1>13. Shape'
  BY <1>1, <1>6, <1>10 DEF Shape, Moving
<1>14. Flight'
  BY <1>1 DEF MoveOrder, Inv, Flight
<1> QED BY <1>12, <1>13, <1>14 DEF Inv

\* and ends with the swap of the drained map for the new one.
LEMMA SwapLevelsInv ==
    ASSUME Inv, SwapLevels
    PROVE  Inv'
<1> DEFINE m == UpdatedMap[pc]
<1>1. pc \in {"moveAsk", "moveBid"} /\ taker' = taker /\ taker = NoOrder
  BY DEF SwapLevels, Inv, Scalars
<1>2. m \in Maps /\ pc \in UpdatePCs
  BY <1>1 DEF UpdatedMap, Maps, OrderSide, UpdatePCs
<1>3. Mid(orders, level_it, levels, new_trailing_levels, m)
  BY <1>1 DEF Inv, Shape, Moving
<1>4. /\ orders' = orders /\ level_it' = level_it
      /\ levels' = [levels EXCEPT ![m] = new_trailing_levels]
      /\ new_trailing_levels' = EmptyMap
      /\ \A q \in DOMAIN levels[m] : empty(levels[m][q])
  BY DEF SwapLevels
<1> HIDE DEF m
<1>5. Static(orders', level_it', levels')
  BY <1>2, <1>3, <1>4, SwapStatic
<1>6. /\ trailing_bid_price' \in UInt64 /\ trailing_ask_price' \in UInt64
      /\ trigger_price' \in UInt64
      /\ pc' \in {"askStop", "endRound"}
  BY <1>2, UpdateDoneType DEF SwapLevels
<1>7. Scalars'
  <2>1. taker' \in OrderRecord \cup {NoOrder} /\ (pc' \in {"add", "match"} <=> taker' # NoOrder)
    BY <1>1, <1>6
  <2>2. IsMap(new_trailing_levels', UInt64, LevelRecord)
    BY <1>4 DEF IsMap, EmptyMap
  <2> QED BY <1>6, <2>1, <2>2 DEF SwapLevels, Inv, Scalars, ActivationPCs
<1>8. Shape'
  BY <1>4, <1>5, <1>6, ShapeNext
<1>9. Flight'
  BY <1>1, <1>6 DEF SwapLevels, Inv, Flight
<1> QED BY <1>7, <1>8, <1>9 DEF Inv

\* The invariant is inductive.
LEMMA NextInv == Inv /\ [Next]_vars => Inv'
<1> SUFFICES ASSUME Inv, [Next]_vars PROVE Inv'
  OBVIOUS
<1>1. ASSUME NEW id \in Ids, NEW r \in Submissions, AddOrder(id, r) PROVE Inv'
  BY <1>1, AddOrderInv
<1>2. ASSUME NEW id \in Ids, NEW q \in ExecuteQuantities, NEW p \in ExecutePrices,
             ExecuteOrderAt(id, q, p)
      PROVE  Inv'
  BY <1>2, TradeInv, InputAssumption DEF ExecuteOrderAt
<1>3. ASSUME NEW id \in Ids, NEW q \in ExecuteQuantities, ExecuteOrder(id, q) PROVE Inv'
  <2>1. id \in DOMAIN orders /\ orders[id].price \in UInt64
    BY <1>3, Outside DEF ExecuteOrder, Typed, IsMap, OrderRecord
  <2> QED BY <1>3, <2>1, TradeInv, InputAssumption DEF ExecuteOrder
<1>4. ASSUME NEW id \in Ids, NEW q \in CancelQuantities, CancelOrder(id, q) PROVE Inv'
  BY <1>4, CancelOrderInv
<1>5. ASSUME NEW id \in Ids, DeleteOrder(id) PROVE Inv'
  BY <1>5, DeleteOrderInv
<1>6. ASSUME NEW id \in Ids, NEW new_id \in Ids, NEW p \in ReplacePrices,
             ReplaceOrder(id, new_id, p)
      PROVE  Inv'
  BY <1>6, ReplaceOrderInv
<1>7. CASE BeginMatch
  BY <1>7, BeginMatchInv
<1>8. CASE KillFok \/ DiscardTaker
  BY <1>8, DiscardInv DEF KillFok, DiscardTaker, MatchDone
<1>9. CASE MatchOne
  BY <1>9, MatchOneInv
<1>10. CASE InsertLimitOrder
  BY <1>10, InsertLimitOrderInv
<1>11. CASE ConvertOnEntry
  BY <1>11, ConvertOnEntryInv
<1>12. CASE InsertStopOrder
  BY <1>12, InsertStopOrderInv
<1>13. CASE BeginRound
  BY <1>13, BeginRoundInv
<1>14. CASE ActivateStopOrder
  BY <1>14, ActivateStopOrderInv
<1>15. CASE LoopDone
  BY <1>15, LoopDoneInv
<1>16. CASE SkipUpdate
  BY <1>16, SkipUpdateInv
<1>17. CASE BeginUpdate
  BY <1>17, BeginUpdateInv
<1>18. CASE MoveOrder
  BY <1>18, MoveOrderInv
<1>19. CASE SwapLevels
  BY <1>19, SwapLevelsInv
<1>20. CASE EndRound
  BY <1>20, EndRoundInv
<1>21. CASE UNCHANGED vars
  BY <1>21 DEF vars, book, prices, loop, Inv, Scalars, Shape, Flight, Moving
<1> QED
  BY <1>1, <1>2, <1>3, <1>4, <1>5, <1>6, <1>7, <1>8, <1>9, <1>10, <1>11, <1>12, <1>13,
     <1>14, <1>15, <1>16, <1>17, <1>18, <1>19, <1>20, <1>21
  DEF Next, Call, Step

-----------------------------------------------------------------------------
(* The theorems.                                                           *)

\* The invariant holds in every reachable state: the maps of levels, the orders
\* and the wrappers' iterators describe one book, inside a rebuild too.
THEOREM Invariance == Spec => []Inv
<1> QED BY InitInv, NextInv, PTL DEF Spec

\* Every variable keeps its type; no 64-bit value leaves its range.
THEOREM TypeCorrect == Spec => []BookTypeOK
<1> QED BY Invariance, InvTypeOK, PTL

\* The levels, the orders and the wrappers' iterators agree in every state
\* (map_orderbook.cpp:86-121, 145-233, 343-398).
THEOREM Consistent == Spec => []IndexConsistent
<1> QED BY Invariance, InvIndexConsistent, PTL

-----------------------------------------------------------------------------
(* The book is never crossed.  Only an insertion adds a limit level, and   *)
(* the loop of match() ends, with quantity left to rest, only when the     *)
(* order accepts no level of the other side; every other update shrinks    *)
(* the keys of the limit levels or leaves them alone.                      *)

Limit(side) == <<"Limit", side>>

NoNewLimitLevel ==
    \A s \in OrderSide : DOMAIN levels'[Limit(s)] \subseteq DOMAIN levels[Limit(s)]

\* A book that gains no limit level stays uncrossed.
LEMMA UncrossedKept ==
    ASSUME Uncrossed, NoNewLimitLevel
    PROVE  Uncrossed'
  BY DEF Uncrossed, NoNewLimitLevel, Limit, OrderSide

\* deleteOrder, after a volume was reduced or not, adds no level.
LEMMA EraseNoLevel ==
    ASSUME NEW lvs, DOMAIN lvs = Maps, DOMAIN levels = Maps,
           \A m \in Maps : DOMAIN lvs[m] = DOMAIN levels[m],
           NEW o \in OrderRecord, level_it[o.id] \in DOMAIN levels[MapOf(o)], Erase(o, lvs)
    PROVE  NoNewLimitLevel
<1> DEFINE m0 == MapOf(o)
           p0 == level_it[o.id]
<1>1. m0 \in Maps
  BY MapOfType
<1>2. DOMAIN Unlink(lvs[m0], p0, o) \subseteq DOMAIN lvs[m0]
  BY <1>1 DEF Unlink, Put, Without
<1>3. levels' = [lvs EXCEPT ![m0] = Unlink(@, p0, o)]
  BY DEF Erase
<1> HIDE DEF m0, p0
<1>4. \A m \in Maps : DOMAIN levels'[m] \subseteq DOMAIN levels[m]
  BY <1>1, <1>2, <1>3
<1>5. \A s \in OrderSide : Limit(s) \in Maps
  BY DEF Limit, Maps
<1> QED BY <1>4, <1>5 DEF NoNewLimitLevel

\* A trade or a cancel adds no level.
LEMMA ReduceNoLevel ==
    ASSUME Static(orders, level_it, levels), NEW o \in OrderRecord, NEW amount,
           o.id \in DOMAIN orders, MapOf(o) = MapOf(orders[o.id]), Reduce(o, amount)
    PROVE  NoNewLimitLevel
<1> DEFINE m0 == MapOf(o)
           p0 == level_it[o.id]
           reduced == [levels EXCEPT ![m0] = Put(@, p0, reduceVolume(@[p0], amount))]
<1>1. m0 \in Maps /\ DOMAIN levels = Maps
  BY MapOfType DEF Static, Typed
<1>2. p0 \in DOMAIN levels[m0]
  BY DEF Static, HoldsAt
<1>3. DOMAIN reduced = Maps /\ \A m \in Maps : DOMAIN reduced[m] = DOMAIN levels[m]
  BY <1>1, <1>2 DEF Put
<1>4. (isFilled(o) /\ Erase(o, reduced)) \/ levels' = reduced
  BY DEF Reduce
<1> HIDE DEF reduced
<1>5. CASE Erase(o, reduced)
  BY <1>1, <1>2, <1>3, <1>5, EraseNoLevel
<1>6. CASE levels' = reduced
  <2>1. \A s \in OrderSide : Limit(s) \in Maps
    BY DEF Limit, Maps
  <2> QED BY <1>3, <1>6, <2>1 DEF NoNewLimitLevel
<1> QED BY <1>4, <1>5, <1>6

\* Resting stop orders, and the rebuild of the trailing levels, are elsewhere.
LEMMA OtherMapsNoLevel ==
    ASSUME DOMAIN levels = Maps, NEW m \in Maps, m[1] # "Limit", NEW map,
           levels' = [levels EXCEPT ![m] = map]
    PROVE  NoNewLimitLevel
<1>1. \A s \in OrderSide : Limit(s) \in Maps /\ Limit(s) # m
  BY DEF Limit, Maps
<1> QED BY <1>1 DEF NoNewLimitLevel

\* A limit order rests below every ask, or above every bid.
LEMMA InsertLimitOrderUncrossed ==
    ASSUME Inv, Uncrossed, InsertLimitOrder
    PROVE  Uncrossed'
<1> DEFINE m0 == MapOf(taker)
           p0 == KeyOf(taker)
<1>1. taker \in OrderRecord /\ Static(orders, level_it, levels)
  BY Outside DEF InsertLimitOrder, MatchDone, Inv, Scalars
<1>2. taker.type = "Limit" /\ NoneAccepted(taker)
  BY DEF InsertLimitOrder, Rests, MatchDone
<1>3. taker.side \in OrderSide /\ m0 = Limit(taker.side) /\ p0 = taker.price /\ p0 \in UInt64
  BY <1>1, <1>2 DEF OrderRecord, MapOf, KeyOf, Limit, StopTypes, TrailingTypes
<1>4. \A s \in OrderSide : Limit(s) \in Maps /\ DOMAIN levels[Limit(s)] \subseteq UInt64
  BY <1>1 DEF Static, Typed, IsMap, Limit, Maps
<1>5. DOMAIN levels = Maps
  BY <1>1 DEF Static, Typed
<1>6. levels' = [levels EXCEPT ![m0] = Enqueue(@, p0, taker)]
  BY DEF InsertLimitOrder, Insert
<1>7. DOMAIN Enqueue(levels[m0], p0, taker) = DOMAIN levels[m0] \cup {p0}
  BY DEF Enqueue, Put
<1>8. \A p \in DOMAIN levels[Limit(Opposite(taker.side))] : ~Accepts(taker, p)
  BY <1>2 DEF NoneAccepted, Limit
<1> HIDE DEF m0, p0
<1>9. CASE taker.side = "Bid"
  <2>1. /\ DOMAIN levels'[Limit("Bid")] = DOMAIN levels[Limit("Bid")] \cup {p0}
        /\ DOMAIN levels'[Limit("Ask")] = DOMAIN levels[Limit("Ask")]
    BY <1>3, <1>4, <1>5, <1>6, <1>7, <1>9 DEF OrderSide, Limit
  <2>2. \A p \in DOMAIN levels[Limit("Ask")] : p0 < p
    BY <1>3, <1>4, <1>8, <1>9 DEF Opposite, Accepts, UInt64, OrderSide
  <2> QED BY <2>1, <2>2 DEF Uncrossed, Limit
<1>10. CASE taker.side = "Ask"
  <2>1. /\ DOMAIN levels'[Limit("Ask")] = DOMAIN levels[Limit("Ask")] \cup {p0}
        /\ DOMAIN levels'[Limit("Bid")] = DOMAIN levels[Limit("Bid")]
    BY <1>3, <1>4, <1>5, <1>6, <1>7, <1>10 DEF OrderSide, Limit
  <2>2. \A p \in DOMAIN levels[Limit("Bid")] : p < p0
    BY <1>3, <1>4, <1>8, <1>10 DEF Opposite, Accepts, UInt64, OrderSide
  <2> QED BY <2>1, <2>2 DEF Uncrossed, Limit
<1> QED BY <1>3, <1>9, <1>10 DEF OrderSide

\* The order an operation names rests, at a level of its map.
LEMMA Resting ==
    ASSUME Static(orders, level_it, levels), NEW id \in DOMAIN orders
    PROVE  /\ orders[id] \in OrderRecord /\ orders[id].id = id
           /\ level_it[id] \in DOMAIN levels[MapOf(orders[id])]
           /\ DOMAIN levels = Maps
  BY DEF Static, Typed, IsMap, Keyed, HoldsAt

\* A trade of executeOrder() adds no limit level.
LEMMA TradeNoLevel ==
    ASSUME Static(orders, level_it, levels), NEW id \in DOMAIN orders, NEW q \in UInt64,
           NEW p \in UInt64, TradeAt(id, q, p)
    PROVE  NoNewLimitLevel
<1> DEFINE amount == Least(q, orders[id].open_quantity)
           o      == execute(orders[id], p, amount)
<1>1. orders[id] \in OrderRecord /\ orders[id].id = id
  BY Resting
<1>2. amount \in UInt64
  BY <1>1, ArithmeticType DEF OrderRecord
<1>3. Reduce(o, o.last_executed_quantity)
  BY DEF TradeAt
<1> HIDE DEF amount
<1>4. o \in OrderRecord
  BY <1>1, <1>2, MutatorType DEF OrderRecord
<1>5. o.id = id /\ MapOf(o) = MapOf(orders[id])
  BY <1>1, SameKey
<1> HIDE DEF o
<1> QED BY <1>3, <1>4, <1>5, ReduceNoLevel

\* The book stays uncrossed.
LEMMA UncrossedNext == Inv /\ Uncrossed /\ [Next]_vars => Uncrossed'
<1> SUFFICES ASSUME Inv, Uncrossed, [Next]_vars PROVE Uncrossed'
  OBVIOUS
<1>1. ASSUME levels' = levels PROVE Uncrossed'
  BY <1>1 DEF Uncrossed
<1>2. ASSUME pc = "idle", NEW id \in DOMAIN orders, NEW q \in UInt64, NEW p \in UInt64,
             TradeAt(id, q, p)
      PROVE  Uncrossed'
  BY <1>2, Outside, TradeNoLevel, UncrossedKept
<1>3. ASSUME NEW id \in Ids, NEW q \in ExecuteQuantities, NEW p \in ExecutePrices,
             ExecuteOrderAt(id, q, p)
      PROVE  Uncrossed'
  BY <1>2, <1>3, InputAssumption DEF ExecuteOrderAt
<1>4. ASSUME NEW id \in Ids, NEW q \in ExecuteQuantities, ExecuteOrder(id, q)
      PROVE  Uncrossed'
  <2>1. pc = "idle" /\ id \in DOMAIN orders /\ TradeAt(id, q, orders[id].price)
    BY <1>4 DEF ExecuteOrder
  <2>2. orders[id].price \in UInt64
    BY <2>1, Outside, Resting DEF OrderRecord
  <2> QED BY <1>2, <2>1, <2>2, InputAssumption
<1>5. ASSUME NEW id \in Ids, NEW q \in CancelQuantities, CancelOrder(id, q)
      PROVE  Uncrossed'
  <2> DEFINE o == setQuantity(orders[id], q)
  <2>1. Static(orders, level_it, levels) /\ id \in DOMAIN orders /\ orders[id] \in OrderRecord
        /\ orders[id].id = id /\ q \in UInt64
    BY <1>5, Outside, Resting, InputAssumption DEF CancelOrder
  <2>2. o \in OrderRecord
    BY <2>1, MutatorType
  <2>3. o.id = id /\ MapOf(o) = MapOf(orders[id])
    BY <2>1, SameKey
  <2>4. Reduce(o, Minus(orders[id].open_quantity, o.open_quantity))
    BY <1>5 DEF CancelOrder
  <2> HIDE DEF o
  <2> QED BY <2>1, <2>2, <2>3, <2>4, ReduceNoLevel, UncrossedKept
<1>6. ASSUME pc \notin {"moveAsk", "moveBid"}, NEW id \in DOMAIN orders,
             Erase(orders[id], levels)
      PROVE  Uncrossed'
  <2>1. /\ orders[id] \in OrderRecord /\ orders[id].id = id
        /\ level_it[id] \in DOMAIN levels[MapOf(orders[id])]
        /\ DOMAIN levels = Maps
    BY <1>6, Outside, Resting
  <2>2. NoNewLimitLevel
    BY <1>6, <2>1, EraseNoLevel
  <2> QED BY <2>2, UncrossedKept
<1>7. ASSUME NEW id \in Ids, DeleteOrder(id) PROVE Uncrossed'
  BY <1>6, <1>7 DEF DeleteOrder
<1>8. ASSUME NEW id \in Ids, NEW new_id \in Ids, NEW p \in ReplacePrices,
             ReplaceOrder(id, new_id, p)
      PROVE  Uncrossed'
  BY <1>6, <1>8 DEF ReplaceOrder
<1>9. CASE MatchOne
  <2> DEFINE m == Limit(Opposite(taker.side))
  <2>1. PICK p \in DOMAIN levels[m] :
          LET resting  == orders[front(levels[m][p])]
              quantity == Least(taker.open_quantity, resting.open_quantity)
              maker    == execute(resting, resting.price, quantity)
          IN  Reduce(maker, maker.last_executed_quantity)
    BY <1>9 DEF MatchOne, Limit
  <2> DEFINE id       == front(levels[m][p])
             quantity == Least(taker.open_quantity, orders[id].open_quantity)
             maker    == execute(orders[id], orders[id].price, quantity)
  <2>2. Reduce(maker, maker.last_executed_quantity)
    BY <2>1
  <2>3. m \in Maps /\ Static(orders, level_it, levels) /\ taker \in OrderRecord
    BY <1>9, Outside DEF MatchOne, Maps, Limit, Opposite, OrderSide, Inv, Scalars
  <2> HIDE DEF m
  <2>4. id \in DOMAIN orders
    BY <2>3, FrontInBook DEF Static
  <2> HIDE DEF id
  <2>5. orders[id] \in OrderRecord /\ orders[id].id = id
    BY <2>3, <2>4, Resting
  <2>6. quantity \in UInt64 /\ orders[id].price \in UInt64
    BY <2>3, <2>5, ArithmeticType DEF OrderRecord
  <2> HIDE DEF quantity
  <2>7. maker \in OrderRecord
    BY <2>5, <2>6, MutatorType DEF OrderRecord
  <2>8. maker.id = id /\ MapOf(maker) = MapOf(orders[id])
    BY <2>5, SameKey
  <2> HIDE DEF maker
  <2> QED BY <2>2, <2>3, <2>4, <2>7, <2>8, ReduceNoLevel, UncrossedKept
<1>10. CASE InsertLimitOrder
  BY <1>10, InsertLimitOrderUncrossed
<1>11. CASE InsertStopOrder
  <2> DEFINE o == Entering(taker)
  <2>1. /\ taker \in OrderRecord /\ taker.type \in StopTypes \cup TrailingTypes
        /\ Static(orders, level_it, levels)
    BY <1>11, Outside DEF InsertStopOrder, Inv, Scalars
  <2>2. o \in OrderRecord /\ o.type = taker.type
    BY <2>1, PriceType DEF Entering, Inv, Scalars
  <2>3. levels' = [levels EXCEPT ![MapOf(o)] = Enqueue(@, KeyOf(o), o)]
    BY <1>11 DEF InsertStopOrder, Insert
  <2> HIDE DEF o
  <2>4. MapOf(o) \in Maps /\ MapOf(o)[1] # "Limit" /\ DOMAIN levels = Maps
    BY <2>1, <2>2, MapOfType DEF MapOf, Static, Typed
  <2> QED BY <2>3, <2>4, OtherMapsNoLevel, UncrossedKept
<1>12. CASE ActivateStopOrder
  <2> DEFINE m == ActivationLoop[pc]
  <2>1. PICK p \in ReachedLevels : Erase(orders[front(levels[m][p])], levels)
    BY <1>12 DEF ActivateStopOrder
  <2>2. m \in Maps /\ p \in DOMAIN levels[m] /\ pc \notin {"moveAsk", "moveBid"}
    BY <1>12 DEF ActivateStopOrder, ActivationLoop, Maps, OrderSide, ReachedLevels
  <2>3. Static(orders, level_it, levels)
    BY <2>2, Outside
  <2> HIDE DEF m
  <2>4. front(levels[m][p]) \in DOMAIN orders
    BY <2>2, <2>3, FrontInBook DEF Static
  <2> QED BY <1>6, <2>1, <2>2, <2>4
<1>13. CASE MoveOrder \/ SwapLevels
  <2> DEFINE m == UpdatedMap[pc]
  <2>0. pc \in {"moveAsk", "moveBid"}
    BY <1>13 DEF MoveOrder, SwapLevels
  <2>1. m \in Maps /\ m[1] # "Limit" /\ pc \in {"moveAsk", "moveBid"}
    BY <2>0 DEF UpdatedMap, Maps, OrderSide
  <2>2. DOMAIN levels = Maps
    BY <2>1 DEF Inv, Shape, Moving, Mid, Typed
  <2>3. \E map : levels' = [levels EXCEPT ![m] = map]
    BY <1>13 DEF MoveOrder, SwapLevels
  <2> HIDE DEF m
  <2> QED BY <2>1, <2>2, <2>3, OtherMapsNoLevel, UncrossedKept
<1>14. ASSUME NEW id \in Ids, NEW r \in Submissions, AddOrder(id, r) PROVE Uncrossed'
  BY <1>1, <1>14 DEF AddOrder, book
<1>15. CASE BeginMatch \/ KillFok \/ DiscardTaker \/ ConvertOnEntry \/ BeginRound \/ LoopDone
            \/ SkipUpdate \/ BeginUpdate \/ EndRound
  BY <1>1, <1>15 DEF BeginMatch, KillFok, DiscardTaker, Discard, ConvertOnEntry, BeginRound,
                     LoopDone, SkipUpdate, BeginUpdate, EndRound, book
<1>16. CASE UNCHANGED vars
  BY <1>1, <1>16 DEF vars, book
<1> QED
  BY <1>3, <1>4, <1>5, <1>7, <1>8, <1>9, <1>10, <1>11, <1>12, <1>13, <1>14, <1>15, <1>16
  DEF Next, Call, Step

\* The best bid stays below the best ask, between calls and inside them
\* (the assert of map_orderbook.cpp:535).
THEOREM NeverCrossed == Spec => []Uncrossed
<1>1. Init => Uncrossed
  BY DEF Init, Uncrossed, EmptyMap, Maps, OrderSide
<1> QED BY <1>1, UncrossedNext, Invariance, PTL DEF Spec
=============================================================================
