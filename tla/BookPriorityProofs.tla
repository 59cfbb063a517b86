--------------------------- MODULE BookPriorityProofs ---------------------------
(***************************************************************************)
(* Proofs about whose turn it is: the queues of the levels keep the order  *)
(* in which orders joined them, match() trades in price-time order, and    *)
(* the book implements PriorityBook, what its users see of it.             *)
(*                                                                         *)
(* First, for each update of the book, its effect on the queues; where the *)
(* volumes go is of no concern here.                                       *)
(***************************************************************************)
EXTENDS BookOrderProofs

-----------------------------------------------------------------------------
(* Queues.                                                                 *)

\* Nobody came before another in the new queue who was not before it in the old one.
Keeps(old, new) == \A a, b : Before(new, b, a) => Before(old, b, a)

\* What is appended is before nobody, and behind what was there.
LEMMA AppendBefore ==
    ASSUME NEW S, NEW s \in Seq(S), NEW e \in S, NEW a, NEW b, Before(Append(s, e), b, a)
    PROVE  b \in ToSet(s) /\ (a # e => Before(s, b, a))
<1> DEFINE t == Append(s, e)
<1>1. /\ DOMAIN t = 1 .. Len(s) + 1 /\ DOMAIN s = 1 .. Len(s) /\ Len(s) \in Nat
      /\ \A i \in 1 .. Len(s) : t[i] = s[i]
      /\ t[Len(s) + 1] = e
  OBVIOUS
<1>2. PICK i, j \in DOMAIN t : i < j /\ t[i] = b /\ t[j] = a
  BY DEF Before
<1> HIDE DEF t
<1>3. i \in DOMAIN s /\ s[i] = b
  BY <1>1, <1>2
<1>4. a # e => j \in DOMAIN s /\ s[j] = a
  BY <1>1, <1>2
<1> QED BY <1>2, <1>3, <1>4 DEF Before, ToSet

LEMMA AppendQueue ==
    ASSUME NEW S, NEW s \in Seq(S), NEW e \in S
    PROVE  ToSet(Append(s, e)) = ToSet(s) \cup {e}
<1> DEFINE t == Append(s, e)
<1>1. /\ DOMAIN t = 1 .. Len(s) + 1 /\ DOMAIN s = 1 .. Len(s) /\ Len(s) \in Nat
      /\ \A i \in 1 .. Len(s) : t[i] = s[i]
      /\ t[Len(s) + 1] = e
  OBVIOUS
<1> HIDE DEF t
<1>2. DOMAIN t = DOMAIN s \cup {Len(s) + 1}
  BY <1>1
<1>3. \A i \in DOMAIN s : t[i] = s[i]
  BY <1>1
<1>4. ToSet(t) = ToSet(s) \cup {e}
  BY <1>1, <1>2, <1>3 DEF ToSet
<1> QED BY <1>4 DEF t

\* Nobody is in front of the front order.
LEMMA FrontFirst ==
    ASSUME NEW S, NEW s \in Seq(S), IsInjective(s), s # <<>>, NEW a
    PROVE  ~Before(s, a, Head(s))
<1>1. DOMAIN s = 1 .. Len(s) /\ 1 \in DOMAIN s /\ Head(s) = s[1]
  OBVIOUS
<1> QED BY <1>1 DEF Before, IsInjective

\* Of two, one only is before the other.
LEMMA BeforeAsymmetric ==
    ASSUME NEW S, NEW s \in Seq(S), IsInjective(s), NEW a, NEW b, Before(s, a, b), Before(s, b, a)
    PROVE  FALSE
<1>1. PICK i, j \in DOMAIN s : i < j /\ s[i] = a /\ s[j] = b
  BY DEF Before
<1>2. PICK k, l \in DOMAIN s : k < l /\ s[k] = b /\ s[l] = a
  BY DEF Before
<1>3. k = j /\ l = i
  BY <1>1, <1>2 DEF IsInjective
<1>4. i \in Int /\ j \in Int
  OBVIOUS
<1> QED BY <1>1, <1>2, <1>3, <1>4

LEMMA RemoveFirstKeeps ==
    ASSUME NEW S, NEW s \in Seq(S), IsInjective(s), NEW e \in ToSet(s)
    PROVE  Keeps(s, RemoveFirst(s, e))
<1> DEFINE t == RemoveFirst(s, e)
<1>1. PICK k \in DOMAIN s : s[k] = e
  BY DEF ToSet
<1>2. t = RemoveAt(s, k)
  BY <1>1, RemoveFirstOfInjective
<1>3. /\ t \in Seq(S)
      /\ Len(t) = Len(s) - 1
      /\ \A i \in 1 .. Len(t) : t[i] = IF i < k THEN s[i] ELSE s[i + 1]
  BY <1>2, RemoveAtPositions
<1> HIDE DEF t
<1>4. ASSUME NEW a, NEW b, Before(t, b, a) PROVE Before(s, b, a)
  <2>1. PICK i, j \in DOMAIN t : i < j /\ t[i] = b /\ t[j] = a
    BY <1>4 DEF Before
  <2>2. /\ DOMAIN t = 1 .. Len(t) /\ DOMAIN s = 1 .. Len(s)
        /\ Len(t) \in Nat /\ Len(s) = Len(t) + 1 /\ k \in Int
    BY <1>3
  <2> DEFINE i1 == IF i < k THEN i ELSE i + 1
             j1 == IF j < k THEN j ELSE j + 1
  <2>3. i1 \in DOMAIN s /\ j1 \in DOMAIN s /\ i1 < j1
    BY <2>1, <2>2
  <2>4. s[i1] = b /\ s[j1] = a
    BY <1>3, <2>1, <2>2
  <2> QED BY <2>3, <2>4 DEF Before
<1> QED BY <1>4 DEF Keeps, t

LEMMA TailKeeps ==
    ASSUME NEW S, NEW s \in Seq(S), s # <<>>
    PROVE  Keeps(s, Tail(s))
<1> DEFINE t == Tail(s)
<1>1. /\ DOMAIN t = 1 .. Len(s) - 1 /\ DOMAIN s = 1 .. Len(s) /\ Len(s) \in Nat
      /\ \A i \in 1 .. Len(s) - 1 : t[i] = s[i + 1]
  OBVIOUS
<1> HIDE DEF t
<1>2. ASSUME NEW a, NEW b, Before(t, b, a) PROVE Before(s, b, a)
  <2>1. PICK i, j \in DOMAIN t : i < j /\ t[i] = b /\ t[j] = a
    BY <1>2 DEF Before
  <2>2. i + 1 \in DOMAIN s /\ j + 1 \in DOMAIN s /\ i + 1 < j + 1
    BY <1>1, <2>1
  <2>3. s[i + 1] = b /\ s[j + 1] = a
    BY <1>1, <2>1
  <2> QED BY <2>2, <2>3 DEF Before
<1> QED BY <1>2 DEF Keeps, t

LEMMA RemoveFirstAbsent ==
    ASSUME NEW S, NEW s \in Seq(S), NEW e, e \notin ToSet(s)
    PROVE  RemoveFirst(s, e) = s
<1>1. \A i \in 1 .. Len(s) : s[i] # e
  BY DEF ToSet
<1> QED BY <1>1 DEF RemoveFirst

-----------------------------------------------------------------------------
(* What the updates of the book do to the queues.                          *)

SameQueues(lvs) ==
    /\ DOMAIN lvs = Maps
    /\ \A m \in Maps :
        /\ DOMAIN lvs[m] = DOMAIN levels[m]
        /\ \A p \in DOMAIN levels[m] : lvs[m][p].orders = levels[m][p].orders

Unqueued(id) ==
    /\ DOMAIN levels' = Maps
    /\ \A m \in Maps :
        /\ DOMAIN levels'[m] =
                {p \in DOMAIN levels[m] : RemoveFirst(levels[m][p].orders, id) # <<>>}
        /\ \A p \in DOMAIN levels'[m] :
                levels'[m][p].orders = RemoveFirst(levels[m][p].orders, id)

QueueAt(m, p) == IF p \in DOMAIN levels[m] THEN levels[m][p].orders ELSE <<>>

Queued(o) ==
    /\ DOMAIN levels' = Maps
    /\ \A m \in Maps :
        /\ DOMAIN levels'[m] = IF m = MapOf(o) THEN DOMAIN levels[m] \cup {KeyOf(o)}
                               ELSE DOMAIN levels[m]
        /\ \A p \in DOMAIN levels'[m] :
                levels'[m][p].orders = IF m = MapOf(o) /\ p = KeyOf(o)
                                       THEN Append(QueueAt(m, p), o.id) ELSE levels[m][p].orders

\* The queues of a book outside a rebuild.
LEMMA QueueOf ==
    ASSUME Static(orders, level_it, levels), NEW m \in Maps, NEW p \in DOMAIN levels[m]
    PROVE  /\ levels[m][p].orders \in Seq(Ids)
           /\ levels[m][p].orders # <<>>
           /\ IsInjective(levels[m][p].orders)
           /\ \A id \in ToSet(levels[m][p].orders) :
                id \in DOMAIN orders /\ MapOf(orders[id]) = m /\ level_it[id] = p
  BY DEF Static, Typed, IsMap, LevelRecord, Fits, LevelIds, empty

LEMMA EraseQueues ==
    ASSUME Static(orders, level_it, levels), NEW id \in DOMAIN orders,
           NEW o, o.id = id, MapOf(o) = MapOf(orders[id]),
           NEW lvs, SameQueues(lvs), Erase(o, lvs)
    PROVE  Unqueued(id)
<1> DEFINE m0   == MapOf(o)
           p0   == level_it[id]
           left == deleteOrder(lvs[m0][p0], o)
<1>1. /\ m0 \in Maps /\ p0 \in DOMAIN levels[m0] /\ id \in ToSet(levels[m0][p0].orders)
      /\ DOMAIN levels = Maps
  <2>1. orders[id] \in OrderRecord
    BY DEF Static, Typed, IsMap
  <2> QED BY <2>1, MapOfType DEF Static, HoldsAt, LevelIds, Typed
<1>2. levels' = [lvs EXCEPT ![m0] = Unlink(@, p0, o)]
  BY DEF Erase
<1>3. left.orders = RemoveFirst(levels[m0][p0].orders, id)
  BY <1>1 DEF SameQueues, deleteOrder
<1>4. /\ DOMAIN levels' = Maps
      /\ \A m \in Maps : m # m0 => levels'[m] = lvs[m]
      /\ levels'[m0] = IF empty(left) THEN Without(lvs[m0], p0) ELSE Put(lvs[m0], p0, left)
  BY <1>1, <1>2 DEF SameQueues, Unlink
<1>5. /\ DOMAIN levels'[m0] = IF left.orders = <<>> THEN DOMAIN levels[m0] \ {p0} ELSE DOMAIN levels[m0]
      /\ left.orders # <<>> => levels'[m0][p0] = left
      /\ \A p \in DOMAIN levels[m0] : p # p0 => levels'[m0][p] = lvs[m0][p]
  BY <1>1, <1>4 DEF SameQueues, Put, Without, empty
<1> HIDE DEF left, m0, p0
<1>6. ASSUME NEW m \in Maps, NEW p \in DOMAIN levels[m], ~(m = m0 /\ p = p0)
      PROVE  RemoveFirst(levels[m][p].orders, id) = levels[m][p].orders /\ levels[m][p].orders # <<>>
  <2>1. id \notin ToSet(levels[m][p].orders)
    BY <1>6, QueueOf DEF m0, p0
  <2> QED BY <2>1, QueueOf, RemoveFirstAbsent
<1>7. ASSUME NEW m \in Maps
      PROVE  /\ DOMAIN levels'[m] =
                    {p \in DOMAIN levels[m] : RemoveFirst(levels[m][p].orders, id) # <<>>}
             /\ \A p \in DOMAIN levels'[m] :
                    levels'[m][p].orders = RemoveFirst(levels[m][p].orders, id)
  <2>1. CASE m = m0
    BY <1>1, <1>3, <1>5, <1>6, <2>1 DEF SameQueues
  <2>2. CASE m # m0
    BY <1>4, <1>6, <2>2 DEF SameQueues
  <2> QED BY <2>1, <2>2
<1> QED BY <1>4, <1>7 DEF Unqueued

\* A trade or a cancel takes an order that is filled out of its queue, and nothing else.
LEMMA ReduceQueues ==
    ASSUME Static(orders, level_it, levels), NEW id \in DOMAIN orders,
           NEW o, o.id = id, MapOf(o) = MapOf(orders[id]), NEW amount, Reduce(o, amount)
    PROVE  IF isFilled(o) THEN Unqueued(id) ELSE SameQueues(levels')
<1> DEFINE m0  == MapOf(o)
           p0  == level_it[id]
           lvs == [levels EXCEPT ![m0] = Put(@, p0, reduceVolume(@[p0], amount))]
<1>1. /\ m0 \in Maps /\ p0 \in DOMAIN levels[m0] /\ DOMAIN levels = Maps
      /\ levels[m0][p0] \in LevelRecord
  <2>1. orders[id] \in OrderRecord
    BY DEF Static, Typed, IsMap
  <2>2. m0 \in Maps /\ p0 \in DOMAIN levels[m0] /\ DOMAIN levels = Maps
    BY <2>1, MapOfType DEF Static, HoldsAt, Typed
  <2> QED BY <2>2 DEF Static, Typed, IsMap
<1>2. reduceVolume(levels[m0][p0], amount).orders = levels[m0][p0].orders
  BY <1>1 DEF reduceVolume, LevelRecord
<1>3. SameQueues(lvs)
  <2>1. /\ DOMAIN lvs = Maps
        /\ lvs[m0] = Put(levels[m0], p0, reduceVolume(levels[m0][p0], amount))
        /\ \A m \in Maps : m # m0 => lvs[m] = levels[m]
    BY <1>1
  <2> HIDE DEF lvs, m0, p0
  <2> QED BY <1>1, <1>2, <2>1 DEF Put, SameQueues
<1>4. IF isFilled(o) THEN Erase(o, lvs) ELSE levels' = lvs
  BY DEF Reduce
<1> HIDE DEF lvs
<1> QED BY <1>3, <1>4, EraseQueues

\* An order that rests joins the back of its queue.
LEMMA InsertQueues ==
    ASSUME Static(orders, level_it, levels), NEW o \in OrderRecord, Insert(o)
    PROVE  Queued(o)
<1> DEFINE m0 == MapOf(o)
           p0 == KeyOf(o)
<1>1. m0 \in Maps /\ DOMAIN levels = Maps
  BY MapOfType DEF Static, Typed
<1>2. levels' = [levels EXCEPT ![m0] = Enqueue(@, p0, o)]
  BY DEF Insert
<1>3. /\ DOMAIN levels' = Maps
      /\ levels'[m0] = Enqueue(levels[m0], p0, o)
      /\ \A m \in Maps : m # m0 => levels'[m] = levels[m]
  BY <1>1, <1>2
<1> HIDE DEF m0, p0
<1>4. /\ DOMAIN Enqueue(levels[m0], p0, o) = DOMAIN levels[m0] \cup {p0}
      /\ Enqueue(levels[m0], p0, o)[p0].orders = Append(QueueAt(m0, p0), o.id)
      /\ \A p \in DOMAIN levels[m0] : p # p0 => Enqueue(levels[m0], p0, o)[p] = levels[m0][p]
  BY DEF Enqueue, Put, addOrder, NewLevel, QueueAt
<1> QED BY <1>3, <1>4 DEF Queued, m0, p0

-----------------------------------------------------------------------------
(* What the actions do to the queues.                                      *)

\* A trade or a cancel of a resting order;
LEMMA ReducedQueues ==
    ASSUME Inv, pc \notin {"moveAsk", "moveBid"}, NEW id \in DOMAIN orders,
           NEW o, Reduced(id, o), Loses(id, o)
    PROVE  IF isFilled(o) THEN Unqueued(id) ELSE SameQueues(levels')
<1>1. Static(orders, level_it, levels)
  BY Outside
<1>2. orders[id].id = id
  BY OrderAt
<1>3. o.id = id /\ MapOf(o) = MapOf(orders[id])
  BY <1>2 DEF Reduced, SameTerms, MapOf
<1>4. PICK amount \in UInt64 : Reduce(o, amount)
  BY DEF Loses
<1> QED BY <1>1, <1>3, <1>4, ReduceQueues

\* a delete, a replacement, an activation;
LEMMA ErasedQueues ==
    ASSUME Inv, pc \notin {"moveAsk", "moveBid"}, NEW id \in DOMAIN orders,
           Erase(orders[id], levels)
    PROVE  Unqueued(id)
<1>1. Static(orders, level_it, levels)
  BY Outside
<1>2. orders[id].id = id
  BY OrderAt
<1>3. SameQueues(levels)
  BY <1>1 DEF SameQueues, Static, Typed
<1> QED BY <1>1, <1>2, <1>3, EraseQueues

\* a public call;
LEMMA CallQueues ==
    ASSUME Inv, Call
    PROVE  \/ levels' = levels
           \/ SameQueues(levels')
           \/ \E id \in DOMAIN orders : Unqueued(id)
<1>1. pc = "idle"
  BY CallEffect
<1>2. ASSUME NEW id \in DOMAIN orders, NEW q \in UInt64, NEW p \in UInt64, TradeAt(id, q, p)
      PROVE  SameQueues(levels') \/ Unqueued(id)
  BY <1>1, <1>2, TradeEffect, ReducedQueues
<1>3. ASSUME NEW id \in Ids, NEW q \in CancelQuantities, CancelOrder(id, q)
      PROVE  id \in DOMAIN orders /\ (SameQueues(levels') \/ Unqueued(id))
  <2>1. id \in DOMAIN orders
    BY <1>3 DEF CancelOrder
  <2> QED BY <1>1, <1>3, <2>1, CancelEffect, ReducedQueues
<1>4. ASSUME NEW id \in Ids, DeleteOrder(id) PROVE id \in DOMAIN orders /\ Unqueued(id)
  BY <1>1, <1>4, ErasedQueues DEF DeleteOrder
<1>5. ASSUME NEW id \in Ids, NEW new_id \in Ids, NEW p \in ReplacePrices, ReplaceOrder(id, new_id, p)
      PROVE  id \in DOMAIN orders /\ Unqueued(id)
  BY <1>1, <1>5, ErasedQueues DEF ReplaceOrder
<1>6. ASSUME NEW id \in Ids, NEW r \in Submissions, AddOrder(id, r) PROVE levels' = levels
  BY <1>6 DEF AddOrder, book
<1>7. ASSUME NEW id \in Ids, NEW q \in ExecuteQuantities, NEW p \in ExecutePrices,
             ExecuteOrderAt(id, q, p)
      PROVE  id \in DOMAIN orders /\ (SameQueues(levels') \/ Unqueued(id))
  BY <1>2, <1>7, InputAssumption DEF ExecuteOrderAt
<1>8. ASSUME NEW id \in Ids, NEW q \in ExecuteQuantities, ExecuteOrder(id, q)
      PROVE  id \in DOMAIN orders /\ (SameQueues(levels') \/ Unqueued(id))
  <2>1. id \in DOMAIN orders /\ TradeAt(id, q, orders[id].price)
    BY <1>8 DEF ExecuteOrder
  <2>2. orders[id].price \in UInt64 /\ q \in UInt64
    BY <2>1, OrderAt, InputAssumption DEF OrderRecord
  <2> QED BY <1>2, <2>1, <2>2
<1> QED BY <1>3, <1>4, <1>5, <1>6, <1>7, <1>8 DEF Call

\* an order in flight, and the order an activation makes of a stop order;
LEMMA FlightQueues ==
    ASSUME Inv, FlightStep \/ InsertStopOrder \/ ActivateStopOrder
    PROVE  \/ levels' = levels
           \/ SameQueues(levels')
           \/ \E id \in DOMAIN orders : Unqueued(id)
           \/ \E o \in OrderRecord : o.id \notin DOMAIN orders /\ Queued(o)
<1>1. CASE BeginMatch \/ KillFok \/ DiscardTaker \/ ConvertOnEntry
  BY <1>1 DEF BeginMatch, KillFok, DiscardTaker, Discard, ConvertOnEntry, book
<1>2. CASE MatchOne
  <2>1. pc \notin {"moveAsk", "moveBid"}
    BY <1>2 DEF MatchOne
  <2>2. PICK id \in DOMAIN orders, c \in UInt64, o \in OrderRecord : TradesWith(id, c, o)
    BY <1>2, MatchEffect
  <2>3. Reduced(id, o) /\ Loses(id, o)
    BY <2>2 DEF TradesWith
  <2> QED BY <2>1, <2>3, ReducedQueues
<1>3. CASE InsertLimitOrder
  <2>1. Static(orders, level_it, levels)
    BY <1>3, Outside DEF InsertLimitOrder, MatchDone
  <2>2. taker \in OrderRecord /\ taker.id \notin DOMAIN orders
    BY <1>3, InsertLimitEffect DEF Rested
  <2> QED BY <1>3, <2>1, <2>2, InsertQueues DEF InsertLimitOrder
<1>4. CASE InsertStopOrder
  <2>1. Static(orders, level_it, levels)
    BY <1>4, Outside DEF InsertStopOrder
  <2>2. Entering(taker) \in OrderRecord /\ Entering(taker).id \notin DOMAIN orders
    BY <1>4, InsertStopEffect DEF Rested
  <2>3. Insert(Entering(taker))
    BY <1>4 DEF InsertStopOrder
  <2> HIDE DEF Entering
  <2> QED BY <2>1, <2>2, <2>3, InsertQueues
<1>5. CASE ActivateStopOrder
  <2>1. pc \notin {"moveAsk", "moveBid"}
    BY <1>5 DEF ActivateStopOrder, ActivationLoop
  <2> QED BY <1>5, <2>1, ActivateEffect, ErasedQueues
<1> QED BY <1>1, <1>2, <1>3, <1>4, <1>5 DEF FlightStep

\* and the rounds, of which only a rebuild touches the levels.
LEMMA RoundQueues ==
    ASSUME RoundStep
    PROVE  levels' = levels \/ MoveOrder \/ SwapLevels
  BY DEF RoundStep, BeginRound, LoopDone, SkipUpdate, BeginUpdate, EndRound, book

-----------------------------------------------------------------------------
(* Nobody overtakes an order that rests.                                   *)

\* Who is ahead of a resting order rests,
LEMMA AheadRests ==
    ASSUME IndexConsistent, NEW a, NEW b, Ahead(b, a)
    PROVE  b \in DOMAIN orders
<1>1. CASE Precedes(b, a)
  <2>1. PICK m \in AllMaps : \E p \in DOMAIN LevelsOf(m) : Before(Queue(m, p), b, a)
    BY <1>1 DEF Precedes
  <2>2. PICK p \in DOMAIN LevelsOf(m) : Before(Queue(m, p), b, a)
    BY <2>1
  <2>3. b \in ToSet(Queue(m, p))
    BY <2>2 DEF Before, ToSet
  <2> QED BY <2>3 DEF IndexConsistent
<1>2. CASE MovedFirst(b, a)
  <2>1. PICK p \in DOMAIN new_trailing_levels : b \in ToSet(Queue(NewMap, p))
    BY <1>2 DEF MovedFirst, InNewMap
  <2>2. NewMap \in AllMaps /\ LevelsOf(NewMap) = new_trailing_levels
    BY DEF AllMaps, LevelsOf
  <2> QED BY <2>1, <2>2 DEF IndexConsistent
<1> QED BY <1>1, <1>2 DEF Ahead

\* and one that is in a level has its place there, and no other.
LEMMA Placed ==
    ASSUME IndexConsistent, NEW m \in AllMaps, NEW p \in DOMAIN LevelsOf(m),
           NEW id \in ToSet(Queue(m, p))
    PROVE  id \in DOMAIN orders /\ Home(id) = m /\ level_it[id] = p
  BY DEF IndexConsistent

LEMMA NotNewMap == NewMap \notin Maps
  BY DEF NewMap, Maps

LEMMA UpdatedNotNew == Moving => UpdatedMap[pc] \in Maps /\ UpdatedMap[pc] # NewMap
  BY NotNewMap DEF Moving, UpdatedMap, Maps, OrderSide

LEMMA QueueType ==
    ASSUME Inv, NEW m \in AllMaps, NEW p \in DOMAIN LevelsOf(m)
    PROVE  Queue(m, p) \in Seq(Ids) /\ IsInjective(Queue(m, p))
<1>1. IsInjective(Queue(m, p))
  BY InvIndexConsistent DEF IndexConsistent
<1>2. LevelsOf(m)[p] \in LevelRecord
  BY InvTypeOK DEF BookTypeOK, AllMaps, LevelsOf, IsMap
<1> QED BY <1>1, <1>2 DEF Queue, LevelRecord

\* Of two orders, one only is ahead of the other.
LEMMA AheadAsymmetric ==
    ASSUME Inv, NEW a \in DOMAIN orders, NEW b \in DOMAIN orders, Ahead(a, b), Ahead(b, a)
    PROVE  FALSE
<1>1. IndexConsistent
  BY InvIndexConsistent
<1>2. ASSUME NEW x, NEW y, Precedes(x, y)
      PROVE  \E m \in AllMaps : \E p \in DOMAIN LevelsOf(m) :
                /\ Before(Queue(m, p), x, y)
                /\ Home(x) = m /\ level_it[x] = p
                /\ Home(y) = m /\ level_it[y] = p
  <2>1. PICK m \in AllMaps : \E p \in DOMAIN LevelsOf(m) : Before(Queue(m, p), x, y)
    BY <1>2 DEF Precedes
  <2>2. PICK p \in DOMAIN LevelsOf(m) : Before(Queue(m, p), x, y)
    BY <2>1
  <2>3. x \in ToSet(Queue(m, p)) /\ y \in ToSet(Queue(m, p))
    BY <2>2 DEF Before, ToSet
  <2> QED BY <1>1, <2>2, <2>3, Placed
<1>3. ASSUME NEW x, NEW y, MovedFirst(x, y)
      PROVE  Home(x) = NewMap /\ Home(y) # NewMap
  BY <1>3, UpdatedNotNew DEF MovedFirst, Home
<1>4. CASE Precedes(a, b) /\ Precedes(b, a)
  <2>1. PICK m \in AllMaps : \E p \in DOMAIN LevelsOf(m) :
            Before(Queue(m, p), a, b) /\ Home(a) = m /\ level_it[a] = p
    BY <1>2, <1>4
  <2>2. PICK p \in DOMAIN LevelsOf(m) :
            Before(Queue(m, p), a, b) /\ Home(a) = m /\ level_it[a] = p
    BY <2>1
  <2>3. Before(Queue(m, p), b, a)
    BY <1>2, <1>4, <2>2
  <2> QED BY <2>2, <2>3, QueueType, BeforeAsymmetric
<1>5. CASE Precedes(a, b) /\ MovedFirst(b, a)
  BY <1>2, <1>3, <1>5
<1>6. CASE MovedFirst(a, b) /\ Precedes(b, a)
  BY <1>2, <1>3, <1>6
<1>7. CASE MovedFirst(a, b) /\ MovedFirst(b, a)
  BY <1>3, <1>7
<1> QED BY <1>4, <1>5, <1>6, <1>7 DEF Ahead

NobodyPassed ==
    \A a \in DOMAIN orders \cap DOMAIN orders', b \in DOMAIN orders' :
        /\ Precedes(b, a)' => b \in DOMAIN orders /\ Ahead(b, a)
        /\ b \in DOMAIN orders /\ Ahead(a, b) => ~Ahead(b, a)'

\* So it is enough that whoever comes before another in a level was ahead of it, and that a
\* rebuild does not move first who was behind.
LEMMA PassedBy ==
    ASSUME Inv,
           \A a \in DOMAIN orders : \A b : Precedes(b, a)' => Ahead(b, a),
           \A a, b \in DOMAIN orders : Ahead(a, b) => ~MovedFirst(b, a)'
    PROVE  NobodyPassed
<1>1. IndexConsistent
  BY InvIndexConsistent
<1>2. ASSUME NEW a \in DOMAIN orders, NEW b, Precedes(b, a)'
      PROVE  b \in DOMAIN orders /\ Ahead(b, a)
  BY <1>1, <1>2, AheadRests
<1>3. ASSUME NEW a \in DOMAIN orders, NEW b \in DOMAIN orders, Ahead(a, b)
      PROVE  ~Ahead(b, a)'
  <2>1. ~Precedes(b, a)'
    BY <1>2, <1>3, AheadAsymmetric
  <2>2. ~MovedFirst(b, a)'
    BY <1>3
  <2> QED BY <2>1, <2>2 DEF Ahead
<1> QED BY <1>2, <1>3 DEF NobodyPassed

\* Outside a rebuild the new map is empty, and nobody is ahead but in a level.
LEMMA NobodyMoved ==
    ASSUME new_trailing_levels' = EmptyMap
    PROVE  \A a, b : ~MovedFirst(b, a)'
<1>1. DOMAIN new_trailing_levels' = {}
  BY DEF EmptyMap
<1> QED BY <1>1 DEF MovedFirst, InNewMap

\* The orders of each of the six maps that rest have those in front of them that they had.
KeepsQueues ==
    \A m \in Maps : \A p \in DOMAIN levels'[m] : \A a \in DOMAIN orders : \A b :
        Before(levels'[m][p].orders, b, a) =>
            p \in DOMAIN levels[m] /\ Before(levels[m][p].orders, b, a)

LEMMA SameKeeps == ASSUME SameQueues(levels') \/ levels' = levels PROVE KeepsQueues
  BY DEF SameQueues, KeepsQueues

LEMMA UnqueuedKeeps ==
    ASSUME Static(orders, level_it, levels), NEW id, Unqueued(id)
    PROVE  KeepsQueues
<1>1. ASSUME NEW m \in Maps, NEW p \in DOMAIN levels'[m]
      PROVE  p \in DOMAIN levels[m] /\ Keeps(levels[m][p].orders, levels'[m][p].orders)
  <2> DEFINE q == levels[m][p].orders
  <2>1. p \in DOMAIN levels[m] /\ levels'[m][p].orders = RemoveFirst(q, id)
    BY <1>1 DEF Unqueued
  <2>2. q \in Seq(Ids) /\ IsInjective(q)
    BY <2>1, QueueOf
  <2> HIDE DEF q
  <2>3. CASE id \in ToSet(q)
    <3>1. Keeps(q, RemoveFirst(q, id))
      BY <2>2, <2>3, RemoveFirstKeeps
    <3> QED BY <2>1, <3>1 DEF q
  <2>4. CASE id \notin ToSet(q)
    <3>1. RemoveFirst(q, id) = q
      BY <2>2, <2>4, RemoveFirstAbsent
    <3>2. Keeps(q, q)
      BY DEF Keeps
    <3> QED BY <2>1, <3>1, <3>2 DEF q
  <2> QED BY <2>3, <2>4
<1> QED BY <1>1 DEF KeepsQueues, Keeps

LEMMA QueuedKeeps ==
    ASSUME Static(orders, level_it, levels), NEW o \in OrderRecord, o.id \notin DOMAIN orders,
           Queued(o)
    PROVE  KeepsQueues
<1>1. ASSUME NEW m \in Maps, NEW p \in DOMAIN levels'[m], NEW a \in DOMAIN orders, NEW b,
             Before(levels'[m][p].orders, b, a)
      PROVE  p \in DOMAIN levels[m] /\ Before(levels[m][p].orders, b, a)
  <2>1. CASE m = MapOf(o) /\ p = KeyOf(o)
    <3> DEFINE q == QueueAt(m, p)
    <3>1. levels'[m][p].orders = Append(q, o.id)
      BY <1>1, <2>1 DEF Queued
    <3>2. q \in Seq(Ids) /\ o.id \in Ids /\ a # o.id
      BY QueueOf DEF OrderRecord, QueueAt
    <3> HIDE DEF q
    <3>3. Before(q, b, a)
      BY <1>1, <3>1, <3>2, AppendBefore
    <3>4. q # <<>>
      BY <3>3 DEF Before
    <3> QED BY <3>3, <3>4 DEF q, QueueAt
  <2>2. CASE ~(m = MapOf(o) /\ p = KeyOf(o))
    BY <1>1, <2>2 DEF Queued
  <2> QED BY <2>1, <2>2
<1> QED BY <1>1 DEF KeepsQueues

LEMMA KeepsPassed ==
    ASSUME Inv, KeepsQueues, new_trailing_levels' = EmptyMap
    PROVE  NobodyPassed
<1>1. ASSUME NEW a \in DOMAIN orders, NEW b, Precedes(b, a)' PROVE Precedes(b, a)
  <2>1. PICK m \in AllMaps : \E p \in DOMAIN LevelsOf(m)' : Before(Queue(m, p)', b, a)
    BY <1>1 DEF Precedes
  <2>2. PICK p \in DOMAIN LevelsOf(m)' : Before(Queue(m, p)', b, a)
    BY <2>1
  <2>3. m \in Maps /\ m # NewMap
    BY <2>2, NotNewMap DEF LevelsOf, EmptyMap, AllMaps
  <2>4. p \in DOMAIN levels'[m] /\ Before(levels'[m][p].orders, b, a)
    BY <2>2, <2>3 DEF LevelsOf, Queue
  <2>5. p \in DOMAIN levels[m] /\ Before(levels[m][p].orders, b, a)
    BY <2>3, <2>4 DEF KeepsQueues
  <2> QED BY <2>3, <2>5 DEF Precedes, Queue, LevelsOf, AllMaps
<1> QED BY <1>1, NobodyMoved, PassedBy DEF Ahead

\* A rebuild takes its orders from the front of their level, and lets them join the new map
\* behind those moved before,
LEMMA MovePassed ==
    ASSUME Inv, MoveOrder
    PROVE  NobodyPassed
<1> DEFINE m0 == UpdatedMap[pc]
<1>1. Moving /\ pc' = pc
  BY DEF MoveOrder, Moving
<1>2. m0 \in Maps /\ m0 # NewMap /\ IndexConsistent
  BY <1>1, UpdatedNotNew, InvIndexConsistent
<1>3. PICK id \in DOMAIN orders, o \in OrderRecord :
        /\ Repriced(id, o)
        /\ level_it[id] \in DOMAIN levels[m0]
        /\ id = front(levels[m0][level_it[id]])
        /\ levels' = [levels EXCEPT ![m0] = Put(@, level_it[id], popFront(@[level_it[id]], o))]
        /\ ~empty(levels[m0][level_it[id]])
        /\ new_trailing_levels' = Enqueue(new_trailing_levels, o.stop_price, o)
  BY MoveEffect
<1>4. o.id = id /\ id \in Ids /\ \A i \in DOMAIN orders : i # id => orders'[i] = orders[i]
  BY <1>3, OrderAt DEF Repriced
<1> DEFINE p0 == level_it[id]
           q0 == levels[m0][p0].orders
           p1 == o.stop_price
           q1 == IF p1 \in DOMAIN new_trailing_levels THEN new_trailing_levels[p1].orders ELSE <<>>
<1>5. p0 \in DOMAIN levels[m0] /\ q0 # <<>> /\ id = Head(q0)
  BY <1>3 DEF empty, front
<1>6. q0 = Queue(m0, p0) /\ m0 \in AllMaps /\ LevelsOf(m0) = levels[m0] /\ DOMAIN levels = Maps
  BY <1>2, InvTypeOK DEF Queue, LevelsOf, AllMaps, BookTypeOK
<1>7. q0 \in Seq(Ids) /\ IsInjective(q0)
  BY <1>5, <1>6, QueueType
<1>8. id \in ToSet(q0)
  <2>1. 1 \in DOMAIN q0 /\ q0[1] = Head(q0)
    BY <1>5, <1>7
  <2> QED BY <1>5, <2>1 DEF ToSet
<1>9. Home(id) = m0
  BY <1>2, <1>5, <1>6, <1>8, Placed
\* the new map gains the order,
<1>10. /\ DOMAIN new_trailing_levels' = DOMAIN new_trailing_levels \cup {p1}
       /\ new_trailing_levels'[p1].orders = Append(q1, id)
       /\ \A p \in DOMAIN new_trailing_levels :
            p # p1 => new_trailing_levels'[p] = new_trailing_levels[p]
  BY <1>3, <1>4 DEF Enqueue, Put, addOrder, NewLevel
<1>11. q1 \in Seq(Ids)
  BY InvTypeOK DEF BookTypeOK, IsMap, LevelRecord
\* the old level loses it, and nothing else changes.
<1>12. /\ \A m \in Maps : m # m0 => levels'[m] = levels[m]
       /\ DOMAIN levels'[m0] = DOMAIN levels[m0]
       /\ levels'[m0][p0].orders = Tail(q0)
       /\ \A p \in DOMAIN levels[m0] : p # p0 => levels'[m0][p] = levels[m0][p]
  <2>1. /\ levels'[m0] = Put(levels[m0], p0, popFront(levels[m0][p0], o))
        /\ \A m \in Maps : m # m0 => levels'[m] = levels[m]
    BY <1>2, <1>3, <1>6
  <2> HIDE DEF m0, p0
  <2> QED BY <1>5, <2>1 DEF Put, popFront
<1>13. Keeps(q0, Tail(q0))
  BY <1>5, <1>7, TailKeeps
<1> HIDE DEF m0, p0, q0, p1, q1
<1>14. ASSUME NEW a \in DOMAIN orders, NEW b, Precedes(b, a)' PROVE Ahead(b, a)
  <2>1. PICK m \in AllMaps : \E p \in DOMAIN LevelsOf(m)' : Before(Queue(m, p)', b, a)
    BY <1>14 DEF Precedes
  <2>2. PICK p \in DOMAIN LevelsOf(m)' : Before(Queue(m, p)', b, a)
    BY <2>1
  <2>3. CASE m # NewMap
    <3>1. m \in Maps
      BY <2>3 DEF AllMaps
    <3>2. p \in DOMAIN levels'[m] /\ Before(levels'[m][p].orders, b, a)
      BY <2>2, <2>3 DEF LevelsOf, Queue
    <3>3. p \in DOMAIN levels[m] /\ Before(levels[m][p].orders, b, a)
      <4>1. CASE m = m0 /\ p = p0
        BY <1>5, <1>12, <1>13, <3>2, <4>1 DEF Keeps, q0
      <4>2. CASE ~(m = m0 /\ p = p0)
        BY <1>12, <3>1, <3>2, <4>2
      <4> QED BY <4>1, <4>2
    <3> QED BY <2>3, <3>3 DEF Ahead, Precedes, Queue, LevelsOf
  <2>4. CASE m = NewMap
    <3>1. p \in DOMAIN new_trailing_levels' /\ Before(new_trailing_levels'[p].orders, b, a)
      BY <2>2, <2>4 DEF LevelsOf, Queue
    <3>2. CASE p # p1
      <4>1. p \in DOMAIN new_trailing_levels /\ Before(new_trailing_levels[p].orders, b, a)
        BY <1>10, <3>1, <3>2
      <4> QED BY <2>4, <4>1 DEF Ahead, Precedes, Queue, LevelsOf
    <3>3. CASE p = p1
      <4>1. Before(Append(q1, id), b, a)
        BY <1>10, <3>1, <3>3
      <4>2. b \in ToSet(q1) /\ (a # id => Before(q1, b, a))
        BY <1>4, <1>11, <4>1, AppendBefore
      <4>3. p1 \in DOMAIN new_trailing_levels /\ q1 = new_trailing_levels[p1].orders
        BY <4>2, EmptyQueue DEF q1
      <4>4. CASE a # id
        BY <2>4, <4>2, <4>3, <4>4 DEF Ahead, Precedes, Queue, LevelsOf
      <4>5. CASE a = id
        <5>1. InNewMap(b)
          BY <4>2, <4>3 DEF InNewMap, Queue, LevelsOf
        <5> QED BY <1>1, <1>9, <4>5, <5>1 DEF Ahead, MovedFirst, m0
      <4> QED BY <4>4, <4>5
    <3> QED BY <3>2, <3>3
  <2> QED BY <2>3, <2>4
<1>15. ASSUME NEW x PROVE InNewMap(x)' <=> InNewMap(x) \/ x = id
  <2>1. ToSet(Append(q1, id)) = ToSet(q1) \cup {id}
    BY <1>4, <1>11, AppendQueue
  <2>2. InNewMap(x)' <=> \E p \in DOMAIN new_trailing_levels' : x \in ToSet(new_trailing_levels'[p].orders)
    BY DEF InNewMap, Queue, LevelsOf
  <2>3. InNewMap(x) <=> \E p \in DOMAIN new_trailing_levels : x \in ToSet(new_trailing_levels[p].orders)
    BY DEF InNewMap, Queue, LevelsOf
  <2>4. x \in ToSet(q1) => p1 \in DOMAIN new_trailing_levels /\ q1 = new_trailing_levels[p1].orders
    BY EmptyQueue DEF q1
  <2>5. p1 \in DOMAIN new_trailing_levels => q1 = new_trailing_levels[p1].orders
    BY DEF q1
  <2> QED BY <1>10, <2>1, <2>2, <2>3, <2>4, <2>5
<1>16. ASSUME NEW a \in DOMAIN orders, NEW b \in DOMAIN orders, Ahead(a, b), MovedFirst(b, a)'
       PROVE  FALSE
  <2>1. InNewMap(b)' /\ Home(a)' = m0
    BY <1>1, <1>16 DEF MovedFirst, m0
  <2>2. ~InNewMap(a)' /\ MapOf(orders'[a]) = m0
    BY <1>2, <2>1 DEF Home
  <2>3. ~InNewMap(a) /\ a # id
    BY <1>15, <2>2
  <2>4. Home(a) = m0
    BY <1>4, <1>16, <2>2, <2>3 DEF Home
  <2>5. CASE InNewMap(b)
    <3>1. Ahead(b, a)
      BY <1>1, <2>4, <2>5 DEF Ahead, MovedFirst, m0
    <3> QED BY <1>16, <3>1, AheadAsymmetric
  <2>6. CASE b = id
    <3>1. Precedes(a, id)
      BY <1>16, <2>3, <2>6 DEF Ahead, MovedFirst
    <3>2. PICK m \in AllMaps : \E p \in DOMAIN LevelsOf(m) : Before(Queue(m, p), a, id)
      BY <3>1 DEF Precedes
    <3>3. PICK p \in DOMAIN LevelsOf(m) : Before(Queue(m, p), a, id)
      BY <3>2
    <3>4. id \in ToSet(Queue(m, p))
      BY <3>3 DEF Before, ToSet
    <3>5. m = m0 /\ p = p0
      BY <1>2, <1>9, <3>4, Placed DEF p0
    <3>6. Before(q0, a, Head(q0))
      BY <1>5, <1>6, <3>3, <3>5
    <3> QED BY <1>5, <1>7, <3>6, FrontFirst
  <2> QED BY <1>15, <2>1, <2>5, <2>6
<1> QED BY <1>14, <1>16, PassedBy

\* and the new map, with its queues, takes the place of the old one.
LEMMA SwapPassed ==
    ASSUME Inv, SwapLevels
    PROVE  NobodyPassed
<1> DEFINE m0 == UpdatedMap[pc]
<1>1. Moving
  BY DEF SwapLevels, Moving
<1>2. m0 \in Maps /\ DOMAIN levels = Maps
  BY <1>1, UpdatedNotNew, InvTypeOK DEF BookTypeOK
<1>3. /\ levels'[m0] = new_trailing_levels
      /\ \A m \in Maps : m # m0 => levels'[m] = levels[m]
      /\ new_trailing_levels' = EmptyMap
  BY <1>2 DEF SwapLevels
<1> HIDE DEF m0
<1>4. ASSUME NEW a \in DOMAIN orders, NEW b, Precedes(b, a)' PROVE Precedes(b, a)
  <2>1. PICK m \in AllMaps : \E p \in DOMAIN LevelsOf(m)' : Before(Queue(m, p)', b, a)
    BY <1>4 DEF Precedes
  <2>2. PICK p \in DOMAIN LevelsOf(m)' : Before(Queue(m, p)', b, a)
    BY <2>1
  <2>3. m \in Maps /\ m # NewMap
    BY <1>3, <2>2, NotNewMap DEF LevelsOf, EmptyMap, AllMaps
  <2>4. p \in DOMAIN levels'[m] /\ Before(levels'[m][p].orders, b, a)
    BY <2>2, <2>3 DEF LevelsOf, Queue
  <2>5. CASE m = m0
    <3>1. p \in DOMAIN LevelsOf(NewMap) /\ Before(Queue(NewMap, p), b, a)
      BY <1>3, <2>4, <2>5 DEF LevelsOf, Queue
    <3> QED BY <3>1 DEF Precedes, AllMaps
  <2>6. CASE m # m0
    <3>1. p \in DOMAIN LevelsOf(m) /\ Before(Queue(m, p), b, a)
      BY <1>3, <2>3, <2>4, <2>6 DEF LevelsOf, Queue
    <3> QED BY <3>1 DEF Precedes
  <2> QED BY <2>5, <2>6
<1> QED BY <1>3, <1>4, NobodyMoved, PassedBy DEF Ahead

LEMMA PassedStep == ASSUME Inv, [Next]_vars PROVE NobodyPassed
<1>1. CASE MoveOrder
  BY <1>1, MovePassed
<1>2. CASE SwapLevels
  BY <1>2, SwapPassed
<1>3. CASE UNCHANGED vars
  <2>1. ASSUME NEW a, NEW b PROVE (Precedes(b, a)' <=> Precedes(b, a)) /\ (MovedFirst(b, a)' <=> MovedFirst(b, a))
    BY <1>3 DEF vars, book, loop, Precedes, MovedFirst, Moving, InNewMap, Home, Queue, LevelsOf
  <2> QED BY <2>1, AheadAsymmetric, PassedBy DEF Ahead
<1>4. ASSUME pc \notin {"moveAsk", "moveBid"}, new_trailing_levels' = new_trailing_levels,
             \/ levels' = levels
             \/ SameQueues(levels')
             \/ \E id \in DOMAIN orders : Unqueued(id)
             \/ \E o \in OrderRecord : o.id \notin DOMAIN orders /\ Queued(o)
      PROVE  NobodyPassed
  <2>1. Static(orders, level_it, levels) /\ new_trailing_levels' = EmptyMap
    BY <1>4, Outside
  <2>2. KeepsQueues
    BY <1>4, <2>1, SameKeeps, UnqueuedKeeps, QueuedKeeps
  <2> QED BY <2>1, <2>2, KeepsPassed
<1>5. CASE RoundStep
  <2>1. CASE MoveOrder \/ SwapLevels
    BY <1>1, <1>2, <2>1
  <2>2. CASE BeginRound \/ LoopDone \/ SkipUpdate \/ BeginUpdate \/ EndRound
    <3>1. /\ levels' = levels /\ new_trailing_levels' = new_trailing_levels
          /\ pc \notin {"moveAsk", "moveBid"}
      BY <2>2 DEF BeginRound, LoopDone, SkipUpdate, BeginUpdate, EndRound, book, loop, ActivationLoop
    <3> QED BY <1>4, <3>1
  <2> QED BY <1>5, <2>1, <2>2 DEF RoundStep
<1>6. CASE Call
  BY <1>4, <1>6, CallQueues, CallEffect
<1>7. CASE FlightStep \/ InsertStopOrder \/ ActivateStopOrder
  <2>1. pc \notin {"moveAsk", "moveBid"} /\ new_trailing_levels' = new_trailing_levels
    BY <1>7 DEF FlightStep, BeginMatch, KillFok, Discard, MatchOne, InsertLimitOrder, DiscardTaker,
                MatchDone, ConvertOnEntry, InsertStopOrder, ActivateStopOrder, ActivationLoop, loop
  <2> QED BY <1>4, <1>7, <2>1, FlightQueues
<1> QED BY <1>3, <1>5, <1>6, <1>7, NextCases

\* Nobody overtakes an order that rests: what joins a level joins behind, whatever trades,
\* cancels, deletes and activations do to it, and a rebuild moves the orders of a level in
\* their order, to places they keep in the new map and when it replaces the old one
\* (map_orderbook.cpp:145-233, 343-398, level.cpp:23-48).
THEOREM NobodyOvertakes == Spec => TimePriority
<1>1. Inv /\ [Next]_vars =>
        \A a \in DOMAIN orders \cap DOMAIN orders', b \in DOMAIN orders' :
            /\ Precedes(b, a)' => b \in DOMAIN orders /\ Ahead(b, a)
            /\ b \in DOMAIN orders /\ Ahead(a, b) => ~Ahead(b, a)'
  BY PassedStep DEF NobodyPassed
<1> QED BY <1>1, Invariance, PTL DEF Spec, TimePriority

-----------------------------------------------------------------------------
(* Whose turn it is.                                                       *)

\* A trade of match() is the turn of the order it trades with.
LEMMA TradeInTurn ==
    ASSUME Inv, pc = "match", NEW id \in DOMAIN orders, NEW c, NEW o, TradesWith(id, c, o)
    PROVE  /\ Accepts(taker, orders[id].price)
           /\ last_traded_price' = orders[id].price
           /\ \A other \in DOMAIN orders \ {id} :
                MapOf(orders[other]) = MapOf(orders[id]) =>
                    /\ ~Better(orders[id].side, orders[other].price, orders[id].price)
                    /\ ~Before(levels[MapOf(orders[id])][level_it[id]].orders, other, id)
<1>1. Static(orders, level_it, levels)
  BY Outside
<1> DEFINE side == Opposite(taker.side)
           m    == MapOf(orders[id])
           p    == orders[id].price
<1>2. /\ m = <<"Limit", side>> /\ orders[id].side = side /\ m \in Maps
      /\ p = level_it[id] /\ p \in UInt64
      /\ IsBest(side, p)
      /\ id = Head(levels[m][p].orders)
      /\ p \in DOMAIN levels[m]
  <2>1. orders[id] \in OrderRecord
    BY OrderAt
  <2>2. m = <<"Limit", side>> /\ m \in Maps /\ p = level_it[id]
    BY <2>1, MapOfType DEF TradesWith
  <2>3. p \in DOMAIN levels[m]
    BY <1>1, <2>2 DEF Static, HoldsAt
  <2> QED BY <2>1, <2>2, <2>3 DEF TradesWith, MapOf, OrderRecord, front
<1> HIDE DEF m, p, side
<1>3. ASSUME NEW other \in DOMAIN orders, MapOf(orders[other]) = m
      PROVE  ~Better(side, orders[other].price, p)
  <2>1. orders[other] \in OrderRecord
    BY OrderAt
  <2>2. orders[other].type \notin StopTypes \cup TrailingTypes
    <3>1. MapOf(orders[other])[1] = "Limit"
      <4>1. m[1] = "Limit"
        BY <1>2
      <4> QED BY <1>3, <4>1
    <3> QED BY <3>1 DEF MapOf
  <2>3. orders[other].price = level_it[other]
    BY <1>1, <2>2 DEF Static, Keyed, KeyOf
  <2>4. orders[other].price \in DOMAIN levels[<<"Limit", side>>]
    BY <1>1, <1>2, <1>3, <2>3 DEF Static, HoldsAt
  <2>5. orders[other].price \in Int /\ p \in Int
    <3>1. orders[other].price \in UInt64
      BY <2>1 DEF OrderRecord
    <3>2. p \in UInt64
      BY <1>2
    <3> QED BY <3>1, <3>2, WidthAssumption DEF UInt64
  <2>6. IF side = "Bid" THEN orders[other].price <= p ELSE orders[other].price >= p
    BY <1>2, <2>4 DEF IsBest
  <2> QED BY <2>5, <2>6 DEF Better
<1>4. ~\E other : Before(levels[m][level_it[id]].orders, other, id)
  <2>1. levels[m][p].orders \in Seq(Ids) /\ levels[m][p].orders # <<>> /\ IsInjective(levels[m][p].orders)
    BY <1>1, <1>2, QueueOf
  <2> QED BY <1>2, <2>1, FrontFirst
<1>5. Accepts(taker, orders[id].price) /\ last_traded_price' = orders[id].price
  BY DEF TradesWith
<1> QED BY <1>2, <1>3, <1>4, <1>5 DEF m, p

InTurn ==
    \A id \in DOMAIN orders :
        (id \in DOMAIN orders' => orders'[id].open_quantity < orders[id].open_quantity) =>
            /\ Accepts(taker, orders[id].price)
            /\ last_traded_price' = orders[id].price
            /\ \A other \in DOMAIN orders \ {id} :
                MapOf(orders[other]) = MapOf(orders[id]) =>
                    /\ ~Better(orders[id].side, orders[other].price, orders[id].price)
                    /\ ~Before(levels[MapOf(orders[id])][level_it[id]].orders, other, id)

LEMMA InTurnStep == ASSUME Inv, [Next]_vars, pc = "match", pc' = "match" PROVE InTurn
<1>1. MatchOne \/ UNCHANGED vars
  <2>1. ~Call
    BY CallEffect
  <2>2. ~RoundStep
    BY RoundEffect DEF ActivationPCs, UpdatePCs
  <2>3. ~InsertStopOrder /\ ~ActivateStopOrder /\ ~BeginMatch /\ ~KillFok /\ ~ConvertOnEntry
    BY DEF InsertStopOrder, ActivateStopOrder, ActivationLoop, BeginMatch, KillFok, ConvertOnEntry
  <2>4. ret # "match"
    BY DEF Inv, Scalars, ActivationPCs
  <2>5. ~InsertLimitOrder /\ ~DiscardTaker
    BY <2>4 DEF InsertLimitOrder, DiscardTaker, Discard, Settled
  <2> QED BY <2>1, <2>2, <2>3, <2>5, NextCases DEF FlightStep
<1>2. ASSUME NEW i \in DOMAIN orders, orders' = orders \/ (i \in DOMAIN orders' /\ orders'[i] = orders[i])
      PROVE  ~(i \in DOMAIN orders' => orders'[i].open_quantity < orders[i].open_quantity)
  <2>1. orders[i].open_quantity \in Int
    BY OrderAt DEF OrderRecord, UInt64
  <2> QED BY <1>2, <2>1
<1>3. CASE UNCHANGED vars
  BY <1>2, <1>3 DEF vars, book, InTurn
<1>4. CASE MatchOne
  <2>1. PICK id \in DOMAIN orders, c \in UInt64, o \in OrderRecord : TradesWith(id, c, o)
    BY <1>4, MatchEffect
  <2>2. \A i \in DOMAIN orders : i # id => i \in DOMAIN orders' /\ orders'[i] = orders[i]
    BY <2>1 DEF TradesWith, Reduced
  <2> QED BY <1>2, <2>1, <2>2, TradeInTurn DEF InTurn
<1> QED BY <1>1, <1>3, <1>4

\* An order that rests trades with an incoming one only when no order of its side rests at a
\* better price or ahead of it at its own, and it trades at its own price, which the incoming
\* order accepts (map_orderbook.cpp:400-450).
THEOREM TradesInTurn == Spec => PriceTimePriority
<1>1. Inv /\ [Next]_vars =>
        (pc = "match" /\ pc' = "match" =>
            \A id \in DOMAIN orders :
                (id \in DOMAIN orders' => orders'[id].open_quantity < orders[id].open_quantity) =>
                    /\ Accepts(taker, orders[id].price)
                    /\ last_traded_price' = orders[id].price
                    /\ \A other \in DOMAIN orders \ {id} :
                        MapOf(orders[other]) = MapOf(orders[id]) =>
                            /\ ~Better(orders[id].side, orders[other].price, orders[id].price)
                            /\ ~Before(levels[MapOf(orders[id])][level_it[id]].orders, other, id))
  BY InTurnStep DEF InTurn
<1> QED BY <1>1, Invariance, PTL DEF Spec, PriceTimePriority

-----------------------------------------------------------------------------
(* What its users see of the book is PriorityBook.  First the queues of    *)
(* its limit orders.                                                       *)

Visible == <<OpenQuantities, LimitQueues, Matched, last_traded_price>>

\* PriorityBook removes from a sequence as the levels do.
LEMMA SameRemoveFirst == \A s, e : Priority!RemoveFirst(s, e) = RemoveFirst(s, e)
  BY DEF Priority!RemoveFirst, RemoveFirst, Priority!RemoveAt, RemoveAt,
         Priority!SelectInSeq, SelectInSeq, Priority!Min, Min

LEMMA LimitMaps == \A side \in OrderSide : <<"Limit", side>> \in Maps
  BY DEF Maps

LEMMA SameLimitQueues ==
    ASSUME \A side \in OrderSide :
                /\ DOMAIN levels'[<<"Limit", side>>] = DOMAIN levels[<<"Limit", side>>]
                /\ \A p \in DOMAIN levels[<<"Limit", side>>] :
                        levels'[<<"Limit", side>>][p].orders = levels[<<"Limit", side>>][p].orders
    PROVE  LimitQueues' = LimitQueues
<1>1. ASSUME NEW side \in OrderSide
      PROVE  [p \in DOMAIN levels'[<<"Limit", side>>] |-> levels'[<<"Limit", side>>][p].orders]
                = [p \in DOMAIN levels[<<"Limit", side>>] |-> levels[<<"Limit", side>>][p].orders]
  OBVIOUS
<1> QED BY <1>1 DEF LimitQueues

LEMMA StillQueues ==
    ASSUME SameQueues(levels')
    PROVE  LimitQueues' = LimitQueues
  BY SameLimitQueues, LimitMaps DEF SameQueues

\* An order that leaves the book leaves its queue;
LEMMA UnqueuedQueues ==
    ASSUME NEW id, Unqueued(id)
    PROVE  LimitQueues' = Priority!WithoutOrder(id)
<1> DEFINE left(side) == {p \in DOMAIN levels[<<"Limit", side>>] :
                              RemoveFirst(levels[<<"Limit", side>>][p].orders, id) # <<>>}
<1>1. ASSUME NEW side \in OrderSide
      PROVE  [p \in DOMAIN levels'[<<"Limit", side>>] |-> levels'[<<"Limit", side>>][p].orders]
                = [p \in left(side) |-> RemoveFirst(levels[<<"Limit", side>>][p].orders, id)]
  BY <1>1, LimitMaps DEF Unqueued
<1>2. ASSUME NEW side \in OrderSide
      PROVE  /\ {p \in DOMAIN LimitQueues[side] : RemoveFirst(LimitQueues[side][p], id) # <<>>}
                    = left(side)
             /\ \A p \in left(side) : LimitQueues[side][p] = levels[<<"Limit", side>>][p].orders
  BY <1>2 DEF LimitQueues
<1> HIDE DEF left
<1>3. Priority!WithoutOrder(id)
        = [side \in OrderSide |->
                [p \in left(side) |-> RemoveFirst(levels[<<"Limit", side>>][p].orders, id)]]
  BY <1>2, SameRemoveFirst DEF Priority!WithoutOrder, Priority!Sides, OrderSide
<1> QED BY <1>1, <1>3 DEF LimitQueues

\* one that is not in a queue leaves none.
LEMMA UnqueuedNone ==
    ASSUME Static(orders, level_it, levels),
           NEW id, id \in DOMAIN orders => MapOf(orders[id])[1] # "Limit"
    PROVE  Priority!WithoutOrder(id) = LimitQueues
<1> DEFINE left(side) ==
            [p \in {q \in DOMAIN LimitQueues[side] : RemoveFirst(LimitQueues[side][q], id) # <<>>} |->
                RemoveFirst(LimitQueues[side][p], id)]
<1>1. ASSUME NEW side \in OrderSide, NEW p \in DOMAIN levels[<<"Limit", side>>]
      PROVE  /\ RemoveFirst(levels[<<"Limit", side>>][p].orders, id) = levels[<<"Limit", side>>][p].orders
             /\ levels[<<"Limit", side>>][p].orders # <<>>
  <2> DEFINE m == <<"Limit", side>>
  <2>1. m \in Maps /\ p \in DOMAIN levels[m] /\ m[1] = "Limit"
    BY LimitMaps
  <2> HIDE DEF m
  <2>2. /\ levels[m][p].orders \in Seq(Ids) /\ levels[m][p].orders # <<>>
        /\ id \notin ToSet(levels[m][p].orders)
    BY <2>1, QueueOf
  <2>3. RemoveFirst(levels[m][p].orders, id) = levels[m][p].orders
    BY <2>2, RemoveFirstAbsent
  <2> QED BY <2>2, <2>3 DEF m
<1>2. ASSUME NEW side \in OrderSide
      PROVE  /\ DOMAIN LimitQueues[side] = DOMAIN levels[<<"Limit", side>>]
             /\ \A p \in DOMAIN LimitQueues[side] :
                    LimitQueues[side][p] = levels[<<"Limit", side>>][p].orders
  BY <1>2 DEF LimitQueues
<1>3. ASSUME NEW side \in OrderSide
      PROVE  left(side) = LimitQueues[side]
  <2>1. \A p \in DOMAIN LimitQueues[side] :
            RemoveFirst(LimitQueues[side][p], id) = LimitQueues[side][p] /\ LimitQueues[side][p] # <<>>
    <3> SUFFICES ASSUME NEW p \in DOMAIN LimitQueues[side]
                 PROVE  /\ RemoveFirst(LimitQueues[side][p], id) = LimitQueues[side][p]
                        /\ LimitQueues[side][p] # <<>>
      OBVIOUS
    <3>1. p \in DOMAIN levels[<<"Limit", side>>]
      BY <1>2
    <3>2. LimitQueues[side][p] = levels[<<"Limit", side>>][p].orders
      BY <1>2
    <3> QED BY <1>1, <3>1, <3>2
  <2>2. LimitQueues[side] = [p \in DOMAIN LimitQueues[side] |-> LimitQueues[side][p]]
    BY DEF LimitQueues
  <2> QED BY <2>1, <2>2
<1>4. LimitQueues = [side \in OrderSide |-> LimitQueues[side]]
  BY DEF LimitQueues
<1>5. Priority!WithoutOrder(id) = [side \in OrderSide |-> left(side)]
  BY SameRemoveFirst DEF Priority!WithoutOrder, Priority!Sides, OrderSide
<1> HIDE DEF left
<1> QED BY <1>3, <1>4, <1>5

\* A limit order that rests joins the back of its queue, any other joins none.
LEMMA QueuedQueues ==
    ASSUME NEW o \in OrderRecord, Queued(o), MapOf(o)[1] = "Limit"
    PROVE  LimitQueues' = [LimitQueues EXCEPT ![o.side] =
                Priority!With(LimitQueues[o.side], o.price,
                    IF o.price \in DOMAIN LimitQueues[o.side]
                    THEN Append(LimitQueues[o.side][o.price], o.id) ELSE <<o.id>>)]
<1> DEFINE s    == o.side
           m    == <<"Limit", s>>
           p0   == o.price
           back == IF p0 \in DOMAIN LimitQueues[s] THEN Append(LimitQueues[s][p0], o.id) ELSE <<o.id>>
<1>1. MapOf(o) = m /\ KeyOf(o) = p0 /\ s \in OrderSide
  BY DEF MapOf, KeyOf, OrderRecord
<1>2. /\ DOMAIN LimitQueues = OrderSide
      /\ \A side \in OrderSide :
            /\ DOMAIN LimitQueues[side] = DOMAIN levels[<<"Limit", side>>]
            /\ \A p \in DOMAIN levels[<<"Limit", side>>] :
                    LimitQueues[side][p] = levels[<<"Limit", side>>][p].orders
  BY DEF LimitQueues
<1>3. Append(QueueAt(m, p0), o.id) = back
  <2>1. Append(<<>>, o.id) = <<o.id>>
    OBVIOUS
  <2> QED BY <1>1, <1>2, <2>1 DEF QueueAt
<1>4. /\ DOMAIN levels'[m] = DOMAIN levels[m] \cup {p0}
      /\ \A p \in DOMAIN levels'[m] :
            levels'[m][p].orders = IF p = p0 THEN back ELSE LimitQueues[s][p]
  <2>1. m \in Maps /\ m = MapOf(o) /\ p0 = KeyOf(o)
    BY <1>1, LimitMaps
  <2>2. /\ DOMAIN levels'[m] = DOMAIN levels[m] \cup {p0}
        /\ \A p \in DOMAIN levels'[m] :
                levels'[m][p].orders = IF p = p0 THEN Append(QueueAt(m, p), o.id) ELSE levels[m][p].orders
    <3> HIDE DEF m, p0
    <3> QED BY <2>1 DEF Queued
  <2> HIDE DEF back
  <2> QED BY <1>1, <1>2, <1>3, <2>2
<1>5. ASSUME NEW side \in OrderSide, side # s
      PROVE  LimitQueues'[side] = LimitQueues[side]
  <2>1. <<"Limit", side>> \in Maps /\ <<"Limit", side>> # MapOf(o)
    BY <1>1, <1>5, LimitMaps
  <2>2. /\ DOMAIN levels'[<<"Limit", side>>] = DOMAIN levels[<<"Limit", side>>]
        /\ \A p \in DOMAIN levels[<<"Limit", side>>] :
                levels'[<<"Limit", side>>][p].orders = levels[<<"Limit", side>>][p].orders
    BY <2>1 DEF Queued
  <2> QED BY <2>2 DEF LimitQueues
<1>6. LimitQueues'[s] = Priority!With(LimitQueues[s], p0, back)
  <2>1. LimitQueues'[s] = [p \in DOMAIN levels'[m] |-> levels'[m][p].orders]
    BY <1>1 DEF LimitQueues
  <2>2. DOMAIN LimitQueues[s] = DOMAIN levels[m]
    BY <1>1, <1>2
  <2> HIDE DEF back
  <2> QED BY <1>4, <2>1, <2>2 DEF Priority!With
<1>7. LimitQueues' = [side \in OrderSide |-> LimitQueues'[side]]
  BY DEF LimitQueues
<1>8. LimitQueues = [side \in OrderSide |-> LimitQueues[side]]
  BY DEF LimitQueues
<1> HIDE DEF back
<1>9. LimitQueues' = [LimitQueues EXCEPT ![s] = Priority!With(LimitQueues[s], p0, back)]
  BY <1>5, <1>6, <1>7, <1>8
<1> QED BY <1>9 DEF back

LEMMA QueuedElsewhere ==
    ASSUME NEW o \in OrderRecord, Queued(o), MapOf(o)[1] # "Limit"
    PROVE  LimitQueues' = LimitQueues
<1>1. ASSUME NEW side \in OrderSide
      PROVE  <<"Limit", side>> \in Maps /\ <<"Limit", side>> # MapOf(o)
  <2>1. <<"Limit", side>>[1] = "Limit"
    OBVIOUS
  <2> QED BY <1>1, <2>1, LimitMaps
<1> QED BY <1>1, SameLimitQueues DEF Queued

-----------------------------------------------------------------------------
(* Then the open quantities, and the public calls.                         *)

\* The book its users see, of the orders that rest and of the one in flight.
LEMMA OpenAtRest ==
    ASSUME taker = NoOrder
    PROVE  /\ DOMAIN OpenQuantities = DOMAIN orders
           /\ OpenQuantities = [id \in DOMAIN orders |-> orders[id].open_quantity]
  BY DEF OpenQuantities

LEMMA OpenInFlight ==
    ASSUME taker # NoOrder, taker.id \notin DOMAIN orders
    PROVE  /\ DOMAIN OpenQuantities = DOMAIN orders \cup {taker.id}
           /\ OpenQuantities[taker.id] = taker.open_quantity
           /\ \A id \in DOMAIN orders : OpenQuantities[id] = orders[id].open_quantity
  BY DEF OpenQuantities

LEMMA Unmatched == (pc # "match" => Matched = NoOrder) /\ (pc' # "match" => Matched' = NoOrder)
  BY DEF Matched

\* A trade or a cancel takes what it says from an order, and its place with the last of it;
LEMMA ReducedLoses ==
    ASSUME Inv, pc \notin {"moveAsk", "moveBid"}, taker = NoOrder, taker' = NoOrder,
           NEW id \in DOMAIN orders, NEW o, Reduced(id, o), Loses(id, o),
           NEW lost \in UInt64, o.open_quantity = orders[id].open_quantity - lost
    PROVE  /\ id \in DOMAIN OpenQuantities /\ OpenQuantities[id] = orders[id].open_quantity
           /\ Priority!Lose(id, lost, OpenQuantities)
<1>1. orders[id].open_quantity \in UInt64 /\ UINT64_MAX \in Nat
  BY OrderAt, WidthAssumption DEF OrderRecord
<1>2. isFilled(o) <=> lost = orders[id].open_quantity
  BY <1>1 DEF isFilled, UInt64
<1>3. /\ DOMAIN OpenQuantities = DOMAIN orders
      /\ OpenQuantities = [i \in DOMAIN orders |-> orders[i].open_quantity]
  BY OpenAtRest
<1>4. OpenQuantities' = [i \in DOMAIN orders' |-> orders'[i].open_quantity]
  BY DEF OpenQuantities
<1>5. CASE isFilled(o)
  <2>1. LimitQueues' = Priority!WithoutOrder(id)
    BY <1>5, ReducedQueues, UnqueuedQueues
  <2>2. /\ DOMAIN orders' = DOMAIN orders \ {id}
        /\ \A i \in DOMAIN orders' : orders'[i] = orders[i]
    BY <1>5 DEF Reduced
  <2>3. OpenQuantities' = Priority!Forget(OpenQuantities, id)
    BY <1>3, <1>4, <2>2 DEF Priority!Forget, Priority!Restrict
  <2> QED BY <1>2, <1>3, <1>5, <2>1, <2>3 DEF Priority!Lose
<1>6. CASE ~isFilled(o)
  <2>1. LimitQueues' = LimitQueues
    BY <1>6, ReducedQueues, StillQueues
  <2>2. /\ DOMAIN orders' = DOMAIN orders
        /\ \A i \in DOMAIN orders' : orders'[i] = IF i = id THEN o ELSE orders[i]
    BY <1>6 DEF Reduced
  <2>3. OpenQuantities' = [OpenQuantities EXCEPT ![id] = @ - lost]
    BY <1>3, <1>4, <2>2
  <2> QED BY <1>2, <1>3, <1>6, <2>1, <2>3 DEF Priority!Lose
<1> QED BY <1>5, <1>6

\* a delete takes all of it.
LEMMA RemovedLoses ==
    ASSUME Inv, pc \notin {"moveAsk", "moveBid"}, taker = NoOrder, taker' = NoOrder,
           NEW id \in DOMAIN orders, Removed(id), Erase(orders[id], levels)
    PROVE  /\ id \in DOMAIN OpenQuantities /\ OpenQuantities[id] = orders[id].open_quantity
           /\ Priority!Lose(id, orders[id].open_quantity, OpenQuantities)
<1>1. /\ DOMAIN OpenQuantities = DOMAIN orders
      /\ OpenQuantities = [i \in DOMAIN orders |-> orders[i].open_quantity]
  BY OpenAtRest
<1>2. OpenQuantities' = [i \in DOMAIN orders' |-> orders'[i].open_quantity]
  BY DEF OpenQuantities
<1>3. OpenQuantities' = Priority!Forget(OpenQuantities, id)
  BY <1>1, <1>2 DEF Removed, Priority!Forget, Priority!Restrict
<1>4. LimitQueues' = Priority!WithoutOrder(id)
  BY ErasedQueues, UnqueuedQueues
<1> QED BY <1>1, <1>3, <1>4 DEF Priority!Lose

\* How an owner's step begins.
LEMMA OwnerStep ==
    ASSUME Matched = NoOrder, NEW id \in DOMAIN OpenQuantities,
           NEW quantity \in 1 .. OpenQuantities[id],
           Priority!Cancel(id, quantity) \/ Priority!Execute(id, quantity)
    PROVE  Priority!Next
  BY DEF Priority!Next

LEMMA ExecuteImplements ==
    ASSUME Inv, RestingOrdersLive, pc = "idle", NEW id \in DOMAIN orders,
           NEW q \in UInt64 \ {0}, NEW p \in UInt64, TradeAt(id, q, p), ReturnThroughActivation
    PROVE  Priority!Next
<1>1. /\ taker = NoOrder /\ taker' = NoOrder
      /\ Matched = NoOrder /\ Matched' = NoOrder
      /\ last_traded_price' = p
  BY Unmatched DEF Inv, Scalars, ReturnThroughActivation, TradeAt
<1>2. PICK c \in UInt64, o \in OrderRecord :
            /\ c = Least(q, orders[id].open_quantity) /\ c <= orders[id].open_quantity
            /\ o = execute(orders[id], p, c)
            /\ Reduced(id, o)
            /\ Loses(id, o)
  BY TradeEffect
<1>3. /\ orders[id] \in OrderRecord /\ orders[id].open_quantity \in UInt64
      /\ orders[id].open_quantity # 0 /\ UINT64_MAX \in Nat
  BY OrderAt, WidthAssumption DEF OrderRecord, RestingOrdersLive, isFilled
<1>4. c \in 1 .. orders[id].open_quantity
  BY <1>2, <1>3 DEF Least, UInt64
<1>5. o.open_quantity = orders[id].open_quantity - c
  <2>1. o.open_quantity = Minus(orders[id].open_quantity, c)
    BY <1>2, <1>3 DEF execute, OrderRecord
  <2> QED BY <1>2, <2>1 DEF Minus
<1>6. /\ id \in DOMAIN OpenQuantities /\ OpenQuantities[id] = orders[id].open_quantity
      /\ Priority!Lose(id, c, OpenQuantities)
  BY <1>1, <1>2, <1>5, ReducedLoses
<1>7. Priority!Execute(id, c)
  BY <1>1, <1>6 DEF Priority!Execute, Priority!Prices, UInt64
<1> QED BY <1>1, <1>4, <1>6, <1>7, OwnerStep

LEMMA CancelImplements ==
    ASSUME ~ClientsOverCancel, Inv, NEW id \in Ids, NEW q \in CancelQuantities, CancelOrder(id, q)
    PROVE  Priority!Next
<1>1. /\ id \in DOMAIN orders /\ q <= orders[id].open_quantity /\ pc = "idle"
      /\ q \in UInt64 /\ q # 0
  BY InputAssumption DEF CancelOrder
<1>2. /\ taker = NoOrder /\ taker' = NoOrder
      /\ Matched = NoOrder /\ Matched' = NoOrder
      /\ last_traded_price' = last_traded_price
  BY <1>1, Unmatched DEF Inv, Scalars, CancelOrder, ReturnThroughActivation, prices
<1>3. PICK o \in OrderRecord :
            /\ o = setQuantity(orders[id], q)
            /\ Reduced(id, o)
            /\ Loses(id, o)
  BY CancelEffect
<1>4. orders[id] \in OrderRecord /\ orders[id].open_quantity \in UInt64 /\ UINT64_MAX \in Nat
  BY <1>1, OrderAt, WidthAssumption DEF OrderRecord
<1>5. o.open_quantity = orders[id].open_quantity - q
  <2>1. o.open_quantity = Minus(orders[id].open_quantity, q)
    BY <1>3, <1>4 DEF setQuantity, OrderRecord
  <2> QED BY <1>1, <2>1 DEF Minus
<1>6. /\ id \in DOMAIN OpenQuantities /\ OpenQuantities[id] = orders[id].open_quantity
      /\ Priority!Lose(id, q, OpenQuantities)
  BY <1>1, <1>2, <1>3, <1>5, ReducedLoses
<1>7. q \in 1 .. OpenQuantities[id]
  BY <1>1, <1>4, <1>6 DEF UInt64
<1> QED BY <1>2, <1>6, <1>7, OwnerStep DEF Priority!Cancel

LEMMA DeleteImplements ==
    ASSUME Inv, RestingOrdersLive, NEW id \in Ids, DeleteOrder(id)
    PROVE  Priority!Next
<1>1. id \in DOMAIN orders /\ pc = "idle" /\ Removed(id) /\ Erase(orders[id], levels)
  BY DeleteEffect DEF DeleteOrder
<1>2. /\ taker = NoOrder /\ taker' = NoOrder
      /\ Matched = NoOrder /\ Matched' = NoOrder
      /\ last_traded_price' = last_traded_price
  BY <1>1, Unmatched DEF Inv, Scalars, DeleteOrder, ReturnThroughActivation, prices
<1>3. orders[id].open_quantity \in UInt64 /\ orders[id].open_quantity # 0 /\ UINT64_MAX \in Nat
  BY <1>1, OrderAt, WidthAssumption DEF OrderRecord, RestingOrdersLive, isFilled
<1>4. /\ id \in DOMAIN OpenQuantities /\ OpenQuantities[id] = orders[id].open_quantity
      /\ Priority!Lose(id, orders[id].open_quantity, OpenQuantities)
  BY <1>1, <1>2, RemovedLoses
<1>5. orders[id].open_quantity \in 1 .. OpenQuantities[id]
  BY <1>3, <1>4 DEF UInt64
<1> QED BY <1>2, <1>4, <1>5, OwnerStep DEF Priority!Cancel

LEMMA ReplaceImplements ==
    ASSUME Inv, NEW id \in Ids, NEW new_id \in Ids, NEW p \in ReplacePrices,
           ReplaceOrder(id, new_id, p)
    PROVE  Priority!Next
<1>1. /\ id \in DOMAIN orders /\ pc = "idle" /\ pc' = "add" /\ Erase(orders[id], levels)
      /\ new_id = id \/ new_id \notin DOMAIN orders
  BY DEF ReplaceOrder, Submit
<1>2. /\ Removed(id)
      /\ taker' # NoOrder /\ taker'.id = new_id
      /\ taker'.open_quantity = orders[id].open_quantity
  BY ReplaceEffect, InputAssumption DEF SameOrder
<1>3. /\ taker = NoOrder
      /\ Matched = NoOrder /\ Matched' = NoOrder
      /\ last_traded_price' = last_traded_price
  BY <1>1, Unmatched DEF Inv, Scalars, ReplaceOrder, prices
<1>4. LimitQueues' = Priority!WithoutOrder(id)
  BY <1>1, ErasedQueues, UnqueuedQueues
<1>5. /\ DOMAIN OpenQuantities = DOMAIN orders
      /\ OpenQuantities = [i \in DOMAIN orders |-> orders[i].open_quantity]
  BY <1>3, OpenAtRest
<1>6. OpenQuantities' = [i \in DOMAIN orders' \cup {new_id} |->
                            IF i = new_id THEN orders[id].open_quantity ELSE orders'[i].open_quantity]
  BY <1>2 DEF OpenQuantities
<1>7. OpenQuantities' = Priority!With(Priority!Forget(OpenQuantities, id), new_id, OpenQuantities[id])
  BY <1>1, <1>2, <1>5, <1>6 DEF Removed, Priority!Forget, Priority!Restrict, Priority!With
<1>8. Priority!Replace(id, new_id)
  BY <1>1, <1>3, <1>4, <1>5, <1>7 DEF Priority!Replace
<1> QED BY <1>1, <1>3, <1>5, <1>8 DEF Priority!Next

LEMMA AddImplements ==
    ASSUME Inv, NEW id \in Ids, NEW r \in Submissions, AddOrder(id, r)
    PROVE  Priority!Next
<1>1. /\ id \notin DOMAIN orders /\ pc = "idle" /\ pc' = "add"
      /\ taker' = Construct(id, r) /\ orders' = orders /\ levels' = levels
      /\ last_traded_price' = last_traded_price
  BY DEF AddOrder, Submit, book, prices
<1>2. taker = NoOrder /\ Matched = NoOrder /\ Matched' = NoOrder
  BY <1>1, Unmatched DEF Inv, Scalars
<1>3. /\ taker' # NoOrder /\ taker'.id = id /\ taker'.open_quantity = r.quantity
      /\ r.quantity \in UInt64 \ {0}
  <2>1. Construct(id, r) \in OrderRecord /\ r.quantity > 0 /\ r.quantity \in UInt64
    BY SubmittedOrder DEF Request
  <2>2. Construct(id, r).id = id /\ Construct(id, r).open_quantity = r.quantity
    BY DEF Construct
  <2> QED BY <1>1, <2>1, <2>2, InputAssumption, WidthAssumption DEF UInt64
<1>4. LimitQueues' = LimitQueues
  BY <1>1 DEF LimitQueues
<1>5. /\ DOMAIN OpenQuantities = DOMAIN orders
      /\ OpenQuantities = [i \in DOMAIN orders |-> orders[i].open_quantity]
  BY <1>2, OpenAtRest
<1>6. OpenQuantities' = [i \in DOMAIN orders \cup {id} |->
                            IF i = id THEN r.quantity ELSE orders[i].open_quantity]
  BY <1>1, <1>3 DEF OpenQuantities
<1>7. OpenQuantities' = Priority!With(OpenQuantities, id, r.quantity)
  BY <1>1, <1>5, <1>6 DEF Priority!With
<1>8. r.quantity \in Priority!Prices \ {0}
  BY <1>3 DEF Priority!Prices, UInt64
<1>9. Priority!Accept(id)
  BY <1>1, <1>2, <1>4, <1>5, <1>7, <1>8 DEF Priority!Accept
<1> QED BY <1>9 DEF Priority!Next

-----------------------------------------------------------------------------
(* The order in flight: it is matched, trades, rests or leaves.            *)

LEMMA MatchedOrder ==
    ASSUME taker \in OrderRecord, pc = "match"
    PROVE  /\ Matched = [id |-> taker.id, side |-> taker.side, price |-> taker.price,
                         rests |-> taker.type = "Limit" /\ taker.time_in_force = "GTC"]
           /\ Matched.id = taker.id /\ Matched.side = taker.side /\ Matched.price = taker.price
           /\ Matched.rests <=> (taker.type = "Limit" /\ taker.time_in_force = "GTC")
           /\ Matched # NoOrder
<1>1. Matched = [id |-> taker.id, side |-> taker.side, price |-> taker.price,
                 rests |-> taker.type = "Limit" /\ taker.time_in_force = "GTC"]
  BY DEF Matched
<1>2. Matched \in [id : Ids, side : OrderSide, price : UInt64, rests : BOOLEAN]
  BY <1>1 DEF OrderRecord
<1>3. Matched # NoOrder
  BY <1>2, InputAssumption
<1> QED BY <1>1, <1>3

\* The prices PriorityBook lets it trade at are those of the levels it crosses.
LEMMA AcceptedPrices ==
    ASSUME Static(orders, level_it, levels), taker \in OrderRecord, pc = "match"
    PROVE  /\ Priority!Makers = LimitQueues[Opposite(taker.side)]
           /\ Priority!Accepted = {p \in DOMAIN levels[<<"Limit", Opposite(taker.side)>>] :
                                        Accepts(taker, p)}
           /\ \A p \in DOMAIN levels[<<"Limit", Opposite(taker.side)>>] :
                    Priority!Makers[p] = levels[<<"Limit", Opposite(taker.side)>>][p].orders
<1> DEFINE side == Opposite(taker.side)
<1>1. taker.side \in OrderSide /\ side \in OrderSide
  BY DEF OrderRecord, OrderSide, Opposite
<1>2. Matched.side = taker.side /\ Matched.price = taker.price
  BY MatchedOrder
<1>3. Priority!Makers = LimitQueues[side]
  BY <1>1, <1>2 DEF Priority!Makers, Opposite
<1>4. \A p \in DOMAIN levels[<<"Limit", side>>] : p \in Int
  <2>1. <<"Limit", side>> \in Maps
    BY <1>1, LimitMaps
  <2> QED BY <2>1, WidthAssumption DEF Static, Typed, IsMap, UInt64
<1>5. taker.price \in Int
  BY WidthAssumption DEF OrderRecord, UInt64
<1>6. /\ DOMAIN LimitQueues[side] = DOMAIN levels[<<"Limit", side>>]
      /\ \A p \in DOMAIN levels[<<"Limit", side>>] :
            LimitQueues[side][p] = levels[<<"Limit", side>>][p].orders
  BY <1>1 DEF LimitQueues
<1>7. ASSUME NEW p \in DOMAIN levels[<<"Limit", side>>]
      PROVE  (p = Matched.price \/ Priority!Better(p, Matched.price)) <=> Accepts(taker, p)
  <2>1. p \in Int
    BY <1>4
  <2>2. CASE taker.side = "Bid"
    BY <1>2, <1>5, <2>1, <2>2 DEF Priority!Better, Accepts
  <2>3. CASE taker.side = "Ask"
    BY <1>2, <1>5, <2>1, <2>3 DEF Priority!Better, Accepts
  <2> QED BY <1>1, <2>2, <2>3 DEF OrderSide
<1> HIDE DEF side
<1>8. Priority!Accepted = {p \in DOMAIN levels[<<"Limit", side>>] : Accepts(taker, p)}
  BY <1>3, <1>6, <1>7 DEF Priority!Accepted
<1> QED BY <1>3, <1>6, <1>8 DEF side

LEMMA LeastMin ==
    ASSUME NEW a \in UInt64, NEW b \in UInt64
    PROVE  Priority!Min({a, b}) = Least(a, b)
<1>1. a \in Int /\ b \in Int
  BY WidthAssumption DEF UInt64
<1>2. \A x \in {a, b} : (\A y \in {a, b} : x <= y) => x = Least(a, b)
  BY <1>1 DEF Least
<1>3. Least(a, b) \in {a, b} /\ \A y \in {a, b} : Least(a, b) <= y
  BY <1>1 DEF Least
<1> QED BY <1>2, <1>3 DEF Priority!Min

LEMMA MatchImplements ==
    ASSUME Inv, RestingOrdersLive, MatchOne
    PROVE  Priority!Next
<1>1. pc = "match" /\ pc' = "match" /\ ~isFilled(taker)
  BY DEF MatchOne
<1>2. PICK id \in DOMAIN orders, c \in UInt64, o \in OrderRecord : TradesWith(id, c, o)
  BY MatchEffect
<1>3. Static(orders, level_it, levels)
  BY <1>1, Outside
<1>4. /\ taker \in OrderRecord /\ taker.id \notin DOMAIN orders /\ taker # NoOrder
      /\ orders[id] \in OrderRecord
      /\ UINT64_MAX \in Nat
  BY <1>2, OrderAt, InputAssumption, WidthAssumption DEF TradesWith
<1> DEFINE side == Opposite(taker.side)
           p    == orders[id].price
<1>5. /\ MapOf(orders[id]) = <<"Limit", side>> /\ IsBest(side, p) /\ Accepts(taker, p)
      /\ id = Head(levels[<<"Limit", side>>][p].orders)
      /\ last_traded_price' = p
      /\ p \in DOMAIN levels[<<"Limit", side>>]
  BY <1>2 DEF TradesWith, IsBest, front
<1>6. /\ c = Least(taker.open_quantity, orders[id].open_quantity)
      /\ o = execute(orders[id], p, c) /\ taker' = execute(taker, p, c)
      /\ Reduced(id, o)
      /\ Loses(id, o)
      /\ taker' \in OrderRecord
  BY <1>2 DEF TradesWith
<1>7. /\ taker.open_quantity \in UInt64 /\ orders[id].open_quantity \in UInt64
      /\ taker.open_quantity # 0 /\ orders[id].open_quantity # 0
  BY <1>1, <1>4 DEF OrderRecord, isFilled, RestingOrdersLive
<1>8. /\ c > 0 /\ c <= taker.open_quantity /\ c <= orders[id].open_quantity
      /\ c \in Int /\ taker.open_quantity \in Int /\ orders[id].open_quantity \in Int
  BY <1>4, <1>6, <1>7 DEF Least, UInt64
<1>9. /\ o.open_quantity = orders[id].open_quantity - c
      /\ taker'.open_quantity = taker.open_quantity - c
  <2>1. /\ o.open_quantity = Minus(orders[id].open_quantity, c)
        /\ taker'.open_quantity = Minus(taker.open_quantity, c)
    BY <1>4, <1>6 DEF execute, OrderRecord
  <2> QED BY <1>8, <2>1 DEF Minus
<1>10. Matched' = Matched
  <2>1. /\ taker'.id = taker.id /\ taker'.side = taker.side /\ taker'.price = taker.price
        /\ taker'.type = taker.type /\ taker'.time_in_force = taker.time_in_force
    BY <1>4, <1>6 DEF execute, OrderRecord
  <2> QED BY <1>1, <2>1 DEF Matched
<1>11. Matched # NoOrder /\ Matched.id = taker.id /\ Matched.side = taker.side
  BY <1>1, <1>4, MatchedOrder
<1> HIDE DEF p, side
<1>12. p \in Priority!Accepted /\ ~\E q \in Priority!Accepted : Priority!Better(q, p)
  <2>1. Priority!Accepted = {q \in DOMAIN levels[<<"Limit", side>>] : Accepts(taker, q)}
    BY <1>1, <1>3, <1>4, AcceptedPrices DEF side
  <2>2. <<"Limit", side>> \in Maps
    BY <1>5, <1>4, MapOfType
  <2>3. \A q \in DOMAIN levels[<<"Limit", side>>] : q \in Int
    BY <1>3, <2>2, WidthAssumption DEF Static, Typed, IsMap, UInt64
  <2>4. taker.side \in OrderSide
    BY <1>4 DEF OrderRecord
  <2>5. CASE taker.side = "Bid"
    <3>1. \A q \in DOMAIN levels[<<"Limit", side>>] : q >= p
      BY <1>5, <2>5 DEF IsBest, side, Opposite
    <3> QED BY <1>5, <1>11, <2>1, <2>3, <2>5, <3>1 DEF Priority!Better
  <2>6. CASE taker.side = "Ask"
    <3>1. \A q \in DOMAIN levels[<<"Limit", side>>] : q <= p
      BY <1>5, <2>6 DEF IsBest, side, Opposite
    <3> QED BY <1>5, <1>11, <2>1, <2>3, <2>6, <3>1 DEF Priority!Better
  <2> QED BY <2>4, <2>5, <2>6 DEF OrderSide
<1>13. Head(Priority!Makers[p]) = id
  <2>1. Priority!Makers[p] = levels[<<"Limit", side>>][p].orders
    BY <1>1, <1>3, <1>4, <1>5, AcceptedPrices DEF side
  <2> QED BY <1>5, <2>1
<1>14. /\ DOMAIN OpenQuantities = DOMAIN orders \cup {taker.id}
       /\ OpenQuantities[taker.id] = taker.open_quantity
       /\ \A i \in DOMAIN orders : OpenQuantities[i] = orders[i].open_quantity
  BY <1>4, OpenInFlight
<1>15. Priority!Min({OpenQuantities[Matched.id], OpenQuantities[id]}) = c
  BY <1>6, <1>7, <1>11, <1>14, LeastMin
<1> DEFINE paid == [OpenQuantities EXCEPT ![Matched.id] = @ - c]
<1>16. /\ DOMAIN paid = DOMAIN orders \cup {taker.id}
       /\ paid[taker.id] = taker.open_quantity - c
       /\ \A i \in DOMAIN orders : paid[i] = orders[i].open_quantity
  BY <1>4, <1>11, <1>14
<1>17. OpenQuantities' = [i \in DOMAIN orders' \cup {taker.id} |->
                            IF i = taker.id THEN taker.open_quantity - c ELSE orders'[i].open_quantity]
  <2>1. taker' # NoOrder /\ taker'.id = taker.id
    BY <1>4, <1>6, InputAssumption DEF execute, OrderRecord
  <2> QED BY <1>9, <2>1 DEF OpenQuantities
<1>18. paid = [i \in DOMAIN orders \cup {taker.id} |-> paid[i]]
  BY <1>14
<1>19. isFilled(o) <=> c = orders[id].open_quantity
  BY <1>8, <1>9 DEF isFilled
<1> HIDE DEF paid
<1>20. Priority!Lose(id, c, paid)
  <2>1. CASE isFilled(o)
    <3>1. LimitQueues' = Priority!WithoutOrder(id)
      BY <1>1, <1>6, <2>1, ReducedQueues, UnqueuedQueues
    <3>2. /\ DOMAIN orders' = DOMAIN orders \ {id}
          /\ \A i \in DOMAIN orders' : orders'[i] = orders[i]
      BY <1>6, <2>1 DEF Reduced
    <3>3. OpenQuantities' = Priority!Forget(paid, id)
      BY <1>4, <1>16, <1>17, <3>2 DEF Priority!Forget, Priority!Restrict
    <3> QED BY <1>14, <1>19, <2>1, <3>1, <3>3 DEF Priority!Lose
  <2>2. CASE ~isFilled(o)
    <3>1. LimitQueues' = LimitQueues
      BY <1>1, <1>6, <2>2, ReducedQueues, StillQueues
    <3>2. /\ DOMAIN orders' = DOMAIN orders
          /\ \A i \in DOMAIN orders' : orders'[i] = IF i = id THEN o ELSE orders[i]
      BY <1>6, <2>2 DEF Reduced
    <3>3. OpenQuantities' = [paid EXCEPT ![id] = @ - c]
      BY <1>4, <1>9, <1>16, <1>17, <1>18, <3>2
    <3> QED BY <1>14, <1>19, <2>2, <3>1, <3>3 DEF Priority!Lose
  <2> QED BY <2>1, <2>2
<1>21. Priority!Lose(id, c, [OpenQuantities EXCEPT ![Matched.id] = @ - c])
  BY <1>20 DEF paid
<1>22. Priority!Trade
  BY <1>5, <1>8, <1>10, <1>11, <1>12, <1>13, <1>15, <1>21 DEF Priority!Trade
<1> QED BY <1>22 DEF Priority!Next

LEMMA BeginMatchImplements ==
    ASSUME Inv, BeginMatch
    PROVE  Priority!Next
<1>1. /\ pc = "add" /\ pc' = "match" /\ taker' = Priced(taker)
      /\ orders' = orders /\ levels' = levels /\ last_traded_price' = last_traded_price
  BY DEF BeginMatch, book, prices
<1>2. taker \in OrderRecord /\ taker.id \notin DOMAIN orders /\ taker # NoOrder
  BY <1>1, InputAssumption DEF Inv, Scalars, Flight
<1>3. /\ taker' \in OrderRecord /\ taker' # NoOrder
      /\ taker'.id = taker.id /\ taker'.open_quantity = taker.open_quantity
  <2>1. Priced(taker) \in OrderRecord /\ Priced(taker).id = taker.id
    BY <1>2, PriceType DEF Inv, Scalars
  <2>2. Priced(taker).open_quantity = taker.open_quantity
    BY <1>2 DEF Priced, setPrice, OrderRecord
  <2> QED BY <1>1, <2>1, <2>2, InputAssumption
<1>4. /\ Matched = NoOrder
      /\ Matched' = [id |-> taker'.id, side |-> taker'.side, price |-> taker'.price,
                     rests |-> taker'.type = "Limit" /\ taker'.time_in_force = "GTC"]
  BY <1>1 DEF Matched
<1>5. Matched' \in Priority!Incoming
  BY <1>3, <1>4
  DEF Priority!Incoming, Priority!Sides, Priority!Prices, OrderRecord, OrderSide, UInt64
<1>6. OpenQuantities' = OpenQuantities /\ taker.id \in DOMAIN OpenQuantities
  <2>1. \A i \in DOMAIN orders : i # taker.id
    BY <1>2
  <2> QED BY <1>1, <1>2, <1>3, <2>1 DEF OpenQuantities
<1>7. LimitQueues' = LimitQueues
  BY <1>1 DEF LimitQueues
<1>8. Priority!WithoutOrder(taker.id) = LimitQueues
  <2>1. Static(orders, level_it, levels)
    BY <1>1, Outside
  <2> QED BY <1>2, <2>1, UnqueuedNone
<1>9. Matched'.id = taker.id
  BY <1>3, <1>4
<1> QED BY <1>1, <1>4, <1>5, <1>6, <1>7, <1>8, <1>9 DEF Priority!Enter, Priority!Next

\* Leaving is the same for an order that was matched and for one that could not be.
LEMMA DiscardForgets ==
    ASSUME Inv, pc \in {"add", "match"}, Discard
    PROVE  /\ taker \in OrderRecord /\ taker.id \notin DOMAIN orders /\ taker # NoOrder
           /\ taker.id \in DOMAIN OpenQuantities
           /\ OpenQuantities[taker.id] = taker.open_quantity
           /\ OpenQuantities' = Priority!Forget(OpenQuantities, taker.id)
           /\ LimitQueues' = LimitQueues
           /\ last_traded_price' = last_traded_price
           /\ Matched' = NoOrder
           /\ Static(orders, level_it, levels)
<1>1. /\ taker' = NoOrder /\ pc' = ret
      /\ orders' = orders /\ levels' = levels /\ last_traded_price' = last_traded_price
  BY DEF Discard, Settled, book, prices
<1>2. taker \in OrderRecord /\ taker.id \notin DOMAIN orders /\ taker # NoOrder
  BY InputAssumption DEF Inv, Scalars, Flight
<1>3. pc' # "match"
  BY <1>1 DEF Inv, Scalars, ActivationPCs
<1>4. LimitQueues' = LimitQueues
  BY <1>1 DEF LimitQueues
<1>5. /\ DOMAIN OpenQuantities = DOMAIN orders \cup {taker.id}
      /\ OpenQuantities[taker.id] = taker.open_quantity
      /\ \A i \in DOMAIN orders : OpenQuantities[i] = orders[i].open_quantity
  BY <1>2, OpenInFlight
<1>6. OpenQuantities' = [i \in DOMAIN orders |-> orders[i].open_quantity]
  BY <1>1 DEF OpenQuantities
<1>7. OpenQuantities' = Priority!Forget(OpenQuantities, taker.id)
  BY <1>2, <1>5, <1>6 DEF Priority!Forget, Priority!Restrict
<1>8. Static(orders, level_it, levels)
  BY Outside
<1> QED BY <1>1, <1>2, <1>3, <1>4, <1>5, <1>7, <1>8, Unmatched

\* A fill-or-kill order that is killed is as one its owner cancels at once.
LEMMA KillImplements ==
    ASSUME Inv, Live, KillFok
    PROVE  Priority!Next
<1>1. pc = "add" /\ Discard
  BY DEF KillFok
<1>2. /\ taker \in OrderRecord /\ taker.id \notin DOMAIN orders
      /\ taker.id \in DOMAIN OpenQuantities /\ OpenQuantities[taker.id] = taker.open_quantity
      /\ OpenQuantities' = Priority!Forget(OpenQuantities, taker.id)
      /\ LimitQueues' = LimitQueues /\ last_traded_price' = last_traded_price
      /\ Matched' = NoOrder /\ Static(orders, level_it, levels)
  BY <1>1, DiscardForgets
<1>3. Matched = NoOrder
  BY <1>1, Unmatched
<1>4. taker.open_quantity \in 1 .. OpenQuantities[taker.id]
  <2>1. taker.open_quantity # 0 /\ taker.open_quantity \in UInt64
    BY <1>1, <1>2 DEF Live, isFilled, OrderRecord
  <2> QED BY <1>2, <2>1, WidthAssumption DEF UInt64
<1>5. LimitQueues' = Priority!WithoutOrder(taker.id)
  BY <1>2, UnqueuedNone
<1>6. Priority!Lose(taker.id, taker.open_quantity, OpenQuantities)
  BY <1>2, <1>5 DEF Priority!Lose
<1> QED BY <1>2, <1>3, <1>4, <1>6, OwnerStep DEF Priority!Cancel

LEMMA LeaveImplements ==
    ASSUME Inv, DiscardTaker
    PROVE  Priority!Next
<1>1. pc = "match" /\ Discard /\ ~Rests(taker) /\ (isFilled(taker) \/ NoneAccepted(taker))
  BY DEF DiscardTaker, MatchDone
<1>2. /\ taker \in OrderRecord
      /\ OpenQuantities[taker.id] = taker.open_quantity
      /\ OpenQuantities' = Priority!Forget(OpenQuantities, taker.id)
      /\ LimitQueues' = LimitQueues /\ last_traded_price' = last_traded_price
      /\ Matched' = NoOrder /\ Static(orders, level_it, levels)
  BY <1>1, DiscardForgets
<1>3. /\ Matched # NoOrder /\ Matched.id = taker.id
      /\ Matched.rests <=> (taker.type = "Limit" /\ taker.time_in_force = "GTC")
  BY <1>1, <1>2, MatchedOrder
<1>4. ASSUME ~isFilled(taker) PROVE Priority!Accepted = {} /\ ~Matched.rests
  <2>1. Priority!Accepted = {p \in DOMAIN levels[<<"Limit", Opposite(taker.side)>>] : Accepts(taker, p)}
    BY <1>1, <1>2, AcceptedPrices
  <2> QED BY <1>1, <1>3, <1>4, <2>1 DEF NoneAccepted, Rests
<1>5. isFilled(taker) => OpenQuantities[Matched.id] = 0
  BY <1>2, <1>3 DEF isFilled
<1>6. Priority!Leave
  BY <1>2, <1>3, <1>4, <1>5 DEF Priority!Leave
<1> QED BY <1>6 DEF Priority!Next

LEMMA RestImplements ==
    ASSUME Inv, InsertLimitOrder
    PROVE  Priority!Next
<1>1. /\ pc = "match" /\ Rests(taker) /\ NoneAccepted(taker)
      /\ Insert(taker) /\ taker' = NoOrder /\ pc' = ret
      /\ last_traded_price' = last_traded_price
  BY DEF InsertLimitOrder, MatchDone, Rests, Settled, prices
<1>2. Static(orders, level_it, levels) /\ Rested(taker)
  BY <1>1, Outside, InsertLimitEffect
<1>3. taker \in OrderRecord /\ taker.id \notin DOMAIN orders /\ taker # NoOrder
  BY <1>2, InputAssumption DEF Rested
<1>4. pc' # "match"
  BY <1>1 DEF Inv, Scalars, ActivationPCs
<1>5. Matched' = NoOrder
  BY <1>4, Unmatched
<1>6. /\ Matched # NoOrder /\ Matched.id = taker.id /\ Matched.side = taker.side
      /\ Matched.price = taker.price
      /\ Matched.rests
  BY <1>1, <1>3, MatchedOrder DEF Rests
<1>7. /\ DOMAIN OpenQuantities = DOMAIN orders \cup {taker.id}
      /\ OpenQuantities[taker.id] = taker.open_quantity
      /\ \A i \in DOMAIN orders : OpenQuantities[i] = orders[i].open_quantity
  BY <1>3, OpenInFlight
<1>8. OpenQuantities' = OpenQuantities
  <2>1. OpenQuantities' = [i \in DOMAIN orders' |-> orders'[i].open_quantity]
    BY <1>1 DEF OpenQuantities
  <2>2. OpenQuantities = [i \in DOMAIN OpenQuantities |-> OpenQuantities[i]]
    BY DEF OpenQuantities
  <2> QED BY <1>2, <1>3, <1>7, <2>1, <2>2 DEF Rested
<1>9. Priority!Accepted = {}
  <2>1. Priority!Accepted = {p \in DOMAIN levels[<<"Limit", Opposite(taker.side)>>] : Accepts(taker, p)}
    BY <1>1, <1>2, <1>3, AcceptedPrices
  <2> QED BY <1>1, <2>1 DEF NoneAccepted
<1>10. OpenQuantities[Matched.id] > 0
  <2>1. taker.open_quantity \in UInt64 /\ taker.open_quantity # 0
    BY <1>1, <1>3 DEF OrderRecord, Rests, isFilled
  <2> QED BY <1>6, <1>7, <2>1, WidthAssumption DEF UInt64
<1>11. LimitQueues' = [LimitQueues EXCEPT ![taker.side] =
            Priority!With(LimitQueues[taker.side], taker.price,
                IF taker.price \in DOMAIN LimitQueues[taker.side]
                THEN Append(LimitQueues[taker.side][taker.price], taker.id) ELSE <<taker.id>>)]
  <2>1. Queued(taker)
    BY <1>1, <1>2, <1>3, InsertQueues
  <2>2. MapOf(taker)[1] = "Limit"
    BY <1>1 DEF Rests, MapOf, StopTypes, TrailingTypes
  <2> QED BY <1>3, <2>1, <2>2, QueuedQueues
<1>12. Priority!Rest
  BY <1>1, <1>5, <1>6, <1>8, <1>9, <1>10, <1>11 DEF Priority!Rest
<1> QED BY <1>12 DEF Priority!Next

-----------------------------------------------------------------------------
(* What users do not see.                                                  *)

LEMMA ConvertUnseen ==
    ASSUME Inv, ConvertOnEntry
    PROVE  UNCHANGED Visible
<1>1. /\ pc = "add" /\ pc' = "add" /\ taker' = Converted(taker)
      /\ orders' = orders /\ levels' = levels /\ last_traded_price' = last_traded_price
  BY DEF ConvertOnEntry, book, prices
<1>2. taker \in OrderRecord /\ taker # NoOrder
  BY <1>1, InputAssumption DEF Inv, Scalars
<1>3. taker' # NoOrder /\ taker'.id = taker.id /\ taker'.open_quantity = taker.open_quantity
  <2>1. Converted(taker) \in OrderRecord
    <3>1. taker.id \in Ids /\ 0 \in UInt64
      BY <1>2, WidthAssumption DEF OrderRecord, UInt64
    <3> QED BY <1>2, <3>1, MutatorType
  <2>2. Converted(taker).id = taker.id /\ Converted(taker).open_quantity = taker.open_quantity
    BY <1>2 DEF Converted, OrderRecord
  <2> QED BY <1>1, <2>1, <2>2, InputAssumption
<1>4. OpenQuantities' = OpenQuantities
  BY <1>1, <1>2, <1>3 DEF OpenQuantities
<1>5. LimitQueues' = LimitQueues /\ Matched' = Matched
  BY <1>1 DEF LimitQueues, Matched
<1> QED BY <1>1, <1>4, <1>5 DEF Visible

\* A stop order waits outside the queues,
LEMMA InsertStopUnseen ==
    ASSUME Inv, InsertStopOrder
    PROVE  UNCHANGED Visible
<1> DEFINE o == Entering(taker)
<1>1. /\ pc = "add" /\ pc' = ret /\ taker' = NoOrder /\ Insert(o)
      /\ taker.type \in StopTypes \cup TrailingTypes
      /\ last_traded_price' = last_traded_price
  BY DEF InsertStopOrder, Settled, prices
<1>2. Static(orders, level_it, levels) /\ Rested(o) /\ o.type = taker.type
  BY <1>1, Outside, InsertStopEffect
<1>3. taker \in OrderRecord /\ taker.id \notin DOMAIN orders /\ taker # NoOrder
  BY <1>1, InputAssumption DEF Inv, Scalars, Flight
<1>4. o.id = taker.id /\ o.open_quantity = taker.open_quantity
  <2>1. o.id = taker.id
    BY <1>3, PriceType DEF Entering, Inv, Scalars
  <2>2. o.open_quantity = taker.open_quantity
    BY <1>3 DEF Entering, calculateStopPrice, setStopPrice, OrderRecord
  <2> QED BY <2>1, <2>2
<1> HIDE DEF o
<1>5. pc # "match" /\ pc' # "match"
  BY <1>1 DEF Inv, Scalars, ActivationPCs
<1>6. LimitQueues' = LimitQueues
  <2>1. o \in OrderRecord
    BY <1>2 DEF Rested
  <2>2. Queued(o)
    BY <1>1, <1>2, <2>1, InsertQueues
  <2>3. MapOf(o)[1] # "Limit"
    BY <1>1, <1>2 DEF MapOf, StopTypes, TrailingTypes
  <2> QED BY <2>1, <2>2, <2>3, QueuedElsewhere
<1>7. /\ DOMAIN OpenQuantities = DOMAIN orders \cup {taker.id}
      /\ OpenQuantities[taker.id] = taker.open_quantity
      /\ \A i \in DOMAIN orders : OpenQuantities[i] = orders[i].open_quantity
  BY <1>3, OpenInFlight
<1>8. OpenQuantities' = OpenQuantities
  <2>1. OpenQuantities' = [i \in DOMAIN orders' |-> orders'[i].open_quantity]
    BY <1>1 DEF OpenQuantities
  <2>2. OpenQuantities = [i \in DOMAIN OpenQuantities |-> OpenQuantities[i]]
    BY DEF OpenQuantities
  <2> QED BY <1>2, <1>3, <1>4, <1>7, <2>1, <2>2 DEF Rested
<1> QED BY <1>1, <1>5, <1>6, <1>8, Unmatched DEF Visible

\* and leaves them alone when it is activated.
LEMMA ActivateUnseen ==
    ASSUME Inv, ActivateStopOrder
    PROVE  UNCHANGED Visible
<1>1. pc \in DOMAIN ActivationLoop /\ pc' = "add" /\ last_traded_price' = last_traded_price
  BY DEF ActivateStopOrder, Submit, prices
<1>2. pc \notin {"add", "match", "moveAsk", "moveBid"}
  BY <1>1 DEF ActivationLoop
<1>3. taker = NoOrder /\ Matched = NoOrder /\ Matched' = NoOrder
  BY <1>1, <1>2, Unmatched DEF Inv, Scalars
<1>4. PICK id \in DOMAIN orders :
        /\ Removed(id) /\ Erase(orders[id], levels)
        /\ MapOf(orders[id]) = ActivationLoop[pc]
        /\ taker' = Converted(orders[id]) /\ taker' \in OrderRecord
  BY ActivateEffect
<1>5. Static(orders, level_it, levels)
  BY <1>2, Outside
<1>6. LimitQueues' = LimitQueues
  <2>1. MapOf(orders[id])[1] # "Limit"
    BY <1>1, <1>4 DEF ActivationLoop
  <2>2. Unqueued(id)
    BY <1>2, <1>4, ErasedQueues
  <2> QED BY <1>5, <2>1, <2>2, UnqueuedQueues, UnqueuedNone
<1>7. taker' # NoOrder /\ taker'.id = id /\ taker'.open_quantity = orders[id].open_quantity
  <2>1. orders[id] \in OrderRecord /\ orders[id].id = id
    BY OrderAt
  <2> QED BY <1>4, <2>1, InputAssumption DEF Converted, OrderRecord
<1>8. OpenQuantities = [i \in DOMAIN orders |-> orders[i].open_quantity]
  BY <1>3, OpenAtRest
<1>9. OpenQuantities' = [i \in DOMAIN orders' \cup {id} |->
                            IF i = id THEN orders[id].open_quantity ELSE orders'[i].open_quantity]
  BY <1>7 DEF OpenQuantities
<1>10. OpenQuantities' = OpenQuantities
  BY <1>4, <1>8, <1>9 DEF Removed
<1> QED BY <1>1, <1>3, <1>6, <1>10 DEF Visible

\* A round moves trailing stop orders and nothing else.
LEMMA RoundUnseen ==
    ASSUME Inv, RoundStep
    PROVE  UNCHANGED Visible
<1>1. /\ pc # "match" /\ pc' # "match"
      /\ taker = NoOrder /\ taker' = NoOrder /\ last_traded_price' = last_traded_price
      /\ ~MoveOrder => orders' = orders
  BY RoundEffect DEF ActivationPCs, UpdatePCs
<1>2. Matched' = Matched
  BY <1>1, Unmatched
<1>3. /\ OpenQuantities = [i \in DOMAIN orders |-> orders[i].open_quantity]
      /\ OpenQuantities' = [i \in DOMAIN orders' |-> orders'[i].open_quantity]
  BY <1>1 DEF OpenQuantities
<1>4. OpenQuantities' = OpenQuantities
  <2>1. CASE ~MoveOrder
    BY <1>1, <1>3, <2>1
  <2>2. CASE MoveOrder
    <3>1. PICK id \in DOMAIN orders, o \in OrderRecord :
            Repriced(id, o) /\ o = calculateStopPrice(orders[id])
      BY <2>2, MoveEffect
    <3>2. orders[id] \in OrderRecord
      BY OrderAt
    <3>3. o.open_quantity = orders[id].open_quantity
      BY <3>1, <3>2 DEF calculateStopPrice, setStopPrice, OrderRecord
    <3> QED BY <1>3, <3>1, <3>3 DEF Repriced
  <2> QED BY <2>1, <2>2
<1>5. LimitQueues' = LimitQueues
  <2>1. CASE levels' = levels
    BY <2>1 DEF LimitQueues
  <2>2. CASE MoveOrder \/ SwapLevels
    <3> DEFINE m == UpdatedMap[pc]
    <3>1. pc \in {"moveAsk", "moveBid"}
      BY <2>2 DEF MoveOrder, SwapLevels
    <3>2. m \in Maps /\ m[1] # "Limit"
      BY <3>1 DEF UpdatedMap, Maps, OrderSide
    <3>3. DOMAIN levels = Maps
      BY <3>1 DEF Inv, Shape, Moving, Mid, Typed
    <3>4. PICK map : levels' = [levels EXCEPT ![m] = map]
      BY <2>2 DEF MoveOrder, SwapLevels
    <3> HIDE DEF m
    <3>5. ASSUME NEW side \in OrderSide PROVE levels'[<<"Limit", side>>] = levels[<<"Limit", side>>]
      <4>1. <<"Limit", side>>[1] = "Limit" /\ <<"Limit", side>> \in Maps
        BY <3>5, LimitMaps
      <4> QED BY <3>2, <3>3, <3>4, <4>1
    <3> QED BY <3>5, SameLimitQueues
  <2> QED BY <2>1, <2>2, RoundQueues
<1> QED BY <1>1, <1>2, <1>4, <1>5 DEF Visible

LEMMA PriorityStep ==
    ASSUME ~ClientsOverCancel, Inv, Live, [Next]_vars
    PROVE  Priority!Next \/ UNCHANGED Visible
<1>1. RestingOrdersLive
  BY DEF Live
<1>2. CASE Call
  <2>1. ASSUME NEW id \in Ids, NEW q \in ExecuteQuantities, NEW p \in ExecutePrices,
               ExecuteOrderAt(id, q, p)
        PROVE  Priority!Next
    <3>1. q \in UInt64 \ {0} /\ p \in UInt64
      BY InputAssumption
    <3> QED BY <1>1, <2>1, <3>1, ExecuteImplements DEF ExecuteOrderAt
  <2>2. ASSUME NEW id \in Ids, NEW q \in ExecuteQuantities, ExecuteOrder(id, q) PROVE Priority!Next
    <3>1. /\ pc = "idle" /\ id \in DOMAIN orders
          /\ TradeAt(id, q, orders[id].price) /\ ReturnThroughActivation
      BY <2>2 DEF ExecuteOrder
    <3>2. orders[id].price \in UInt64 /\ q \in UInt64 \ {0}
      BY <3>1, OrderAt, InputAssumption DEF OrderRecord
    <3> QED BY <1>1, <3>1, <3>2, ExecuteImplements
  <2> QED
    BY <1>1, <1>2, <2>1, <2>2, AddImplements, CancelImplements, DeleteImplements, ReplaceImplements
    DEF Call
<1>3. CASE FlightStep
  BY <1>1, <1>3, BeginMatchImplements, KillImplements, MatchImplements, RestImplements,
     LeaveImplements, ConvertUnseen
  DEF FlightStep
<1>4. CASE InsertStopOrder \/ ActivateStopOrder
  BY <1>4, InsertStopUnseen, ActivateUnseen
<1>5. CASE RoundStep
  BY <1>5, RoundUnseen
<1>6. CASE UNCHANGED vars
  BY <1>6 DEF vars, book, prices, Visible, OpenQuantities, LimitQueues, Matched
<1> QED BY <1>2, <1>3, <1>4, <1>5, <1>6, NextCases

LEMMA PriorityInit == Init => Priority!Init
<1> SUFFICES ASSUME Init PROVE Priority!Init
  OBVIOUS
<1>1. OpenQuantities = [id \in {} |-> 0]
  BY DEF Init, OpenQuantities
<1>2. LimitQueues = [side \in OrderSide |-> [p \in {} |-> <<>>]]
  <2>1. ASSUME NEW side \in OrderSide PROVE levels[<<"Limit", side>>] = EmptyMap
    BY LimitMaps DEF Init
  <2>2. DOMAIN EmptyMap = {}
    BY DEF EmptyMap
  <2>3. ASSUME NEW side \in OrderSide
        PROVE  [p \in DOMAIN levels[<<"Limit", side>>] |-> levels[<<"Limit", side>>][p].orders]
                    = [p \in {} |-> <<>>]
    BY <2>1, <2>2
  <2> QED BY <2>3 DEF LimitQueues
<1>3. Matched = NoOrder /\ last_traded_price = 0
  BY DEF Init, Matched
<1> QED BY <1>1, <1>2, <1>3 DEF Priority!Init, Priority!Sides, OrderSide

\* Where callers cancel no more than is open, the book is PriorityBook to its users, whatever
\* happens to levels, indexes and stop orders in between: an order is matched with the oldest
\* at the best price, one trade is one loss of the same quantity on both sides, and no order
\* comes, goes or moves but for a trade, its owner's call, or an end of its match
\* (orderbook.h:17-78, map_orderbook.cpp:16-168, 400-450).
THEOREM BookImplementsPriority == ~ClientsOverCancel => (Spec => ImplementsPriorityBook)
<1> SUFFICES ASSUME ~ClientsOverCancel PROVE Spec => ImplementsPriorityBook
  OBVIOUS
<1>1. Init => Live
  BY DEF Init, Live, RestingOrdersLive
<1>2. Inv /\ Live /\ [Next]_vars => Live'
  BY LiveStep
<1>3. Inv /\ Live /\ [Next]_vars =>
        [Priority!Next]_<<OpenQuantities, LimitQueues, Matched, last_traded_price>>
  BY PriorityStep DEF Visible
<1> QED
  BY <1>1, <1>2, <1>3, PriorityInit, Invariance, PTL DEF Spec, ImplementsPriorityBook, Priority!Spec
=============================================================================
