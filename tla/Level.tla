------------------------------- MODULE Level -------------------------------
(***************************************************************************)
(* A price level, include/matching/orderbook/level.h and                   *)
(* src/matching/orderbook/level.cpp, and the std::map of levels the book   *)
(* keeps per side and kind of order.  A level has a volume and the queue   *)
(* of its orders' ids, oldest first; its price is its key in the map.      *)
(***************************************************************************)
EXTENDS Order, Sequences, SequencesExt

LevelRecord == [volume : UInt64, orders : Seq(Ids)]

\* The functions from a subset of S to T.
IsMap(f, S, T) == DOMAIN f \subseteq S /\ f \in [DOMAIN f -> T]

NewLevel == [volume |-> 0, orders |-> <<>>]

empty(level) == level.orders = <<>>
front(level) == Head(level.orders)

\* Mutated form of addOrder: push_front.
addOrder_front(level, o) ==
    [volume |-> Plus(level.volume, o.open_quantity), orders |-> <<o.id>> \o level.orders]

addOrder(level, o) ==
    [volume |-> Plus(level.volume, o.open_quantity), orders |-> Append(level.orders, o.id)]

\* Mutated form of popFront: the volume is not reduced.
popFront_keepsVolume(level, o) == [level EXCEPT !.orders = Tail(@)]

popFront(level, o) ==
    [volume |-> Minus(level.volume, o.open_quantity), orders |-> Tail(level.orders)]

\* Mutated form of deleteOrder: the volume is not reduced.
deleteOrder_keepsVolume(level, o) ==
    [level EXCEPT !.orders = RemoveFirst(@, o.id)]

deleteOrder(level, o) ==
    [volume |-> Minus(level.volume, o.open_quantity),
     orders |-> RemoveFirst(level.orders, o.id)]

reduceVolume(level, amount) == [level EXCEPT !.volume = Minus(@, amount)]

-----------------------------------------------------------------------------
(* std::map: emplace, assignment and erase.                                *)

EmptyMap == [p \in {} |-> NewLevel]

Put(f, x, v)   == [y \in DOMAIN f \cup {x} |-> IF y = x THEN v ELSE f[y]]
Without(f, x)  == [y \in DOMAIN f \ {x} |-> f[y]]

\* emplace(price) followed by addOrder on the level found or created.
Enqueue(map, price, o) ==
    Put(map, price, addOrder(IF price \in DOMAIN map THEN map[price] ELSE NewLevel, o))

\* Mutated form of Unlink: a level left empty stays in the map.
Unlink_keepsLevel(map, price, o) == Put(map, price, deleteOrder(map[price], o))

\* deleteOrder on the level at `price', which is erased when it is left empty.
Unlink(map, price, o) ==
    LET level == deleteOrder(map[price], o)
    IN  IF empty(level) THEN Without(map, price) ELSE Put(map, price, level)
=============================================================================
