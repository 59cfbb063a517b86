------------------------------- MODULE Order -------------------------------
(***************************************************************************)
(* An order and the operations on it, include/matching/orderbook/order.h   *)
(* and src/matching/orderbook/order.cpp.  The 64-bit and 32-bit widths are *)
(* parameters, so that a small instance wraps and truncates where the      *)
(* program does.  The symbol of an order is left out: a book has one.      *)
(***************************************************************************)
EXTENDS Integers

CONSTANTS Ids,          \* order identifiers
          UINT64_MAX,   \* largest price, quantity or volume
          UINT32_MAX    \* largest value the price parameter of execute() holds

ASSUME WidthAssumption ==
    /\ UINT32_MAX \in Nat \ {0}
    /\ UINT64_MAX \in Nat
    /\ UINT32_MAX < UINT64_MAX

UInt64 == 0 .. UINT64_MAX

OrderType == {"Limit", "Market", "Stop", "StopLimit", "TrailingStop", "TrailingStopLimit"}
OrderSide == {"Bid", "Ask"}
OrderTimeInForce == {"GTC", "FOK", "IOC"}

\* What a caller chooses when it builds an order.
Request == [type : OrderType, side : OrderSide, time_in_force : OrderTimeInForce,
            price : UInt64, stop_price : UInt64, trail_amount : UInt64, quantity : UInt64]

OrderRecord == [id : Ids, type : OrderType, side : OrderSide, time_in_force : OrderTimeInForce,
                price : UInt64, stop_price : UInt64, trail_amount : UInt64, quantity : UInt64,
                executed_quantity : UInt64, open_quantity : UInt64,
                last_executed_price : UInt64, last_executed_quantity : UInt64]

-----------------------------------------------------------------------------
(* 64-bit unsigned arithmetic and the narrowing to 32 bits.                *)

Minus(a, b) == IF b <= a THEN a - b ELSE a - b + (UINT64_MAX + 1)
Plus(a, b)  == IF a + b <= UINT64_MAX THEN a + b ELSE a + b - (UINT64_MAX + 1)
Low32(v)    == v % (UINT32_MAX + 1)

\* Mutated form of Least: the incoming order's quantity is traded, whatever rests.
Least_first(a, b) == a

Least(a, b) == IF a <= b THEN a ELSE b

-----------------------------------------------------------------------------
(* The factories, each for either side, and the requests they accept.      *)

limitOrder(side, price, quantity, tif) ==
    [type |-> "Limit", side |-> side, time_in_force |-> tif, price |-> price,
     stop_price |-> 0, trail_amount |-> 0, quantity |-> quantity]
marketOrder(side, quantity, tif) ==
    [limitOrder(side, 0, quantity, tif) EXCEPT !.type = "Market"]
stopOrder(side, stop_price, quantity, tif) ==
    [limitOrder(side, 0, quantity, tif) EXCEPT !.type = "Stop", !.stop_price = stop_price]
stopLimitOrder(side, price, stop_price, quantity, tif) ==
    [limitOrder(side, price, quantity, tif) EXCEPT !.type = "StopLimit", !.stop_price = stop_price]
trailingStopOrder(side, trail_amount, quantity, tif) ==
    [limitOrder(side, 0, quantity, tif) EXCEPT !.type = "TrailingStop", !.trail_amount = trail_amount]
trailingStopLimitOrder(side, price, trail_amount, quantity, tif) ==
    [limitOrder(side, price, quantity, tif) EXCEPT !.type = "TrailingStopLimit",
                                                   !.trail_amount = trail_amount]

LimitTypes    == {"Limit", "StopLimit", "TrailingStopLimit"}
StopTypes     == {"Stop", "StopLimit"}
TrailingTypes == {"TrailingStop", "TrailingStopLimit"}

\* The assertions of the factories.
FactoryAccepts(r) ==
    /\ r.quantity > 0
    /\ r.type \in LimitTypes => r.price > 0
    /\ r.type \in StopTypes => r.stop_price > 0
    /\ r.type \in TrailingTypes => r.trail_amount > 0
    /\ r.type \notin LimitTypes => r.time_in_force # "GTC"

\* The constructor: nothing executed, everything open.
Construct(order_id, r) ==
    [id |-> order_id, type |-> r.type, side |-> r.side, time_in_force |-> r.time_in_force,
     price |-> r.price, stop_price |-> r.stop_price, trail_amount |-> r.trail_amount,
     quantity |-> r.quantity, executed_quantity |-> 0, open_quantity |-> r.quantity,
     last_executed_price |-> 0, last_executed_quantity |-> 0]

-----------------------------------------------------------------------------
(* Getters and mutators.                                                   *)

isFilled(o) == o.open_quantity = 0

\* Mutated form of execute: the executed quantity is set, not accumulated.
execute_overwrites(o, price, quantity) ==
    [o EXCEPT !.open_quantity = Minus(@, quantity), !.executed_quantity = quantity,
              !.last_executed_price = Low32(price), !.last_executed_quantity = quantity]

\* The price parameter is 32 bits wide: what is recorded is the price narrowed.
execute(o, price, quantity) ==
    [o EXCEPT !.open_quantity = Minus(@, quantity),
              !.executed_quantity = Plus(@, quantity),
              !.last_executed_price = Low32(price),
              !.last_executed_quantity = quantity]

\* Cancels `quantity': the quantity field becomes the amount cancelled.
setQuantity(o, quantity) ==
    [o EXCEPT !.quantity = Least(quantity, o.open_quantity),
              !.open_quantity = Minus(@, quantity)]

setPrice(o, price)           == [o EXCEPT !.price = price]
setStopPrice(o, stop_price)  == [o EXCEPT !.stop_price = stop_price]
setOrderID(o, order_id)      == [o EXCEPT !.id = order_id]

\* A stop or trailing stop order whose stop price is reached becomes a market
\* order; its limit variants become limit orders.
Converted(o) ==
    [o EXCEPT !.type = IF o.type \in {"Stop", "TrailingStop"} THEN "Market" ELSE "Limit",
              !.stop_price = 0, !.trail_amount = 0]
=============================================================================
