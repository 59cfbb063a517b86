--------------------------- MODULE MCMapOrderBook ---------------------------
(***************************************************************************)
(* Instances of MapOrderBook for TLC: the menus of requests callers choose *)
(* from, one per question.  UINT64_MAX is small enough for sums of prices  *)
(* and trail amounts to reach it.                                          *)
(***************************************************************************)
EXTENDS MapOrderBook

\* Matching: two prices, two sizes, every time in force; and stops at the same prices,
\* which what is matched activates.
LimitMenu ==
    {limitOrder(s, p, q, t) : s \in OrderSide, p \in {2, 3}, q \in {1, 2}, t \in {"GTC", "FOK"}}
    \cup {limitOrder(s, 2, 2, "IOC") : s \in OrderSide}
    \cup {marketOrder(s, 2, t) : s \in OrderSide, t \in {"FOK", "IOC"}}
    \cup {stopOrder(s, 2, 1, "IOC") : s \in OrderSide}
    \cup {stopLimitOrder("Bid", 3, 2, 1, "GTC"), stopLimitOrder("Ask", 3, 2, 1, "IOC")}

\* Stops at the prices of the limit orders, so that activations cascade; a price
\* between them, which callers trade at, leaves stops of both sides waiting.
StopMenu ==
    {limitOrder(s, p, 1, "GTC") : s \in OrderSide, p \in {2, 4}}
    \cup {limitOrder("Bid", 4, 2, "GTC"), limitOrder("Ask", 2, 2, "GTC")}
    \cup {stopOrder(s, 2, 1, "IOC") : s \in OrderSide}
    \cup {stopLimitOrder(s, 4, 2, 1, "GTC") : s \in OrderSide}
    \cup {stopLimitOrder("Bid", 2, 4, 1, "FOK")}

\* Trailing stops with two trail amounts; callers move the market with trades
\* of their own (executeOrder at a price).
TrailMenu ==
    {limitOrder(s, 3, 2, "GTC") : s \in OrderSide}
    \cup {trailingStopOrder(s, t, 1, "IOC") : s \in OrderSide, t \in {1, 2}}
    \cup {trailingStopLimitOrder(s, 3, 2, 1, "GTC") : s \in OrderSide}

\* The smallest menus in which the documentation and the code disagree.
FokMenu == {limitOrder(s, 2, q, t) : s \in OrderSide, q \in {1, 2}, t \in {"GTC", "FOK"}}
CancelMenu == {limitOrder(s, 2, q, "GTC") : s \in OrderSide, q \in {1, 4}}

IdSymmetry == Permutations(Ids)
=============================================================================
