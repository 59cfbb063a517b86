---------------------------- MODULE UnorderedMap ----------------------------
(***************************************************************************)
(* What robin_hood::unordered_map (include/utils/robin_hood.h) promises    *)
(* the order book and the markets: maps from keys to values, which a hash  *)
(* that is bad enough may make fail, with entries lost, but never wrong.   *)
(***************************************************************************)
EXTENDS Functions

CONSTANTS Tables, Keys, Values

VARIABLES map,     \* of each table, a function from some of the keys to values
          outcome  \* of the last call: what an insertion returned or threw

Outcomes == {"none", "found", "assigned", "inserted", "erased", "cleared", "copied", "moved",
             "swapped", "overflow_error"}

Nothing == <<>>

Init ==
    /\ map = [t \in Tables |-> Nothing]
    /\ outcome = "none"

Becomes(t, entries) == map' = [map EXCEPT ![t] = entries]

With(entries, k, v) == [x \in DOMAIN entries \cup {k} |-> IF x = k THEN v ELSE entries[x]]

\* emplace() and insert() keep the value of a key that is there, ...
Insert(t, k, v) ==
    /\ k \notin DOMAIN map[t]
    /\ Becomes(t, With(map[t], k, v))
    /\ outcome' = "inserted"

Found(t) == DOMAIN map[t] # {} /\ UNCHANGED map /\ outcome' = "found"

\* ... insert_or_assign() does not.
Assign(t, k, v) ==
    /\ k \in DOMAIN map[t]
    /\ Becomes(t, With(map[t], k, v))
    /\ outcome' = "assigned"

\* An insertion or a change of size fails; what is left are entries of before.
Overflow(t) ==
    /\ \E ks \in SUBSET DOMAIN map[t] : Becomes(t, Restrict(map[t], ks))
    /\ outcome' = "overflow_error"

\* An insertion begins, or only the memory changes.
Keep == UNCHANGED map /\ outcome' = "none"

Erase(t, k) ==
    /\ k \in DOMAIN map[t]
    /\ Becomes(t, Restrict(map[t], DOMAIN map[t] \ {k}))
    /\ outcome' = "erased"

Clear(t) == Becomes(t, Nothing) /\ outcome' = "cleared"

Copy(t, u) == Becomes(t, map[u]) /\ outcome' = "copied"

Move(t, u) ==
    /\ t # u
    /\ map' = [map EXCEPT ![t] = map[u], ![u] = Nothing]
    /\ outcome' = "moved"

Swap(t, u) ==
    /\ map' = [map EXCEPT ![t] = map[u], ![u] = map[t]]
    /\ outcome' = "swapped"

Next ==
    \/ Keep
    \/ \E t \in Tables :
        \/ \E k \in Keys : Erase(t, k)
        \/ \E k \in Keys, v \in Values : Insert(t, k, v) \/ Assign(t, k, v)
        \/ Found(t) \/ Overflow(t)
        \/ Clear(t)
        \/ \E u \in Tables : Copy(t, u) \/ Move(t, u) \/ Swap(t, u)

Spec == Init /\ [][Next]_<<map, outcome>>
=============================================================================
