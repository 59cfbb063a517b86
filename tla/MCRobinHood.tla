---------------------------- MODULE MCRobinHood ----------------------------
(***************************************************************************)
(* The instance of RobinHood for TLC.  A hash is a home and hash bits; the *)
(* info bytes are 3 bits wide and start with 2 bits of the hash, so that   *)
(* they fill up with a few nodes of one home, and are halved once.         *)
(***************************************************************************)
EXTENDS RobinHood, SequencesExt

CONSTANTS t1, t2, k1, k2, k3, k4, v1, v2

Same(home, bits) == [k \in Keys |-> home * InitialInfoInc + bits]

\* A home for each key, from the first slot on.
Spread == [k \in Keys |-> InitialInfoInc * (IF k = k1 THEN 0 ELSE IF k = k2 THEN 1
                                            ELSE IF k = k3 THEN 3 ELSE 5)]

\* Two homes next to each other, and hash bits that tell keys apart.
Pairs == [k \in Keys |-> IF k = k1 THEN 0 ELSE IF k = k2 THEN 3
                         ELSE InitialInfoInc + (IF k = k3 THEN 0 ELSE 2)]

\* With the first multiplier and with the second.
Hash2(first, second) == 0 :> first @@ 1 :> second

AlwaysBad  == Hash2(Same(0, 0), Same(0, 0))
BadAtFirst == Hash2(Same(1, 3), Spread)
WorseLater == Hash2(Pairs, Same(1, 0))

\* Two homes in a table of 16 slots, which are one in a smaller table.
Strided == Hash2([k \in Keys |-> IF k \in {k1, k2} THEN 0 ELSE 8 * InitialInfoInc], Spread)

\* Programs with one table and four keys, and one with two tables and two keys, one
\* of which gets two values.
OneTable(hash, sizes) ==
    [hash |-> hash, tables |-> {t1}, sizes |-> sizes, nodes |-> [key : Keys, value : {v1}]]
TwoTables(hash) ==
    [hash |-> hash, tables |-> {t1, t2}, sizes |-> {},
     nodes |-> [key : {k1, k2}, value : {v1}] \cup [key : {k1}, value : Values]]

SomePrograms ==
    {OneTable(AlwaysBad, {4}), OneTable(WorseLater, {}), OneTable(Strided, {10}),
     TwoTables(BadAtFirst)}
=============================================================================
