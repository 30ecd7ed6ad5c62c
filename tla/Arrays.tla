-------------------------------- MODULE Arrays --------------------------------
(***************************************************************************)
(* What filter, flat_map, sort and reduce make of an array, and a spread of  *)
(* an object.  Places are where elements stand: each operation is told by the*)
(* places it keeps and by the order it puts them in, a set of pairs.        *)
(***************************************************************************)
EXTENDS Naturals, FiniteSets, Sequences

\* The members of a finite set in an order of theirs: at n the one that n - 1 stand before.
InOrder(S, before) ==
    LET Position(x) == Cardinality({y \in S : <<y, x>> \in before}) + 1
    IN  [n \in 1 .. Cardinality(S) |-> CHOOSE x \in S : Position(x) = n]

Ascending(S) == {p \in S \X S : p[1] < p[2]}

\* By a key of each place; equals stay as they stand.
ByKey(S, key) ==
    {p \in S \X S : key[p[1]] < key[p[2]] \/ (key[p[1]] = key[p[2]] /\ p[1] < p[2])}

Elements(array, places) == [n \in DOMAIN places |-> array[places[n]]]

\* Array.prototype.filter, Iterator::filter: what is kept stays in order.
Filter(array, Test(_)) ==
    LET kept == {i \in DOMAIN array : Test(array[i])}
    IN  Elements(array, InOrder(kept, Ascending(kept)))

\* Array.prototype.sort of the places kept: it is stable.
Sorted(array, kept, key) == Elements(array, InOrder(kept, ByKey(kept, key)))

\* Array.prototype.push of each of the arrays, one after the other.
Flat(arrays) ==
    LET places == UNION {{n} \X DOMAIN arrays[n] : n \in DOMAIN arrays}
        order  == InOrder(places, {pq \in places \X places :
                      \/ pq[1][1] < pq[2][1]
                      \/ pq[1][1] = pq[2][1] /\ pq[1][2] < pq[2][2]})
    IN  [n \in DOMAIN order |-> arrays[order[n][1]][order[n][2]]]

\* Array.prototype.reduce with a sum.
Sum(numbers) ==
    LET sum[n \in 0 .. Len(numbers)] == IF n = 0 THEN 0 ELSE sum[n - 1] + numbers[n]
    IN  sum[Len(numbers)]

\* {...object, field: value}
With(object, field, value) ==
    [f \in DOMAIN object \cup {field} |-> IF f = field THEN value ELSE object[f]]
=============================================================================
