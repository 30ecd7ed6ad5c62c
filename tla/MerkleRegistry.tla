---------------------------- MODULE MerkleRegistry ----------------------------
(***************************************************************************)
(* What the Merkle tree of proofs.ts promises: entries are only appended,   *)
(* up to 2^Depth of them, and once there is one the root is that of the     *)
(* complete binary tree over the entries, padded with the zero leaf.        *)
(***************************************************************************)
EXTENDS Naturals, Sequences

CONSTANTS Depth, Values

VARIABLES entries, root

vars == <<entries, root>>

\* Hashes are terms: no two different inputs have the same hash.
ZeroLeaf == <<"0">>

Leaf(v) == <<v>>

Hash(left, right) == <<left, right>>

\* The powers of two.
TwoTo[n \in 0 .. Depth] == IF n = 0 THEN 1 ELSE 2 * TwoTo[n - 1]

Capacity == TwoTo[Depth]

RootOf(s) ==
    LET layer[l \in 0 .. Depth] ==
            [i \in 0 .. TwoTo[Depth - l] - 1 |->
                IF l = 0
                THEN IF i < Len(s) THEN Leaf(s[i + 1]) ELSE ZeroLeaf
                ELSE Hash(layer[l - 1][2 * i], layer[l - 1][2 * i + 1])]
    IN  layer[Depth][0]

Insert(v) ==
    /\ Len(entries) < Capacity
    /\ entries' = Append(entries, v)
    /\ root' = RootOf(entries')

Next == \E v \in Values : Insert(v)

Init == entries = <<>>

Spec == Init /\ [][Next]_vars
=============================================================================
