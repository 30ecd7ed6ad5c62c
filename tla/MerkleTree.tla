------------------------------ MODULE MerkleTree ------------------------------
(***************************************************************************)
(* The Merkle tree of proofs.ts, which keeps every node and updates the     *)
(* path of an inserted leaf, and the proof generator around it. Hashes are  *)
(* terms, as in MerkleRegistry; <<>> is the null that buildEmptyTree leaves *)
(* at the top, for which there is no zero value.                            *)
(***************************************************************************)
EXTENDS Naturals, Sequences

CONSTANTS
    Depth,      \* the depth of the tree
    Values      \* the identities: hashIdentity of distinct entries is distinct

ASSUME DepthIsPositive == Depth \in Nat \ {0}

VARIABLES
    leaves,     \* leaves
    tree        \* tree: the nodes of each level, level 0 being the leaves

merkleVars == <<leaves, tree>>

Hash(left, right) == <<left, right>>

HashIdentity(entry) == <<entry>>

Null == <<>>

zeroValues[i \in 0 .. Depth - 1] ==
    IF i = 0 THEN <<"0">> ELSE Hash(zeroValues[i - 1], zeroValues[i - 1])

\* Math.pow(2, n), for the exponents of a tree.
TwoTo[n \in 0 .. Depth] == IF n = 0 THEN 1 ELSE 2 * TwoTo[n - 1]

Nodes(level) == 0 .. TwoTo[Depth - level] - 1

EmptyTree ==
    [level \in 0 .. Depth |->
        [i \in Nodes(level) |-> IF level < Depth THEN zeroValues[level] ELSE Null]]

Sibling(i) == IF i % 2 = 0 THEN i + 1 ELSE i - 1

\* currentIndex at each level, on the way from a leaf to the top.
Path(leafIndex) ==
    LET path[level \in 0 .. Depth] == IF level = 0 THEN leafIndex ELSE path[level - 1] \div 2
    IN  path

\* Mutant: the sibling is always the right operand.
UpdateTreeFromLeft(t, leafIndex, value) ==
    LET path == Path(leafIndex)
        node[level \in 0 .. Depth] ==
            IF level = 0 THEN value
            ELSE Hash(node[level - 1], t[level - 1][Sibling(path[level - 1])])
    IN  [level \in 0 .. Depth |-> [t[level] EXCEPT ![path[level]] = node[level]]]

\* From the leaf up, each parent is rehashed from the node just written and its sibling.
UpdateTree(t, leafIndex, value) ==
    LET path == Path(leafIndex)
        node[level \in 0 .. Depth] ==
            IF level = 0 THEN value
            ELSE LET sibling == t[level - 1][Sibling(path[level - 1])]
                 IN  IF path[level - 1] % 2 = 0 THEN Hash(node[level - 1], sibling)
                                                ELSE Hash(sibling, node[level - 1])
    IN  [level \in 0 .. Depth |-> [t[level] EXCEPT ![path[level]] = node[level]]]

MerkleInit ==
    /\ leaves = <<>>
    /\ tree = EmptyTree

\* insertLeaf, as addIdentity calls it: a full tree throws.
AddIdentity(entry) ==
    /\ Len(leaves) < TwoTo[Depth]
    /\ leaves' = Append(leaves, HashIdentity(entry))
    /\ tree' = UpdateTree(tree, Len(leaves), HashIdentity(entry))

\* The root of a tree without leaves is the zero value one level below the top.
GetRoot == IF tree[Depth][0] = Null THEN zeroValues[Depth - 1] ELSE tree[Depth][0]

\* Mutant: the path itself instead of the siblings.
GetPath(index) ==
    [root      |-> GetRoot,
     proof     |-> [n \in 1 .. Depth |-> tree[n - 1][Path(index)[n - 1]]],
     leafIndex |-> index,
     leaf      |-> leaves[index + 1]]

GetProof(index) ==
    [root      |-> GetRoot,
     proof     |-> [n \in 1 .. Depth |-> tree[n - 1][Sibling(Path(index)[n - 1])]],
     leafIndex |-> index,
     leaf      |-> leaves[index + 1]]

\* The side of the sibling alternates from level to level; leafIndex is not used.
VerifyProof(p) ==
    LET current[n \in 0 .. Len(p.proof)] ==
            IF n = 0 THEN p.leaf
            ELSE IF (n - 1) % 2 = 0 THEN Hash(current[n - 1], p.proof[n])
                                    ELSE Hash(p.proof[n], current[n - 1])
    IN  current[Len(p.proof)] = p.root

Nullifier(wallet, credential) == <<"nullifier", wallet, credential>>

MockProof(p, nullifier, level) ==
    [pi            |-> <<<<p.root, nullifier>>, p.proof, <<nullifier, p.root>>>>,
     publicSignals |-> <<p.root, nullifier, <<level>>>>,
     merkleRoot    |-> p.root,
     nullifier     |-> nullifier]

Signals(proof) == {proof.publicSignals[i] : i \in DOMAIN proof.publicSignals}

\* The generator's check.
BasicVerify(proof) ==
    /\ Len(proof.publicSignals) >= 2
    /\ {proof.merkleRoot, proof.nullifier} \subseteq Signals(proof)

\* The Anchor client's own check, before it registers the compliance of a wallet.
VerifyProofLocally(proof) ==
    /\ Len(proof.publicSignals) >= 2
    /\ proof.merkleRoot \in Signals(proof)
    /\ proof.nullifier \in Signals(proof)
=============================================================================
