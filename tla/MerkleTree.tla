----------------------------- MODULE MerkleTree -----------------------------
(***************************************************************************)
(* The sparse merkle tree that the UTXO tree (pkg/utxotree) and the TXID   *)
(* tree (pkg/txid) compute from their leaves, and the proofs that          *)
(* pkg/merkletree verifies. Poseidon is a pair: injective, and known to    *)
(* nobody's inverse. The tree has 2^TreeDepth leaves.                      *)
(***************************************************************************)
EXTENDS Integers, Sequences

CONSTANTS
    TreeDepth,   \* 16 in the code
    ZeroLeaf     \* the hash of an absent leaf

TwoTo[n \in 0 .. TreeDepth] == IF n = 0 THEN 1 ELSE 2 * TwoTo[n - 1]

TreeMaxItems == TwoTo[TreeDepth]

\* Poseidon of two nodes.
hashHexPair(left, right) == <<left, right>>

ZeroHashes[level \in 0 .. TreeDepth] ==
    IF level = 0 THEN ZeroLeaf
    ELSE hashHexPair(ZeroHashes[level - 1], ZeroHashes[level - 1])

ZeroHash(level) == ZeroHashes[level]

\* A node that is not in the sparse level has the hash of an empty subtree.
nodeAtLevel(nodes, level, index) ==
    IF index \in DOMAIN nodes THEN nodes[index] ELSE ZeroHash(level)

\* Mutant of parentLevel: an absent sibling repeats its neighbour.
parentLevelDup(nodes, level) ==
    [p \in {i \div 2 : i \in DOMAIN nodes} |->
        LET own == IF 2 * p \in DOMAIN nodes THEN 2 * p ELSE 2 * p + 1
        IN  hashHexPair(nodes[own],
               IF 2 * p + 1 \in DOMAIN nodes THEN nodes[2 * p + 1] ELSE nodes[own])]

\* One turn of the loop over the levels: only parents of present nodes, and
\* none that equals an empty subtree.
parentLevel(nodes, level) ==
    LET hash(p) == hashHexPair(nodeAtLevel(nodes, level, 2 * p),
                               nodeAtLevel(nodes, level, 2 * p + 1))
    IN  [p \in {q \in {i \div 2 : i \in DOMAIN nodes} :
                   hash(q) # ZeroHash(level + 1)} |-> hash(p)]

\* leaves: index -> hash, for the leaves there are.
buildTreeLevels(leaves) ==
    LET levels[l \in 0 .. TreeDepth] ==
            IF l = 0 THEN leaves ELSE parentLevel(levels[l - 1], l - 1)
    IN  levels

RootOf(leaves) == nodeAtLevel(buildTreeLevels(leaves)[TreeDepth], TreeDepth, 0)

\* index >> level, for every level.
Shifted(index) ==
    LET shifted[level \in 0 .. TreeDepth] ==
            IF level = 0 THEN index ELSE shifted[level - 1] \div 2
    IN  shifted

\* index ^ 1
Sibling(index) == IF index % 2 = 0 THEN index + 1 ELSE index - 1

\* The proof of a leaf there is: the sibling at every level below the root.
proofFromLeaves(leaves, index) ==
    LET levels == buildTreeLevels(leaves)
    IN  [leaf     |-> leaves[index],
         indices  |-> index,
         elements |-> [k \in 1 .. TreeDepth |->
             nodeAtLevel(levels[k - 1], k - 1, Sibling(Shifted(index)[k - 1]))],
         root     |-> nodeAtLevel(levels[TreeDepth], TreeDepth, 0)]

\* The bits of the indices say on which side each element is.
CalculateRoot(proof) ==
    LET current[k \in 0 .. TreeDepth] ==
            IF k = 0 THEN proof.leaf
            ELSE IF Shifted(proof.indices)[k - 1] % 2 = 1
                 THEN hashHexPair(proof.elements[k], current[k - 1])
                 ELSE hashHexPair(current[k - 1], proof.elements[k])
    IN  current[TreeDepth]

VerifyProof(proof) == CalculateRoot(proof) = proof.root

\* What the root is: that of the full tree, with ZeroLeaf at the empty places.
FullRoot(leaves) ==
    LET node[level \in 0 .. TreeDepth] ==
            IF level = 0
            THEN [i \in 0 .. TreeMaxItems - 1 |-> IF i \in DOMAIN leaves THEN leaves[i] ELSE ZeroLeaf]
            ELSE [i \in 0 .. TwoTo[TreeDepth - level] - 1 |->
                     hashHexPair(node[level - 1][2 * i], node[level - 1][2 * i + 1])]
    IN  node[TreeDepth][0]

=============================================================================
