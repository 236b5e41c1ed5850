---------------------------- MODULE MCTreeStores ----------------------------
(* Instances of TreeStores for TLC. *)
EXTENDS TreeStores

CONSTANTS hA, hB, hC, hD, hE, t1, t2, t3

Commit(v, i, h, b) == [version |-> v, tree |-> 0, index |-> i, hash |-> h, block |-> b]

\* Two chains that part after block 1. Both have two V2 commitments; on the
\* first a V3 commitment takes the same place of its own tree, and both versions
\* take the same nullifier. One transaction unshields three times: once in V2,
\* and in two V3 logs that number their unshields alike. Of three transactions
\* two are on both chains: with the leaves of a chunk imported again they fill
\* more than one TXID tree.
Unspent(id, b) == [id |-> id, block |-> b]

MCCommon == [V2 |-> {Commit("V2", 0, hA, 1)},
             V3 |-> {},
             nullifiers |-> {},
             unshields |-> {},
             transactions |-> {Unspent("r1", 1), Unspent("r2", 1)}]

MCWith(v2, v3, nullifiers, unshields, transactions) ==
    [V2 |-> MCCommon["V2"] \cup v2, V3 |-> MCCommon["V3"] \cup v3,
     nullifiers |-> nullifiers, unshields |-> unshields,
     transactions |-> MCCommon["transactions"] \cup transactions]

MCNullifier(v, txid) ==
    [version |-> v, tree |-> 0, nullifier |-> "n", txid |-> txid, block |-> 2]

MCUnshield(v, txid, i, railgunTxid) ==
    [version |-> v, txid |-> txid, logIndex |-> i, railgunTxid |-> railgunTxid, block |-> 2]

MCChains ==
    {MCWith({Commit("V2", 1, hB, 2), Commit("V2", 2, hD, 2)},
            {Commit("V3", 1, hC, 2)},
            {MCNullifier("V2", t1), MCNullifier("V3", t3)},
            {MCUnshield("V2", t1, 1, "none"), MCUnshield("V3", t1, 0, "r3"), MCUnshield("V3", t1, 0, "r5")},
            {Unspent("r3", 2)}),
     MCWith({Commit("V2", 1, hE, 2)}, {}, {},
            {MCUnshield("V2", t2, NoLogIndex, "r4")},
            {Unspent("r4", 2)})}

\* What the theorems of TreeStores_proofs suppose of the chains is so of these.
ASSUME MCKeysDiffer == KeysDiffer

=============================================================================
