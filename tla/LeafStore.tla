----------------------------- MODULE LeafStore ------------------------------
(***************************************************************************)
(* What a merkle tree store promises its callers (utxotree.MemoryStore and *)
(* txid.MemoryMerkleTreeStore, which keep a map under a mutex): a batch of *)
(* leaves is there as a whole or not at all, one leaf to a place, and a    *)
(* rollback deletes the leaves of the block and of every later one.        *)
(***************************************************************************)
EXTENDS Integers

CONSTANTS
    Leaf,    \* records with at least tree, index and block
    Batch    \* the sets of leaves that may be written at once

VARIABLE leaves

Place(leaf) == <<leaf.tree, leaf.index>>

Init == leaves = {}

UpsertLeaves(batch) ==
    leaves' = {l \in leaves : \A new \in batch : Place(l) # Place(new)} \cup batch

\* The slice ends in a shorter one when a later leaf of the batch has the place
\* of an earlier one: Batch holds what is left of it.
RollbackToBlock(from) == leaves' = {l \in leaves : l.block < from}

Next ==
    \/ \E batch \in Batch : UpsertLeaves(batch)
    \/ \E from \in {l.block : l \in Leaf} : RollbackToBlock(from)

Spec == Init /\ [][Next]_leaves

=============================================================================
