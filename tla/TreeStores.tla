----------------------------- MODULE TreeStores -----------------------------
(***************************************************************************)
(* The stores a Sync writes its rows to: the UTXO tree in one Pebble       *)
(* database, whose keys hold leaves, commitments of V2 and of V3,          *)
(* nullifiers and unshields (pkg/utxotree), and the transactions and their *)
(* TXID tree in two JSON files that are replaced by a rename (pkg/txid).   *)
(* One goroutine imports the blocks in order; the process may die between  *)
(* any two writes, and a reorganisation makes it roll the stores back.     *)
(***************************************************************************)
EXTENDS Integers, Sequences, FiniteSets

CONSTANTS
    TreeDepth, ZeroLeaf,
    Chains,       \* what the chain may hold, reorganisations included
    MaxBlock,     \* bound: blocks 1 .. MaxBlock
    MaxCrashes,   \* bound: deaths of the process
    MaxLeaves,    \* bound: leaves of the TXID tree
    NoLogIndex,   \* an unshield whose log index is not known
    None          \* no transaction

ASSUME StoresAssumption ==
    /\ {TreeDepth, MaxBlock, MaxCrashes, MaxLeaves} \subseteq Nat
    /\ \A chain \in Chains : DOMAIN chain =
          {"V2", "V3", "nullifiers", "unshields", "transactions"}
    /\ \A chain \in Chains : \A kind \in DOMAIN chain : \A e \in chain[kind] : e.block \in Nat \ {0}
    /\ \A chain \in Chains : \A n \in chain["nullifiers"] : n.tree \in Nat /\ n.version \in {"V2", "V3"}

INSTANCE MerkleTree

VARIABLES
    chain,    \* kind -> the events of that kind on the chain
    cursor,   \* the first block that is not imported as a whole
    owed,     \* the block a rollback has to go back to, 0 for none
    db,       \* the Pebble database: key -> value
    written,  \* history: the keys without a version that each version has written
    files,    \* file -> its content, and that of its .tmp
    job,      \* the TXID writer: where it is, its transaction, and those done;
              \* and the versions whose nullifiers of the block are written
    crashes   \* history: deaths so far

vars == <<chain, cursor, owed, db, written, files, job, crashes>>

Version == {"V2", "V3"}
Block == 1 .. MaxBlock
AllCommitments == UNION {c["V2"] \cup c["V3"] : c \in Chains}
AllTransactions == UNION {c["transactions"] : c \in Chains}

-----------------------------------------------------------------------------
(* Keys and values of the Pebble database.                                 *)

pebbleLeafKey(tree, index) == <<"leaf", tree, index>>

pebbleCommitmentKey(version, tree, index) == <<"commitment", version, tree, index>>

pebbleNullifierKey(tree, nullifier) == <<"nullifier", tree, nullifier>>

\* What a row calls one of the unshields of a transaction.
UnshieldName(u) == IF u.logIndex # NoLogIndex THEN u.logIndex ELSE u.railgunTxid

\* Mutant of pebbleUnshieldKey: one unshield to a transaction.
pebbleUnshieldKeyTxid(u) == <<"unshield", u.txid, "none">>

pebbleUnshieldKey(u) == <<"unshield", u.txid, UnshieldName(u)>>

\* LeafFromV2Commitment and LeafFromV3Commitment: the version is not in a leaf.
leafFromCommitment(c) ==
    [tree |-> c.tree, index |-> c.index, hash |-> c.hash, block |-> c.block]

validateLeaf(leaf) == leaf.tree >= 0 /\ leaf.index \in 0 .. TreeMaxItems - 1

\* The values under the keys with a prefix.
pebbleIterPrefix(prefix) == {db[k] : k \in {k \in DOMAIN db : k[1] = prefix}}

pebbleLoadTree(tree) ==
    LET places == {k[3] : k \in {k \in DOMAIN db : k[1] = "leaf" /\ k[2] = tree}}
    IN  [i \in places |-> db[pebbleLeafKey(tree, i)].hash]

Get(key) == {db[k] : k \in DOMAIN db \cap {key}}

GetCommitment(version, tree, index) == Get(pebbleCommitmentKey(version, tree, index))

AnyTree == -1

\* The txid a nullifier was spent in: of one tree, or of the last that has it.
GetNullifierTxid(nullifier, tree) ==
    LET found == IF tree # AnyTree THEN Get(pebbleNullifierKey(tree, nullifier))
                 ELSE {n \in pebbleIterPrefix("nullifier") : n.nullifier = nullifier}
    IN  {n.txid : n \in {n \in found : \A m \in found : m.tree <= n.tree}}

GetUnshieldEventsByTxid(txid) ==
    {db[k] : k \in {k \in DOMAIN db : k[1] = "unshield" /\ k[2] = txid}}

\* utxotree.PebbleStore.Root and Proof, over the leaves of one tree.
Root(tree) == RootOf(pebbleLoadTree(tree))

Error == [leaf |-> ZeroLeaf]

\* A proof only of the commitment that the TXO was decrypted from.
UTXOMerkleProofForTXO(txo) ==
    LET leaves == pebbleLoadTree(txo.tree) IN
    IF txo.index \notin DOMAIN leaves \/ leaves[txo.index] # txo.hash THEN Error
    ELSE proofFromLeaves(leaves, txo.index)

-----------------------------------------------------------------------------
(* The import of block cursor into the database. Each call is one batch.   *)

At(kind) == {e \in chain[kind] : e.block = cursor}

Importing == owed = 0 /\ cursor \in Block /\ job.pc = "idle"

\* The rows of a batch of commitments: a leaf and a commitment for each.
RowsOf(version, batch) ==
    LET leafOf(c)       == pebbleLeafKey(c.tree, c.index)
        commitmentOf(c) == pebbleCommitmentKey(version, c.tree, c.index)
        at(key) == CHOOSE c \in batch : key \in {leafOf(c), commitmentOf(c)}
    IN  [key \in {leafOf(c) : c \in batch} \cup {commitmentOf(c) : c \in batch} |->
            IF key = leafOf(at(key)) THEN leafFromCommitment(at(key)) ELSE at(key)]

\* pebble.Batch.Commit: all rows at once, over what is there.
Put(rows) ==
    db' = [key \in DOMAIN rows \cup DOMAIN db |->
              IF key \in DOMAIN rows THEN rows[key] ELSE db[key]]

UpsertCommitmentEvents(version) ==
    LET batch == At(version) IN
    /\ Importing
    /\ batch # {}
    /\ \A c \in batch : validateLeaf(leafFromCommitment(c))
    /\ Put(RowsOf(version, batch))
    /\ written' = [written EXCEPT ![version] =
                      @ \cup {pebbleLeafKey(c.tree, c.index) : c \in batch}]
    /\ UNCHANGED <<chain, cursor, owed, files, job, crashes>>

\* The nullifiers of one version; the key does not say which.
UpsertNullifiers(version) ==
    LET batch == {n \in At("nullifiers") : n.version = version}
        keyOf(n) == pebbleNullifierKey(n.tree, n.nullifier)
        keys == {keyOf(n) : n \in batch}
    IN  /\ Importing
        /\ batch # {}
        /\ Put([key \in keys |-> CHOOSE n \in batch : keyOf(n) = key])
        /\ written' = [written EXCEPT ![version] = @ \cup keys]
        /\ job' = [job EXCEPT !.upserted = @ \cup {version}]
        /\ UNCHANGED <<chain, cursor, owed, files, crashes>>

\* The unshields of one version: without replaceExisting a key that is there
\* keeps its value; of two of the batch that share a key the last stands.
UpsertUnshieldEvents(version, replaceExisting) ==
    LET batch == {u \in At("unshields") :
                     /\ u.version = version
                     /\ replaceExisting \/ pebbleUnshieldKey(u) \notin DOMAIN db}
        keys == {pebbleUnshieldKey(u) : u \in batch}
    IN  /\ Importing
        /\ batch # {}
        /\ \E last \in [keys -> batch] :
              /\ \A key \in keys : pebbleUnshieldKey(last[key]) = key
              /\ Put(last)
        /\ UNCHANGED <<chain, cursor, owed, written, files, job, crashes>>

-----------------------------------------------------------------------------
(* The files of the transactions and of the TXID tree: a store is loaded,  *)
(* changed, written to its .tmp and renamed, all under its mutex.          *)

File == {"transactions", "txidTree"}

Transactions == files["transactions"].file

Leaves == files["txidTree"].file

\* txid.FileMerkleTreeStore.Proof, over the leaves of one tree.
TxidProof(tree, index) ==
    proofFromLeaves([i \in {l.index : l \in {l \in Leaves : l.tree = tree}} |->
        (CHOOSE l \in Leaves : l.tree = tree /\ l.index = i).hash], index)

\* Mutant of saveLocked: straight to the file, which is torn until it is done.
saveInPlace(file, content) ==
    files' = [files EXCEPT ![file] = [file |-> {}, tmp |-> content]]

\* os.WriteFile to the .tmp beside the file.
saveLocked(file, content) == files' = [files EXCEPT ![file].tmp = content]

\* os.Rename
Rename(file) == files' = [files EXCEPT ![file].file = files[file].tmp]

\* Between two calls, with nothing of the block done.
Idle == [pc |-> "idle", tx |-> None, done |-> {}, upserted |-> {}]

Goto(pc) == job' = [job EXCEPT !.pc = pc]

UpsertTransaction(t) ==
    /\ Importing
    /\ t \in At("transactions") \ job.done
    /\ saveLocked("transactions",
           {u \in Transactions : u.id # t.id} \cup {t})
    /\ job' = [job EXCEPT !.pc = "saved", !.tx = t]
    /\ UNCHANGED <<chain, cursor, owed, db, written, crashes>>

RenameTransactions ==
    /\ job.pc \in {"saved", "rolled"}
    /\ Rename("transactions")
    /\ Goto(IF job.pc = "saved" THEN "position" ELSE "tree")
    /\ UNCHANGED <<chain, cursor, owed, db, written, crashes>>

GetGlobalTreePosition(leaf) == leaf.tree * TreeMaxItems + leaf.index

\* After the last leaf there is, in the next tree if its tree is full.
NextMerkleTreePosition ==
    LET last == {l \in Leaves : \A m \in Leaves :
                    GetGlobalTreePosition(m) <= GetGlobalTreePosition(l)}
        next == IF Leaves = {} THEN 0
                ELSE GetGlobalTreePosition(CHOOSE l \in last : TRUE) + 1
    IN  [tree |-> next \div TreeMaxItems, index |-> next % TreeMaxItems]

\* The hash of a leaf is that of the transaction's id and of its positions.
MerkleLeafFromTransaction(t, position) ==
    [tree |-> position.tree, index |-> position.index, hash |-> t.id, block |-> t.block]

AppendTransactionLeaf ==
    /\ job.pc = "position"
    /\ GetGlobalTreePosition(NextMerkleTreePosition) < MaxLeaves
    /\ saveLocked("txidTree",
           Leaves \cup {MerkleLeafFromTransaction(job.tx, NextMerkleTreePosition)})
    /\ Goto("leafSaved")
    /\ UNCHANGED <<chain, cursor, owed, db, written, crashes>>

RenameTree ==
    /\ job.pc \in {"leafSaved", "treeRolled"}
    /\ Rename("txidTree")
    /\ IF job.pc = "leafSaved"
       THEN /\ job' = [job EXCEPT !.pc = "idle", !.tx = None, !.done = @ \cup {job.tx}]
            /\ UNCHANGED <<cursor, owed>>
       ELSE job' = Idle /\ cursor' = owed /\ owed' = 0
    /\ UNCHANGED <<chain, db, written, crashes>>

\* The block is done when its events are in the stores; then the checkpoint.
Imported ==
    /\ \A v \in Version : \A c \in At(v) :
          GetCommitment(v, c.tree, c.index) = {c}
    /\ \A n \in At("nullifiers") : n.version \in job.upserted
    /\ \A u \in At("unshields") : pebbleUnshieldKey(u) \in DOMAIN db
    /\ \A t \in At("transactions") :
          t \in job.done

SaveCheckpoint ==
    /\ Importing
    /\ Imported
    /\ cursor' = cursor + 1
    /\ job' = Idle
    /\ UNCHANGED <<chain, owed, db, written, files, crashes>>

-----------------------------------------------------------------------------
(* Reorganisations, rollback and death.                                    *)

Below(c, from) == [kind \in DOMAIN c |-> {e \in c[kind] : e.block < from}]

Reorg(from, new) ==
    /\ owed = 0 /\ job.pc = "idle" /\ from <= cursor
    /\ Below(new, from) = Below(chain, from) /\ new # chain
    /\ chain' = new
    /\ owed' = from
    /\ UNCHANGED <<cursor, db, written, files, job, crashes>>

\* What no pebbleDelete...FromBlock of the five prefixes deletes.
Kept(value, from) == value.block < from

\* utxotree.PebbleStore.RollbackToBlock: one batch over all prefixes.
RollbackPebble ==
    /\ owed # 0 /\ job.pc = "idle"
    /\ db' = [key \in {k \in DOMAIN db : Kept(db[k], owed)} |-> db[key]]
    /\ Goto("transactions")
    /\ UNCHANGED <<chain, cursor, owed, written, files, crashes>>

RollbackTransactions ==
    /\ job.pc = "transactions"
    /\ saveLocked("transactions", {t \in Transactions : t.block < owed})
    /\ Goto("rolled")
    /\ UNCHANGED <<chain, cursor, owed, db, written, crashes>>

RollbackTree ==
    /\ job.pc = "tree"
    /\ saveLocked("txidTree", {l \in Leaves : l.block < owed})
    /\ Goto("treeRolled")
    /\ UNCHANGED <<chain, cursor, owed, db, written, crashes>>

Crash ==
    /\ crashes < MaxCrashes
    /\ job # Idle
    /\ job' = Idle
    /\ crashes' = crashes + 1
    /\ UNCHANGED <<chain, cursor, owed, db, written, files>>

Init ==
    /\ chain \in Chains
    /\ cursor = 1 /\ owed = 0 /\ crashes = 0
    /\ db = <<>>
    /\ written = [v \in Version |-> {}]
    /\ files = [f \in File |-> [file |-> {}, tmp |-> {}]]
    /\ job = Idle

Next ==
    \/ \E v \in Version : UpsertCommitmentEvents(v)
    \/ \E v \in Version : UpsertNullifiers(v)
    \/ \E v \in Version, replace \in BOOLEAN : UpsertUnshieldEvents(v, replace)
    \/ \E t \in AllTransactions : UpsertTransaction(t)
    \/ RenameTransactions \/ AppendTransactionLeaf \/ RenameTree
    \/ SaveCheckpoint
    \/ \E from \in Block, new \in Chains : Reorg(from, new)
    \/ RollbackPebble \/ RollbackTransactions \/ RollbackTree
    \/ Crash

Spec == Init /\ [][Next]_vars

-----------------------------------------------------------------------------

\* What the contracts see to on one chain: each version gives a place to one
\* commitment and takes a nullifier of a tree once, and a transaction is in one
\* block. The two versions may give the same place and take the same nullifier,
\* and two V3 logs of one transaction may number their unshields alike
\* (UnshieldKeysDiffer of EventSources).
KeysDiffer ==
    \A c \in Chains :
        /\ \A v \in Version : \A x, y \in c[v] :
              x.tree = y.tree /\ x.index = y.index => x = y
        /\ \A x, y \in c["nullifiers"] :
              x.version = y.version /\ x.tree = y.tree /\ x.nullifier = y.nullifier => x = y
        /\ \A x, y \in c["unshields"] : x.txid = y.txid => x.block = y.block

\* Every key holds the value it stands for, and a leaf keeps its place.
StoresTypeOK ==
    /\ chain \in Chains
    /\ cursor \in 1 .. MaxBlock + 1 /\ owed \in 0 .. MaxBlock
    /\ \A k \in DOMAIN db : k[1] = "leaf" => k = pebbleLeafKey(db[k].tree, db[k].index)
    /\ \A l \in Leaves : validateLeaf(l) /\ l.hash \in {t.id : t \in AllTransactions}
    /\ job.pc \in {"idle", "saved", "position", "leafSaved", "transactions",
                   "rolled", "tree", "treeRolled"}
    /\ crashes \in 0 .. MaxCrashes

\* A proof of a spendable TXO (UTXOMerkleProofForTXO) opens its commitment in
\* the root of the tree, and is refused only when the other version has written
\* the place: V2 and V3 share the leaf keys. A proof of a TXID leaf opens its
\* transaction, at every point a death may come.
ProofOpensCommitment ==
    /\ \A l \in Leaves : LET proof == TxidProof(l.tree, l.index) IN
          VerifyProof(proof) /\ proof.leaf = l.hash
    /\ \A v \in Version : \A c \in chain[v] :
        c.block < cursor /\ owed = 0 =>
            LET proof == UTXOMerkleProofForTXO(c) IN
            IF proof = Error
            THEN \E w \in Version \ {v} : pebbleLeafKey(c.tree, c.index) \in written[w]
            ELSE /\ VerifyProof(proof)
                 /\ proof.leaf = c.hash
                 /\ proof.root = Root(c.tree)
                 /\ proof.root = FullRoot(pebbleLoadTree(c.tree))

\* When no rollback is owed, the rows are those of the chain. What is imported
\* reads back, for every block that is done: the commitment of a place; the
\* transaction of a nullifier, unless the other version has written its key; and
\* of the unshields of a transaction one for every name. No row of a
\* chain that was left is there: an orphan nullifier would make a note spent
\* that is not. The places of the TXID tree are taken in order, from tree to tree.
\* (PebbleStore.RollbackToBlock, pebbleUnshieldKey, NextMerkleTreePosition)
RowsAreTheChains ==
    owed = 0 =>
    /\ \A v \in Version : \A c \in chain[v] : c.block < cursor =>
          GetCommitment(v, c.tree, c.index) = {c}
    /\ \A n \in chain["nullifiers"] : n.block < cursor =>
          \/ n.txid \in GetNullifierTxid(n.nullifier, n.tree)
          \/ \E w \in Version \ {n.version} : pebbleNullifierKey(n.tree, n.nullifier) \in written[w]
    /\ \A u \in chain["unshields"] : u.block < cursor =>
          \E w \in GetUnshieldEventsByTxid(u.txid) \cap chain["unshields"] :
              UnshieldName(w) = UnshieldName(u)
    /\ \A k \in DOMAIN db : k[1] # "leaf" =>
          \E kind \in DOMAIN chain : db[k] \in chain[kind]
    /\ GetNullifierTxid("n", AnyTree) \subseteq {n.txid : n \in chain["nullifiers"]}
    /\ Transactions \subseteq chain["transactions"]
    /\ \A l \in Leaves : \E t \in chain["transactions"] : t.id = l.hash
    /\ \A l \in Leaves : GetGlobalTreePosition(l) = 0 \/
          \E m \in Leaves : GetGlobalTreePosition(m) = GetGlobalTreePosition(l) - 1

\* The tree stores keep what a tree store promises: the Pebble keys of leaves,
\* and the file of the TXID tree with the .tmp beside it, change by whole
\* batches and whole rollbacks only.
Utxo == INSTANCE LeafStore WITH
    Leaf   <- {leafFromCommitment(c) : c \in AllCommitments},
    Batch  <- {{leafFromCommitment(c) : c \in {c \in ch[v] : c.block = b}} :
                  ch \in Chains, v \in Version, b \in Block},
    leaves <- pebbleIterPrefix("leaf")

Txid == INSTANCE LeafStore WITH
    Leaf   <- AllTransactions,
    Batch  <- {{[tree |-> k \div TreeMaxItems, index |-> k % TreeMaxItems,
                 hash |-> t.id, block |-> t.block]} :
                  t \in AllTransactions, k \in 0 .. MaxLeaves - 1},
    leaves <- Leaves

\* Each tree is a leaf store. The Pebble database of both versions, seen through
\* its leaf keys: every batch commits whole, and a rollback deletes the blocks
\* from one on (PebbleStore.UpsertLeaves, RollbackToBlock). The TXID tree, seen
\* through the file a reader opens, whatever write of its temporary file a death
\* interrupts (FileMerkleTreeStore.saveLocked).
ImplementsLeafStore == Utxo!Spec /\ Txid!Spec

=============================================================================
