---------------------------- MODULE RailgunChain ----------------------------
(***************************************************************************)
(* The chain as the wallet sees it through its log provider: blocks that   *)
(* carry Railgun events, a head that advances, and reorganisations no      *)
(* deeper than the confirmation depth the scan is configured with.         *)
(*                                                                         *)
(* External to the repository: modelled from the questions pkg/wallet and  *)
(* pkg/events ask of it (BlockNumber and FilterLogs).                      *)
(***************************************************************************)
EXTENDS Integers, FiniteSets

CONSTANTS
    Commitment,     \* commitments (shield and transact) the contracts may insert
    Nullifier,      \* nullifier events
    Unshield,       \* unshield events
    RailgunTx,      \* V3 railgun transactions
    VersionOf,      \* event -> the version of the contract that emits it
    KeyOf,          \* event -> what the stores know it by, whatever its version:
                    \*   a commitment's global position (tree and index), a
                    \*   nullifier and its tree, an unshield's transaction and log
    TreeMaxItems,   \* the positions of one UTXO tree (65536)
    Owner,          \* commitment -> "received", "sent" or "foreign" to this wallet
    Spends,         \* nullifier event -> the commitment it spends
    MaxBlock,       \* bound: the last block that is ever mined
    Confirmations   \* CheckpointedScan.Confirmations

\* The TXID versions: the V2 and the V3 contracts emit separate events.
Version == {"V2", "V3"}

Event == Commitment \cup Nullifier \cup Unshield \cup RailgunTx
Block == 1 .. MaxBlock

\* An event as a log provider returns it: with the block that holds it.
Row == [event : Event, block : Block]

ASSUME ChainAssumption ==
    /\ MaxBlock \in Nat \ {0}
    /\ Confirmations \in Nat
    /\ VersionOf \in [Event -> Version]
    /\ KeyOf \in [Event -> Nat]
    /\ TreeMaxItems \in Nat \ {0}
    /\ Owner \in [Commitment -> {"received", "sent", "foreign"}]
    /\ Spends \in [Nullifier -> Commitment]
    /\ \A t \in RailgunTx : VersionOf[t] = "V3"

ASSUME EventKindsDisjoint ==
    /\ Commitment \cap Nullifier = {}
    /\ Commitment \cap Unshield = {}
    /\ Commitment \cap RailgunTx = {}
    /\ Nullifier \cap Unshield = {}
    /\ Nullifier \cap RailgunTx = {}
    /\ Unshield \cap RailgunTx = {}

\* The contracts accept one nullifier of a commitment, in the version that
\* holds the commitment. (The wallet does not look at the version of either:
\* WalletSync goes by MarkedKey.)
ASSUME NullifierAssumption ==
    /\ \A x, y \in Nullifier : Spends[x] = Spends[y] => x = y
    /\ \A x \in Nullifier : VersionOf[Spends[x]] = VersionOf[x]

\* The position whose nullifier a spend of this wallet reveals: that of the
\* note in its tree, which is its global position in the first tree alone.
MarkedKey == [x \in Nullifier |-> KeyOf[Spends[x]] % TreeMaxItems]

VARIABLES
    chain,   \* block -> the events of that block on the canonical chain
    head,    \* the latest block number (0: none)
    peak     \* the greatest head there has been

chainVars == <<chain, head, peak>>

\* The last block no reorganisation replaces any more.
Finalized == peak - Confirmations

OnChain == UNION {chain[b] : b \in Block}

\* A contract gives a position, and takes a nullifier of a tree, once.
KeysOnce(events) ==
    \A e, f \in events :
        /\ VersionOf[e] = VersionOf[f] /\ KeyOf[e] = KeyOf[f]
        /\ {e, f} \subseteq Commitment \/ {e, f} \subseteq Nullifier
        => e = f

\* The rows FilterLogs returns for the contract of version v on lo .. hi.
LogsIn(v, lo, hi) ==
    {r \in Row : /\ lo <= r.block /\ r.block <= hi
                 /\ r.event \in chain[r.block]
                 /\ VersionOf[r.event] = v}

ChainTypeOK ==
    /\ chain \in [Block -> SUBSET Event]
    /\ head \in 0 .. MaxBlock
    /\ peak \in 0 .. MaxBlock

ChainInit ==
    /\ chain = [b \in Block |-> {}]
    /\ head = 0
    /\ peak = 0

\* The next block holds any events that have not happened yet; a commitment is
\* spent in its own block or later.
Mine ==
    /\ head < MaxBlock
    /\ \E new \in SUBSET (Event \ OnChain) :
          /\ \A x \in new \cap Nullifier : Spends[x] \in OnChain \cup new
          /\ KeysOnce(OnChain \cup new)
          /\ chain' = [chain EXCEPT ![head + 1] = new]
    /\ head' = head + 1
    /\ peak' = IF head + 1 > peak THEN head + 1 ELSE peak

\* The blocks from b on are abandoned; their events may be mined again, in
\* other blocks. Finalized blocks stay.
Reorg ==
    /\ \E b \in Block :
          /\ b <= head
          /\ b > Finalized
          /\ chain' = [c \in Block |-> IF c < b THEN chain[c] ELSE {}]
          /\ head' = b - 1
    /\ peak' = peak

=============================================================================
