-------------------------- MODULE TreeStores_proofs --------------------------
(***************************************************************************)
(* Proofs about TreeStores and MerkleTree: the sparse tree has the root of *)
(* the full one and its proofs open, the rows of the stores are those of   *)
(* the chain, and each tree implements a LeafStore.                        *)
(***************************************************************************)
EXTENDS TreeStores, WellFoundedInduction, TLAPS

\* A set of naturals has a least one.
LEMMA LeastNat ==
    ASSUME NEW T \in SUBSET Nat, T # {}
    PROVE  \E m \in T : \A n \in T : m <= n
<1>. DEFINE R == OpToRel(<, Nat)
<1>1. IsWellFoundedOn(R, Nat)
  BY NatLessThanWellFounded
<1>2. \A n, m \in Nat : <<n, m>> \in R <=> n < m
  BY DEF OpToRel
<1>. HIDE DEF R
<1>3. PICK m \in T : \A n \in T : ~ (<<n, m>> \in R)
  BY <1>1, WFMin
<1>4. \A n \in T : ~ (n < m)
  <2>. TAKE n \in T
  <2>1. n \in Nat /\ m \in Nat
    OBVIOUS
  <2>. QED
    BY <1>2, <1>3, <2>1
<1>. QED
  BY <1>4

\* A set that holds 0 and, with a number, the next one, holds all that are counted.
LEMMA Climb ==
    ASSUME NEW N \in Nat, NEW T, 0 \in T,
           \A n \in 0 .. N - 1 : n \in T => n + 1 \in T
    PROVE  \A n \in 0 .. N : n \in T
<1>. DEFINE Out == {n \in 0 .. N : n \notin T}
<1>. SUFFICES ASSUME Out # {} PROVE FALSE
  OBVIOUS
<1>1. Out \in SUBSET Nat
  OBVIOUS
<1>2. PICK m \in Out : \A n \in Out : m <= n
  BY <1>1, LeastNat
<1>3. m # 0 /\ m - 1 \in 0 .. N - 1 /\ m - 1 \notin Out
  BY <1>2
<1>4. (m - 1) + 1 \in T
  BY <1>3
<1>. QED
  BY <1>2, <1>4

-----------------------------------------------------------------------------
(* The functions of the levels are what their definitions say.             *)

LEMMA TwoToIs ==
    ASSUME TreeDepth \in Nat
    PROVE  TwoTo = [n \in 0 .. TreeDepth |-> IF n = 0 THEN 1 ELSE 2 * TwoTo[n - 1]]
<1>. DEFINE Step(n, x) == 2 * x
            Is(g, m) == /\ g = [n \in 0 .. m |-> g[n]]
                        /\ \A n \in 0 .. m : g[n] = IF n = 0 THEN 1 ELSE Step(n, g[n - 1])
            Good == {m \in 0 .. TreeDepth : \E g : Is(g, m)}
<1>. HIDE DEF Step
<1>1. 0 \in Good
  <2>1. PICK h : h = [n \in 0 .. 0 |-> 1]
    OBVIOUS
  <2>2. h = [n \in 0 .. 0 |-> h[n]]
    BY <2>1
  <2>3. \A n \in 0 .. 0 : h[n] = IF n = 0 THEN 1 ELSE Step(n, h[n - 1])
    BY <2>1
  <2>. QED
    BY <2>2, <2>3
<1>2. ASSUME NEW m \in 0 .. TreeDepth - 1, m \in Good
      PROVE  m + 1 \in Good
  <2>1. PICK g : Is(g, m)
    BY <1>2
  <2>2. m \in Nat /\ m + 1 \in 0 .. TreeDepth
    OBVIOUS
  <2>. HIDE DEF Good
  <2>3. PICK h : h = [n \in 0 .. m + 1 |-> IF n = 0 THEN 1 ELSE Step(n, g[n - 1])]
    OBVIOUS
  <2>4. \A n \in 0 .. m : h[n] = g[n]
    <3>. TAKE n \in 0 .. m
    <3>1. n \in 0 .. m + 1 /\ h[n] = IF n = 0 THEN 1 ELSE Step(n, g[n - 1])
      BY <2>2, <2>3
    <3>2. g[n] = IF n = 0 THEN 1 ELSE Step(n, g[n - 1])
      BY <2>1 DEF Is
    <3>. QED
      BY <3>1, <3>2
  <2>5. h = [n \in 0 .. m + 1 |-> h[n]]
    BY <2>3
  <2>6. \A n \in 0 .. m + 1 : h[n] = IF n = 0 THEN 1 ELSE Step(n, h[n - 1])
    <3>. TAKE n \in 0 .. m + 1
    <3>1. h[n] = IF n = 0 THEN 1 ELSE Step(n, g[n - 1])
      BY <2>3
    <3>2. n # 0 => n - 1 \in 0 .. m
      BY <2>2
    <3>. QED
      BY <2>4, <3>1, <3>2
  <2>. QED
    BY <2>2, <2>5, <2>6 DEF Good, Is
<1>3. TreeDepth \in Good
  <2>. HIDE DEF Good
  <2>. QED
    BY <1>1, <1>2, Climb
<1>4. PICK g : Is(g, TreeDepth)
  BY <1>3
<1>5. g = [n \in 0 .. TreeDepth |-> IF n = 0 THEN 1 ELSE Step(n, g[n - 1])]
  BY <1>4
<1>. QED
  BY <1>5 DEF Step, TwoTo

LEMMA ZeroHashesAre ==
    ASSUME TreeDepth \in Nat
    PROVE  ZeroHashes = [n \in 0 .. TreeDepth |->
                            IF n = 0 THEN ZeroLeaf ELSE hashHexPair(ZeroHashes[n - 1], ZeroHashes[n - 1])]
<1>. DEFINE Step(n, x) == hashHexPair(x, x)
            Is(g, m) == /\ g = [n \in 0 .. m |-> g[n]]
                        /\ \A n \in 0 .. m : g[n] = IF n = 0 THEN ZeroLeaf ELSE Step(n, g[n - 1])
            Good == {m \in 0 .. TreeDepth : \E g : Is(g, m)}
<1>. HIDE DEF Step
<1>1. 0 \in Good
  <2>1. PICK h : h = [n \in 0 .. 0 |-> ZeroLeaf]
    OBVIOUS
  <2>2. h = [n \in 0 .. 0 |-> h[n]]
    BY <2>1
  <2>3. \A n \in 0 .. 0 : h[n] = IF n = 0 THEN ZeroLeaf ELSE Step(n, h[n - 1])
    BY <2>1
  <2>. QED
    BY <2>2, <2>3
<1>2. ASSUME NEW m \in 0 .. TreeDepth - 1, m \in Good
      PROVE  m + 1 \in Good
  <2>1. PICK g : Is(g, m)
    BY <1>2
  <2>2. m \in Nat /\ m + 1 \in 0 .. TreeDepth
    OBVIOUS
  <2>. HIDE DEF Good
  <2>3. PICK h : h = [n \in 0 .. m + 1 |-> IF n = 0 THEN ZeroLeaf ELSE Step(n, g[n - 1])]
    OBVIOUS
  <2>4. \A n \in 0 .. m : h[n] = g[n]
    <3>. TAKE n \in 0 .. m
    <3>1. n \in 0 .. m + 1 /\ h[n] = IF n = 0 THEN ZeroLeaf ELSE Step(n, g[n - 1])
      BY <2>2, <2>3
    <3>2. g[n] = IF n = 0 THEN ZeroLeaf ELSE Step(n, g[n - 1])
      BY <2>1 DEF Is
    <3>. QED
      BY <3>1, <3>2
  <2>5. h = [n \in 0 .. m + 1 |-> h[n]]
    BY <2>3
  <2>6. \A n \in 0 .. m + 1 : h[n] = IF n = 0 THEN ZeroLeaf ELSE Step(n, h[n - 1])
    <3>. TAKE n \in 0 .. m + 1
    <3>1. h[n] = IF n = 0 THEN ZeroLeaf ELSE Step(n, g[n - 1])
      BY <2>3
    <3>2. n # 0 => n - 1 \in 0 .. m
      BY <2>2
    <3>. QED
      BY <2>4, <3>1, <3>2
  <2>. QED
    BY <2>2, <2>5, <2>6 DEF Good, Is
<1>3. TreeDepth \in Good
  <2>. HIDE DEF Good
  <2>. QED
    BY <1>1, <1>2, Climb
<1>4. PICK g : Is(g, TreeDepth)
  BY <1>3
<1>5. g = [n \in 0 .. TreeDepth |-> IF n = 0 THEN ZeroLeaf ELSE Step(n, g[n - 1])]
  BY <1>4
<1>. QED
  BY <1>5 DEF Step, ZeroHashes

LEMMA ShiftedIs ==
    ASSUME TreeDepth \in Nat, NEW index
    PROVE  Shifted(index) = [n \in 0 .. TreeDepth |-> IF n = 0 THEN index ELSE Shifted(index)[n - 1] \div 2]
<1>. DEFINE Step(n, x) == x \div 2
            Is(g, m) == /\ g = [n \in 0 .. m |-> g[n]]
                        /\ \A n \in 0 .. m : g[n] = IF n = 0 THEN index ELSE Step(n, g[n - 1])
            Good == {m \in 0 .. TreeDepth : \E g : Is(g, m)}
<1>. HIDE DEF Step
<1>1. 0 \in Good
  <2>1. PICK h : h = [n \in 0 .. 0 |-> index]
    OBVIOUS
  <2>2. h = [n \in 0 .. 0 |-> h[n]]
    BY <2>1
  <2>3. \A n \in 0 .. 0 : h[n] = IF n = 0 THEN index ELSE Step(n, h[n - 1])
    BY <2>1
  <2>. QED
    BY <2>2, <2>3
<1>2. ASSUME NEW m \in 0 .. TreeDepth - 1, m \in Good
      PROVE  m + 1 \in Good
  <2>1. PICK g : Is(g, m)
    BY <1>2
  <2>2. m \in Nat /\ m + 1 \in 0 .. TreeDepth
    OBVIOUS
  <2>. HIDE DEF Good
  <2>3. PICK h : h = [n \in 0 .. m + 1 |-> IF n = 0 THEN index ELSE Step(n, g[n - 1])]
    OBVIOUS
  <2>4. \A n \in 0 .. m : h[n] = g[n]
    <3>. TAKE n \in 0 .. m
    <3>1. n \in 0 .. m + 1 /\ h[n] = IF n = 0 THEN index ELSE Step(n, g[n - 1])
      BY <2>2, <2>3
    <3>2. g[n] = IF n = 0 THEN index ELSE Step(n, g[n - 1])
      BY <2>1 DEF Is
    <3>. QED
      BY <3>1, <3>2
  <2>5. h = [n \in 0 .. m + 1 |-> h[n]]
    BY <2>3
  <2>6. \A n \in 0 .. m + 1 : h[n] = IF n = 0 THEN index ELSE Step(n, h[n - 1])
    <3>. TAKE n \in 0 .. m + 1
    <3>1. h[n] = IF n = 0 THEN index ELSE Step(n, g[n - 1])
      BY <2>3
    <3>2. n # 0 => n - 1 \in 0 .. m
      BY <2>2
    <3>. QED
      BY <2>4, <3>1, <3>2
  <2>. QED
    BY <2>2, <2>5, <2>6 DEF Good, Is
<1>3. TreeDepth \in Good
  <2>. HIDE DEF Good
  <2>. QED
    BY <1>1, <1>2, Climb
<1>4. PICK g : Is(g, TreeDepth)
  BY <1>3
<1>5. g = [n \in 0 .. TreeDepth |-> IF n = 0 THEN index ELSE Step(n, g[n - 1])]
  BY <1>4
<1>. QED
  BY <1>5 DEF Step, Shifted

LEMMA LevelsAre ==
    ASSUME TreeDepth \in Nat, NEW leaves
    PROVE  buildTreeLevels(leaves) = [n \in 0 .. TreeDepth |->
               IF n = 0 THEN leaves ELSE parentLevel(buildTreeLevels(leaves)[n - 1], n - 1)]
<1>. DEFINE Step(n, x) == parentLevel(x, n - 1)
            Is(g, m) == /\ g = [n \in 0 .. m |-> g[n]]
                        /\ \A n \in 0 .. m : g[n] = IF n = 0 THEN leaves ELSE Step(n, g[n - 1])
            Good == {m \in 0 .. TreeDepth : \E g : Is(g, m)}
<1>. HIDE DEF Step
<1>1. 0 \in Good
  <2>1. PICK h : h = [n \in 0 .. 0 |-> leaves]
    OBVIOUS
  <2>2. h = [n \in 0 .. 0 |-> h[n]]
    BY <2>1
  <2>3. \A n \in 0 .. 0 : h[n] = IF n = 0 THEN leaves ELSE Step(n, h[n - 1])
    BY <2>1
  <2>. QED
    BY <2>2, <2>3
<1>2. ASSUME NEW m \in 0 .. TreeDepth - 1, m \in Good
      PROVE  m + 1 \in Good
  <2>1. PICK g : Is(g, m)
    BY <1>2
  <2>2. m \in Nat /\ m + 1 \in 0 .. TreeDepth
    OBVIOUS
  <2>. HIDE DEF Good
  <2>3. PICK h : h = [n \in 0 .. m + 1 |-> IF n = 0 THEN leaves ELSE Step(n, g[n - 1])]
    OBVIOUS
  <2>4. \A n \in 0 .. m : h[n] = g[n]
    <3>. TAKE n \in 0 .. m
    <3>1. n \in 0 .. m + 1 /\ h[n] = IF n = 0 THEN leaves ELSE Step(n, g[n - 1])
      BY <2>2, <2>3
    <3>2. g[n] = IF n = 0 THEN leaves ELSE Step(n, g[n - 1])
      BY <2>1 DEF Is
    <3>. QED
      BY <3>1, <3>2
  <2>5. h = [n \in 0 .. m + 1 |-> h[n]]
    BY <2>3
  <2>6. \A n \in 0 .. m + 1 : h[n] = IF n = 0 THEN leaves ELSE Step(n, h[n - 1])
    <3>. TAKE n \in 0 .. m + 1
    <3>1. h[n] = IF n = 0 THEN leaves ELSE Step(n, g[n - 1])
      BY <2>3
    <3>2. n # 0 => n - 1 \in 0 .. m
      BY <2>2
    <3>. QED
      BY <2>4, <3>1, <3>2
  <2>. QED
    BY <2>2, <2>5, <2>6 DEF Good, Is
<1>3. TreeDepth \in Good
  <2>. HIDE DEF Good
  <2>. QED
    BY <1>1, <1>2, Climb
<1>4. PICK g : Is(g, TreeDepth)
  BY <1>3
<1>5. g = [n \in 0 .. TreeDepth |-> IF n = 0 THEN leaves ELSE Step(n, g[n - 1])]
  BY <1>4
<1>. QED
  BY <1>5 DEF Step, buildTreeLevels

LEMMA CurrentIs ==
    ASSUME TreeDepth \in Nat, NEW proof
    PROVE  \E current :
              /\ current = [n \in 0 .. TreeDepth |->
                               IF n = 0 THEN proof.leaf
                               ELSE IF Shifted(proof.indices)[n - 1] % 2 = 1
                                    THEN hashHexPair(proof.elements[n], current[n - 1])
                                    ELSE hashHexPair(current[n - 1], proof.elements[n])]
              /\ CalculateRoot(proof) = current[TreeDepth]
<1>. DEFINE Step(n, x) == IF Shifted(proof.indices)[n - 1] % 2 = 1
                          THEN hashHexPair(proof.elements[n], x)
                          ELSE hashHexPair(x, proof.elements[n])
            Is(g, m) == /\ g = [n \in 0 .. m |-> g[n]]
                        /\ \A n \in 0 .. m : g[n] = IF n = 0 THEN proof.leaf ELSE Step(n, g[n - 1])
            Good == {m \in 0 .. TreeDepth : \E g : Is(g, m)}
<1>. HIDE DEF Step
<1>1. 0 \in Good
  <2>1. PICK h : h = [n \in 0 .. 0 |-> proof.leaf]
    OBVIOUS
  <2>2. h = [n \in 0 .. 0 |-> h[n]]
    BY <2>1
  <2>3. \A n \in 0 .. 0 : h[n] = IF n = 0 THEN proof.leaf ELSE Step(n, h[n - 1])
    BY <2>1
  <2>. QED
    BY <2>2, <2>3
<1>2. ASSUME NEW m \in 0 .. TreeDepth - 1, m \in Good
      PROVE  m + 1 \in Good
  <2>1. PICK g : Is(g, m)
    BY <1>2
  <2>2. m \in Nat /\ m + 1 \in 0 .. TreeDepth
    OBVIOUS
  <2>. HIDE DEF Good
  <2>3. PICK h : h = [n \in 0 .. m + 1 |-> IF n = 0 THEN proof.leaf ELSE Step(n, g[n - 1])]
    OBVIOUS
  <2>4. \A n \in 0 .. m : h[n] = g[n]
    <3>. TAKE n \in 0 .. m
    <3>1. n \in 0 .. m + 1 /\ h[n] = IF n = 0 THEN proof.leaf ELSE Step(n, g[n - 1])
      BY <2>2, <2>3
    <3>2. g[n] = IF n = 0 THEN proof.leaf ELSE Step(n, g[n - 1])
      BY <2>1 DEF Is
    <3>. QED
      BY <3>1, <3>2
  <2>5. h = [n \in 0 .. m + 1 |-> h[n]]
    BY <2>3
  <2>6. \A n \in 0 .. m + 1 : h[n] = IF n = 0 THEN proof.leaf ELSE Step(n, h[n - 1])
    <3>. TAKE n \in 0 .. m + 1
    <3>1. h[n] = IF n = 0 THEN proof.leaf ELSE Step(n, g[n - 1])
      BY <2>3
    <3>2. n # 0 => n - 1 \in 0 .. m
      BY <2>2
    <3>. QED
      BY <2>4, <3>1, <3>2
  <2>. QED
    BY <2>2, <2>5, <2>6 DEF Good, Is
<1>3. TreeDepth \in Good
  <2>. HIDE DEF Good
  <2>. QED
    BY <1>1, <1>2, Climb
<1>4. PICK g : Is(g, TreeDepth)
  BY <1>3
<1>5. g = [n \in 0 .. TreeDepth |-> IF n = 0 THEN proof.leaf ELSE Step(n, g[n - 1])]
  BY <1>4
<1>. QED
  BY <1>5 DEF Step, CalculateRoot

LEMMA FullNodesAre ==
    ASSUME TreeDepth \in Nat, NEW leaves
    PROVE  \E node :
              /\ node = [n \in 0 .. TreeDepth |->
                            IF n = 0 THEN [i \in 0 .. TreeMaxItems - 1 |->
                                              IF i \in DOMAIN leaves THEN leaves[i] ELSE ZeroLeaf]
                            ELSE [i \in 0 .. TwoTo[TreeDepth - n] - 1 |->
                                     hashHexPair(node[n - 1][2 * i], node[n - 1][2 * i + 1])]]
              /\ FullRoot(leaves) = node[TreeDepth][0]
<1>. DEFINE Step(n, x) == [i \in 0 .. TwoTo[TreeDepth - n] - 1 |-> hashHexPair(x[2 * i], x[2 * i + 1])]
            Bottom == [i \in 0 .. TreeMaxItems - 1 |-> IF i \in DOMAIN leaves THEN leaves[i] ELSE ZeroLeaf]
            Is(g, m) == /\ g = [n \in 0 .. m |-> g[n]]
                        /\ \A n \in 0 .. m : g[n] = IF n = 0 THEN Bottom ELSE Step(n, g[n - 1])
            Good == {m \in 0 .. TreeDepth : \E g : Is(g, m)}
<1>. HIDE DEF Step, Bottom
<1>1. 0 \in Good
  <2>1. PICK h : h = [n \in 0 .. 0 |-> Bottom]
    OBVIOUS
  <2>2. h = [n \in 0 .. 0 |-> h[n]]
    BY <2>1
  <2>3. \A n \in 0 .. 0 : h[n] = IF n = 0 THEN Bottom ELSE Step(n, h[n - 1])
    BY <2>1
  <2>. QED
    BY <2>2, <2>3
<1>2. ASSUME NEW m \in 0 .. TreeDepth - 1, m \in Good
      PROVE  m + 1 \in Good
  <2>1. PICK g : Is(g, m)
    BY <1>2
  <2>2. m \in Nat /\ m + 1 \in 0 .. TreeDepth
    OBVIOUS
  <2>. HIDE DEF Good
  <2>3. PICK h : h = [n \in 0 .. m + 1 |-> IF n = 0 THEN Bottom ELSE Step(n, g[n - 1])]
    OBVIOUS
  <2>4. \A n \in 0 .. m : h[n] = g[n]
    <3>. TAKE n \in 0 .. m
    <3>1. n \in 0 .. m + 1 /\ h[n] = IF n = 0 THEN Bottom ELSE Step(n, g[n - 1])
      BY <2>2, <2>3
    <3>2. g[n] = IF n = 0 THEN Bottom ELSE Step(n, g[n - 1])
      BY <2>1 DEF Is
    <3>. QED
      BY <3>1, <3>2
  <2>5. h = [n \in 0 .. m + 1 |-> h[n]]
    BY <2>3
  <2>6. \A n \in 0 .. m + 1 : h[n] = IF n = 0 THEN Bottom ELSE Step(n, h[n - 1])
    <3>. TAKE n \in 0 .. m + 1
    <3>1. h[n] = IF n = 0 THEN Bottom ELSE Step(n, g[n - 1])
      BY <2>3
    <3>2. n # 0 => n - 1 \in 0 .. m
      BY <2>2
    <3>. QED
      BY <2>4, <3>1, <3>2
  <2>. QED
    BY <2>2, <2>5, <2>6 DEF Good, Is
<1>3. TreeDepth \in Good
  <2>. HIDE DEF Good
  <2>. QED
    BY <1>1, <1>2, Climb
<1>4. PICK g : Is(g, TreeDepth)
  BY <1>3
<1>5. g = [n \in 0 .. TreeDepth |-> IF n = 0 THEN Bottom ELSE Step(n, g[n - 1])]
  BY <1>4
<1>. QED
  BY <1>5 DEF Step, Bottom, FullRoot

\* The powers of two, by which the levels shrink.
LEMMA Powers ==
    ASSUME TreeDepth \in Nat
    PROVE  /\ TwoTo[0] = 1
           /\ \A n \in 0 .. TreeDepth : TwoTo[n] \in Nat /\ TwoTo[n] > 0
           /\ \A n \in 0 .. TreeDepth - 1 : TwoTo[n + 1] = 2 * TwoTo[n]
<1>. DEFINE Good == {n \in 0 .. TreeDepth : TwoTo[n] \in Nat /\ TwoTo[n] > 0}
<1>1. TwoTo[0] = 1
  BY TwoToIs
<1>2. \A n \in 0 .. TreeDepth - 1 : TwoTo[n + 1] = 2 * TwoTo[n]
  <2>. TAKE n \in 0 .. TreeDepth - 1
  <2>1. n + 1 \in 0 .. TreeDepth /\ n + 1 # 0 /\ (n + 1) - 1 = n
    OBVIOUS
  <2>2. TwoTo[n + 1] = IF n + 1 = 0 THEN 1 ELSE 2 * TwoTo[(n + 1) - 1]
    BY <2>1, TwoToIs
  <2>. QED
    BY <2>1, <2>2
<1>3. \A n \in 0 .. TreeDepth : n \in Good
  <2>1. 0 \in Good
    BY <1>1
  <2>2. ASSUME NEW n \in 0 .. TreeDepth - 1, n \in Good
        PROVE  n + 1 \in Good
    <3>1. PICK w \in Nat : w = TwoTo[n] /\ w > 0
      BY <2>2
    <3>2. TwoTo[n + 1] = 2 * w
      BY <1>2, <3>1
    <3>. QED
      BY <3>1, <3>2
  <2>. HIDE DEF Good
  <2>. QED
    BY <2>1, <2>2, Climb
<1>. QED
  BY <1>1, <1>2, <1>3

LEMMA ZeroUp ==
    ASSUME TreeDepth \in Nat, NEW level \in 0 .. TreeDepth - 1
    PROVE  ZeroHash(level + 1) = hashHexPair(ZeroHash(level), ZeroHash(level))
<1>1. level + 1 \in 0 .. TreeDepth /\ level + 1 # 0 /\ (level + 1) - 1 = level
  OBVIOUS
<1>2. ZeroHashes[level + 1] = IF level + 1 = 0 THEN ZeroLeaf
                              ELSE hashHexPair(ZeroHashes[(level + 1) - 1], ZeroHashes[(level + 1) - 1])
  BY <1>1, ZeroHashesAre
<1>. QED
  BY <1>1, <1>2 DEF ZeroHash

LEMMA ShiftedUp ==
    ASSUME TreeDepth \in Nat, NEW index \in 0 .. TreeMaxItems - 1
    PROVE  /\ Shifted(index)[0] = index
           /\ \A n \in 0 .. TreeDepth - 1 : Shifted(index)[n + 1] = Shifted(index)[n] \div 2
           /\ \A n \in 0 .. TreeDepth : Shifted(index)[n] \in 0 .. TwoTo[TreeDepth - n] - 1
<1>. DEFINE at == Shifted(index)
            Good == {n \in 0 .. TreeDepth : at[n] \in 0 .. TwoTo[TreeDepth - n] - 1}
<1>1. at[0] = index
  BY ShiftedIs
<1>2. \A n \in 0 .. TreeDepth - 1 : at[n + 1] = at[n] \div 2
  <2>. TAKE n \in 0 .. TreeDepth - 1
  <2>1. n + 1 \in 0 .. TreeDepth /\ n + 1 # 0 /\ (n + 1) - 1 = n
    OBVIOUS
  <2>2. at[n + 1] = IF n + 1 = 0 THEN index ELSE at[(n + 1) - 1] \div 2
    BY <2>1, ShiftedIs
  <2>. QED
    BY <2>1, <2>2
<1>. HIDE DEF at
<1>3. \A n \in 0 .. TreeDepth : n \in Good
  <2>1. 0 \in Good
    BY <1>1 DEF TreeMaxItems
  <2>2. ASSUME NEW n \in 0 .. TreeDepth - 1, n \in Good
        PROVE  n + 1 \in Good
    <3>1. TreeDepth - (n + 1) \in 0 .. TreeDepth - 1 /\ (TreeDepth - (n + 1)) + 1 = TreeDepth - n
      OBVIOUS
    <3>2. PICK w \in Nat : w = TwoTo[TreeDepth - (n + 1)] /\ TwoTo[TreeDepth - n] = 2 * w
      BY <3>1, Powers
    <3>3. PICK x \in Nat : x = at[n] /\ x <= 2 * w - 1
      BY <2>2, <3>2
    <3>4. at[n + 1] = x \div 2
      BY <1>2, <3>3
    <3>. QED
      BY <3>2, <3>3, <3>4
  <2>. HIDE DEF Good
  <2>. QED
    BY <2>1, <2>2, Climb
<1>. QED
  BY <1>1, <1>2, <1>3 DEF at

\* A node of the sparse level is the hash of its two children, whether they are
\* there or not.
LEMMA ParentNode ==
    ASSUME TreeDepth \in Nat, NEW level \in 0 .. TreeDepth - 1,
           NEW nodes, DOMAIN nodes \subseteq Nat, NEW p \in Nat
    PROVE  nodeAtLevel(parentLevel(nodes, level), level + 1, p)
             = hashHexPair(nodeAtLevel(nodes, level, 2 * p), nodeAtLevel(nodes, level, 2 * p + 1))
<1>. DEFINE hash(q) == hashHexPair(nodeAtLevel(nodes, level, 2 * q), nodeAtLevel(nodes, level, 2 * q + 1))
            parents == {i \div 2 : i \in DOMAIN nodes}
            above == parentLevel(nodes, level)
<1>1. /\ DOMAIN above = {q \in parents : hash(q) # ZeroHash(level + 1)}
      /\ \A q \in DOMAIN above : above[q] = hash(q)
  BY DEF parentLevel
<1>2. CASE p \in parents
  BY <1>1, <1>2 DEF nodeAtLevel
<1>3. CASE p \notin parents
  <2>1. (2 * p) \div 2 = p /\ (2 * p + 1) \div 2 = p
    OBVIOUS
  <2>2. 2 * p \notin DOMAIN nodes /\ 2 * p + 1 \notin DOMAIN nodes
    BY <1>3, <2>1
  <2>3. hash(p) = ZeroHash(level + 1)
    BY <2>2, ZeroUp DEF nodeAtLevel
  <2>. QED
    BY <1>1, <1>3, <2>3 DEF nodeAtLevel
<1>. QED
  BY <1>2, <1>3

\* The levels of a tree: nodes of a level are numbered, and made of those below.
LEMMA LevelsUp ==
    ASSUME TreeDepth \in Nat, NEW leaves, DOMAIN leaves \subseteq Nat
    PROVE  /\ buildTreeLevels(leaves)[0] = leaves
           /\ \A n \in 0 .. TreeDepth - 1 : \A p \in Nat :
                nodeAtLevel(buildTreeLevels(leaves)[n + 1], n + 1, p)
                  = hashHexPair(nodeAtLevel(buildTreeLevels(leaves)[n], n, 2 * p),
                                nodeAtLevel(buildTreeLevels(leaves)[n], n, 2 * p + 1))
<1>. DEFINE levels == buildTreeLevels(leaves)
            Good == {n \in 0 .. TreeDepth : DOMAIN levels[n] \subseteq Nat}
<1>1. levels[0] = leaves
  BY LevelsAre
<1>2. \A n \in 0 .. TreeDepth - 1 : levels[n + 1] = parentLevel(levels[n], n)
  <2>. TAKE n \in 0 .. TreeDepth - 1
  <2>1. n + 1 \in 0 .. TreeDepth /\ n + 1 # 0 /\ (n + 1) - 1 = n
    OBVIOUS
  <2>2. levels[n + 1] = IF n + 1 = 0 THEN leaves ELSE parentLevel(levels[(n + 1) - 1], (n + 1) - 1)
    BY <2>1, LevelsAre
  <2>. QED
    BY <2>1, <2>2
<1>. HIDE DEF levels
<1>3. \A n \in 0 .. TreeDepth : n \in Good
  <2>1. 0 \in Good
    BY <1>1
  <2>2. ASSUME NEW n \in 0 .. TreeDepth - 1, n \in Good
        PROVE  n + 1 \in Good
    <3>1. \A i \in DOMAIN levels[n] : i \div 2 \in Nat
      BY <2>2
    <3>2. DOMAIN parentLevel(levels[n], n) \subseteq {i \div 2 : i \in DOMAIN levels[n]}
      BY DEF parentLevel
    <3>3. DOMAIN levels[n + 1] \subseteq Nat
      BY <1>2, <3>1, <3>2
    <3>. QED
      BY <3>3
  <2>. HIDE DEF Good
  <2>. QED
    BY <2>1, <2>2, Climb
<1>4. \A n \in 0 .. TreeDepth - 1 : \A p \in Nat :
         nodeAtLevel(levels[n + 1], n + 1, p)
           = hashHexPair(nodeAtLevel(levels[n], n, 2 * p), nodeAtLevel(levels[n], n, 2 * p + 1))
  <2>. TAKE n \in 0 .. TreeDepth - 1
  <2>. TAKE p \in Nat
  <2>1. DOMAIN levels[n] \subseteq Nat
    BY <1>3
  <2>. QED
    BY <1>2, <2>1, ParentNode
<1>. QED
  BY <1>1, <1>4 DEF levels

\* The root of the sparse tree is that of the full tree.
THEOREM SparseRootIsFull ==
    ASSUME TreeDepth \in Nat, NEW leaves, DOMAIN leaves \subseteq 0 .. TreeMaxItems - 1
    PROVE  RootOf(leaves) = FullRoot(leaves)
<1>. DEFINE levels == buildTreeLevels(leaves)
<1>1. DOMAIN leaves \subseteq Nat
  BY Powers DEF TreeMaxItems
<1>2. PICK node :
         /\ node = [n \in 0 .. TreeDepth |->
                      IF n = 0 THEN [i \in 0 .. TreeMaxItems - 1 |->
                                        IF i \in DOMAIN leaves THEN leaves[i] ELSE ZeroLeaf]
                      ELSE [i \in 0 .. TwoTo[TreeDepth - n] - 1 |->
                               hashHexPair(node[n - 1][2 * i], node[n - 1][2 * i + 1])]]
         /\ FullRoot(leaves) = node[TreeDepth][0]
  BY FullNodesAre
<1>. DEFINE Same(n) == \A i \in 0 .. TwoTo[TreeDepth - n] - 1 : node[n][i] = nodeAtLevel(levels[n], n, i)
            Good == {n \in 0 .. TreeDepth : Same(n)}
<1>3. 0 \in Good
  <2>1. ZeroHash(0) = ZeroLeaf
    BY ZeroHashesAre DEF ZeroHash
  <2>2. levels[0] = leaves
    BY <1>1, LevelsUp
  <2>3. node[0] = [i \in 0 .. TreeMaxItems - 1 |-> IF i \in DOMAIN leaves THEN leaves[i] ELSE ZeroLeaf]
    BY <1>2
  <2>4. TreeDepth - 0 = TreeDepth
    OBVIOUS
  <2>5. Same(0)
    BY <2>1, <2>2, <2>3, <2>4 DEF nodeAtLevel, TreeMaxItems
  <2>. QED
    BY <2>5
<1>4. ASSUME NEW n \in 0 .. TreeDepth - 1, n \in Good
      PROVE  n + 1 \in Good
  <2>1. n + 1 \in 0 .. TreeDepth /\ n + 1 # 0 /\ (n + 1) - 1 = n
    OBVIOUS
  <2>2. TreeDepth - (n + 1) \in 0 .. TreeDepth - 1 /\ (TreeDepth - (n + 1)) + 1 = TreeDepth - n
    OBVIOUS
  <2>3. PICK w \in Nat : w = TwoTo[TreeDepth - (n + 1)] /\ TwoTo[TreeDepth - n] = 2 * w
    BY <2>2, Powers
  <2>4. node[n + 1] = [i \in 0 .. w - 1 |-> hashHexPair(node[n][2 * i], node[n][2 * i + 1])]
    <3>1. node[n + 1] = IF n + 1 = 0
                        THEN [i \in 0 .. TreeMaxItems - 1 |->
                                 IF i \in DOMAIN leaves THEN leaves[i] ELSE ZeroLeaf]
                        ELSE [i \in 0 .. TwoTo[TreeDepth - (n + 1)] - 1 |->
                               hashHexPair(node[(n + 1) - 1][2 * i], node[(n + 1) - 1][2 * i + 1])]
      BY <1>2, <2>1
    <3>. QED
      BY <2>1, <2>3, <3>1
  <2>5. ASSUME NEW i \in 0 .. w - 1
        PROVE  node[n + 1][i] = nodeAtLevel(levels[n + 1], n + 1, i)
    <3>1. i \in Nat /\ 2 * i \in 0 .. 2 * w - 1 /\ 2 * i + 1 \in 0 .. 2 * w - 1
      OBVIOUS
    <3>2. /\ node[n][2 * i] = nodeAtLevel(levels[n], n, 2 * i)
          /\ node[n][2 * i + 1] = nodeAtLevel(levels[n], n, 2 * i + 1)
      BY <1>4, <2>3, <3>1
    <3>3. nodeAtLevel(levels[n + 1], n + 1, i)
            = hashHexPair(nodeAtLevel(levels[n], n, 2 * i), nodeAtLevel(levels[n], n, 2 * i + 1))
      BY <1>1, <3>1, LevelsUp
    <3>. QED
      BY <2>4, <3>2, <3>3
  <2>6. Same(n + 1)
    BY <2>3, <2>5
  <2>. QED
    BY <2>1, <2>6
<1>5. Same(TreeDepth)
  <2>. HIDE DEF Same
  <2>1. TreeDepth \in Good
    <3>. HIDE DEF Good
    <3>. QED
      BY <1>3, <1>4, Climb
  <2>. QED
    BY <2>1
<1>6. TwoTo[TreeDepth - TreeDepth] = 1
  BY Powers
<1>7. 0 \in 0 .. TwoTo[TreeDepth - TreeDepth] - 1
  BY <1>6
<1>8. node[TreeDepth][0] = nodeAtLevel(levels[TreeDepth], TreeDepth, 0)
  BY <1>5, <1>7
<1>. QED
  BY <1>2, <1>8 DEF RootOf

\* The proof of a leaf that is there opens it in the root (proofFromLeaves,
\* merkletree.VerifyProof).
THEOREM ProofOpens ==
    ASSUME TreeDepth \in Nat, NEW leaves, DOMAIN leaves \subseteq 0 .. TreeMaxItems - 1,
           NEW index \in DOMAIN leaves
    PROVE  VerifyProof(proofFromLeaves(leaves, index))
<1>. DEFINE levels == buildTreeLevels(leaves)
            at == Shifted(index)
            proof == proofFromLeaves(leaves, index)
<1>1. DOMAIN leaves \subseteq Nat /\ index \in 0 .. TreeMaxItems - 1 /\ index \in Nat
  BY Powers DEF TreeMaxItems
<1>2. /\ proof.leaf = leaves[index] /\ proof.indices = index
      /\ \A k \in 1 .. TreeDepth :
            proof.elements[k] = nodeAtLevel(levels[k - 1], k - 1, Sibling(at[k - 1]))
      /\ proof.root = nodeAtLevel(levels[TreeDepth], TreeDepth, 0)
  BY DEF proofFromLeaves
<1>. HIDE DEF proof
<1>3. PICK current :
         /\ current = [n \in 0 .. TreeDepth |->
                         IF n = 0 THEN proof.leaf
                         ELSE IF Shifted(proof.indices)[n - 1] % 2 = 1
                              THEN hashHexPair(proof.elements[n], current[n - 1])
                              ELSE hashHexPair(current[n - 1], proof.elements[n])]
         /\ CalculateRoot(proof) = current[TreeDepth]
  BY CurrentIs
<1>4. /\ at[0] = index
      /\ \A n \in 0 .. TreeDepth - 1 : at[n + 1] = at[n] \div 2
      /\ \A n \in 0 .. TreeDepth : at[n] \in 0 .. TwoTo[TreeDepth - n] - 1
  BY <1>1, ShiftedUp
<1>5. \A n \in 0 .. TreeDepth : at[n] \in Nat
  <2>. TAKE n \in 0 .. TreeDepth
  <2>1. TreeDepth - n \in 0 .. TreeDepth
    OBVIOUS
  <2>2. TwoTo[TreeDepth - n] \in Nat
    BY <2>1, Powers
  <2>. QED
    BY <1>4, <2>2
<1>. HIDE DEF at
<1>. DEFINE Good == {n \in 0 .. TreeDepth : current[n] = nodeAtLevel(levels[n], n, at[n])}
<1>6. 0 \in Good
  <2>1. current[0] = proof.leaf
    BY <1>3
  <2>2. levels[0] = leaves
    BY <1>1, LevelsUp
  <2>. QED
    BY <1>2, <1>4, <2>1, <2>2 DEF nodeAtLevel
<1>7. ASSUME NEW n \in 0 .. TreeDepth - 1, n \in Good
      PROVE  n + 1 \in Good
  <2>1. n + 1 \in 1 .. TreeDepth /\ n + 1 # 0 /\ (n + 1) - 1 = n /\ n + 1 \in 0 .. TreeDepth /\ n \in 0 .. TreeDepth
    OBVIOUS
  <2>2. current[n + 1] = IF at[n] % 2 = 1 THEN hashHexPair(proof.elements[n + 1], current[n])
                         ELSE hashHexPair(current[n], proof.elements[n + 1])
    <3>1. current[n + 1] = IF n + 1 = 0 THEN proof.leaf
                           ELSE IF Shifted(proof.indices)[(n + 1) - 1] % 2 = 1
                                THEN hashHexPair(proof.elements[n + 1], current[(n + 1) - 1])
                                ELSE hashHexPair(current[(n + 1) - 1], proof.elements[n + 1])
      BY <1>3, <2>1
    <3>. QED
      BY <1>2, <2>1, <3>1 DEF at
  <2>3. proof.elements[n + 1] = nodeAtLevel(levels[n], n, Sibling(at[n]))
    <3>1. proof.elements[n + 1] = nodeAtLevel(levels[(n + 1) - 1], (n + 1) - 1, Sibling(at[(n + 1) - 1]))
      BY <1>2, <2>1
    <3>. QED
      BY <2>1, <3>1
  <2>4. PICK x \in Nat : x = at[n] /\ at[n + 1] = x \div 2
    BY <1>4, <1>5, <2>1
  <2>5. current[n] = nodeAtLevel(levels[n], n, x)
    BY <1>7, <2>4
  <2>6. x \div 2 \in Nat
    OBVIOUS
  <2>7. nodeAtLevel(levels[n + 1], n + 1, x \div 2)
          = hashHexPair(nodeAtLevel(levels[n], n, 2 * (x \div 2)), nodeAtLevel(levels[n], n, 2 * (x \div 2) + 1))
    BY <1>1, <2>6, LevelsUp
  <2>8. CASE x % 2 = 1
    <3>1. 2 * (x \div 2) = x - 1 /\ 2 * (x \div 2) + 1 = x /\ Sibling(x) = x - 1
      BY <2>8 DEF Sibling
    <3>2. current[n + 1] = hashHexPair(nodeAtLevel(levels[n], n, x - 1), nodeAtLevel(levels[n], n, x))
      BY <2>2, <2>3, <2>4, <2>5, <2>8, <3>1
    <3>. QED
      BY <2>1, <2>4, <2>7, <3>1, <3>2
  <2>9. CASE x % 2 # 1
    <3>1. 2 * (x \div 2) = x /\ 2 * (x \div 2) + 1 = x + 1 /\ Sibling(x) = x + 1
      BY <2>9 DEF Sibling
    <3>2. current[n + 1] = hashHexPair(nodeAtLevel(levels[n], n, x), nodeAtLevel(levels[n], n, x + 1))
      BY <2>2, <2>3, <2>4, <2>5, <2>9, <3>1
    <3>. QED
      BY <2>1, <2>4, <2>7, <3>1, <3>2
  <2>. QED
    BY <2>8, <2>9
<1>8. TreeDepth \in Good
  <2>. HIDE DEF Good
  <2>. QED
    BY <1>6, <1>7, Climb
<1>9. at[TreeDepth] = 0
  <2>1. TwoTo[TreeDepth - TreeDepth] = 1
    BY Powers
  <2>. QED
    BY <1>4, <2>1
<1>. QED
  BY <1>2, <1>3, <1>8, <1>9 DEF VerifyProof, proof

-----------------------------------------------------------------------------
(* The inductive invariant of the stores.                                  *)

PC == {"idle", "saved", "position", "leafSaved", "transactions", "rolled", "tree", "treeRolled"}

Kind == {"V2", "V3", "nullifiers", "unshields", "transactions"}

LeafRec == [tree : Nat, index : 0 .. TreeMaxItems - 1, hash : {t.id : t \in AllTransactions},
            block : {t.block : t \in AllTransactions}]

TypeInv ==
    /\ chain \in Chains
    /\ cursor \in 1 .. MaxBlock + 1 /\ owed \in 0 .. MaxBlock
    /\ job \in [pc : PC, tx : AllTransactions \cup {None}, done : SUBSET AllTransactions,
                upserted : SUBSET Version]
    /\ written = [v \in Version |-> written[v]]
    /\ files \in [File -> [file : SUBSET (AllTransactions \cup LeafRec),
                           tmp  : SUBSET (AllTransactions \cup LeafRec)]]
    /\ crashes \in 0 .. MaxCrashes

\* The blocks below it are in the stores as the chain has them.
Base == IF owed = 0 THEN cursor ELSE owed

\* Events that the stores may still hold of: those that no rollback is owed for.
Standing(e) == owed = 0 \/ e.block < owed

\* The steps of a rollback after the database's.
Rolling == {"transactions", "rolled", "tree", "treeRolled"}

UtxoLeaf == {leafFromCommitment(c) : c \in AllCommitments}

\* What a row is: an event under its own key, and of the chain while it stands.
RowOf(k, e) ==
    /\ k[1] \in {"leaf", "commitment", "nullifier", "unshield"}
    /\ k[1] = "leaf" => /\ k = pebbleLeafKey(e.tree, e.index) /\ validateLeaf(e)
                        /\ e \in UtxoLeaf
    /\ k[1] = "commitment" =>
          \E v \in Version : /\ k = pebbleCommitmentKey(v, e.tree, e.index)
                             /\ Standing(e) => e \in chain[v]
    /\ k[1] = "nullifier" => /\ k = pebbleNullifierKey(e.tree, e.nullifier)
                             /\ Standing(e) => e \in chain["nullifiers"]
    /\ k[1] = "unshield" => /\ k = pebbleUnshieldKey(e)
                            /\ Standing(e) => e \in chain["unshields"]

RowInv(k) ==
    /\ db[k].block \in Nat
    /\ owed = 0 => db[k].block <= cursor
    /\ job.pc \in Rolling => db[k].block < owed
    /\ RowOf(k, db[k])

Holds(key, e) == key \in DOMAIN db /\ db[key] = e

\* A nullifier has its row, unless the other version has written its key.
NullifierHeld(n) ==
    \/ Holds(pebbleNullifierKey(n.tree, n.nullifier), n)
    \/ \E w \in Version \ {n.version} : pebbleNullifierKey(n.tree, n.nullifier) \in written[w]

\* Of the unshields of the chain that share a key one has its row.
UnshieldHeld(u) ==
    \E w \in chain["unshields"] :
        pebbleUnshieldKey(w) = pebbleUnshieldKey(u) /\ Holds(pebbleUnshieldKey(u), w)

\* The rows of the blocks that are done, and the nullifiers that are of the next.
PresentInv ==
    /\ \A v \in Version : \A c \in chain[v] :
          c.block < Base => Holds(pebbleCommitmentKey(v, c.tree, c.index), c)
    /\ \A n \in chain["nullifiers"] : n.block < Base => NullifierHeld(n)
    /\ \A n \in chain["nullifiers"] :
          owed = 0 /\ n.block = cursor /\ n.version \in job.upserted => NullifierHeld(n)
    /\ \A u \in chain["unshields"] : u.block < Base => UnshieldHeld(u)

\* A commitment has its leaf, unless the other version has written its place.
LeafInv ==
    \A v \in Version : \A t, i :
        pebbleCommitmentKey(v, t, i) \in DOMAIN db =>
            \/ \E w \in Version \ {v} : pebbleLeafKey(t, i) \in written[w]
            \/ Holds(pebbleLeafKey(t, i), leafFromCommitment(db[pebbleCommitmentKey(v, t, i)]))

\* The transactions of the file, and what their writer is about.
TransactionInv ==
    /\ \A t \in Transactions :
          /\ t \in AllTransactions
          /\ Standing(t) => t \in chain["transactions"]
          /\ owed = 0 => t.block <= cursor
          /\ job.pc \in {"tree", "treeRolled"} => t.block < owed
    /\ job.pc \in Rolling => owed # 0
    /\ job.pc \in {"saved", "position", "leafSaved"} =>
          owed = 0 /\ cursor \in Block /\ job.tx \in chain["transactions"] /\ job.tx.block = cursor
    /\ job.pc = "saved" =>
          files["transactions"].tmp = {u \in Transactions : u.id # job.tx.id} \cup {job.tx}
    /\ job.pc = "rolled" => files["transactions"].tmp = {t \in Transactions : t.block < owed}

\* The leaves of the TXID tree fill the places from the first on, block after block.
Filled(leaves, n) ==
    /\ \A l \in leaves : l \in LeafRec /\ GetGlobalTreePosition(l) \in 0 .. n - 1
    /\ \A k \in 0 .. n - 1 : \E l \in leaves : GetGlobalTreePosition(l) = k
    /\ \A l, m \in leaves : GetGlobalTreePosition(l) = GetGlobalTreePosition(m) => l = m
    /\ \A l, m \in leaves : GetGlobalTreePosition(l) <= GetGlobalTreePosition(m) => l.block <= m.block

TreeInv ==
    /\ \E n \in Nat : Filled(Leaves, n)
    /\ \A l \in Leaves :
          /\ Standing(l) => \E t \in chain["transactions"] : t.id = l.hash /\ t.block = l.block
          /\ owed = 0 => l.block <= cursor
    /\ job.pc = "leafSaved" =>
          /\ GetGlobalTreePosition(NextMerkleTreePosition) < MaxLeaves
          /\ files["txidTree"].tmp
                = Leaves \cup {MerkleLeafFromTransaction(job.tx, NextMerkleTreePosition)}
    /\ job.pc = "treeRolled" => files["txidTree"].tmp = {l \in Leaves : l.block < owed}

DbInv == (\A k \in DOMAIN db : RowInv(k)) /\ PresentInv /\ LeafInv

IInv == TypeInv /\ DbInv /\ TransactionInv /\ TreeInv

-----------------------------------------------------------------------------
(* Keys and rows.                                                          *)

\* What a key tells of the row under it.
LEMMA Keys ==
    /\ \A t, i : LET k == pebbleLeafKey(t, i) IN k[1] = "leaf" /\ k[2] = t /\ k[3] = i
    /\ \A v, t, i : LET k == pebbleCommitmentKey(v, t, i)
                    IN  k[1] = "commitment" /\ k[2] = v /\ k[3] = t /\ k[4] = i
    /\ \A t, n : LET k == pebbleNullifierKey(t, n) IN k[1] = "nullifier" /\ k[2] = t /\ k[3] = n
    /\ \A u : LET k == pebbleUnshieldKey(u) IN k[1] = "unshield" /\ k[2] = u.txid
  BY DEF pebbleLeafKey, pebbleCommitmentKey, pebbleNullifierKey, pebbleUnshieldKey

\* The unshields of the chain that share a key are of one transaction, in one block.
LEMMA SameBlock ==
    ASSUME KeysDiffer, TypeInv, NEW x \in chain["unshields"], NEW y \in chain["unshields"],
           pebbleUnshieldKey(x) = pebbleUnshieldKey(y)
    PROVE  x.block = y.block
<1>1. x.txid = y.txid
  BY DEF pebbleUnshieldKey
<1>. QED
  BY <1>1 DEF KeysDiffer, TypeInv

\* What a batch writes is there, and the rest is as it was.
LEMMA PutIs ==
    ASSUME NEW put, Put(put)
    PROVE  /\ DOMAIN db' = DOMAIN put \cup DOMAIN db
           /\ \A k \in DOMAIN put : db'[k] = put[k]
           /\ \A k \in DOMAIN db \ DOMAIN put : db'[k] = db[k]
  BY DEF Put

\* The events of the block that is imported are of the chain.
LEMMA AtChain ==
    ASSUME TypeInv, NEW kind \in Kind, NEW e \in At(kind)
    PROVE  e \in chain[kind] /\ e.block = cursor /\ e.block \in Nat
  BY StoresAssumption DEF At, TypeInv, Kind

\* A batch of commitments puts a leaf and a commitment under the keys of each.
LEMMA CommitmentRows ==
    ASSUME KeysDiffer, TypeInv, NEW v \in Version
    PROVE  LET put == RowsOf(v, At(v)) IN
           /\ \A c \in At(v) :
                 /\ pebbleLeafKey(c.tree, c.index) \in DOMAIN put
                 /\ put[pebbleLeafKey(c.tree, c.index)] = leafFromCommitment(c)
                 /\ pebbleCommitmentKey(v, c.tree, c.index) \in DOMAIN put
                 /\ put[pebbleCommitmentKey(v, c.tree, c.index)] = c
           /\ \A k \in DOMAIN put : \E c \in At(v) :
                 \/ k = pebbleLeafKey(c.tree, c.index) /\ put[k] = leafFromCommitment(c)
                 \/ k = pebbleCommitmentKey(v, c.tree, c.index) /\ put[k] = c
<1>. DEFINE batch == At(v)
            put == RowsOf(v, batch)
            leafOf(c) == pebbleLeafKey(c.tree, c.index)
            commitmentOf(c) == pebbleCommitmentKey(v, c.tree, c.index)
            at(key) == CHOOSE c \in batch : key \in {leafOf(c), commitmentOf(c)}
<1>1. /\ DOMAIN put = {leafOf(c) : c \in batch} \cup {commitmentOf(c) : c \in batch}
      /\ \A k \in DOMAIN put : put[k] = IF k = leafOf(at(k)) THEN leafFromCommitment(at(k)) ELSE at(k)
  BY DEF RowsOf
<1>2. \A c, d \in batch : c.tree = d.tree /\ c.index = d.index => c = d
  BY DEF At, KeysDiffer, TypeInv
<1>3. \A c, d : leafOf(c) # commitmentOf(d)
  BY Keys
<1>4. \A c, d : leafOf(c) = leafOf(d) \/ commitmentOf(c) = commitmentOf(d) => c.tree = d.tree /\ c.index = d.index
  <2>. TAKE c, d
  <2>1. leafOf(c) = leafOf(d) => c.tree = d.tree /\ c.index = d.index
    BY Keys
  <2>2. commitmentOf(c) = commitmentOf(d) => c.tree = d.tree /\ c.index = d.index
    BY Keys
  <2>. QED
    BY <2>1, <2>2
<1>. HIDE DEF put, leafOf, commitmentOf
<1>5. ASSUME NEW c \in batch, NEW k \in {leafOf(c), commitmentOf(c)}
      PROVE  at(k) = c
  <2>1. at(k) \in batch /\ k \in {leafOf(at(k)), commitmentOf(at(k))}
    BY <1>5
  <2>. HIDE DEF at
  <2>2. at(k).tree = c.tree /\ at(k).index = c.index
    BY <1>3, <1>4, <1>5, <2>1
  <2>. QED
    BY <1>2, <2>1, <2>2
<1>. HIDE DEF at
<1>6. ASSUME NEW c \in batch
      PROVE  /\ leafOf(c) \in DOMAIN put /\ put[leafOf(c)] = leafFromCommitment(c)
             /\ commitmentOf(c) \in DOMAIN put /\ put[commitmentOf(c)] = c
  <2>1. leafOf(c) \in DOMAIN put /\ commitmentOf(c) \in DOMAIN put
    BY <1>1
  <2>2. at(leafOf(c)) = c /\ at(commitmentOf(c)) = c
    BY <1>5
  <2>. QED
    BY <1>1, <1>3, <2>1, <2>2
<1>7. ASSUME NEW k \in DOMAIN put
      PROVE  \E c \in batch : \/ k = leafOf(c) /\ put[k] = leafFromCommitment(c)
                              \/ k = commitmentOf(c) /\ put[k] = c
  BY <1>1, <1>6
<1>. QED
  BY <1>6, <1>7 DEF put, leafOf, commitmentOf

-----------------------------------------------------------------------------
(* The database, step by step.                                             *)

DbVars == <<chain, cursor, owed, db, written>>

\* The steps that are not the database's.
LEMMA DbStays ==
    ASSUME DbInv, UNCHANGED DbVars, job'.pc \in Rolling => job.pc \in Rolling,
           job'.upserted \subseteq job.upserted
    PROVE  DbInv'
<1>1. UNCHANGED <<chain, cursor, owed, db, written>>
  BY DEF DbVars
<1>2. \A k \in DOMAIN db : RowInv(k)'
  BY <1>1 DEF DbInv, RowInv, RowOf, Standing
<1>3. PresentInv'
  BY <1>1 DEF DbInv, PresentInv, NullifierHeld, UnshieldHeld, Holds, Base
<1>4. LeafInv'
  BY <1>1 DEF DbInv, LeafInv, Holds
<1>. QED
  BY <1>1, <1>2, <1>3, <1>4 DEF DbInv

\* What an import writes: rows of the block, which are the chain's.
LEMMA RowsPut ==
    ASSUME TypeInv, DbInv, Importing, UNCHANGED <<chain, cursor, owed, job.pc>>,
           NEW put, Put(put), \A k \in DOMAIN put : put[k].block = cursor /\ RowOf(k, put[k])
    PROVE  \A k \in DOMAIN db' : RowInv(k)'
<1>1. owed = 0 /\ owed' = 0 /\ cursor \in Nat /\ job'.pc \notin Rolling
  BY DEF Importing, TypeInv, Rolling
<1>. TAKE k \in DOMAIN db'
<1>2. CASE k \in DOMAIN put
  <2>1. db'[k] = put[k]
    BY <1>2, PutIs
  <2>2. RowOf(k, put[k])' <=> RowOf(k, put[k])
    BY <1>1 DEF RowOf, Standing
  <2>. QED
    BY <1>1, <1>2, <2>1, <2>2 DEF RowInv
<1>3. CASE k \notin DOMAIN put
  <2>1. k \in DOMAIN db /\ db'[k] = db[k]
    BY <1>3, PutIs
  <2>2. RowInv(k)
    BY <2>1 DEF DbInv
  <2>. QED
    BY <1>1, <2>1, <2>2 DEF RowInv, RowOf, Standing
<1>. QED
  BY <1>2, <1>3

LEMMA DbCommitments ==
    ASSUME KeysDiffer, TypeInv, DbInv, NEW v \in Version, UpsertCommitmentEvents(v)
    PROVE  DbInv'
<1>. DEFINE batch == At(v)
            put == RowsOf(v, batch)
            leafOf(c) == pebbleLeafKey(c.tree, c.index)
            commitmentOf(c) == pebbleCommitmentKey(v, c.tree, c.index)
<1>1. /\ Importing /\ Put(put) /\ UNCHANGED <<chain, cursor, owed, files, job, crashes>>
      /\ \A c \in batch : validateLeaf(leafFromCommitment(c))
      /\ written' = [written EXCEPT ![v] = @ \cup {pebbleLeafKey(c.tree, c.index) : c \in batch}]
  BY DEF UpsertCommitmentEvents
<1>2. /\ \A c \in batch : /\ leafOf(c) \in DOMAIN put /\ put[leafOf(c)] = leafFromCommitment(c)
                          /\ commitmentOf(c) \in DOMAIN put /\ put[commitmentOf(c)] = c
      /\ \A k \in DOMAIN put : \E c \in batch :
            \/ k = leafOf(c) /\ put[k] = leafFromCommitment(c)
            \/ k = commitmentOf(c) /\ put[k] = c
  BY CommitmentRows
<1>3. \A c \in batch : c \in chain[v] /\ c.block = cursor
  BY DEF At
<1>4. /\ DOMAIN db' = DOMAIN put \cup DOMAIN db
      /\ \A k \in DOMAIN put : db'[k] = put[k]
      /\ \A k \in DOMAIN db \ DOMAIN put : db'[k] = db[k]
  BY <1>1, PutIs
<1>. HIDE DEF put, batch
<1>5. \A k \in DOMAIN db' : RowInv(k)'
  <2>1. ASSUME NEW k \in DOMAIN put
        PROVE  put[k].block = cursor /\ RowOf(k, put[k])
    <3>1. PICK c \in batch : \/ k = leafOf(c) /\ put[k] = leafFromCommitment(c)
                             \/ k = commitmentOf(c) /\ put[k] = c
      BY <1>2
    <3>2. CASE k = leafOf(c) /\ put[k] = leafFromCommitment(c)
      <4>1. leafFromCommitment(c) \in UtxoLeaf
        BY <1>3 DEF UtxoLeaf, AllCommitments, TypeInv, Version
      <4>2. /\ put[k].tree = c.tree /\ put[k].index = c.index /\ put[k].block = cursor
            /\ put[k] \in UtxoLeaf /\ validateLeaf(put[k])
        BY <1>1, <1>3, <3>2, <4>1 DEF leafFromCommitment
      <4>. QED
        BY <3>2, <4>2, Keys DEF RowOf
    <3>3. CASE k = commitmentOf(c) /\ put[k] = c
      BY <1>1, <1>3, <3>3, Keys DEF RowOf
    <3>. QED
      BY <3>1, <3>2, <3>3
  <2>. QED
    BY <1>1, <2>1, RowsPut
<1>6. PresentInv'
  <2>1. Base' = cursor /\ Base = cursor /\ chain' = chain
    BY <1>1 DEF Base, Importing
  <2>2. ASSUME NEW w \in Version, NEW c \in chain[w], c.block < cursor
        PROVE  Holds(pebbleCommitmentKey(w, c.tree, c.index), c)'
    <3>. DEFINE k == pebbleCommitmentKey(w, c.tree, c.index)
    <3>1. k \in DOMAIN db /\ db[k] = c
      BY <2>1, <2>2 DEF DbInv, PresentInv, Holds
    <3>2. CASE k \in DOMAIN put
      <4>1. PICK d \in batch : k = commitmentOf(d) /\ put[k] = d
        <5>1. \A d : k # leafOf(d)
          BY Keys
        <5>. QED
          BY <1>2, <3>2, <5>1
      <4>2. w = v /\ d.tree = c.tree /\ d.index = c.index
        BY <4>1, Keys
      <4>3. d = c
        BY <1>3, <4>2 DEF KeysDiffer, TypeInv
      <4>. QED
        BY <1>4, <3>2, <4>1, <4>3 DEF Holds
    <3>3. CASE k \notin DOMAIN put
      BY <1>4, <3>1, <3>3 DEF Holds
    <3>. QED
      BY <3>2, <3>3
  <2>3. ASSUME NEW k, k[1] \notin {"leaf", "commitment"}, NEW e, Holds(k, e)
        PROVE  Holds(k, e)'
    <3>1. k \notin DOMAIN put
      <4>1. \A c : k # leafOf(c) /\ k # commitmentOf(c)
        BY <2>3, Keys
      <4>. QED
        BY <1>2, <4>1
    <3>. QED
      BY <1>4, <2>3, <3>1 DEF Holds
  <2>4. ASSUME NEW n \in chain["nullifiers"], NullifierHeld(n)
        PROVE  NullifierHeld(n)'
    <3>1. \A w \in Version : written[w] \subseteq written'[w]
      BY <1>1 DEF TypeInv
    <3>2. Holds(pebbleNullifierKey(n.tree, n.nullifier), n) => Holds(pebbleNullifierKey(n.tree, n.nullifier), n)'
      BY <2>3, Keys
    <3>. QED
      BY <2>4, <3>1, <3>2 DEF NullifierHeld
  <2>5. ASSUME NEW u \in chain["unshields"], UnshieldHeld(u)
        PROVE  UnshieldHeld(u)'
    <3>1. PICK w \in chain["unshields"] :
              pebbleUnshieldKey(w) = pebbleUnshieldKey(u) /\ Holds(pebbleUnshieldKey(u), w)
      BY <2>5 DEF UnshieldHeld
    <3>2. Holds(pebbleUnshieldKey(u), w)'
      BY <2>3, <3>1, Keys
    <3>. QED
      BY <2>1, <3>1, <3>2 DEF UnshieldHeld
  <2>. QED
    BY <1>1, <2>1, <2>2, <2>4, <2>5 DEF DbInv, PresentInv
<1>7. LeafInv'
  <2>. SUFFICES ASSUME NEW w \in Version, NEW t, NEW i, pebbleCommitmentKey(w, t, i) \in DOMAIN db'
                PROVE  \/ \E x \in Version \ {w} : pebbleLeafKey(t, i) \in written'[x]
                       \/ Holds(pebbleLeafKey(t, i), leafFromCommitment(db[pebbleCommitmentKey(w, t, i)]))'
    BY DEF LeafInv
  <2>. DEFINE k == pebbleCommitmentKey(w, t, i)
              l == pebbleLeafKey(t, i)
  <2>1. /\ \A x \in Version : written[x] \subseteq written'[x]
        /\ \A c \in batch : pebbleLeafKey(c.tree, c.index) \in written'[v]
    BY <1>1 DEF TypeInv
  <2>2. CASE k \in DOMAIN put
    <3>1. PICK c \in batch : k = commitmentOf(c) /\ put[k] = c
      <4>1. \A d : k # leafOf(d)
        BY Keys
      <4>. QED
        BY <1>2, <2>2, <4>1
    <3>2. t = c.tree /\ i = c.index
      BY <3>1, Keys
    <3>3. db'[k] = c
      BY <1>4, <2>2, <3>1
    <3>4. Holds(l, leafFromCommitment(c))'
      BY <1>2, <1>4, <3>1, <3>2 DEF Holds
    <3>. QED
      BY <3>3, <3>4 DEF Holds
  <2>3. CASE k \notin DOMAIN put
    <3>1. k \in DOMAIN db /\ db'[k] = db[k]
      BY <1>4, <2>3
    <3>2. CASE l \in DOMAIN put
      <4>1. PICK c \in batch : l = leafOf(c)
        <5>1. \A d : l # commitmentOf(d)
          BY Keys
        <5>. QED
          BY <1>2, <3>2, <5>1
      <4>2. t = c.tree /\ i = c.index
        BY <4>1, Keys
      <4>3. w # v
        BY <1>2, <2>3, <4>1, <4>2
      <4>. QED
        BY <2>1, <4>2, <4>3
    <3>3. CASE l \notin DOMAIN put
      <4>1. Holds(l, leafFromCommitment(db[k])) => Holds(l, leafFromCommitment(db[k]))'
        BY <1>4, <3>1, <3>3 DEF Holds
      <4>2. (\E x \in Version \ {w} : pebbleLeafKey(t, i) \in written[x]) \/ Holds(l, leafFromCommitment(db[k]))
        BY <3>1 DEF DbInv, LeafInv
      <4>. QED
        BY <2>1, <4>1, <4>2
    <3>. QED
      BY <3>2, <3>3
  <2>. QED
    BY <2>2, <2>3
<1>. QED
  BY <1>5, <1>6, <1>7 DEF DbInv

\* An import of nullifiers or of unshields touches no leaf and no commitment, and
\* puts back what is there already of the blocks that are done.
LEMMA DbOther ==
    ASSUME TypeInv, DbInv, Importing, UNCHANGED <<chain, cursor, owed, job.pc>>,
           \A w \in Version : written[w] \subseteq written'[w],
           NEW put, Put(put),
           \A k \in DOMAIN put : put[k].block = cursor /\ RowOf(k, put[k]),
           \A k \in DOMAIN put : k[1] \in {"nullifier", "unshield"},
           \A n \in chain["nullifiers"] : NullifierHeld(n) => NullifierHeld(n)',
           \A n \in chain["nullifiers"] :
               n.block = cursor /\ n.version \in job'.upserted \ job.upserted => NullifierHeld(n)',
           \A u \in chain["unshields"] : UnshieldHeld(u) => UnshieldHeld(u)'
    PROVE  DbInv'
<1>1. /\ DOMAIN db' = DOMAIN put \cup DOMAIN db
      /\ \A k \in DOMAIN put : db'[k] = put[k]
      /\ \A k \in DOMAIN db \ DOMAIN put : db'[k] = db[k]
  BY PutIs
<1>2. \A k \in DOMAIN db' : RowInv(k)'
  BY RowsPut
<1>3. Base' = cursor /\ Base = cursor
  BY DEF Base, Importing
<1>4. ASSUME NEW k, NEW e, Holds(k, e), k \in DOMAIN put => put[k] = e
      PROVE  Holds(k, e)'
  BY <1>1, <1>4 DEF Holds
<1>5. \A k : k[1] \in {"leaf", "commitment"} => k \notin DOMAIN put
  OBVIOUS
<1>6. PresentInv'
  <2>1. ASSUME NEW w \in Version, NEW c \in chain[w], c.block < cursor
        PROVE  Holds(pebbleCommitmentKey(w, c.tree, c.index), c)'
    BY <1>3, <1>4, <1>5, <2>1, Keys DEF DbInv, PresentInv
  <2>2. ASSUME NEW n \in chain["nullifiers"], n.block < cursor
        PROVE  NullifierHeld(n)'
    BY <1>3, <2>2 DEF DbInv, PresentInv
  <2>4. ASSUME NEW n \in chain["nullifiers"], n.block = cursor, n.version \in job'.upserted
        PROVE  NullifierHeld(n)'
    <3>1. CASE n.version \in job.upserted
      BY <2>4, <3>1 DEF DbInv, PresentInv, Importing
    <3>2. CASE n.version \notin job.upserted
      BY <2>4, <3>2
    <3>. QED
      BY <3>1, <3>2
  <2>3. ASSUME NEW u \in chain["unshields"], u.block < cursor
        PROVE  UnshieldHeld(u)'
    BY <1>3, <2>3 DEF DbInv, PresentInv
  <2>. QED
    BY <1>3, <2>1, <2>2, <2>3, <2>4 DEF PresentInv
<1>7. LeafInv'
  <2>. SUFFICES ASSUME NEW w \in Version, NEW t, NEW i, pebbleCommitmentKey(w, t, i) \in DOMAIN db'
                PROVE  \/ \E x \in Version \ {w} : pebbleLeafKey(t, i) \in written'[x]
                       \/ Holds(pebbleLeafKey(t, i), leafFromCommitment(db[pebbleCommitmentKey(w, t, i)]))'
    BY DEF LeafInv
  <2>1. pebbleCommitmentKey(w, t, i) \notin DOMAIN put /\ pebbleLeafKey(t, i) \notin DOMAIN put
    BY <1>5, Keys
  <2>2. /\ pebbleCommitmentKey(w, t, i) \in DOMAIN db
        /\ db'[pebbleCommitmentKey(w, t, i)] = db[pebbleCommitmentKey(w, t, i)]
    BY <1>1, <2>1
  <2>3. \/ \E x \in Version \ {w} : pebbleLeafKey(t, i) \in written[x]
        \/ Holds(pebbleLeafKey(t, i), leafFromCommitment(db[pebbleCommitmentKey(w, t, i)]))
    BY <2>2 DEF DbInv, LeafInv
  <2>. QED
    BY <1>1, <2>1, <2>2, <2>3 DEF Holds
<1>. QED
  BY <1>2, <1>6, <1>7 DEF DbInv

LEMMA DbNullifiers ==
    ASSUME KeysDiffer, TypeInv, DbInv, NEW v \in Version, UpsertNullifiers(v)
    PROVE  DbInv'
<1>. DEFINE batch == {n \in At("nullifiers") : n.version = v}
            keyOf(n) == pebbleNullifierKey(n.tree, n.nullifier)
            keys == {keyOf(n) : n \in batch}
            put == [key \in keys |-> CHOOSE n \in batch : keyOf(n) = key]
<1>1. /\ Importing /\ Put(put) /\ UNCHANGED <<chain, cursor, owed>>
      /\ written' = [written EXCEPT ![v] = @ \cup keys]
      /\ job' = [job EXCEPT !.upserted = @ \cup {v}]
  BY DEF UpsertNullifiers
<1>2. /\ DOMAIN put = keys
      /\ \A k \in DOMAIN put : put[k] \in batch /\ keyOf(put[k]) = k
  OBVIOUS
<1>3. \A n \in batch : n \in chain["nullifiers"] /\ n.block = cursor /\ n.version = v /\ keyOf(n) \in keys
  BY DEF At
<1>4. \A n \in chain["nullifiers"] : n.block = cursor /\ n.version = v => n \in batch
  BY DEF At
<1>5. /\ \A w \in Version : written[w] \subseteq written'[w]
      /\ keys \subseteq written'[v] /\ job'.upserted = job.upserted \cup {v} /\ job'.pc = job.pc
  BY <1>1 DEF TypeInv
<1>6. /\ DOMAIN db' = DOMAIN put \cup DOMAIN db
      /\ \A k \in DOMAIN put : db'[k] = put[k]
      /\ \A k \in DOMAIN db \ DOMAIN put : db'[k] = db[k]
  BY <1>1, PutIs
<1>. HIDE DEF put, batch, keys
<1>7. ASSUME NEW k \in DOMAIN put
      PROVE  put[k].block = cursor /\ RowOf(k, put[k]) /\ k[1] = "nullifier"
  <2>1. put[k] \in chain["nullifiers"] /\ put[k].block = cursor
    BY <1>2, <1>3
  <2>2. k = pebbleNullifierKey(put[k].tree, put[k].nullifier)
    BY <1>2
  <2>3. k[1] = "nullifier"
    BY <2>2, Keys
  <2>. QED
    BY <2>1, <2>2, <2>3 DEF RowOf
\* The row that a nullifier's key gets is its own or the other version's.
<1>8. ASSUME NEW n \in chain["nullifiers"], keyOf(n) \in DOMAIN put
      PROVE  NullifierHeld(n)'
  <2>1. PICK m : m = put[keyOf(n)] /\ m \in chain["nullifiers"] /\ m.version = v /\ keyOf(m) = keyOf(n)
    BY <1>2, <1>3, <1>8
  <2>2. m.tree = n.tree /\ m.nullifier = n.nullifier
    BY <2>1, Keys
  <2>3. CASE n.version = v
    <3>1. m = n
      BY <2>1, <2>2, <2>3 DEF KeysDiffer, TypeInv
    <3>. QED
      BY <1>6, <1>8, <2>1, <3>1 DEF NullifierHeld, Holds
  <2>4. CASE n.version # v
    BY <1>2, <1>5, <1>8, <2>4 DEF NullifierHeld
  <2>. QED
    BY <2>3, <2>4
<1>9. ASSUME NEW n \in chain["nullifiers"], NullifierHeld(n)
      PROVE  NullifierHeld(n)'
  <2>1. CASE keyOf(n) \in DOMAIN put
    BY <1>8, <2>1
  <2>2. CASE keyOf(n) \notin DOMAIN put
    BY <1>5, <1>6, <1>9, <2>2 DEF NullifierHeld, Holds
  <2>. QED
    BY <2>1, <2>2
<1>10. ASSUME NEW n \in chain["nullifiers"], n.block = cursor, n.version \in job'.upserted \ job.upserted
       PROVE  NullifierHeld(n)'
  <2>1. keyOf(n) \in DOMAIN put
    BY <1>2, <1>3, <1>4, <1>5, <1>10
  <2>. QED
    BY <1>8, <2>1
<1>11. ASSUME NEW u \in chain["unshields"], UnshieldHeld(u)
       PROVE  UnshieldHeld(u)'
  <2>1. pebbleUnshieldKey(u) \notin DOMAIN put
    BY <1>7, Keys
  <2>. QED
    BY <1>1, <1>6, <1>11, <2>1 DEF UnshieldHeld, Holds
<1>. QED
  BY <1>1, <1>5, <1>7, <1>9, <1>10, <1>11, DbOther

LEMMA DbUnshields ==
    ASSUME TypeInv, DbInv, NEW v \in Version, NEW replace \in BOOLEAN, UpsertUnshieldEvents(v, replace)
    PROVE  DbInv'
<1>. DEFINE batch == {u \in At("unshields") :
                        u.version = v /\ (replace \/ pebbleUnshieldKey(u) \notin DOMAIN db)}
            keys == {pebbleUnshieldKey(u) : u \in batch}
<1>1. /\ Importing /\ UNCHANGED <<chain, cursor, owed, written, job>>
      /\ \E last \in [keys -> batch] : (\A key \in keys : pebbleUnshieldKey(last[key]) = key) /\ Put(last)
  BY DEF UpsertUnshieldEvents
<1>2. PICK put \in [keys -> batch] : (\A key \in keys : pebbleUnshieldKey(put[key]) = key) /\ Put(put)
  BY <1>1
<1>3. \A u \in batch : u \in chain["unshields"] /\ u.block = cursor
  BY DEF At
<1>4. \A k \in DOMAIN put : put[k] \in chain["unshields"] /\ put[k].block = cursor /\ pebbleUnshieldKey(put[k]) = k
  BY <1>2, <1>3
<1>5. /\ DOMAIN db' = DOMAIN put \cup DOMAIN db
      /\ \A k \in DOMAIN put : db'[k] = put[k]
      /\ \A k \in DOMAIN db \ DOMAIN put : db'[k] = db[k]
  BY <1>2, PutIs
<1>. HIDE DEF batch, keys
<1>6. ASSUME NEW k \in DOMAIN put
      PROVE  put[k].block = cursor /\ RowOf(k, put[k]) /\ k[1] = "unshield"
  <2>1. put[k] \in chain["unshields"] /\ put[k].block = cursor /\ k = pebbleUnshieldKey(put[k])
    BY <1>4
  <2>2. k[1] = "unshield"
    BY <2>1, Keys
  <2>. QED
    BY <2>1, <2>2 DEF RowOf
<1>7. ASSUME NEW n \in chain["nullifiers"], NullifierHeld(n)
      PROVE  NullifierHeld(n)'
  <2>1. pebbleNullifierKey(n.tree, n.nullifier) \notin DOMAIN put
    BY <1>6, Keys
  <2>. QED
    BY <1>1, <1>5, <1>7, <2>1 DEF NullifierHeld, Holds
<1>8. ASSUME NEW u \in chain["unshields"], UnshieldHeld(u)
      PROVE  UnshieldHeld(u)'
  <2>1. CASE pebbleUnshieldKey(u) \in DOMAIN put
    BY <1>1, <1>4, <1>5, <2>1 DEF UnshieldHeld, Holds
  <2>2. CASE pebbleUnshieldKey(u) \notin DOMAIN put
    BY <1>1, <1>5, <1>8, <2>2 DEF UnshieldHeld, Holds
  <2>. QED
    BY <2>1, <2>2
<1>. QED
  BY <1>1, <1>2, <1>6, <1>7, <1>8, DbOther

\* The block is done: its events are in the database.
LEMMA DbSaved ==
    ASSUME KeysDiffer, TypeInv, DbInv, SaveCheckpoint
    PROVE  DbInv'
<1>1. /\ owed = 0 /\ owed' = 0 /\ cursor \in Nat /\ cursor' = cursor + 1 /\ job'.pc = "idle"
      /\ job'.upserted = {} /\ UNCHANGED <<chain, db, written>>
  BY DEF SaveCheckpoint, Importing, TypeInv, Idle
<1>2. \A k \in DOMAIN db : RowInv(k)'
  <2>. TAKE k \in DOMAIN db
  <2>1. RowInv(k)
    BY DEF DbInv
  <2>2. PICK b \in Nat : b = db[k].block
    BY <2>1 DEF RowInv
  <2>3. b <= cursor' /\ job'.pc \notin Rolling
    BY <1>1, <2>1, <2>2 DEF RowInv, Rolling
  <2>4. RowOf(k, db[k])'
    BY <1>1, <2>1 DEF RowInv, RowOf, Standing
  <2>. QED
    BY <1>1, <2>2, <2>3, <2>4 DEF RowInv
<1>3. Base = cursor /\ Base' = cursor + 1
  BY <1>1 DEF Base
<1>4. \A e : e.block \in Nat /\ e.block < cursor + 1 => e.block < cursor \/ e.block = cursor
  BY <1>1
<1>5. \A kind \in Kind : \A e \in chain[kind] : e.block \in Nat
  BY StoresAssumption DEF TypeInv, Kind
<1>6. PresentInv'
  <2>1. ASSUME NEW w \in Version, NEW c \in chain[w], c.block < cursor + 1
        PROVE  Holds(pebbleCommitmentKey(w, c.tree, c.index), c)
    <3>1. CASE c.block = cursor
      <4>1. GetCommitment(w, c.tree, c.index) = {c}
        BY <3>1 DEF SaveCheckpoint, Imported, At
      <4>. QED
        BY <4>1 DEF GetCommitment, Get, Holds
    <3>2. CASE c.block < cursor
      BY <1>3, <3>2 DEF DbInv, PresentInv
    <3>. QED
      BY <1>4, <1>5, <2>1, <3>1, <3>2 DEF Version, Kind
  <2>2. ASSUME NEW n \in chain["nullifiers"], n.block < cursor + 1
        PROVE  NullifierHeld(n)
    <3>1. CASE n.block = cursor
      <4>1. n.version \in job.upserted
        BY <3>1 DEF SaveCheckpoint, Imported, At
      <4>. QED
        BY <1>1, <3>1, <4>1 DEF DbInv, PresentInv
    <3>2. CASE n.block < cursor
      BY <1>3, <3>2 DEF DbInv, PresentInv
    <3>. QED
      BY <1>4, <1>5, <2>2, <3>1, <3>2 DEF Kind
  <2>3. ASSUME NEW u \in chain["unshields"], u.block < cursor + 1
        PROVE  UnshieldHeld(u)
    <3>1. CASE u.block = cursor
      <4>. DEFINE k == pebbleUnshieldKey(u)
      <4>1. k \in DOMAIN db
        BY <3>1 DEF SaveCheckpoint, Imported, At
      <4>2. k[1] = "unshield"
        BY Keys
      <4>3. RowOf(k, db[k])
        BY <4>1 DEF DbInv, RowInv
      <4>4. k = pebbleUnshieldKey(db[k]) /\ db[k] \in chain["unshields"]
        BY <1>1, <4>2, <4>3 DEF RowOf, Standing
      <4>. QED
        BY <4>1, <4>4 DEF UnshieldHeld, Holds
    <3>2. CASE u.block < cursor
      BY <1>3, <3>2 DEF DbInv, PresentInv
    <3>. QED
      BY <1>4, <1>5, <2>3, <3>1, <3>2 DEF Kind
  <2>. QED
    BY <1>1, <1>3, <2>1, <2>2, <2>3 DEF PresentInv, NullifierHeld, UnshieldHeld, Holds
<1>7. LeafInv'
  BY <1>1 DEF DbInv, LeafInv, Holds
<1>. QED
  BY <1>1, <1>2, <1>6, <1>7 DEF DbInv

\* The chains agree on the blocks below the one where they part.
LEMMA DbReorg ==
    ASSUME KeysDiffer, TypeInv, DbInv, NEW from \in Block, NEW new \in Chains, Reorg(from, new)
    PROVE  DbInv'
<1>1. /\ owed = 0 /\ job.pc = "idle" /\ from <= cursor /\ chain' = new /\ owed' = from
      /\ Below(new, from) = Below(chain, from)
      /\ UNCHANGED <<cursor, db, written, job>>
  BY DEF Reorg
<1>2. from \in Nat /\ from # 0 /\ cursor \in Nat
  BY DEF Block, TypeInv
<1>3. \A kind \in Kind : \A e : e.block < from => (e \in chain[kind] <=> e \in new[kind])
  <2>. TAKE kind \in Kind
  <2>1. kind \in DOMAIN chain /\ kind \in DOMAIN new
    BY StoresAssumption DEF TypeInv, Kind
  <2>2. {e \in new[kind] : e.block < from} = {e \in chain[kind] : e.block < from}
    BY <1>1, <2>1 DEF Below
  <2>. QED
    BY <2>2
<1>4. \A k \in DOMAIN db : RowInv(k)'
  <2>. TAKE k \in DOMAIN db
  <2>. DEFINE e == db[k]
  <2>1. RowInv(k)
    BY DEF DbInv
  <2>2. RowOf(k, e)'
    <3>1. e.block < from => \A kind \in Kind : e \in chain[kind] => e \in new[kind]
      BY <1>3
    <3>2. RowOf(k, e) /\ Standing(e)
      BY <1>1, <2>1 DEF RowInv, Standing
    <3>3. Standing(e)' => e.block < from
      BY <1>1, <1>2 DEF Standing
    <3>. HIDE DEF e
    <3>4. e' = e
      BY <1>1 DEF e
    <3>. QED
      BY <1>1, <3>1, <3>2, <3>3, <3>4 DEF RowOf, Kind, Version
  <2>. QED
    BY <1>1, <1>2, <2>1, <2>2 DEF RowInv, Rolling
<1>5. PresentInv'
  <2>1. Base' = from /\ Base = cursor
    BY <1>1, <1>2 DEF Base
  <2>2. \A kind \in Kind : \A e \in new[kind] : e.block \in Nat
    BY StoresAssumption DEF Kind
  <2>3. ASSUME NEW kind \in Kind, NEW e \in new[kind], e.block < from
        PROVE  e \in chain[kind] /\ e.block < Base
    <3>1. e.block < cursor
      BY <1>1, <1>2, <2>2, <2>3
    <3>. QED
      BY <1>3, <2>1, <2>3, <3>1
  <2>4. ASSUME NEW w \in Version, NEW c \in new[w], c.block < from
        PROVE  Holds(pebbleCommitmentKey(w, c.tree, c.index), c)
    BY <2>3, <2>4 DEF DbInv, PresentInv, Version, Kind
  <2>5. ASSUME NEW n \in new["nullifiers"], n.block < from
        PROVE  NullifierHeld(n)
    BY <2>3, <2>5 DEF DbInv, PresentInv, Kind
  <2>6. ASSUME NEW u \in new["unshields"], u.block < from
        PROVE  UnshieldHeld(u)'
    <3>1. u \in chain["unshields"] /\ UnshieldHeld(u)
      BY <2>3, <2>6 DEF DbInv, PresentInv, Kind
    <3>2. PICK w \in chain["unshields"] :
              pebbleUnshieldKey(w) = pebbleUnshieldKey(u) /\ Holds(pebbleUnshieldKey(u), w)
      BY <3>1 DEF UnshieldHeld
    <3>3. w.block < from
      BY <2>6, <3>1, <3>2, SameBlock
    <3>4. w \in new["unshields"]
      BY <1>3, <3>2, <3>3 DEF Kind
    <3>. QED
      BY <1>1, <3>2, <3>4 DEF UnshieldHeld, Holds
  <2>. QED
    BY <1>1, <1>2, <2>1, <2>4, <2>5, <2>6 DEF PresentInv, NullifierHeld, Holds
<1>6. LeafInv'
  BY <1>1 DEF DbInv, LeafInv, Holds
<1>. QED
  BY <1>1, <1>4, <1>5, <1>6 DEF DbInv

\* A leaf has the block of its commitment: the two are kept or deleted together.
LEMMA DbRolledBack ==
    ASSUME KeysDiffer, TypeInv, DbInv, RollbackPebble
    PROVE  DbInv'
<1>1. /\ owed # 0 /\ UNCHANGED <<chain, cursor, owed, written>>
      /\ DOMAIN db' = {k \in DOMAIN db : db[k].block < owed}
      /\ \A k \in DOMAIN db' : db'[k] = db[k]
  BY DEF RollbackPebble, Kept
<1>2. \A k \in DOMAIN db' : RowInv(k)'
  <2>. TAKE k \in DOMAIN db'
  <2>1. RowInv(k) /\ db[k].block < owed
    BY <1>1 DEF DbInv
  <2>2. RowOf(k, db[k]) => RowOf(k, db[k])'
    BY <1>1 DEF RowOf, Standing
  <2>. QED
    BY <1>1, <2>1, <2>2 DEF RowInv
<1>3. Base' = owed /\ Base = owed
  BY <1>1 DEF Base
<1>4. ASSUME NEW k, NEW e, Holds(k, e), e.block < owed
      PROVE  Holds(k, e)'
  BY <1>1, <1>4 DEF Holds
<1>5. PresentInv'
  <2>1. ASSUME NEW w \in Version, NEW c \in chain[w], c.block < owed
        PROVE  Holds(pebbleCommitmentKey(w, c.tree, c.index), c)'
    BY <1>3, <1>4, <2>1 DEF DbInv, PresentInv
  <2>2. ASSUME NEW n \in chain["nullifiers"], n.block < owed
        PROVE  NullifierHeld(n)'
    <3>1. NullifierHeld(n)
      BY <1>3, <2>2 DEF DbInv, PresentInv
    <3>2. Holds(pebbleNullifierKey(n.tree, n.nullifier), n) => Holds(pebbleNullifierKey(n.tree, n.nullifier), n)'
      BY <1>4, <2>2
    <3>. QED
      BY <1>1, <3>1, <3>2 DEF NullifierHeld
  <2>3. ASSUME NEW u \in chain["unshields"], u.block < owed
        PROVE  UnshieldHeld(u)'
    <3>1. PICK w \in chain["unshields"] :
              pebbleUnshieldKey(w) = pebbleUnshieldKey(u) /\ Holds(pebbleUnshieldKey(u), w)
      BY <1>3, <2>3 DEF DbInv, PresentInv, UnshieldHeld
    <3>2. w.block < owed
      BY <2>3, <3>1, SameBlock
    <3>. QED
      BY <1>1, <1>4, <3>1, <3>2 DEF UnshieldHeld
  <2>. QED
    BY <1>1, <1>3, <2>1, <2>2, <2>3 DEF PresentInv
<1>6. LeafInv'
  <2>. SUFFICES ASSUME NEW w \in Version, NEW t, NEW i, pebbleCommitmentKey(w, t, i) \in DOMAIN db'
                PROVE  \/ \E x \in Version \ {w} : pebbleLeafKey(t, i) \in written'[x]
                       \/ Holds(pebbleLeafKey(t, i), leafFromCommitment(db[pebbleCommitmentKey(w, t, i)]))'
    BY DEF LeafInv
  <2>. DEFINE k == pebbleCommitmentKey(w, t, i)
  <2>1. k \in DOMAIN db /\ db'[k] = db[k] /\ db[k].block < owed
    BY <1>1
  <2>2. leafFromCommitment(db[k]).block < owed
    BY <2>1 DEF leafFromCommitment
  <2>3. \/ \E x \in Version \ {w} : pebbleLeafKey(t, i) \in written[x]
        \/ Holds(pebbleLeafKey(t, i), leafFromCommitment(db[k]))
    BY <2>1 DEF DbInv, LeafInv
  <2>4. Holds(pebbleLeafKey(t, i), leafFromCommitment(db[k])) =>
            pebbleLeafKey(t, i) \in DOMAIN db' /\ db'[pebbleLeafKey(t, i)] = leafFromCommitment(db[k])
    BY <1>1, <2>2 DEF Holds
  <2>5. db[k]' = db[k]
    BY <2>1
  <2>. QED
    BY <1>1, <2>3, <2>4, <2>5 DEF Holds
<1>. QED
  BY <1>2, <1>5, <1>6 DEF DbInv

\* The rollback is done when the TXID tree's is: the last of the three stores.
LEMMA DbRolled ==
    ASSUME TypeInv, DbInv, TransactionInv, RenameTree
    PROVE  DbInv'
<1>1. CASE job.pc = "leafSaved"
  <2>1. job' = [job EXCEPT !.pc = "idle", !.tx = None, !.done = @ \cup {job.tx}]
    BY <1>1 DEF RenameTree
  <2>2. job'.pc = "idle" /\ job'.upserted = job.upserted
    BY <2>1 DEF TypeInv
  <2>. QED
    BY <1>1, <2>2, DbStays DEF RenameTree, DbVars, Rolling
<1>2. CASE job.pc = "treeRolled"
  <2>1. /\ owed # 0 /\ owed \in Nat /\ cursor' = owed /\ owed' = 0 /\ job' = Idle
        /\ UNCHANGED <<chain, db, written>>
    BY <1>2 DEF RenameTree, TransactionInv, Rolling, TypeInv
  <2>2. \A k \in DOMAIN db : RowInv(k)'
    <3>. TAKE k \in DOMAIN db
    <3>1. RowInv(k) /\ db[k].block < owed
      BY <1>2 DEF DbInv, RowInv, Rolling
    <3>2. RowOf(k, db[k])'
      BY <2>1, <3>1 DEF RowInv, RowOf, Standing
    <3>3. db'[k] = db[k] /\ job'.pc \notin Rolling
      BY <2>1 DEF Idle, Rolling
    <3>. QED
      BY <2>1, <3>1, <3>2, <3>3 DEF RowInv
  <2>3. Base' = owed /\ Base = owed
    BY <2>1 DEF Base
  <2>4. PresentInv'
    BY <2>1, <2>3 DEF DbInv, PresentInv, NullifierHeld, UnshieldHeld, Holds, Idle
  <2>5. LeafInv'
    BY <2>1 DEF DbInv, LeafInv, Holds
  <2>. QED
    BY <2>1, <2>2, <2>4, <2>5 DEF DbInv
<1>. QED
  BY <1>1, <1>2 DEF RenameTree

LEMMA DbNext ==
    ASSUME KeysDiffer, IInv, [Next]_vars
    PROVE  DbInv'
<1>. USE DEF IInv
<1>1. ASSUME NEW v \in Version, UpsertCommitmentEvents(v) PROVE DbInv'
  BY <1>1, DbCommitments
<1>2. ASSUME NEW v \in Version, UpsertNullifiers(v) PROVE DbInv'
  BY <1>2, DbNullifiers
<1>3. ASSUME NEW v \in Version, NEW replace \in BOOLEAN, UpsertUnshieldEvents(v, replace) PROVE DbInv'
  BY <1>3, DbUnshields
<1>4. ASSUME NEW t \in AllTransactions, UpsertTransaction(t) PROVE DbInv'
  BY <1>4, DbStays DEF UpsertTransaction, DbVars, Rolling, TypeInv
<1>5. ASSUME RenameTransactions PROVE DbInv'
  BY <1>5, DbStays DEF RenameTransactions, Goto, DbVars, Rolling, TypeInv
<1>6. ASSUME AppendTransactionLeaf PROVE DbInv'
  BY <1>6, DbStays DEF AppendTransactionLeaf, Goto, DbVars, Rolling, TypeInv
<1>7. ASSUME RenameTree PROVE DbInv'
  BY <1>7, DbRolled
<1>8. ASSUME SaveCheckpoint PROVE DbInv'
  BY <1>8, DbSaved
<1>9. ASSUME NEW from \in Block, NEW new \in Chains, Reorg(from, new) PROVE DbInv'
  BY <1>9, DbReorg
<1>10. ASSUME RollbackPebble PROVE DbInv'
  BY <1>10, DbRolledBack
<1>11. ASSUME RollbackTransactions PROVE DbInv'
  BY <1>11, DbStays DEF RollbackTransactions, Goto, DbVars, Rolling, TypeInv
<1>12. ASSUME RollbackTree PROVE DbInv'
  BY <1>12, DbStays DEF RollbackTree, Goto, DbVars, Rolling, TypeInv
<1>13. ASSUME Crash PROVE DbInv'
  BY <1>13, DbStays DEF Crash, DbVars, Rolling, Idle
<1>14. ASSUME UNCHANGED vars PROVE DbInv'
  BY <1>14, DbStays DEF vars, DbVars, Rolling
<1>. QED
  BY <1>1, <1>2, <1>3, <1>4, <1>5, <1>6, <1>7, <1>8, <1>9, <1>10, <1>11, <1>12, <1>13, <1>14 DEF Next

-----------------------------------------------------------------------------
(* The places of the TXID tree.                                            *)

LEMMA BlocksNat ==
    /\ \A t \in AllTransactions : t.block \in Nat
    /\ chain \in Chains => chain["transactions"] \subseteq AllTransactions
    /\ \A c \in Chains : \A t \in c["transactions"] : t \in AllTransactions /\ t.block \in Nat
<1>1. \A c \in Chains : \A t \in c["transactions"] : t \in AllTransactions /\ t.block \in Nat
  BY StoresAssumption DEF AllTransactions
<1>. QED
  BY <1>1 DEF AllTransactions

LEMMA LeafBlocks == \A l \in LeafRec : l.block \in Nat
  BY BlocksNat DEF LeafRec

LEMMA TreeItems ==
    TreeDepth \in Nat /\ TreeMaxItems \in Nat /\ TreeMaxItems > 0
<1>1. TreeDepth \in Nat
  BY StoresAssumption
<1>. QED
  BY <1>1, Powers DEF TreeMaxItems

\* A place has one position, and a position one place.
LEMMA Positions ==
    /\ \A l : l.tree \in Nat /\ l.index \in 0 .. TreeMaxItems - 1 => GetGlobalTreePosition(l) \in Nat
    /\ \A l, m : /\ l.tree \in Nat /\ l.index \in 0 .. TreeMaxItems - 1
                 /\ m.tree \in Nat /\ m.index \in 0 .. TreeMaxItems - 1
                 /\ GetGlobalTreePosition(l) = GetGlobalTreePosition(m)
                 => l.tree = m.tree /\ l.index = m.index
    /\ \A n \in Nat : LET p == [tree |-> n \div TreeMaxItems, index |-> n % TreeMaxItems]
                      IN  /\ p.tree \in Nat /\ p.index \in 0 .. TreeMaxItems - 1
                          /\ GetGlobalTreePosition(p) = n
<1>1. PICK T \in Nat : T = TreeMaxItems /\ T > 0
  BY TreeItems
<1>2. \A t, u \in Nat : \A i, j \in 0 .. T - 1 : t * T + i = u * T + j => t = u /\ i = j
  <2>. SUFFICES ASSUME NEW t \in Nat, NEW u \in Nat, NEW i \in 0 .. T - 1, NEW j \in 0 .. T - 1,
                       t * T + i = u * T + j
                PROVE  t = u /\ i = j
    OBVIOUS
  <2>1. t * T \in Nat /\ u * T \in Nat
    BY <1>1
  <2>2. ASSUME t < u PROVE FALSE
    <3>1. PICK d \in Nat : u = t + 1 + d
      <4>1. u - t - 1 \in Nat /\ u = t + 1 + (u - t - 1)
        BY <2>2
      <4>. QED
        BY <4>1
    <3>2. u * T = t * T + T + d * T /\ d * T \in Nat
      BY <1>1, <3>1
    <3>. QED
      BY <1>1, <2>1, <3>2
  <2>3. ASSUME u < t PROVE FALSE
    <3>1. PICK d \in Nat : t = u + 1 + d
      <4>1. t - u - 1 \in Nat /\ t = u + 1 + (t - u - 1)
        BY <2>3
      <4>. QED
        BY <4>1
    <3>2. t * T = u * T + T + d * T /\ d * T \in Nat
      BY <1>1, <3>1
    <3>. QED
      BY <1>1, <2>1, <3>2
  <2>4. t = u
    BY <2>2, <2>3
  <2>. QED
    BY <2>1, <2>4
<1>3. \A t \in Nat : \A i \in 0 .. T - 1 : t * T + i \in Nat
  BY <1>1
<1>4. \A n \in Nat : n \div T \in Nat /\ n % T \in 0 .. T - 1 /\ (n \div T) * T + (n % T) = n
  <2>. TAKE n \in Nat
  <2>1. n \div T \in Nat
    BY <1>1
  <2>2. n % T \in 0 .. T - 1
    BY <1>1
  <2>3. (n \div T) * T + (n % T) = n
    BY <1>1
  <2>. QED
    BY <2>1, <2>2, <2>3
<1>5. \A l : l.tree \in Nat /\ l.index \in 0 .. T - 1 => GetGlobalTreePosition(l) \in Nat
  BY <1>1, <1>3 DEF GetGlobalTreePosition
<1>6. \A l, m : /\ l.tree \in Nat /\ l.index \in 0 .. T - 1
                /\ m.tree \in Nat /\ m.index \in 0 .. T - 1
                /\ GetGlobalTreePosition(l) = GetGlobalTreePosition(m)
                => l.tree = m.tree /\ l.index = m.index
  <2>. SUFFICES ASSUME NEW l, NEW m,
                       l.tree \in Nat, l.index \in 0 .. T - 1, m.tree \in Nat, m.index \in 0 .. T - 1,
                       GetGlobalTreePosition(l) = GetGlobalTreePosition(m)
                PROVE  l.tree = m.tree /\ l.index = m.index
    OBVIOUS
  <2>1. GetGlobalTreePosition(l) = l.tree * T + l.index /\ GetGlobalTreePosition(m) = m.tree * T + m.index
    BY <1>1 DEF GetGlobalTreePosition
  <2>2. l.tree * T + l.index = m.tree * T + m.index
    BY ONLY <2>1, GetGlobalTreePosition(l) = GetGlobalTreePosition(m)
  <2>. QED
    <3>. DEFINE t == l.tree
                i == l.index
                u == m.tree
                j == m.index
    <3>1. t \in Nat /\ u \in Nat /\ i \in 0 .. T - 1 /\ j \in 0 .. T - 1 /\ t * T + i = u * T + j
      BY ONLY <2>2, l.tree \in Nat, l.index \in 0 .. T - 1, m.tree \in Nat, m.index \in 0 .. T - 1
    <3>. HIDE DEF t, i, u, j
    <3>2. t = u /\ i = j
      BY ONLY <1>2, <3>1
    <3>. QED
      BY ONLY <3>2 DEF t, i, u, j
<1>7. \A n \in Nat : LET p == [tree |-> n \div T, index |-> n % T]
                     IN  /\ p.tree \in Nat /\ p.index \in 0 .. T - 1
                         /\ GetGlobalTreePosition(p) = n
  BY <1>1, <1>4 DEF GetGlobalTreePosition
<1>8. TreeMaxItems = T
  BY <1>1
<1>. QED
  BY ONLY <1>8, <1>5, <1>6, <1>7, Zenon

\* The next place is behind the last one.
LEMMA NextIs ==
    ASSUME NEW n \in Nat, Filled(Leaves, n)
    PROVE  NextMerkleTreePosition = [tree |-> n \div TreeMaxItems, index |-> n % TreeMaxItems]
<1>. DEFINE last == {l \in Leaves : \A m \in Leaves : GetGlobalTreePosition(m) <= GetGlobalTreePosition(l)}
            next == IF Leaves = {} THEN 0 ELSE GetGlobalTreePosition(CHOOSE l \in last : TRUE) + 1
<1>1. CASE Leaves = {}
  <2>1. n = 0
    BY <1>1 DEF Filled
  <2>. QED
    BY <1>1, <2>1 DEF NextMerkleTreePosition
<1>2. CASE Leaves # {}
  <2>1. \A l \in Leaves : GetGlobalTreePosition(l) \in 0 .. n - 1
    BY DEF Filled
  <2>2. n - 1 \in 0 .. n - 1
    BY <1>2, <2>1
  <2>3. PICK l \in Leaves : GetGlobalTreePosition(l) = n - 1
    BY <2>2 DEF Filled
  <2>4. l \in last
    BY <2>1, <2>3
  <2>5. (CHOOSE m \in last : TRUE) \in last
    BY <2>4
  <2>. DEFINE c == CHOOSE m \in last : TRUE
  <2>6. c \in Leaves /\ GetGlobalTreePosition(l) <= GetGlobalTreePosition(c)
    BY <2>5
  <2>. HIDE DEF c
  <2>7. GetGlobalTreePosition(c) + 1 = n
    BY <2>1, <2>3, <2>6
  <2>. QED
    BY <1>2, <2>7 DEF NextMerkleTreePosition, c
<1>. QED
  BY <1>1, <1>2

\* One leaf more, of no earlier block.
LEMMA FilledMore ==
    ASSUME NEW leaves, NEW n \in Nat, Filled(leaves, n),
           NEW new \in LeafRec, GetGlobalTreePosition(new) = n, \A l \in leaves : l.block <= new.block
    PROVE  Filled(leaves \cup {new}, n + 1)
<1>. DEFINE pos(l) == GetGlobalTreePosition(l)
<1>1. /\ \A l \in leaves : l \in LeafRec /\ pos(l) \in 0 .. n - 1
      /\ \A k \in 0 .. n - 1 : \E l \in leaves : pos(l) = k
      /\ \A l, m \in leaves : pos(l) = pos(m) => l = m
      /\ \A l, m \in leaves : pos(l) <= pos(m) => l.block <= m.block
      /\ pos(new) = n
  BY DEF Filled
<1>2. new.block \in Nat
  BY LeafBlocks
<1>. HIDE DEF pos
<1>3. \A l \in leaves \cup {new} : l \in LeafRec /\ pos(l) \in 0 .. n
  BY <1>1
<1>4. \A k \in 0 .. n : \E l \in leaves \cup {new} : pos(l) = k
  <2>. TAKE k \in 0 .. n
  <2>1. CASE k = n
    BY <1>1, <2>1
  <2>2. CASE k # n
    <3>1. k \in 0 .. n - 1
      BY <2>2
    <3>. QED
      BY <1>1, <3>1
  <2>. QED
    BY <2>1, <2>2
<1>5. \A l, m \in leaves \cup {new} : pos(l) = pos(m) => l = m
  BY <1>1
<1>6. \A l, m \in leaves \cup {new} : pos(l) <= pos(m) => l.block <= m.block
  BY <1>1, <1>2
<1>7. (n + 1) - 1 = n
  OBVIOUS
<1>. QED
  BY <1>3, <1>4, <1>5, <1>6, <1>7 DEF Filled, pos

\* What a rollback leaves is filled still: the later blocks are the later places.
LEMMA FilledBelow ==
    ASSUME NEW leaves, NEW n \in Nat, Filled(leaves, n), NEW from \in Nat
    PROVE  \E m \in Nat : Filled({l \in leaves : l.block < from}, m)
<1>. DEFINE pos(l) == GetGlobalTreePosition(l)
            kept == {l \in leaves : l.block < from}
            T == {k \in 0 .. n : \A l \in kept : pos(l) < k}
<1>1. /\ \A l \in leaves : l \in LeafRec /\ pos(l) \in 0 .. n - 1 /\ l.block \in Nat
      /\ \A k \in 0 .. n - 1 : \E l \in leaves : pos(l) = k
      /\ \A l, m \in leaves : pos(l) = pos(m) => l = m
      /\ \A l, m \in leaves : pos(l) <= pos(m) => l.block <= m.block
  BY LeafBlocks DEF Filled
<1>. HIDE DEF pos
<1>2. n \in T /\ T \in SUBSET Nat
  BY <1>1
<1>3. PICK m \in T : \A k \in T : m <= k
  BY <1>2, LeastNat
<1>4. m \in Nat /\ m <= n /\ \A l \in kept : pos(l) \in 0 .. m - 1
  BY <1>1, <1>3
<1>5. ASSUME NEW k \in 0 .. m - 1
      PROVE  \E l \in kept : pos(l) = k
  <2>1. m - 1 \in 0 .. n /\ m - 1 \notin T
    BY <1>3, <1>4, <1>5
  <2>2. PICK l \in kept : ~ (pos(l) < m - 1)
    BY <2>1
  <2>3. k \in 0 .. n - 1 /\ k <= pos(l)
    BY <1>1, <1>4, <1>5, <2>2
  <2>4. PICK j \in leaves : pos(j) = k
    BY <1>1, <2>3
  <2>5. j.block <= l.block /\ j.block \in Nat /\ l.block \in Nat /\ l.block < from
    BY <1>1, <2>3, <2>4
  <2>. QED
    BY <2>4, <2>5
<1>6. Filled(kept, m)
  BY <1>1, <1>4, <1>5 DEF Filled, pos
<1>. QED
  BY <1>4, <1>6

-----------------------------------------------------------------------------
(* The files, step by step.                                                *)

LEMMA NewLeaf ==
    ASSUME IInv, job.pc = "position"
    PROVE  MerkleLeafFromTransaction(job.tx, NextMerkleTreePosition) \in LeafRec
<1>1. PICK n \in Nat : Filled(Leaves, n)
  BY DEF IInv, TreeInv
<1>2. /\ NextMerkleTreePosition.tree \in Nat
      /\ NextMerkleTreePosition.index \in 0 .. TreeMaxItems - 1
  BY <1>1, NextIs, Positions
<1>3. job.tx \in AllTransactions /\ job.tx.block \in Nat
  BY BlocksNat DEF IInv, TransactionInv, TypeInv
<1>. QED
  BY <1>2, <1>3 DEF MerkleLeafFromTransaction, LeafRec

LEMMA SavedFile ==
    ASSUME TypeInv, NEW f \in File, NEW content, saveLocked(f, content)
    PROVE  /\ files'[f].file = files[f].file /\ files'[f].tmp = content
           /\ \A g \in File \ {f} : files'[g] = files[g]
  BY DEF TypeInv, saveLocked

LEMMA RenamedFile ==
    ASSUME TypeInv, NEW f \in File, Rename(f)
    PROVE  /\ files'[f].file = files[f].tmp /\ files'[f].tmp = files[f].tmp
           /\ \A g \in File \ {f} : files'[g] = files[g]
  BY DEF TypeInv, Rename

LEMMA TwoFiles == "transactions" \in File /\ "txidTree" \in File /\ "transactions" # "txidTree"
  BY DEF File

FilesInv == TransactionInv /\ TreeInv

\* The writer where it was, stopped, or sent to the transactions by the database's rollback.
LEMMA FilesStay ==
    ASSUME IInv, UNCHANGED <<chain, cursor, owed, files>>,
           (job'.pc = job.pc /\ job'.tx = job.tx) \/ job'.pc = "idle" \/ (job'.pc = "transactions" /\ owed # 0)
    PROVE  FilesInv'
<1>. USE DEF Rolling
<1>1. TransactionInv'
  BY DEF IInv, TransactionInv, Transactions, Standing
<1>2. Leaves' = Leaves /\ NextMerkleTreePosition' = NextMerkleTreePosition
  BY DEF Leaves, NextMerkleTreePosition
<1>3. \A l : Standing(l)' <=> Standing(l)
  BY DEF Standing
<1>4. TreeInv'
  BY <1>2, <1>3 DEF IInv, TreeInv
<1>. QED
  BY <1>1, <1>4 DEF FilesInv

\* The tree is as it was while the file of the transactions is written.
LEMMA TreeStays ==
    ASSUME IInv, UNCHANGED <<chain, cursor, owed>>, files'["txidTree"] = files["txidTree"],
           job'.pc \notin {"leafSaved", "treeRolled"}
    PROVE  TreeInv'
<1>1. Leaves' = Leaves
  BY DEF Leaves
<1>2. \A l : Standing(l)' <=> Standing(l)
  BY DEF Standing
<1>. QED
  BY <1>1, <1>2 DEF IInv, TreeInv

LEMMA TransactionSaved ==
    ASSUME IInv, NEW t, UpsertTransaction(t)
    PROVE  FilesInv'
<1>1. /\ owed = 0 /\ cursor \in Block /\ job.pc = "idle"
      /\ t \in chain["transactions"] /\ t.block = cursor
      /\ saveLocked("transactions", {u \in Transactions : u.id # t.id} \cup {t})
      /\ job' = [job EXCEPT !.pc = "saved", !.tx = t]
      /\ UNCHANGED <<chain, cursor, owed>>
  BY DEF UpsertTransaction, Importing, At
<1>2. job'.pc = "saved" /\ job'.tx = t
  BY <1>1 DEF IInv, TypeInv
<1>3. /\ Transactions' = Transactions
      /\ files'["transactions"].tmp = {u \in Transactions : u.id # t.id} \cup {t}
      /\ files'["txidTree"] = files["txidTree"]
  BY <1>1, TwoFiles, SavedFile DEF Transactions, IInv
<1>4. TransactionInv'
  BY <1>1, <1>2, <1>3 DEF IInv, TransactionInv, Standing, Rolling
<1>5. TreeInv'
  BY <1>1, <1>2, <1>3, TreeStays
<1>. QED
  BY <1>4, <1>5 DEF FilesInv

LEMMA TransactionsRenamed ==
    ASSUME IInv, RenameTransactions
    PROVE  FilesInv'
<1>1. /\ job.pc \in {"saved", "rolled"}
      /\ Rename("transactions")
      /\ job' = [job EXCEPT !.pc = IF job.pc = "saved" THEN "position" ELSE "tree"]
      /\ UNCHANGED <<chain, cursor, owed>>
  BY DEF RenameTransactions, Goto
<1>2. job'.pc = (IF job.pc = "saved" THEN "position" ELSE "tree") /\ job'.tx = job.tx
  BY <1>1 DEF IInv, TypeInv
<1>3. Transactions' = files["transactions"].tmp /\ files'["txidTree"] = files["txidTree"]
  BY <1>1, TwoFiles, RenamedFile DEF Transactions, IInv
<1>4. TransactionInv
  BY DEF IInv
<1>5. ASSUME job.pc = "saved" PROVE TransactionInv'
  <2>1. /\ Transactions' = {u \in Transactions : u.id # job.tx.id} \cup {job.tx}
        /\ owed = 0 /\ cursor \in Block /\ job.tx \in chain["transactions"] /\ job.tx.block = cursor
        /\ job'.pc = "position"
    BY <1>2, <1>3, <1>4, <1>5 DEF TransactionInv
  <2>2. job.tx \in AllTransactions
    BY <2>1, BlocksNat DEF IInv, TypeInv
  <2>. QED
    BY <1>1, <1>2, <1>4, <2>1, <2>2 DEF TransactionInv, Standing, Rolling, Block
<1>6. ASSUME job.pc = "rolled" PROVE TransactionInv'
  BY <1>1, <1>2, <1>3, <1>4, <1>6 DEF TransactionInv, Standing, Rolling
<1>7. TransactionInv'
  BY <1>1, <1>5, <1>6
<1>8. TreeInv'
  BY <1>1, <1>2, <1>3, TreeStays
<1>. QED
  BY <1>7, <1>8 DEF FilesInv

\* The transactions are as they were while the file of the tree is written.
LEMMA TransactionsStay ==
    ASSUME IInv, UNCHANGED <<chain, cursor, owed>>, files'["transactions"] = files["transactions"],
           job'.tx = job.tx \/ job'.pc = "idle", job'.pc \notin {"saved", "position", "rolled"},
           job'.pc = "leafSaved" => job.pc = "position",
           job'.pc = "treeRolled" => job.pc = "tree",
           job'.pc \in Rolling => job.pc \in Rolling,
           job'.pc # "tree"
    PROVE  TransactionInv'
<1>1. Transactions' = Transactions
  BY DEF Transactions
<1>2. TransactionInv
  BY DEF IInv
<1>. QED
  BY <1>1, <1>2 DEF TransactionInv, Standing, Rolling

LEMMA LeafSaved ==
    ASSUME IInv, AppendTransactionLeaf
    PROVE  FilesInv'
<1>. DEFINE new == MerkleLeafFromTransaction(job.tx, NextMerkleTreePosition)
<1>1. /\ job.pc = "position"
      /\ GetGlobalTreePosition(NextMerkleTreePosition) < MaxLeaves
      /\ saveLocked("txidTree", Leaves \cup {new})
      /\ job' = [job EXCEPT !.pc = "leafSaved"]
      /\ UNCHANGED <<chain, cursor, owed>>
  BY DEF AppendTransactionLeaf, Goto
<1>2. job'.pc = "leafSaved" /\ job'.tx = job.tx
  BY <1>1 DEF IInv, TypeInv
<1>3. /\ Leaves' = Leaves
      /\ files'["txidTree"].tmp = Leaves \cup {new}
      /\ files'["transactions"] = files["transactions"]
  BY <1>1, TwoFiles, SavedFile DEF Leaves, IInv
<1>4. NextMerkleTreePosition' = NextMerkleTreePosition
  BY <1>3 DEF NextMerkleTreePosition
<1>5. TransactionInv'
  BY <1>1, <1>2, <1>3, TransactionsStay DEF Rolling
<1>6. new' = new
  BY <1>2, <1>4 DEF MerkleLeafFromTransaction
<1>. HIDE DEF new
<1>7. \A l : Standing(l)' <=> Standing(l)
  BY <1>1 DEF Standing
<1>8. TreeInv'
  <2>1. \E n \in Nat : Filled(Leaves', n)
    BY <1>3 DEF IInv, TreeInv
  <2>2. \A l \in Leaves' :
          /\ Standing(l)' => \E t \in chain'["transactions"] : t.id = l.hash /\ t.block = l.block
          /\ owed' = 0 => l.block <= cursor'
    BY <1>1, <1>3, <1>7 DEF IInv, TreeInv
  <2>3. /\ GetGlobalTreePosition(NextMerkleTreePosition') < MaxLeaves
        /\ files'["txidTree"].tmp = Leaves' \cup {new'}
    BY <1>1, <1>3, <1>4, <1>6
  <2>4. job'.pc # "treeRolled"
    BY <1>2
  <2>. QED
    BY <2>1, <2>2, <2>3, <2>4 DEF TreeInv, new
<1>. QED
  BY <1>5, <1>8 DEF FilesInv

LEMMA LeafRenamed ==
    ASSUME IInv, RenameTree, job.pc = "leafSaved"
    PROVE  FilesInv'
<1>. DEFINE new == MerkleLeafFromTransaction(job.tx, NextMerkleTreePosition)
<1>1. /\ Rename("txidTree")
      /\ job' = [job EXCEPT !.pc = "idle", !.tx = None, !.done = @ \cup {job.tx}]
      /\ UNCHANGED <<chain, cursor, owed>>
  BY DEF RenameTree
<1>2. job'.pc = "idle"
  BY <1>1 DEF IInv, TypeInv
<1>3. /\ Leaves' = files["txidTree"].tmp
      /\ files'["transactions"] = files["transactions"]
  BY <1>1, TwoFiles, RenamedFile DEF Leaves, IInv
<1>4. TransactionInv'
  BY <1>1, <1>2, <1>3, TransactionsStay DEF Rolling
<1>5. /\ Leaves' = Leaves \cup {new}
      /\ owed = 0 /\ job.tx \in chain["transactions"] /\ job.tx.block = cursor
      /\ cursor \in Nat
  BY <1>3 DEF IInv, TreeInv, TransactionInv, Block
<1>6. /\ new.hash = job.tx.id /\ new.block = cursor
      /\ new.tree = NextMerkleTreePosition.tree /\ new.index = NextMerkleTreePosition.index
  BY <1>5 DEF MerkleLeafFromTransaction
<1>7. PICK n \in Nat : Filled(Leaves, n)
  BY DEF IInv, TreeInv
<1>8. new \in LeafRec
  <2>1. NextMerkleTreePosition.tree \in Nat /\ NextMerkleTreePosition.index \in 0 .. TreeMaxItems - 1
    BY <1>7, NextIs, Positions
  <2>2. job.tx \in AllTransactions /\ job.tx.block \in Nat
    BY <1>5, BlocksNat DEF IInv, TypeInv
  <2>. QED
    BY <2>1, <2>2 DEF MerkleLeafFromTransaction, LeafRec
<1>9. GetGlobalTreePosition(new) = n
  <2>. DEFINE p == [tree |-> n \div TreeMaxItems, index |-> n % TreeMaxItems]
  <2>1. NextMerkleTreePosition = p
    BY <1>7, NextIs
  <2>2. GetGlobalTreePosition(p) = n
    BY Positions
  <2>3. GetGlobalTreePosition(new) = GetGlobalTreePosition(NextMerkleTreePosition)
    BY <1>6 DEF GetGlobalTreePosition
  <2>. QED
    BY <2>1, <2>2, <2>3
<1>10. \A l \in Leaves :
          /\ \E t \in chain["transactions"] : t.id = l.hash /\ t.block = l.block
          /\ l.block <= cursor
  BY <1>5 DEF IInv, TreeInv, Standing
<1>. HIDE DEF new
<1>11. Filled(Leaves', n + 1)
  BY <1>5, <1>6, <1>7, <1>8, <1>9, <1>10, FilledMore
<1>12. \A l \in Leaves' :
          /\ \E t \in chain["transactions"] : t.id = l.hash /\ t.block = l.block
          /\ l.block <= cursor
  BY <1>5, <1>6, <1>10
<1>13. TreeInv'
  <2>1. n + 1 \in Nat
    OBVIOUS
  <2>. QED
    BY <1>1, <1>2, <1>11, <1>12, <2>1 DEF TreeInv
<1>. QED
  BY <1>4, <1>13 DEF FilesInv

LEMMA FilesSaved ==
    ASSUME IInv, SaveCheckpoint
    PROVE  FilesInv'
<1>1. /\ owed = 0 /\ owed' = 0 /\ cursor \in Nat /\ cursor' = cursor + 1
      /\ UNCHANGED <<chain, files>> /\ job'.pc = "idle"
  BY DEF SaveCheckpoint, Importing, Idle, Block
<1>2. Transactions' = Transactions /\ Leaves' = Leaves
  BY <1>1 DEF Transactions, Leaves
<1>3. \A t \in Transactions : t \in AllTransactions /\ t \in chain["transactions"] /\ t.block <= cursor /\ t.block \in Nat
  BY <1>1, BlocksNat DEF IInv, TransactionInv, Standing
<1>4. TransactionInv'
  <2>1. \A t \in Transactions : t.block <= cursor'
    BY <1>1, <1>3
  <2>. QED
    BY <1>1, <1>2, <1>3, <2>1 DEF TransactionInv, Rolling
<1>5. \A l \in Leaves : /\ \E t \in chain["transactions"] : t.id = l.hash /\ t.block = l.block
                        /\ l.block <= cursor /\ l.block \in Nat
  BY <1>1, LeafBlocks DEF IInv, TreeInv, Standing, Filled
<1>6. TreeInv'
  <2>1. \A l \in Leaves : l.block <= cursor'
    BY <1>1, <1>5
  <2>2. \E n \in Nat : Filled(Leaves', n)
    BY <1>2 DEF IInv, TreeInv
  <2>. QED
    BY <1>1, <1>2, <1>5, <2>1, <2>2 DEF TreeInv
<1>. QED
  BY <1>4, <1>6 DEF FilesInv

\* The chains that part at a block have the same transactions below it.
LEMMA FilesReorg ==
    ASSUME IInv, NEW from \in Block, NEW new \in Chains, Reorg(from, new)
    PROVE  FilesInv'
<1>1. /\ owed = 0 /\ owed' = from /\ from # 0 /\ chain' = new /\ cursor' = cursor
      /\ job.pc = "idle" /\ job' = job /\ files' = files
      /\ Below(new, from) = Below(chain, from)
  BY DEF Reorg, Block
<1>2. Transactions' = Transactions /\ Leaves' = Leaves
  BY <1>1 DEF Transactions, Leaves
<1>3. \A t \in chain["transactions"] : t.block < from => t \in chain'["transactions"]
  <2>1. "transactions" \in DOMAIN chain /\ "transactions" \in DOMAIN new
    BY StoresAssumption DEF IInv, TypeInv
  <2>2. {t \in new["transactions"] : t.block < from} = {t \in chain["transactions"] : t.block < from}
    <3>1. Below(new, from)["transactions"] = {t \in new["transactions"] : t.block < from}
      BY <2>1 DEF Below
    <3>2. Below(chain, from)["transactions"] = {t \in chain["transactions"] : t.block < from}
      BY <2>1 DEF Below
    <3>. QED
      BY <1>1, <3>1, <3>2
  <2>. QED
    BY <1>1, <2>2
<1>4. TransactionInv'
  BY <1>1, <1>2, <1>3 DEF IInv, TransactionInv, Standing, Rolling
<1>5. TreeInv'
  <2>1. \A l \in Leaves : l.block < from => \E t \in chain'["transactions"] : t.id = l.hash /\ t.block = l.block
    <3>. TAKE l \in Leaves
    <3>1. PICK t \in chain["transactions"] : t.id = l.hash /\ t.block = l.block
      BY <1>1 DEF IInv, TreeInv, Standing
    <3>. QED
      BY <1>3, <3>1
  <2>2. \E n \in Nat : Filled(Leaves', n)
    BY <1>2 DEF IInv, TreeInv
  <2>. QED
    BY <1>1, <1>2, <2>1, <2>2 DEF TreeInv, Standing
<1>. QED
  BY <1>4, <1>5 DEF FilesInv

LEMMA TransactionsRolled ==
    ASSUME IInv, RollbackTransactions
    PROVE  FilesInv'
<1>1. /\ job.pc = "transactions"
      /\ saveLocked("transactions", {t \in Transactions : t.block < owed})
      /\ job' = [job EXCEPT !.pc = "rolled"]
      /\ UNCHANGED <<chain, cursor, owed>>
  BY DEF RollbackTransactions, Goto
<1>2. job'.pc = "rolled"
  BY <1>1 DEF IInv, TypeInv
<1>3. /\ Transactions' = Transactions
      /\ files'["transactions"].tmp = {t \in Transactions : t.block < owed}
      /\ files'["txidTree"] = files["txidTree"]
  BY <1>1, TwoFiles, SavedFile DEF Transactions, IInv
<1>4. TransactionInv'
  BY <1>1, <1>2, <1>3 DEF IInv, TransactionInv, Standing, Rolling
<1>5. TreeInv'
  BY <1>1, <1>2, <1>3, TreeStays
<1>. QED
  BY <1>4, <1>5 DEF FilesInv

LEMMA TreeRolled ==
    ASSUME IInv, RollbackTree
    PROVE  FilesInv'
<1>1. /\ job.pc = "tree"
      /\ saveLocked("txidTree", {l \in Leaves : l.block < owed})
      /\ job' = [job EXCEPT !.pc = "treeRolled"]
      /\ UNCHANGED <<chain, cursor, owed>>
  BY DEF RollbackTree, Goto
<1>2. job'.pc = "treeRolled" /\ job'.tx = job.tx
  BY <1>1 DEF IInv, TypeInv
<1>3. /\ Leaves' = Leaves
      /\ files'["txidTree"].tmp = {l \in Leaves : l.block < owed}
      /\ files'["transactions"] = files["transactions"]
  BY <1>1, TwoFiles, SavedFile DEF Leaves, IInv
<1>4. TransactionInv'
  BY <1>1, <1>2, <1>3, TransactionsStay DEF Rolling
<1>5. \A l : Standing(l)' <=> Standing(l)
  BY <1>1 DEF Standing
<1>6. TreeInv'
  BY <1>1, <1>2, <1>3, <1>5 DEF IInv, TreeInv
<1>. QED
  BY <1>4, <1>6 DEF FilesInv

\* The last write of a rollback: what is left is of the chain, below the new cursor.
LEMMA TreeRolledBack ==
    ASSUME IInv, RenameTree, job.pc = "treeRolled"
    PROVE  FilesInv'
<1>1. /\ Rename("txidTree") /\ job' = Idle /\ cursor' = owed /\ owed' = 0 /\ chain' = chain
      /\ owed \in Nat /\ owed # 0
  BY DEF RenameTree, IInv, TypeInv, TransactionInv, Rolling
<1>2. job'.pc = "idle"
  BY <1>1 DEF Idle
<1>3. /\ Leaves' = {l \in Leaves : l.block < owed}
      /\ Transactions' = Transactions
  BY <1>1, TwoFiles, RenamedFile DEF Leaves, Transactions, IInv, TreeInv
<1>4. \A t \in Transactions : /\ t \in AllTransactions /\ t \in chain["transactions"]
                              /\ t.block < owed /\ t.block \in Nat
  BY BlocksNat DEF IInv, TransactionInv, Standing
<1>5. TransactionInv'
  <2>1. \A t \in Transactions : t.block <= owed
    BY <1>1, <1>4
  <2>. QED
    BY <1>1, <1>2, <1>3, <1>4, <2>1 DEF TransactionInv, Rolling
<1>6. \A l \in Leaves' : /\ \E t \in chain["transactions"] : t.id = l.hash /\ t.block = l.block
                         /\ l.block <= owed
  <2>. TAKE l \in Leaves'
  <2>1. l \in Leaves /\ l.block < owed
    BY <1>3
  <2>2. Standing(l)
    BY <2>1 DEF Standing
  <2>3. l.block \in Nat
    BY <2>1, LeafBlocks DEF IInv, TreeInv, Filled
  <2>. QED
    BY <1>1, <2>1, <2>2, <2>3 DEF IInv, TreeInv
<1>7. \E n \in Nat : Filled(Leaves', n)
  <2>1. PICK n \in Nat : Filled(Leaves, n)
    BY DEF IInv, TreeInv
  <2>. QED
    BY <1>1, <1>3, <2>1, FilledBelow
<1>8. TreeInv'
  BY <1>1, <1>2, <1>6, <1>7 DEF TreeInv
<1>. QED
  BY <1>5, <1>8 DEF FilesInv

LEMMA FilesNext ==
    ASSUME IInv, [Next]_vars
    PROVE  FilesInv'
<1>1. ASSUME NEW v \in Version, UpsertCommitmentEvents(v) PROVE FilesInv'
  BY <1>1, FilesStay DEF UpsertCommitmentEvents
<1>2. ASSUME NEW v \in Version, UpsertNullifiers(v) PROVE FilesInv'
  <2>1. job' = [job EXCEPT !.upserted = @ \cup {v}] /\ UNCHANGED <<chain, cursor, owed, files>>
    BY <1>2 DEF UpsertNullifiers
  <2>2. job'.pc = job.pc /\ job'.tx = job.tx
    BY <2>1 DEF IInv, TypeInv
  <2>. QED
    BY <2>1, <2>2, FilesStay
<1>3. ASSUME NEW v \in Version, NEW replace \in BOOLEAN, UpsertUnshieldEvents(v, replace) PROVE FilesInv'
  BY <1>3, FilesStay DEF UpsertUnshieldEvents
<1>4. ASSUME NEW t \in AllTransactions, UpsertTransaction(t) PROVE FilesInv'
  BY <1>4, TransactionSaved
<1>5. ASSUME RenameTransactions PROVE FilesInv'
  BY <1>5, TransactionsRenamed
<1>6. ASSUME AppendTransactionLeaf PROVE FilesInv'
  BY <1>6, LeafSaved
<1>7. ASSUME RenameTree PROVE FilesInv'
  <2>1. job.pc = "leafSaved" \/ job.pc = "treeRolled"
    BY <1>7 DEF RenameTree
  <2>. QED
    BY <1>7, <2>1, LeafRenamed, TreeRolledBack
<1>8. ASSUME SaveCheckpoint PROVE FilesInv'
  BY <1>8, FilesSaved
<1>9. ASSUME NEW from \in Block, NEW new \in Chains, Reorg(from, new) PROVE FilesInv'
  BY <1>9, FilesReorg
<1>10. ASSUME RollbackPebble PROVE FilesInv'
  <2>1. job'.pc = "transactions"
    BY <1>10 DEF RollbackPebble, Goto, IInv, TypeInv
  <2>. QED
    BY <1>10, <2>1, FilesStay DEF RollbackPebble
<1>11. ASSUME RollbackTransactions PROVE FilesInv'
  BY <1>11, TransactionsRolled
<1>12. ASSUME RollbackTree PROVE FilesInv'
  BY <1>12, TreeRolled
<1>13. ASSUME Crash PROVE FilesInv'
  <2>1. job'.pc = "idle"
    BY <1>13 DEF Crash, Idle
  <2>. QED
    BY <1>13, <2>1, FilesStay DEF Crash
<1>14. ASSUME UNCHANGED vars PROVE FilesInv'
  BY <1>14, FilesStay DEF vars
<1>. QED
  BY <1>1, <1>2, <1>3, <1>4, <1>5, <1>6, <1>7, <1>8, <1>9, <1>10, <1>11, <1>12, <1>13, <1>14 DEF Next

-----------------------------------------------------------------------------
(* The types, and the invariant.                                           *)

JobRec == [pc : PC, tx : AllTransactions \cup {None}, done : SUBSET AllTransactions,
           upserted : SUBSET Version]

FileRec == [file : SUBSET (AllTransactions \cup LeafRec), tmp : SUBSET (AllTransactions \cup LeafRec)]

LEMMA TypeIs ==
    TypeInv <=>
      /\ chain \in Chains
      /\ cursor \in 1 .. MaxBlock + 1 /\ owed \in 0 .. MaxBlock
      /\ job \in JobRec
      /\ written = [v \in Version |-> written[v]]
      /\ files \in [File -> FileRec]
      /\ crashes \in 0 .. MaxCrashes
  BY DEF TypeInv, JobRec, FileRec

LEMMA SavedType ==
    ASSUME TypeInv, NEW f \in File, NEW content \in SUBSET (AllTransactions \cup LeafRec), saveLocked(f, content)
    PROVE  files' \in [File -> FileRec]
<1>1. files \in [File -> FileRec]
  BY TypeIs
<1>2. files[f].file \in SUBSET (AllTransactions \cup LeafRec)
  BY <1>1 DEF FileRec
<1>3. files' = [files EXCEPT ![f] = [file |-> files[f].file, tmp |-> content]]
  <2>1. files[f] \in FileRec
    BY <1>1
  <2>2. [files[f] EXCEPT !.tmp = content] = [file |-> files[f].file, tmp |-> content]
    BY <2>1 DEF FileRec
  <2>. QED
    BY <2>2 DEF saveLocked
<1>4. [file |-> files[f].file, tmp |-> content] \in FileRec
  BY <1>2 DEF FileRec
<1>. QED
  BY ONLY <1>1, <1>3, <1>4

LEMMA RenamedType ==
    ASSUME TypeInv, NEW f \in File, Rename(f)
    PROVE  files' \in [File -> FileRec]
<1>1. files \in [File -> FileRec]
  BY TypeIs
<1>2. files[f].tmp \in SUBSET (AllTransactions \cup LeafRec)
  BY <1>1 DEF FileRec
<1>3. files' = [files EXCEPT ![f] = [file |-> files[f].tmp, tmp |-> files[f].tmp]]
  <2>1. files[f] \in FileRec
    BY <1>1
  <2>2. [files[f] EXCEPT !.file = files[f].tmp] = [file |-> files[f].tmp, tmp |-> files[f].tmp]
    BY <2>1 DEF FileRec
  <2>. QED
    BY <2>2 DEF Rename
<1>4. [file |-> files[f].tmp, tmp |-> files[f].tmp] \in FileRec
  BY <1>2 DEF FileRec
<1>. QED
  BY ONLY <1>1, <1>3, <1>4

LEMMA JobMoves ==
    ASSUME TypeInv
    PROVE  /\ Idle \in JobRec
           /\ \A pc \in PC : Goto(pc) => job' \in JobRec
<1>1. Idle \in JobRec
  BY DEF JobRec, Idle, PC
<1>2. job \in JobRec
  BY TypeIs
<1>3. \A pc \in PC : [job EXCEPT !.pc = pc] \in JobRec
  BY <1>2 DEF JobRec
<1>. QED
  BY <1>1, <1>3 DEF Goto

LEMMA TypeWas ==
    ASSUME chain' \in Chains,
           cursor' \in 1 .. MaxBlock + 1, owed' \in 0 .. MaxBlock,
           job' \in JobRec,
           written' = [v \in Version |-> written'[v]],
           files' \in [File -> FileRec],
           crashes' \in 0 .. MaxCrashes
    PROVE  TypeInv'
  BY DEF TypeInv, JobRec, FileRec

LEMMA TypeNext ==
    ASSUME IInv, [Next]_vars
    PROVE  TypeInv'
<1>. USE DEF Block
<1>0. /\ chain \in Chains /\ cursor \in 1 .. MaxBlock + 1 /\ owed \in 0 .. MaxBlock /\ job \in JobRec
      /\ written = [v \in Version |-> written[v]] /\ files \in [File -> FileRec]
      /\ crashes \in 0 .. MaxCrashes /\ TypeInv /\ MaxBlock \in Nat /\ MaxCrashes \in Nat
      /\ Transactions \in SUBSET (AllTransactions \cup LeafRec)
      /\ Leaves \in SUBSET (AllTransactions \cup LeafRec)
  BY TypeIs, TwoFiles, StoresAssumption DEF IInv, Transactions, Leaves, FileRec
<1>1. ASSUME NEW v \in Version, UpsertCommitmentEvents(v) PROVE TypeInv'
  BY <1>0, <1>1, TypeWas DEF UpsertCommitmentEvents
<1>2. ASSUME NEW v \in Version, UpsertNullifiers(v) PROVE TypeInv'
  <2>1. job' = [job EXCEPT !.upserted = @ \cup {v}]
    BY <1>2 DEF UpsertNullifiers
  <2>2. job' \in JobRec
    BY <1>0, <2>1 DEF JobRec
  <2>. QED
    BY <1>0, <1>2, <2>2, TypeWas DEF UpsertNullifiers
<1>3. ASSUME NEW v \in Version, NEW replace \in BOOLEAN, UpsertUnshieldEvents(v, replace) PROVE TypeInv'
  BY <1>0, <1>3, TypeWas DEF UpsertUnshieldEvents
<1>4. ASSUME NEW t \in AllTransactions, UpsertTransaction(t) PROVE TypeInv'
  <2>1. {u \in Transactions : u.id # t.id} \cup {t} \in SUBSET (AllTransactions \cup LeafRec)
    BY <1>0
  <2>2. files' \in [File -> FileRec]
    BY <1>0, <1>4, <2>1, TwoFiles, SavedType DEF UpsertTransaction
  <2>3. job' \in JobRec
    <3>1. job' = [job EXCEPT !.pc = "saved", !.tx = t]
      BY <1>4 DEF UpsertTransaction
    <3>. QED
      BY <1>0, <3>1 DEF JobRec, PC
  <2>. QED
    BY <1>0, <1>4, <2>2, <2>3, TypeWas DEF UpsertTransaction
<1>5. ASSUME RenameTransactions PROVE TypeInv'
  <2>1. files' \in [File -> FileRec]
    BY <1>0, <1>5, TwoFiles, RenamedType DEF RenameTransactions
  <2>2. job' \in JobRec
    BY <1>0, <1>5, JobMoves DEF RenameTransactions, PC
  <2>. QED
    BY <1>0, <1>5, <2>1, <2>2, TypeWas DEF RenameTransactions
<1>6. ASSUME AppendTransactionLeaf PROVE TypeInv'
  <2>1. Leaves \cup {MerkleLeafFromTransaction(job.tx, NextMerkleTreePosition)} \in SUBSET (AllTransactions \cup LeafRec)
    BY <1>0, <1>6, NewLeaf DEF AppendTransactionLeaf
  <2>2. files' \in [File -> FileRec]
    BY <1>0, <1>6, <2>1, TwoFiles, SavedType DEF AppendTransactionLeaf
  <2>3. job' \in JobRec
    BY <1>0, <1>6, JobMoves DEF AppendTransactionLeaf, PC
  <2>. QED
    BY <1>0, <1>6, <2>2, <2>3, TypeWas DEF AppendTransactionLeaf
<1>7. ASSUME RenameTree PROVE TypeInv'
  <2>1. files' \in [File -> FileRec]
    BY <1>0, <1>7, TwoFiles, RenamedType DEF RenameTree
  <2>2. CASE job.pc = "leafSaved"
    <3>1. job' = [job EXCEPT !.pc = "idle", !.tx = None, !.done = @ \cup {job.tx}] /\ cursor' = cursor /\ owed' = owed
      BY <1>7, <2>2 DEF RenameTree
    <3>2. job.tx \in AllTransactions
      BY <2>2, BlocksNat DEF IInv, TypeInv, TransactionInv
    <3>3. job' \in JobRec
      BY <1>0, <3>1, <3>2 DEF JobRec, Idle, PC
    <3>. QED
      BY <1>0, <1>7, <2>1, <3>1, <3>3, TypeWas DEF RenameTree
  <2>3. CASE job.pc # "leafSaved"
    <3>1. job' = Idle /\ cursor' = owed /\ owed' = 0 /\ job.pc \in Rolling
      BY <1>7, <2>3 DEF RenameTree, Rolling
    <3>2. owed # 0
      BY <3>1 DEF IInv, TransactionInv
    <3>. QED
      BY <1>0, <1>7, <2>1, <3>1, <3>2, JobMoves, TypeWas DEF RenameTree
  <2>. QED
    BY <2>2, <2>3
<1>8. ASSUME SaveCheckpoint PROVE TypeInv'
  BY <1>0, <1>8, JobMoves, TypeWas DEF SaveCheckpoint, Importing
<1>9. ASSUME NEW from \in Block, NEW new \in Chains, Reorg(from, new) PROVE TypeInv'
  BY <1>0, <1>9, TypeWas DEF Reorg
<1>10. ASSUME RollbackPebble PROVE TypeInv'
  BY <1>0, <1>10, JobMoves, TypeWas DEF RollbackPebble, PC
<1>11. ASSUME RollbackTransactions PROVE TypeInv'
  <2>1. files' \in [File -> FileRec]
    BY <1>0, <1>11, TwoFiles, SavedType DEF RollbackTransactions
  <2>2. job' \in JobRec
    BY <1>0, <1>11, JobMoves DEF RollbackTransactions, PC
  <2>. QED
    BY <1>0, <1>11, <2>1, <2>2, TypeWas DEF RollbackTransactions
<1>12. ASSUME RollbackTree PROVE TypeInv'
  <2>1. files' \in [File -> FileRec]
    BY <1>0, <1>12, TwoFiles, SavedType DEF RollbackTree
  <2>2. job' \in JobRec
    BY <1>0, <1>12, JobMoves DEF RollbackTree, PC
  <2>. QED
    BY <1>0, <1>12, <2>1, <2>2, TypeWas DEF RollbackTree
<1>13. ASSUME Crash PROVE TypeInv'
  BY <1>0, <1>13, JobMoves, TypeWas DEF Crash
<1>14. ASSUME UNCHANGED vars PROVE TypeInv'
  BY <1>0, <1>14, TypeWas DEF vars
<1>. QED
  BY <1>1, <1>2, <1>3, <1>4, <1>5, <1>6, <1>7, <1>8, <1>9, <1>10, <1>11, <1>12, <1>13, <1>14 DEF Next

LEMMA FirstInv == Init => IInv
<1>. SUFFICES ASSUME Init PROVE IInv
  OBVIOUS
<1>1. /\ cursor = 1 /\ owed = 0 /\ crashes = 0 /\ chain \in Chains /\ DOMAIN db = {} /\ job = Idle
      /\ written = [v \in Version |-> {}]
      /\ files = [f \in File |-> [file |-> {}, tmp |-> {}]]
  BY DEF Init
<1>2. job.pc = "idle" /\ MaxBlock \in Nat /\ MaxCrashes \in Nat
  BY <1>1, StoresAssumption DEF Idle
<1>3. Transactions = {} /\ Leaves = {}
  BY <1>1, TwoFiles DEF Transactions, Leaves
<1>4. TypeInv
  <2>1. [file |-> {}, tmp |-> {}] \in FileRec
    BY DEF FileRec
  <2>2. files \in [File -> FileRec]
    BY <1>1, <2>1
  <2>3. job \in JobRec
    BY <1>1 DEF Idle, JobRec, PC
  <2>. QED
    BY <1>1, <1>2, <2>2, <2>3, TypeIs
<1>5. DbInv
  <2>1. \A kind \in Kind : \A e \in chain[kind] : ~ (e.block < Base)
    BY <1>1, StoresAssumption DEF Base, Kind
  <2>2. job.upserted = {}
    BY <1>1 DEF Idle
  <2>. QED
    BY <1>1, <2>1, <2>2 DEF DbInv, PresentInv, LeafInv, Kind, Version
<1>6. TransactionInv
  BY <1>2, <1>3 DEF TransactionInv, Rolling
<1>7. TreeInv
  <2>1. Filled({}, 0)
    BY DEF Filled
  <2>. QED
    BY <1>2, <1>3, <2>1 DEF TreeInv
<1>. QED
  BY <1>4, <1>5, <1>6, <1>7 DEF IInv

\* IInv is an invariant of the stores, on chains where each version gives a place
\* and takes a nullifier once and a transaction is in one block (KeysDiffer).
THEOREM Inductive ==
    ASSUME KeysDiffer
    PROVE  Spec => []IInv
<1>1. ASSUME IInv, [Next]_vars PROVE IInv'
  BY <1>1, TypeNext, DbNext, FilesNext DEF IInv, FilesInv
<1>. QED
  BY FirstInv, <1>1, PTL DEF Spec

-----------------------------------------------------------------------------
(* The rows are those of the chain.                                        *)

\* While no rollback is owed every row and every file is of the chain.
LEMMA RowsAre ==
    ASSUME IInv, owed = 0
    PROVE  RowsAreTheChains
<1>1. chain \in Chains /\ DOMAIN chain = Kind /\ Base = cursor
  BY StoresAssumption DEF IInv, TypeInv, Kind, Base
<1>2. \A e : Standing(e)
  BY DEF Standing
<1>3. \A v \in Version : \A c \in chain[v] : c.block < cursor => GetCommitment(v, c.tree, c.index) = {c}
  BY <1>1 DEF IInv, DbInv, PresentInv, Holds, GetCommitment, Get
<1>4. \A n \in chain["nullifiers"] : n.block < cursor =>
          \/ n.txid \in GetNullifierTxid(n.nullifier, n.tree)
          \/ \E w \in Version \ {n.version} : pebbleNullifierKey(n.tree, n.nullifier) \in written[w]
  <2>. SUFFICES ASSUME NEW n \in chain["nullifiers"], n.block < cursor,
                       Holds(pebbleNullifierKey(n.tree, n.nullifier), n)
                PROVE  n.txid \in GetNullifierTxid(n.nullifier, n.tree)
    BY <1>1 DEF IInv, DbInv, PresentInv, NullifierHeld
  <2>1. n.tree \in Nat /\ n.tree # AnyTree
    BY <1>1, StoresAssumption DEF AnyTree
  <2>2. Get(pebbleNullifierKey(n.tree, n.nullifier)) = {n}
    BY DEF Holds, Get
  <2>3. n \in {f \in {n} : \A m \in {n} : m.tree <= f.tree}
    BY <2>1
  <2>. QED
    BY <2>1, <2>2, <2>3 DEF GetNullifierTxid
<1>5. \A u \in chain["unshields"] : u.block < cursor =>
          \E w \in GetUnshieldEventsByTxid(u.txid) \cap chain["unshields"] : UnshieldName(w) = UnshieldName(u)
  <2>. SUFFICES ASSUME NEW u \in chain["unshields"], u.block < cursor
                PROVE  \E w \in GetUnshieldEventsByTxid(u.txid) \cap chain["unshields"] :
                          UnshieldName(w) = UnshieldName(u)
    OBVIOUS
  <2>. DEFINE k == pebbleUnshieldKey(u)
  <2>1. PICK w \in chain["unshields"] : pebbleUnshieldKey(w) = k /\ k \in DOMAIN db /\ db[k] = w
    BY <1>1 DEF IInv, DbInv, PresentInv, UnshieldHeld, Holds
  <2>2. k[1] = "unshield" /\ k[2] = u.txid
    BY Keys
  <2>3. UnshieldName(w) = UnshieldName(u)
    BY <2>1 DEF pebbleUnshieldKey
  <2>. QED
    BY <2>1, <2>2, <2>3 DEF GetUnshieldEventsByTxid
<1>6. \A k \in DOMAIN db : k[1] # "leaf" => \E kind \in DOMAIN chain : db[k] \in chain[kind]
  <2>. TAKE k \in DOMAIN db
  <2>1. RowOf(k, db[k]) /\ Standing(db[k])
    BY <1>2 DEF IInv, DbInv, RowInv
  <2>2. Version \subseteq Kind /\ "nullifiers" \in Kind /\ "unshields" \in Kind
    BY DEF Version, Kind
  <2>. QED
    BY <1>1, <2>1, <2>2 DEF RowOf
<1>7. GetNullifierTxid("n", AnyTree) \subseteq {n.txid : n \in chain["nullifiers"]}
  <2>1. \A k \in DOMAIN db : k[1] = "nullifier" => db[k] \in chain["nullifiers"]
    BY <1>2 DEF IInv, DbInv, RowInv, RowOf
  <2>2. pebbleIterPrefix("nullifier") \subseteq chain["nullifiers"]
    BY <2>1 DEF pebbleIterPrefix
  <2>. QED
    BY <2>2 DEF GetNullifierTxid
<1>8. Transactions \subseteq chain["transactions"]
  BY <1>2 DEF IInv, TransactionInv
<1>9. \A l \in Leaves : \E t \in chain["transactions"] : t.id = l.hash
  BY <1>2 DEF IInv, TreeInv
<1>10. \A l \in Leaves : GetGlobalTreePosition(l) = 0 \/
          \E m \in Leaves : GetGlobalTreePosition(m) = GetGlobalTreePosition(l) - 1
  <2>1. PICK n \in Nat : Filled(Leaves, n)
    BY DEF IInv, TreeInv
  <2>. TAKE l \in Leaves
  <2>2. GetGlobalTreePosition(l) \in 0 .. n - 1
    BY <2>1 DEF Filled
  <2>3. CASE GetGlobalTreePosition(l) # 0
    <3>1. GetGlobalTreePosition(l) - 1 \in 0 .. n - 1
      BY <2>2, <2>3
    <3>. QED
      BY <2>1, <3>1 DEF Filled
  <2>. QED
    BY <2>3
<1>. QED
  BY <1>3, <1>4, <1>5, <1>6, <1>7, <1>8, <1>9, <1>10 DEF RowsAreTheChains

\* Whatever chains there are on which each version takes a nullifier of a tree once
\* and a transaction is in one block, and however often they part and the process
\* dies, the stores hold the rows of the chain when no rollback is owed: what is
\* done reads back, but for a nullifier whose key the other version has written and
\* all but one of the unshields that share a key, and no nullifier, unshield,
\* transaction or TXID leaf of a chain that was left is there (PebbleStore.RollbackToBlock, FileStore.RollbackToBlock).
THEOREM RowsAreTheChainsHolds ==
    ASSUME KeysDiffer
    PROVE  Spec => []RowsAreTheChains
<1>1. IInv => RowsAreTheChains
  <2>1. ASSUME owed # 0 PROVE RowsAreTheChains
    BY <2>1 DEF RowsAreTheChains
  <2>. QED
    BY <2>1, RowsAre
<1>. QED
  BY Inductive, <1>1, PTL

-----------------------------------------------------------------------------
(* Proofs open what they are of.                                           *)

LEMMA LoadedTree ==
    ASSUME IInv, NEW tree
    PROVE  LET leaves == pebbleLoadTree(tree) IN
           /\ DOMAIN leaves \subseteq 0 .. TreeMaxItems - 1
           /\ \A i : pebbleLeafKey(tree, i) \in DOMAIN db =>
                 i \in DOMAIN leaves /\ leaves[i] = db[pebbleLeafKey(tree, i)].hash
<1>. DEFINE places == {k[3] : k \in {k \in DOMAIN db : k[1] = "leaf" /\ k[2] = tree}}
<1>1. pebbleLoadTree(tree) = [i \in places |-> db[pebbleLeafKey(tree, i)].hash]
  BY DEF pebbleLoadTree
<1>2. \A k \in DOMAIN db : k[1] = "leaf" => k[3] \in 0 .. TreeMaxItems - 1
  BY Keys DEF IInv, DbInv, RowInv, RowOf, validateLeaf
<1>3. \A i : pebbleLeafKey(tree, i) \in DOMAIN db => i \in places
  <2>. SUFFICES ASSUME NEW i, pebbleLeafKey(tree, i) \in DOMAIN db
                PROVE  \E k \in DOMAIN db : k[1] = "leaf" /\ k[2] = tree /\ k[3] = i
    OBVIOUS
  <2>. QED
    BY Keys
<1>. HIDE DEF places
<1>4. places \subseteq 0 .. TreeMaxItems - 1
  BY <1>2 DEF places
<1>. QED
  BY <1>1, <1>3, <1>4

\* The proof of a present leaf: it opens, to the leaf and to the root of the full tree.
LEMMA ProofIs ==
    ASSUME NEW leaves, DOMAIN leaves \subseteq 0 .. TreeMaxItems - 1, NEW index \in DOMAIN leaves
    PROVE  LET proof == proofFromLeaves(leaves, index) IN
           /\ VerifyProof(proof) /\ proof # Error
           /\ proof.leaf = leaves[index]
           /\ proof.root = RootOf(leaves) /\ proof.root = FullRoot(leaves)
<1>. DEFINE proof == proofFromLeaves(leaves, index)
<1>1. VerifyProof(proof)
  BY TreeItems, ProofOpens
<1>2. proof.leaf = leaves[index] /\ proof.root = RootOf(leaves)
  BY DEF proofFromLeaves, RootOf
<1>3. proof # Error
  <2>1. "root" \in DOMAIN proof
    BY DEF proofFromLeaves
  <2>2. "root" \notin DOMAIN Error
    BY DEF Error
  <2>. QED
    BY ONLY <2>1, <2>2
<1>4. RootOf(leaves) = FullRoot(leaves)
  BY TreeItems, SparseRootIsFull
<1>. QED
  BY <1>1, <1>2, <1>3, <1>4

\* Every proof a caller is given opens, in a tree whose root is that of the full
\* tree of its leaves: of a TXID leaf at any point, of a commitment that is done
\* unless the other version has written its place (UTXOMerkleProofForTXO).
THEOREM ProofOpensCommitmentHolds ==
    ASSUME KeysDiffer
    PROVE  Spec => []ProofOpensCommitment
<1>1. ASSUME IInv
      PROVE  ProofOpensCommitment
  <2>1. ASSUME NEW l \in Leaves
        PROVE  VerifyProof(TxidProof(l.tree, l.index)) /\ TxidProof(l.tree, l.index).leaf = l.hash
    <3>. DEFINE places == {m.index : m \in {m \in Leaves : m.tree = l.tree}}
                leaves == [i \in places |-> (CHOOSE m \in Leaves : m.tree = l.tree /\ m.index = i).hash]
    <3>1. PICK n \in Nat : Filled(Leaves, n)
      BY <1>1 DEF IInv, TreeInv
    <3>2. \A m \in Leaves : m.tree \in Nat /\ m.index \in 0 .. TreeMaxItems - 1
      BY <3>1 DEF Filled, LeafRec
    <3>3. DOMAIN leaves \subseteq 0 .. TreeMaxItems - 1 /\ l.index \in DOMAIN leaves
      BY <3>2
    <3>4. \A m \in Leaves : m.tree = l.tree /\ m.index = l.index => m = l
      <4>. TAKE m \in Leaves
      <4>1. m.tree = l.tree /\ m.index = l.index => GetGlobalTreePosition(m) = GetGlobalTreePosition(l)
        BY DEF GetGlobalTreePosition
      <4>. QED
        BY <3>1, <4>1 DEF Filled
    <3>5. leaves[l.index] = l.hash
      <4>1. (CHOOSE m \in Leaves : m.tree = l.tree /\ m.index = l.index) = l
        BY <3>4
      <4>. QED
        BY <3>3, <4>1
    <3>6. TxidProof(l.tree, l.index) = proofFromLeaves(leaves, l.index)
      BY DEF TxidProof
    <3>. HIDE DEF leaves, places
    <3>. QED
      BY <3>3, <3>5, <3>6, ProofIs
  <2>2. ASSUME NEW v \in Version, NEW c \in chain[v], c.block < cursor, owed = 0
        PROVE  LET proof == UTXOMerkleProofForTXO(c) IN
               IF proof = Error
               THEN \E w \in Version \ {v} : pebbleLeafKey(c.tree, c.index) \in written[w]
               ELSE /\ VerifyProof(proof)
                    /\ proof.leaf = c.hash
                    /\ proof.root = Root(c.tree)
                    /\ proof.root = FullRoot(pebbleLoadTree(c.tree))
    <3>. DEFINE leaves == pebbleLoadTree(c.tree)
                proof == UTXOMerkleProofForTXO(c)
    <3>1. DOMAIN leaves \subseteq 0 .. TreeMaxItems - 1
      BY <1>1, LoadedTree
    <3>2. CASE c.index \notin DOMAIN leaves \/ leaves[c.index] # c.hash
      <4>1. proof = Error
        BY <3>2 DEF UTXOMerkleProofForTXO
      <4>2. Holds(pebbleCommitmentKey(v, c.tree, c.index), c)
        BY <1>1, <2>2 DEF IInv, DbInv, PresentInv, Base
      <4>3. ~ Holds(pebbleLeafKey(c.tree, c.index), leafFromCommitment(c))
        BY <1>1, <3>2, LoadedTree DEF Holds, leafFromCommitment
      <4>4. \E w \in Version \ {v} : pebbleLeafKey(c.tree, c.index) \in written[w]
        BY <1>1, <4>2, <4>3 DEF IInv, DbInv, LeafInv, Holds
      <4>. QED
        BY <4>1, <4>4
    <3>3. CASE c.index \in DOMAIN leaves /\ leaves[c.index] = c.hash
      <4>1. proof = proofFromLeaves(leaves, c.index)
        BY <3>3 DEF UTXOMerkleProofForTXO
      <4>. HIDE DEF leaves, proof
      <4>2. /\ VerifyProof(proof) /\ proof # Error /\ proof.leaf = c.hash
            /\ proof.root = RootOf(leaves) /\ proof.root = FullRoot(leaves)
        BY <3>1, <3>3, <4>1, ProofIs
      <4>. QED
        BY <4>2 DEF Root, leaves, proof
    <3>. QED
      BY <3>2, <3>3
  <2>. QED
    BY <2>1, <2>2 DEF ProofOpensCommitment
<1>. QED
  BY Inductive, <1>1, PTL

-----------------------------------------------------------------------------
(* Each tree is a leaf store.                                              *)

\* A rollback to any block is one to a block of a leaf, or does nothing.
LEMMA RollbackAs ==
    ASSUME NEW blocks \in SUBSET Nat, NEW from \in Nat, NEW leaves, NEW leaves1,
           \A l \in leaves : l.block \in blocks,
           leaves1 = {l \in leaves : l.block < from}
    PROVE  \/ leaves1 = leaves
           \/ \E b \in blocks : leaves1 = {l \in leaves : l.block < b}
<1>. DEFINE later == {b \in blocks : from <= b}
<1>0. \A l \in leaves : l.block \in blocks /\ l.block \in Nat
  OBVIOUS
<1>1. CASE later = {}
  <2>1. ASSUME NEW l \in leaves PROVE l.block < from
    <3>1. l.block \notin later
      BY <1>1
    <3>. QED
      BY <1>0, <3>1
  <2>. QED
    BY <2>1
<1>2. CASE later # {}
  <2>1. PICK b \in later : \A c \in later : b <= c
    BY <1>2, LeastNat
  <2>2. ASSUME NEW l \in leaves PROVE l.block < from <=> l.block < b
    <3>1. b \in Nat /\ from <= b
      BY <2>1
    <3>2. l.block < from \/ l.block \in later
      BY <1>0
    <3>. QED
      BY <1>0, <2>1, <3>1, <3>2
  <2>. QED
    BY <2>1, <2>2
<1>. QED
  BY <1>1, <1>2

UtxoLeaves == pebbleIterPrefix("leaf")

\* The batches a block of commitments may be.
UtxoBatches ==
    {{leafFromCommitment(c) : c \in {c \in ch[v] : c.block = b}} : ch \in Chains, v \in Version, b \in Block}

\* An import of nullifiers or unshields touches no leaf.
LEMMA UtxoKept ==
    ASSUME NEW put, Put(put), \A k \in DOMAIN put : k[1] # "leaf"
    PROVE  UtxoLeaves' = UtxoLeaves
<1>1. \A k : k[1] = "leaf" => (k \in DOMAIN db' <=> k \in DOMAIN db)
  BY PutIs
<1>2. \A k \in DOMAIN db : k[1] = "leaf" => db'[k] = db[k]
  BY PutIs
<1>. QED
  BY <1>1, <1>2 DEF UtxoLeaves, pebbleIterPrefix

LEMMA UtxoUpserted ==
    ASSUME KeysDiffer, IInv, NEW v \in Version, UpsertCommitmentEvents(v)
    PROVE  \E batch \in UtxoBatches :
              UtxoLeaves' = {l \in UtxoLeaves : \A new \in batch : Utxo!Place(l) # Utxo!Place(new)} \cup batch
<1>. DEFINE batch == {leafFromCommitment(c) : c \in At(v)}
            put == RowsOf(v, At(v))
            keyOf(l) == pebbleLeafKey(l.tree, l.index)
<1>1. Importing /\ Put(put)
  BY DEF UpsertCommitmentEvents
<1>2. batch \in UtxoBatches
  BY <1>1 DEF IInv, TypeInv, At, Importing, UtxoBatches
<1>3. /\ \A l \in batch : keyOf(l) \in DOMAIN put /\ put[keyOf(l)] = l
      /\ \A k \in DOMAIN put : k[1] = "leaf" => put[k] \in batch /\ k = keyOf(put[k])
  <2>1. \A c \in At(v) : /\ pebbleLeafKey(c.tree, c.index) \in DOMAIN put
                         /\ put[pebbleLeafKey(c.tree, c.index)] = leafFromCommitment(c)
    BY CommitmentRows DEF IInv
  <2>2. \A k \in DOMAIN put : \E c \in At(v) :
                 \/ k = pebbleLeafKey(c.tree, c.index) /\ put[k] = leafFromCommitment(c)
                 \/ k = pebbleCommitmentKey(v, c.tree, c.index)
    BY CommitmentRows DEF IInv
  <2>3. \A c : leafFromCommitment(c).tree = c.tree /\ leafFromCommitment(c).index = c.index
    BY DEF leafFromCommitment
  <2>. HIDE DEF put
  <2>4. \A l \in batch : keyOf(l) \in DOMAIN put /\ put[keyOf(l)] = l
    BY <2>1, <2>3
  <2>5. ASSUME NEW k \in DOMAIN put, k[1] = "leaf"
        PROVE  put[k] \in batch /\ k = keyOf(put[k])
    <3>1. PICK c \in At(v) : \/ k = pebbleLeafKey(c.tree, c.index) /\ put[k] = leafFromCommitment(c)
                             \/ k = pebbleCommitmentKey(v, c.tree, c.index)
      BY <2>2
    <3>2. k # pebbleCommitmentKey(v, c.tree, c.index)
      BY <2>5, Keys
    <3>. QED
      BY <2>3, <3>1, <3>2
  <2>. QED
    BY <2>4, <2>5
<1>4. \A k \in DOMAIN db : k[1] = "leaf" => k = keyOf(db[k])
  BY DEF IInv, DbInv, RowInv, RowOf
<1>5. /\ DOMAIN db' = DOMAIN put \cup DOMAIN db
      /\ \A k \in DOMAIN put : db'[k] = put[k]
      /\ \A k \in DOMAIN db \ DOMAIN put : db'[k] = db[k]
  BY <1>1, PutIs
<1>6. \A l : keyOf(l)[1] = "leaf"
  BY Keys
<1>7. \A l, m : keyOf(l) = keyOf(m) <=> Utxo!Place(l) = Utxo!Place(m)
  BY DEF pebbleLeafKey, Utxo!Place
<1>. HIDE DEF batch, put, keyOf
<1>8. \A k \in DOMAIN db : k[1] = "leaf" =>
          (k \notin DOMAIN put <=> \A new \in batch : Utxo!Place(db[k]) # Utxo!Place(new))
  <2>. SUFFICES ASSUME NEW k \in DOMAIN db, k[1] = "leaf"
                PROVE  k \notin DOMAIN put <=> \A new \in batch : Utxo!Place(db[k]) # Utxo!Place(new)
    OBVIOUS
  <2>1. ASSUME k \in DOMAIN put PROVE \E new \in batch : Utxo!Place(db[k]) = Utxo!Place(new)
    <3>1. put[k] \in batch /\ k = keyOf(put[k]) /\ k = keyOf(db[k])
      BY <1>3, <1>4, <2>1
    <3>. QED
      BY <1>7, <3>1
  <2>2. ASSUME NEW new \in batch, Utxo!Place(db[k]) = Utxo!Place(new) PROVE k \in DOMAIN put
    <3>1. k = keyOf(new)
      BY <1>4, <1>7, <2>2
    <3>. QED
      BY <1>3, <3>1
  <2>. QED
    BY <2>1, <2>2
<1>9. UtxoLeaves' = {l \in UtxoLeaves : \A new \in batch : Utxo!Place(l) # Utxo!Place(new)} \cup batch
  <2>1. ASSUME NEW l \in UtxoLeaves'
        PROVE  l \in {m \in UtxoLeaves : \A new \in batch : Utxo!Place(m) # Utxo!Place(new)} \cup batch
    <3>1. PICK k \in DOMAIN db' : k[1] = "leaf" /\ l = db'[k]
      BY <2>1 DEF UtxoLeaves, pebbleIterPrefix
    <3>2. CASE k \in DOMAIN put
      BY <1>3, <1>5, <3>1, <3>2
    <3>3. CASE k \notin DOMAIN put
      <4>1. k \in DOMAIN db /\ l = db[k]
        BY <1>5, <3>1, <3>3
      <4>2. l \in UtxoLeaves
        BY <3>1, <4>1 DEF UtxoLeaves, pebbleIterPrefix
      <4>. QED
        BY <1>8, <3>1, <3>3, <4>1, <4>2
    <3>. QED
      BY <3>2, <3>3
  <2>2. ASSUME NEW l \in UtxoLeaves, \A new \in batch : Utxo!Place(l) # Utxo!Place(new)
        PROVE  l \in UtxoLeaves'
    <3>1. PICK k \in DOMAIN db : k[1] = "leaf" /\ l = db[k]
      BY <2>2 DEF UtxoLeaves, pebbleIterPrefix
    <3>2. k \in DOMAIN db' /\ db'[k] = l
      BY <1>5, <1>8, <2>2, <3>1
    <3>. QED
      BY <3>1, <3>2 DEF UtxoLeaves, pebbleIterPrefix
  <2>3. ASSUME NEW l \in batch
        PROVE  l \in UtxoLeaves'
    <3>1. keyOf(l) \in DOMAIN db' /\ db'[keyOf(l)] = l /\ keyOf(l)[1] = "leaf"
      BY <1>3, <1>5, <1>6, <2>3
    <3>. QED
      BY <3>1 DEF UtxoLeaves, pebbleIterPrefix
  <2>. QED
    BY <2>1, <2>2, <2>3
<1>. QED
  BY <1>2, <1>9

LEMMA UtxoRolled ==
    ASSUME IInv, RollbackPebble
    PROVE  \/ UtxoLeaves' = UtxoLeaves
           \/ \E from \in {l.block : l \in UtxoLeaf} : UtxoLeaves' = {l \in UtxoLeaves : l.block < from}
<1>1. /\ owed \in Nat
      /\ DOMAIN db' = {k \in DOMAIN db : db[k].block < owed}
      /\ \A k \in DOMAIN db' : db'[k] = db[k]
  BY DEF RollbackPebble, Kept, IInv, TypeInv
<1>2. UtxoLeaves' = {l \in UtxoLeaves : l.block < owed}
  <2>1. ASSUME NEW l \in UtxoLeaves' PROVE l \in UtxoLeaves /\ l.block < owed
    <3>1. PICK k \in DOMAIN db' : k[1] = "leaf" /\ l = db'[k]
      BY DEF UtxoLeaves, pebbleIterPrefix
    <3>2. k \in DOMAIN db /\ l = db[k] /\ db[k].block < owed
      BY <1>1, <3>1
    <3>. QED
      BY <3>1, <3>2 DEF UtxoLeaves, pebbleIterPrefix
  <2>2. ASSUME NEW l \in UtxoLeaves, l.block < owed PROVE l \in UtxoLeaves'
    <3>1. PICK k \in DOMAIN db : k[1] = "leaf" /\ l = db[k]
      BY DEF UtxoLeaves, pebbleIterPrefix
    <3>2. k \in DOMAIN db' /\ l = db'[k]
      BY <1>1, <2>2, <3>1
    <3>. QED
      BY <3>1, <3>2 DEF UtxoLeaves, pebbleIterPrefix
  <2>. QED
    BY <2>1, <2>2
<1>3. \A l \in UtxoLeaves : l \in UtxoLeaf
  BY DEF UtxoLeaves, pebbleIterPrefix, IInv, DbInv, RowInv, RowOf
<1>4. {l.block : l \in UtxoLeaf} \in SUBSET Nat
  <2>1. \A c \in AllCommitments : c.block \in Nat
    BY StoresAssumption DEF AllCommitments
  <2>. QED
    BY <2>1 DEF UtxoLeaf, leafFromCommitment
<1>. DEFINE blocks == {l.block : l \in UtxoLeaf}
<1>5. \A l \in UtxoLeaves : l.block \in blocks
  BY <1>3
<1>. HIDE DEF blocks
<1>7. blocks \in SUBSET Nat
  BY <1>4 DEF blocks
<1>6. \/ UtxoLeaves' = UtxoLeaves
      \/ \E b \in blocks : UtxoLeaves' = {l \in UtxoLeaves : l.block < b}
  BY <1>1, <1>2, <1>5, <1>7, RollbackAs
<1>. QED
  BY <1>6 DEF blocks

LEMMA UtxoStep ==
    ASSUME KeysDiffer, IInv, [Next]_vars
    PROVE  [Utxo!Next]_UtxoLeaves
<1>1. ASSUME NEW v \in Version, UpsertCommitmentEvents(v) PROVE Utxo!Next
  <2>1. PICK batch \in UtxoBatches : Utxo!UpsertLeaves(batch)
    BY <1>1, UtxoUpserted DEF Utxo!UpsertLeaves, UtxoLeaves
  <2>. QED
    BY <2>1 DEF Utxo!Next, UtxoBatches
<1>2. ASSUME NEW v \in Version, UpsertNullifiers(v) PROVE UtxoLeaves' = UtxoLeaves
  <2>. DEFINE batch == {n \in At("nullifiers") : n.version = v}
              put == [key \in {pebbleNullifierKey(n.tree, n.nullifier) : n \in batch} |->
                         CHOOSE n \in batch : pebbleNullifierKey(n.tree, n.nullifier) = key]
  <2>1. Put(put)
    BY <1>2 DEF UpsertNullifiers
  <2>2. \A k \in DOMAIN put : k[1] # "leaf"
    BY Keys
  <2>. HIDE DEF put
  <2>. QED
    BY <2>1, <2>2, UtxoKept
<1>3. ASSUME NEW v \in Version, NEW replace \in BOOLEAN, UpsertUnshieldEvents(v, replace)
      PROVE  UtxoLeaves' = UtxoLeaves
  <2>. DEFINE batch == {u \in At("unshields") :
                          u.version = v /\ (replace \/ pebbleUnshieldKey(u) \notin DOMAIN db)}
              keys == {pebbleUnshieldKey(u) : u \in batch}
  <2>1. PICK put \in [keys -> batch] : Put(put)
    BY <1>3 DEF UpsertUnshieldEvents
  <2>2. \A k \in DOMAIN put : k[1] # "leaf"
    BY <2>1, Keys
  <2>. QED
    BY <2>1, <2>2, UtxoKept
<1>4. ASSUME RollbackPebble PROVE [Utxo!Next]_UtxoLeaves
  BY <1>4, UtxoRolled DEF Utxo!Next, Utxo!RollbackToBlock, UtxoLeaves, UtxoLeaf
<1>5. ASSUME UNCHANGED db PROVE UtxoLeaves' = UtxoLeaves
  BY <1>5 DEF UtxoLeaves, pebbleIterPrefix
<1>6. \/ \E v \in Version : UpsertCommitmentEvents(v)
      \/ \E v \in Version : UpsertNullifiers(v)
      \/ \E v \in Version, replace \in BOOLEAN : UpsertUnshieldEvents(v, replace)
      \/ RollbackPebble
      \/ UNCHANGED db
  BY DEF Next, UpsertTransaction, RenameTransactions, AppendTransactionLeaf, RenameTree, SaveCheckpoint,
         Reorg, RollbackTransactions, RollbackTree, Crash, vars
<1>. QED
  BY <1>1, <1>2, <1>3, <1>4, <1>5, <1>6

\* The leaves a transaction may be given.
TxidBatches ==
    {{[tree |-> k \div TreeMaxItems, index |-> k % TreeMaxItems, hash |-> t.id, block |-> t.block]} :
        t \in AllTransactions, k \in 0 .. MaxLeaves - 1}

LEMMA TxidAppended ==
    ASSUME IInv, RenameTree, job.pc = "leafSaved"
    PROVE  \E batch \in TxidBatches : Txid!UpsertLeaves(batch)
<1>. DEFINE new == MerkleLeafFromTransaction(job.tx, NextMerkleTreePosition)
<1>1. Leaves' = files["txidTree"].tmp
  BY TwoFiles, RenamedFile DEF RenameTree, Leaves, IInv
<1>2. /\ Leaves' = Leaves \cup {new}
      /\ GetGlobalTreePosition(NextMerkleTreePosition) < MaxLeaves
  BY <1>1 DEF IInv, TreeInv
<1>3. PICK n \in Nat : Filled(Leaves, n)
  BY DEF IInv, TreeInv
<1>. DEFINE p == [tree |-> n \div TreeMaxItems, index |-> n % TreeMaxItems]
<1>4. NextMerkleTreePosition = p
  BY <1>3, NextIs
<1>5. GetGlobalTreePosition(p) = n
  BY Positions
<1>6. n \in 0 .. MaxLeaves - 1
  BY <1>2, <1>4, <1>5, StoresAssumption
<1>7. job.tx \in AllTransactions
  BY BlocksNat DEF IInv, TypeInv, TransactionInv
<1>8. new = [tree |-> n \div TreeMaxItems, index |-> n % TreeMaxItems, hash |-> job.tx.id, block |-> job.tx.block]
  BY <1>4 DEF MerkleLeafFromTransaction
<1>9. {new} \in TxidBatches
  BY <1>6, <1>7, <1>8 DEF TxidBatches
<1>10. ASSUME NEW l \in Leaves, Txid!Place(l) = Txid!Place(new)
       PROVE  FALSE
  <2>1. l.tree = p.tree /\ l.index = p.index
    BY <1>8, <1>10 DEF Txid!Place
  <2>2. GetGlobalTreePosition(l) = GetGlobalTreePosition(p)
    BY <2>1 DEF GetGlobalTreePosition
  <2>3. GetGlobalTreePosition(l) \in 0 .. n - 1
    BY <1>3, <1>10 DEF Filled
  <2>. QED
    BY <1>5, <2>2, <2>3
<1>. HIDE DEF new
<1>11. Leaves' = {l \in Leaves : \A m \in {new} : Txid!Place(l) # Txid!Place(m)} \cup {new}
  BY <1>2, <1>10
<1>. QED
  BY <1>9, <1>11 DEF Txid!UpsertLeaves

LEMMA TxidRolled ==
    ASSUME IInv, RenameTree, job.pc = "treeRolled"
    PROVE  \/ Leaves' = Leaves
           \/ \E from \in {t.block : t \in AllTransactions} : Leaves' = {l \in Leaves : l.block < from}
<1>. DEFINE blocks == {t.block : t \in AllTransactions}
<1>1. Leaves' = {l \in Leaves : l.block < owed}
  BY TwoFiles, RenamedFile DEF RenameTree, Leaves, IInv, TreeInv
<1>2. owed \in Nat
  BY DEF IInv, TypeInv
<1>3. blocks \in SUBSET Nat
  BY BlocksNat
<1>4. \A l \in Leaves : l.block \in blocks
  BY DEF IInv, TreeInv, Filled, LeafRec
<1>. HIDE DEF blocks
<1>5. \/ Leaves' = Leaves
      \/ \E b \in blocks : Leaves' = {l \in Leaves : l.block < b}
  BY <1>1, <1>2, <1>3, <1>4, RollbackAs
<1>. QED
  BY <1>5 DEF blocks

LEMMA TxidStep ==
    ASSUME IInv, [Next]_vars
    PROVE  [Txid!Next]_Leaves
<1>1. ASSUME RenameTree PROVE [Txid!Next]_Leaves
  <2>1. job.pc = "leafSaved" \/ job.pc = "treeRolled"
    BY <1>1 DEF RenameTree
  <2>2. CASE job.pc = "leafSaved"
    <3>1. PICK batch \in TxidBatches : Txid!UpsertLeaves(batch)
      BY <1>1, <2>2, TxidAppended
    <3>. QED
      BY <3>1 DEF Txid!Next, TxidBatches
  <2>3. CASE job.pc = "treeRolled"
    <3>1. \/ Leaves' = Leaves
          \/ \E from \in {t.block : t \in AllTransactions} : Txid!RollbackToBlock(from)
      BY <1>1, <2>3, TxidRolled DEF Txid!RollbackToBlock
    <3>. QED
      BY <3>1 DEF Txid!Next
  <2>. QED
    BY <2>1, <2>2, <2>3
<1>2. ASSUME RenameTransactions PROVE Leaves' = Leaves
  BY <1>2, TwoFiles, RenamedFile DEF RenameTransactions, Leaves, IInv
<1>3. ASSUME NEW f \in File, NEW content, saveLocked(f, content) PROVE Leaves' = Leaves
  BY <1>3, TwoFiles, SavedFile DEF Leaves, IInv
<1>4. ASSUME UNCHANGED files PROVE Leaves' = Leaves
  BY <1>4 DEF Leaves
<1>5. \/ RenameTree
      \/ RenameTransactions
      \/ \E f \in File : \E content : saveLocked(f, content)
      \/ UNCHANGED files
  BY TwoFiles DEF Next, UpsertCommitmentEvents, UpsertNullifiers, UpsertUnshieldEvents, UpsertTransaction,
         AppendTransactionLeaf, SaveCheckpoint, Reorg, RollbackPebble, RollbackTransactions, RollbackTree, Crash, vars
<1>. QED
  BY <1>1, <1>2, <1>3, <1>4, <1>5

\* Both trees change as a leaf store does: by whole batches, one leaf to a place,
\* and by whole rollbacks, whatever write of a temporary file a death interrupts
\* (PebbleStore.UpsertLeaves and RollbackToBlock, FileMerkleTreeStore.saveLocked).
THEOREM LeafStoresImplemented ==
    ASSUME KeysDiffer
    PROVE  Spec => ImplementsLeafStore
<1>1. Init => Utxo!Init /\ Txid!Init
  <2>. SUFFICES ASSUME Init PROVE Utxo!Init /\ Txid!Init
    OBVIOUS
  <2>1. DOMAIN db = {}
    BY DEF Init
  <2>2. pebbleIterPrefix("leaf") = {}
    BY <2>1 DEF pebbleIterPrefix
  <2>3. Leaves = {}
    BY TwoFiles DEF Init, Leaves
  <2>. QED
    BY <2>2, <2>3 DEF Utxo!Init, Txid!Init
<1>2. IInv /\ [Next]_vars => [Utxo!Next]_(pebbleIterPrefix("leaf"))
  BY UtxoStep DEF UtxoLeaves
<1>3. IInv /\ [Next]_vars => [Txid!Next]_Leaves
  BY TxidStep
<1>. QED
  BY <1>1, <1>2, <1>3, Inductive, PTL DEF Spec, ImplementsLeafStore, Utxo!Spec, Txid!Spec

\* Every leaf row lies under its own key, every TXID leaf in its tree.
THEOREM StoresTypeOKHolds ==
    ASSUME KeysDiffer
    PROVE  Spec => []StoresTypeOK
<1>1. ASSUME IInv PROVE StoresTypeOK
  <2>1. \A k \in DOMAIN db : k[1] = "leaf" => k = pebbleLeafKey(db[k].tree, db[k].index)
    BY <1>1 DEF IInv, DbInv, RowInv, RowOf
  <2>2. \A l \in Leaves : validateLeaf(l) /\ l.hash \in {t.id : t \in AllTransactions}
    BY <1>1 DEF IInv, TreeInv, Filled, LeafRec, validateLeaf
  <2>. QED
    BY <1>1, <2>1, <2>2 DEF StoresTypeOK, IInv, TypeInv, PC
<1>. QED
  BY Inductive, <1>1, PTL

=============================================================================
