--------------------- MODULE PrivateTransactions_proofs ---------------------
(***************************************************************************)
(* Theorems about PrivateTransactions, for any callers, requests, deposits *)
(* and number of trees: which notes a call takes, that value is kept, what *)
(* a result tells, that the history adds up, and what a failure may be put *)
(* down to. The order of the proof: sums over finite sets; places in the   *)
(* trees; the inductive invariant; what a transaction adds to the chain;   *)
(* the history; what a call builds; the steps of the chain, of the import, *)
(* of a call up to its transaction, and of its submission; the initial     *)
(* states; the theorems.                                                   *)
(***************************************************************************)
EXTENDS PrivateTransactions, FiniteSetTheorems, SequenceTheorems, WellFoundedInduction, TLAPS

-----------------------------------------------------------------------------
(* Induction on numbers and on finite sets, in the form of sets.            *)

\* A set of numbers that is not empty has a least one.
LEMMA LeastNat ==
    ASSUME NEW T \in SUBSET Nat, T # {}
    PROVE  \E m \in T : \A n \in T : m <= n
<1>. DEFINE R == OpToRel(<, Nat)
<1>1. IsWellFoundedOn(R, Nat)
  BY NatLessThanWellFounded
<1>2. \A n, m \in Nat : <<n, m>> \in R <=> n < m
  BY DEF OpToRel
<1>. HIDE DEF R
<1>3. PICK m \in T : \A n \in T : ~ (<<n, m>> \in R)
  BY <1>1, WFMin
<1>4. \A n \in T : ~ (n < m)
  <2>. TAKE n \in T
  <2>1. n \in Nat /\ m \in Nat
    OBVIOUS
  <2>. QED
    BY <1>2, <1>3, <2>1
<1>. QED
  BY <1>4

\* A set of subsets that holds each one whose smaller subsets it holds, holds all.
LEMMA SmallerSubsets ==
    ASSUME NEW S, IsFiniteSet(S), NEW Good \in SUBSET SUBSET S,
           \A T \in SUBSET S : (\A U \in SUBSET T : U # T => U \in Good) => T \in Good
    PROVE  Good = SUBSET S
<1>. SUFFICES ASSUME NEW T0 \in SUBSET S, T0 \notin Good PROVE FALSE
  OBVIOUS
<1>. DEFINE Sizes == {Cardinality(T) : T \in (SUBSET S) \ Good}
<1>1. \A T \in SUBSET S : IsFiniteSet(T) /\ Cardinality(T) \in Nat
  BY FS_Subset, FS_CardinalityType
<1>2. Sizes \in SUBSET Nat /\ Sizes # {}
  BY <1>1
<1>3. PICK m \in Sizes : \A n \in Sizes : m <= n
  <2>. HIDE DEF Sizes
  <2>. QED
    BY <1>2, LeastNat
<1>4. PICK T \in (SUBSET S) \ Good : m = Cardinality(T)
  BY <1>3
<1>5. ASSUME NEW U \in SUBSET T, U # T PROVE U \in Good
  <2>1. Cardinality(U) <= Cardinality(T) /\ Cardinality(U) # Cardinality(T)
    BY <1>1, <1>5, FS_Subset
  <2>2. U \in SUBSET S /\ Cardinality(U) < m
    BY <1>1, <1>4, <2>1
  <2>3. Cardinality(U) \in Nat /\ m \in Nat
    BY <1>1, <1>2, <2>2
  <2>4. U \notin (SUBSET S) \ Good
    BY <1>3, <2>2, <2>3
  <2>. QED
    BY <2>2, <2>4
<1>. QED
  BY <1>4, <1>5

\* A set of subsets that holds the empty one, and each one less an element of which
\* it holds, holds all.
LEMMA OneByOne ==
    ASSUME NEW S, IsFiniteSet(S), NEW Good \in SUBSET SUBSET S, {} \in Good,
           \A T \in Good : \A x \in S \ T : T \cup {x} \in Good
    PROVE  S \in Good
<1>1. ASSUME NEW T \in SUBSET S, \A U \in SUBSET T : U # T => U \in Good PROVE T \in Good
  <2>1. CASE T = {}
    BY <2>1
  <2>2. CASE T # {}
    <3>1. PICK x \in T : TRUE
      BY <2>2
    <3>2. T \ {x} \in Good /\ x \in S \ (T \ {x}) /\ (T \ {x}) \cup {x} = T
      BY <1>1
    <3>. QED
      BY <3>2
  <2>. QED
    BY <2>1, <2>2
<1>. QED
  BY <1>1, SmallerSubsets

-----------------------------------------------------------------------------
(* Sums over finite sets: a fold takes the elements in an order of its own,  *)
(* and the sum does not depend on it.                                        *)

Chosen(S) == CHOOSE x \in S : TRUE

\* The function that the fold over S computes, of a subset.
IsSum(F, v, S) ==
    F = [s \in SUBSET S |-> IF s = {} THEN 0
                            ELSE LET x == CHOOSE x \in s : TRUE IN v[x] + F[s \ {x}]]

LEMMA IsSumAt ==
    ASSUME NEW F, NEW v, NEW S, IsSum(F, v, S), NEW T \in SUBSET S
    PROVE  /\ T = {} => F[T] = 0
           /\ T # {} => /\ Chosen(T) \in T
                        /\ T \ {Chosen(T)} \in SUBSET S
                        /\ F[T] = v[Chosen(T)] + F[T \ {Chosen(T)}]
BY DEF IsSum, Chosen

LEMMA SumUnique ==
    ASSUME NEW S, IsFiniteSet(S), NEW v, NEW F, NEW G, IsSum(F, v, S), IsSum(G, v, S)
    PROVE  F = G
<1>. DEFINE Good == {T \in SUBSET S : F[T] = G[T]}
<1>1. ASSUME NEW T \in SUBSET S, \A U \in SUBSET T : U # T => U \in Good PROVE T \in Good
  <2>1. CASE T = {}
    BY <2>1, IsSumAt
  <2>2. CASE T # {}
    <3>1. Chosen(T) \in T
      BY <2>2, IsSumAt
    <3>2. F[T \ {Chosen(T)}] = G[T \ {Chosen(T)}]
      BY <1>1, <3>1
    <3>. QED
      BY <2>2, <3>2, IsSumAt
  <2>. QED
    BY <2>1, <2>2
<1>2. Good = SUBSET S
  <2>1. Good \in SUBSET SUBSET S
    OBVIOUS
  <2>. HIDE DEF Good
  <2>. QED
    BY <1>1, <2>1, SmallerSubsets
<1>3. F = [s \in SUBSET S |-> F[s]] /\ G = [s \in SUBSET S |-> G[s]]
  BY DEF IsSum
<1>. QED
  BY <1>2, <1>3

LEMMA SumRestricted ==
    ASSUME NEW S, NEW v, NEW F, IsSum(F, v, S), NEW T \in SUBSET S
    PROVE  IsSum([s \in SUBSET T |-> F[s]], v, T)
<1>. DEFINE G == [s \in SUBSET T |-> F[s]]
<1>1. ASSUME NEW s \in SUBSET T
      PROVE  G[s] = IF s = {} THEN 0 ELSE v[Chosen(s)] + G[s \ {Chosen(s)}]
  <2>1. s \in SUBSET S
    OBVIOUS
  <2>2. s # {} => s \ {Chosen(s)} \in SUBSET T
    OBVIOUS
  <2>3. F[s] = IF s = {} THEN 0 ELSE v[Chosen(s)] + F[s \ {Chosen(s)}]
    BY <2>1, IsSumAt
  <2>. QED
    BY <2>2, <2>3
<1>2. G = [s \in SUBSET T |-> G[s]]
  OBVIOUS
<1>. HIDE DEF G
<1>3. G = [s \in SUBSET T |-> IF s = {} THEN 0 ELSE v[Chosen(s)] + G[s \ {Chosen(s)}]]
  BY <1>1, <1>2
<1>4. IsSum(G, v, T)
  BY <1>3 DEF IsSum, Chosen
<1>. QED
  BY <1>4 DEF G

LEMMA SumExists ==
    ASSUME NEW S, IsFiniteSet(S), NEW v
    PROVE  \E F : IsSum(F, v, S)
<1>. DEFINE The(T) == CHOOSE F : IsSum(F, v, T)
            Good == {T \in SUBSET S : \E F : IsSum(F, v, T)}
<1>1. ASSUME NEW T \in SUBSET S, \A U \in SUBSET T : U # T => U \in Good PROVE T \in Good
  <2>. DEFINE F == [s \in SUBSET T |-> IF s = {} THEN 0
                       ELSE v[Chosen(s)] + The(s \ {Chosen(s)})[s \ {Chosen(s)}]]
  <2>1. ASSUME NEW U \in SUBSET T, U # T PROVE IsSum(The(U), v, U)
    BY <1>1, <2>1
  <2>. HIDE DEF The
  <2>2. ASSUME NEW U \in SUBSET T, U # T, NEW W \in SUBSET U
        PROVE  The(U)[W] = The(W)[W]
    <3>1. W \in SUBSET T /\ W # T
      BY <2>2
    <3>2. IsSum(The(U), v, U) /\ IsSum(The(W), v, W)
      BY <2>1, <2>2, <3>1
    <3>3. IsFiniteSet(W)
      <4>1. W \in SUBSET S
        BY <3>1
      <4>. QED
        BY <4>1, FS_Subset
    <3>4. IsSum([s \in SUBSET W |-> The(U)[s]], v, W)
      BY <3>2, SumRestricted
    <3>5. [s \in SUBSET W |-> The(U)[s]] = The(W)
      BY <3>2, <3>3, <3>4, SumUnique
    <3>6. [s \in SUBSET W |-> The(U)[s]][W] = The(U)[W]
      OBVIOUS
    <3>. QED
      BY <3>5, <3>6
  <2>3. ASSUME NEW U \in SUBSET T, U # T PROVE The(U)[U] = F[U]
    <3>1. IsSum(The(U), v, U)
      BY <2>1, <2>3
    <3>2. CASE U = {}
      BY <3>1, <3>2, IsSumAt
    <3>3. CASE U # {}
      <4>1. /\ Chosen(U) \in U
            /\ The(U)[U] = v[Chosen(U)] + The(U)[U \ {Chosen(U)}]
        BY <3>1, <3>3, IsSumAt
      <4>2. The(U)[U \ {Chosen(U)}] = The(U \ {Chosen(U)})[U \ {Chosen(U)}]
        BY <2>2, <2>3
      <4>. QED
        BY <3>3, <4>1, <4>2
    <3>. QED
      BY <3>2, <3>3
  <2>4. ASSUME NEW s \in SUBSET T, s # {}
        PROVE  The(s \ {Chosen(s)})[s \ {Chosen(s)}] = F[s \ {Chosen(s)}]
    <3>1. Chosen(s) \in s
      BY <2>4 DEF Chosen
    <3>. QED
      BY <2>3, <3>1
  <2>5. F = [s \in SUBSET T |-> IF s = {} THEN 0 ELSE v[Chosen(s)] + F[s \ {Chosen(s)}]]
    <3>1. F = [s \in SUBSET T |-> F[s]]
      OBVIOUS
    <3>2. ASSUME NEW s \in SUBSET T
          PROVE  F[s] = IF s = {} THEN 0 ELSE v[Chosen(s)] + F[s \ {Chosen(s)}]
      <4>1. F[s] = IF s = {} THEN 0
                   ELSE v[Chosen(s)] + The(s \ {Chosen(s)})[s \ {Chosen(s)}]
        OBVIOUS
      <4>. HIDE DEF F
      <4>. QED
        BY <2>4, <4>1
    <3>. HIDE DEF F
    <3>. QED
      BY <3>1, <3>2
  <2>. HIDE DEF F
  <2>6. IsSum(F, v, T)
    BY <2>5 DEF IsSum, Chosen
  <2>. QED
    BY <2>6
<1>2. Good \in SUBSET SUBSET S
  OBVIOUS
<1>3. Good = SUBSET S
  <2>. HIDE DEF Good
  <2>. QED
    BY <1>1, <1>2, SmallerSubsets
<1>. QED
  BY <1>3

\* A sum is what any function of this kind gives.
LEMMA SumIs ==
    ASSUME NEW S, IsFiniteSet(S), NEW v, NEW F, IsSum(F, v, S), NEW T \in SUBSET S
    PROVE  CalculateTotalSpend(T, v) = F[T]
<1>1. CalculateTotalSpend(T, v) = (CHOOSE G : IsSum(G, v, T))[T]
  BY DEF CalculateTotalSpend, MapThenSumSet, MapThenFoldSet, IsSum
<1>2. IsFiniteSet(T)
  BY FS_Subset
<1>3. IsSum([s \in SUBSET T |-> F[s]], v, T)
  BY SumRestricted
<1>4. (CHOOSE G : IsSum(G, v, T)) = [s \in SUBSET T |-> F[s]]
  BY <1>2, <1>3, SumUnique
<1>. QED
  BY <1>1, <1>4

LEMMA SumEmpty == ASSUME NEW v PROVE CalculateTotalSpend({}, v) = 0
<1>1. PICK F : IsSum(F, v, {})
  BY SumExists, FS_EmptySet
<1>2. {} \in SUBSET {} /\ IsFiniteSet({})
  BY FS_EmptySet
<1>3. CalculateTotalSpend({}, v) = F[{}]
  BY <1>1, <1>2, SumIs
<1>4. F[{}] = 0
  BY <1>1, <1>2, IsSumAt
<1>. QED
  BY <1>3, <1>4

LEMMA SumInt ==
    ASSUME NEW S, IsFiniteSet(S), NEW v, \A k \in S : v[k] \in Int
    PROVE  CalculateTotalSpend(S, v) \in Int
<1>1. PICK F : IsSum(F, v, S)
  BY SumExists
<1>. DEFINE Good == {T \in SUBSET S : F[T] \in Int}
<1>2. ASSUME NEW T \in SUBSET S, \A U \in SUBSET T : U # T => U \in Good PROVE T \in Good
  <2>1. CASE T = {}
    BY <1>1, <2>1, IsSumAt
  <2>2. CASE T # {}
    <3>1. /\ Chosen(T) \in T
          /\ F[T] = v[Chosen(T)] + F[T \ {Chosen(T)}]
      BY <1>1, <2>2, IsSumAt
    <3>2. F[T \ {Chosen(T)}] \in Int
      BY <1>2, <3>1
    <3>. QED
      BY <3>1, <3>2
  <2>. QED
    BY <2>1, <2>2
<1>3. Good = SUBSET S
  <2>1. Good \in SUBSET SUBSET S
    OBVIOUS
  <2>. HIDE DEF Good
  <2>. QED
    BY <1>2, <2>1, SmallerSubsets
<1>. QED
  BY <1>1, <1>3, SumIs

\* Whatever element is taken out first.
LEMMA SumRemove ==
    ASSUME NEW S, IsFiniteSet(S), NEW v, \A k \in S : v[k] \in Int, NEW y \in S
    PROVE  CalculateTotalSpend(S, v) = v[y] + CalculateTotalSpend(S \ {y}, v)
<1>1. PICK F : IsSum(F, v, S)
  BY SumExists
<1>2. \A T \in SUBSET S : F[T] \in Int
  <2>. TAKE T \in SUBSET S
  <2>1. IsFiniteSet(T) /\ \A k \in T : v[k] \in Int
    BY FS_Subset
  <2>2. CalculateTotalSpend(T, v) \in Int
    BY <2>1, SumInt
  <2>. QED
    BY <1>1, <2>2, SumIs
<1>. DEFINE Good == {T \in SUBSET S : \A x \in T : F[T] = v[x] + F[T \ {x}]}
<1>3. ASSUME NEW T \in SUBSET S, \A U \in SUBSET T : U # T => U \in Good PROVE T \in Good
  <2>. SUFFICES ASSUME NEW x \in T PROVE F[T] = v[x] + F[T \ {x}]
    OBVIOUS
  <2>. DEFINE c == Chosen(T)
  <2>1. c \in T /\ F[T] = v[c] + F[T \ {c}]
    BY <1>1, IsSumAt
  <2>. HIDE DEF c
  <2>2. CASE x = c
    BY <2>1, <2>2
  <2>3. CASE x # c
    <3>1. T \ {c} \in Good /\ T \ {x} \in Good
      BY <1>3, <2>1
    <3>2. F[T \ {c}] = v[x] + F[(T \ {c}) \ {x}]
      BY <2>3, <3>1
    <3>3. F[T \ {x}] = v[c] + F[(T \ {x}) \ {c}]
      BY <2>1, <2>3, <3>1
    <3>4. (T \ {c}) \ {x} = (T \ {x}) \ {c} /\ (T \ {x}) \ {c} \in SUBSET S
      OBVIOUS
    <3>5. F[(T \ {x}) \ {c}] \in Int /\ v[x] \in Int /\ v[c] \in Int
      BY <1>2, <2>1, <3>4
    <3>6. F[(T \ {c}) \ {x}] = F[(T \ {x}) \ {c}]
      BY <3>4
    <3>. DEFINE fT == F[T]
                fc == F[T \ {c}]
                fx == F[T \ {x}]
                fcx == F[(T \ {c}) \ {x}]
                fxc == F[(T \ {x}) \ {c}]
    <3>7. /\ fT = v[c] + fc /\ fc = v[x] + fcx /\ fx = v[c] + fxc
          /\ fcx = fxc /\ fxc \in Int /\ v[x] \in Int /\ v[c] \in Int
      BY <2>1, <3>2, <3>3, <3>5, <3>6
    <3>8. fT = v[x] + fx
      <4>. HIDE DEF fT, fc, fx, fcx, fxc, Good
      <4>. QED
        BY <3>7
    <3>. QED
      BY <3>8
  <2>. QED
    BY <2>2, <2>3
<1>4. Good = SUBSET S
  <2>1. Good \in SUBSET SUBSET S
    OBVIOUS
  <2>. HIDE DEF Good
  <2>. QED
    BY <1>3, <2>1, SmallerSubsets
<1>5. F[S] = v[y] + F[S \ {y}]
  BY <1>4
<1>. QED
  BY <1>1, <1>5, SumIs

LEMMA SumAdd ==
    ASSUME NEW S, IsFiniteSet(S), NEW v, NEW y, y \notin S, \A k \in S \cup {y} : v[k] \in Int
    PROVE  CalculateTotalSpend(S \cup {y}, v) = CalculateTotalSpend(S, v) + v[y]
<1>1. IsFiniteSet(S \cup {y}) /\ (S \cup {y}) \ {y} = S
  BY FS_AddElement
<1>2. CalculateTotalSpend(S \cup {y}, v) = v[y] + CalculateTotalSpend(S, v)
  BY <1>1, SumRemove
<1>3. CalculateTotalSpend(S, v) \in Int /\ v[y] \in Int
  BY SumInt
<1>. QED
  BY <1>2, <1>3

LEMMA SumOne ==
    ASSUME NEW v, NEW y, v[y] \in Int
    PROVE  CalculateTotalSpend({y}, v) = v[y]
<1>1. CalculateTotalSpend({} \cup {y}, v) = CalculateTotalSpend({}, v) + v[y]
  BY SumAdd, FS_EmptySet
<1>2. {} \cup {y} = {y}
  OBVIOUS
<1>. QED
  BY <1>1, <1>2, SumEmpty

\* The sum is of the values of the elements, and of nothing else.
LEMMA SumSame ==
    ASSUME NEW S, IsFiniteSet(S), NEW v, NEW w, \A k \in S : v[k] = w[k]
    PROVE  CalculateTotalSpend(S, v) = CalculateTotalSpend(S, w)
<1>1. PICK F : IsSum(F, v, S)
  BY SumExists
<1>2. ASSUME NEW s \in SUBSET S, s # {} PROVE v[CHOOSE x \in s : TRUE] = w[CHOOSE x \in s : TRUE]
  <2>1. (CHOOSE x \in s : TRUE) \in S
    BY <1>2
  <2>. QED
    BY <2>1
<1>3. IsSum(F, w, S)
  BY <1>1, <1>2 DEF IsSum
<1>. QED
  BY <1>1, <1>3, SumIs

LEMMA SumUnion ==
    ASSUME NEW S, IsFiniteSet(S), NEW T, IsFiniteSet(T), S \cap T = {},
           NEW U, U = S \cup T, NEW v, \A k \in U : v[k] \in Int
    PROVE  /\ IsFiniteSet(U)
           /\ CalculateTotalSpend(U, v) = CalculateTotalSpend(S, v) + CalculateTotalSpend(T, v)
<1>. DEFINE Sum(W) == CalculateTotalSpend(W, v)
            Good == {W \in SUBSET T : IsFiniteSet(S \cup W) /\ Sum(S \cup W) = Sum(S) + Sum(W)}
<1>1. Sum(S) \in Int
  BY SumInt
<1>2. {} \in Good
  <2>1. S \cup {} = S
    OBVIOUS
  <2>. QED
    BY <1>1, <2>1, SumEmpty
<1>3. ASSUME NEW W \in Good, NEW x \in T \ W PROVE W \cup {x} \in Good
  <2>1. IsFiniteSet(W) /\ IsFiniteSet(S \cup W)
    BY FS_Subset
  <2>2. x \notin S \cup W /\ (S \cup W) \cup {x} = S \cup (W \cup {x})
    OBVIOUS
  <2>3. Sum((S \cup W) \cup {x}) = Sum(S \cup W) + v[x]
    <3>1. \A k \in (S \cup W) \cup {x} : v[k] \in Int
      OBVIOUS
    <3>. QED
      BY <2>1, <2>2, <3>1, SumAdd
  <2>4. Sum(W \cup {x}) = Sum(W) + v[x]
    BY <2>1, SumAdd
  <2>5. Sum(W) \in Int /\ v[x] \in Int
    BY <2>1, SumInt
  <2>6. IsFiniteSet((S \cup W) \cup {x})
    BY <2>1, FS_AddElement
  <2>7. Sum(S \cup W) = Sum(S) + Sum(W)
    OBVIOUS
  <2>8. Sum(S \cup (W \cup {x})) = Sum((S \cup W) \cup {x})
    BY <2>2
  <2>9. Sum(S \cup (W \cup {x})) = Sum(S) + Sum(W \cup {x})
    <3>. HIDE DEF Sum
    <3>. QED
      BY <1>1, <2>3, <2>4, <2>5, <2>7, <2>8
  <2>10. W \cup {x} \in SUBSET T
    OBVIOUS
  <2>11. IsFiniteSet(S \cup (W \cup {x}))
    <3>1. S \cup (W \cup {x}) = (S \cup W) \cup {x}
      OBVIOUS
    <3>. QED
      BY <2>6, <3>1, Zenon
  <2>. HIDE DEF Sum
  <2>. QED
    BY <2>9, <2>10, <2>11
<1>4. T \in Good
  <2>1. Good \in SUBSET SUBSET T
    OBVIOUS
  <2>. HIDE DEF Good
  <2>. QED
    BY <1>2, <1>3, <2>1, OneByOne
<1>. QED
  BY <1>4

LEMMA SumMinus ==
    ASSUME NEW S, IsFiniteSet(S), NEW T \in SUBSET S, NEW R, R = S \ T,
           NEW v, \A k \in S : v[k] \in Int
    PROVE  CalculateTotalSpend(R, v) = CalculateTotalSpend(S, v) - CalculateTotalSpend(T, v)
<1>1. IsFiniteSet(T) /\ IsFiniteSet(R) /\ S = R \cup T /\ R \cap T = {}
  BY FS_Subset
<1>2. CalculateTotalSpend(S, v) = CalculateTotalSpend(R, v) + CalculateTotalSpend(T, v)
  BY <1>1, SumUnion
<1>3. CalculateTotalSpend(R, v) \in Int /\ CalculateTotalSpend(T, v) \in Int
  <2>1. (\A k \in R : v[k] \in Int) /\ (\A k \in T : v[k] \in Int)
    OBVIOUS
  <2>. QED
    BY <1>1, <2>1, SumInt
<1>. QED
  BY <1>2, <1>3

LEMMA SumNat ==
    ASSUME NEW S, IsFiniteSet(S), NEW v, \A k \in S : v[k] \in Nat
    PROVE  /\ CalculateTotalSpend(S, v) \in Nat
           /\ \A T \in SUBSET S : CalculateTotalSpend(T, v) <= CalculateTotalSpend(S, v)
<1>. DEFINE Good == {T \in SUBSET S : CalculateTotalSpend(T, v) \in Nat}
<1>1. {} \in Good
  BY SumEmpty
<1>2. ASSUME NEW T \in Good, NEW x \in S \ T PROVE T \cup {x} \in Good
  <2>1. IsFiniteSet(T) /\ \A k \in T \cup {x} : v[k] \in Int
    BY FS_Subset
  <2>2. CalculateTotalSpend(T \cup {x}, v) = CalculateTotalSpend(T, v) + v[x]
    BY <2>1, SumAdd
  <2>. QED
    BY <2>2
<1>3. \A U : IsFiniteSet(U) /\ U \in SUBSET S => CalculateTotalSpend(U, v) \in Nat
  <2>. SUFFICES ASSUME NEW U, IsFiniteSet(U), U \in SUBSET S
                PROVE  CalculateTotalSpend(U, v) \in Nat
    OBVIOUS
  <2>. DEFINE GoodU == {T \in SUBSET U : CalculateTotalSpend(T, v) \in Nat}
  <2>1. {} \in GoodU
    BY SumEmpty
  <2>2. \A T \in GoodU : \A x \in U \ T : T \cup {x} \in GoodU
    BY <1>2
  <2>3. GoodU \in SUBSET SUBSET U
    OBVIOUS
  <2>4. U \in GoodU
    <3>. HIDE DEF GoodU
    <3>. QED
      BY <2>1, <2>2, <2>3, OneByOne
  <2>. QED
    BY <2>4
<1>4. ASSUME NEW T \in SUBSET S
      PROVE  CalculateTotalSpend(T, v) <= CalculateTotalSpend(S, v)
  <2>1. IsFiniteSet(T) /\ IsFiniteSet(S \ T) /\ S \ T \in SUBSET S
    BY FS_Subset
  <2>2. CalculateTotalSpend(S \ T, v) = CalculateTotalSpend(S, v) - CalculateTotalSpend(T, v)
    BY SumMinus
  <2>3. CalculateTotalSpend(S \ T, v) \in Nat /\ CalculateTotalSpend(S, v) \in Nat
        /\ CalculateTotalSpend(T, v) \in Nat
    BY <1>3, <2>1
  <2>. QED
    BY <2>2, <2>3
<1>. QED
  BY <1>3, <1>4

\* The total of the records of a set is such a sum.
LEMMA TotalIs ==
    ASSUME NEW R, IsFiniteSet(R), NEW v, \A r \in R : v[r] = r.value
    PROVE  TotalValue(R) = CalculateTotalSpend(R, v)
<1>. DEFINE Total(G) == G = [s \in SUBSET R |-> IF s = {} THEN 0
                                               ELSE LET x == CHOOSE x \in s : TRUE IN x.value + G[s \ {x}]]
<1>1. TotalValue(R) = (CHOOSE G : Total(G))[R]
  BY DEF TotalValue, MapThenSumSet, MapThenFoldSet
<1>2. ASSUME NEW G
      PROVE  Total(G) <=> IsSum(G, v, R)
  <2>1. \A s \in SUBSET R : (IF s = {} THEN 0 ELSE LET x == CHOOSE x \in s : TRUE IN x.value + G[s \ {x}])
                          = (IF s = {} THEN 0 ELSE LET x == CHOOSE x \in s : TRUE IN v[x] + G[s \ {x}])
    <3>1. SUFFICES ASSUME NEW s \in SUBSET R, s # {}
                   PROVE  (LET x == CHOOSE x \in s : TRUE IN x.value + G[s \ {x}])
                          = (LET x == CHOOSE x \in s : TRUE IN v[x] + G[s \ {x}])
      OBVIOUS
    <3>2. (CHOOSE x \in s : TRUE) \in R
      BY <3>1
    <3>. QED
      BY <3>2
  <2>. QED
    BY <2>1 DEF IsSum
<1>. HIDE DEF Total
<1>3. PICK F : IsSum(F, v, R)
  BY SumExists
<1>4. Total(CHOOSE G : Total(G))
  BY <1>2, <1>3
<1>5. IsSum(CHOOSE G : Total(G), v, R)
  BY <1>2, <1>4
<1>6. CalculateTotalSpend(R, v) = (CHOOSE G : Total(G))[R]
  BY <1>5, SumIs
<1>. QED
  BY <1>1, <1>6

\* The total of records that stand for the members of a set.
LEMMA TotalImage ==
    ASSUME NEW S, IsFiniteSet(S), NEW f, NEW R, R = {f[k] : k \in S},
           \A j, k \in S : f[j] = f[k] => j = k,
           NEW w, \A k \in S : f[k].value = w[k] /\ w[k] \in Int
    PROVE  IsFiniteSet(R) /\ TotalValue(R) = CalculateTotalSpend(S, w)
<1>. DEFINE v == [r \in R |-> r.value]
            Same(T) == /\ IsFiniteSet({f[k] : k \in T})
                       /\ CalculateTotalSpend({f[k] : k \in T}, v) = CalculateTotalSpend(T, w)
            Good == {T \in SUBSET S : Same(T)}
<1>1. {} \in Good
  <2>1. {f[k] : k \in {}} = {} /\ {} \in SUBSET S
    OBVIOUS
  <2>2. CalculateTotalSpend({f[k] : k \in {}}, v) = 0 /\ CalculateTotalSpend({}, w) = 0
    BY <2>1, SumEmpty
  <2>3. IsFiniteSet({f[k] : k \in {}})
    BY <2>1, FS_EmptySet
  <2>4. Same({})
    BY <2>2, <2>3
  <2>. HIDE DEF Same
  <2>. QED
    BY <2>1, <2>4
<1>2. ASSUME NEW T \in Good, NEW x \in S \ T
      PROVE  T \cup {x} \in Good
  <2>. DEFINE A == {f[k] : k \in T}
  <2>. HIDE DEF Good, Same
  <2>1. T \in SUBSET S /\ Same(T)
    BY <1>2 DEF Good
  <2>2. T \in SUBSET S /\ IsFiniteSet(A) /\ CalculateTotalSpend(A, v) = CalculateTotalSpend(T, w)
    BY <2>1 DEF Same
  <2>3. {f[k] : k \in T \cup {x}} = A \cup {f[x]} /\ f[x] \notin A /\ T \cup {x} \in SUBSET S
    BY <2>2
  <2>4. \A r \in A \cup {f[x]} : v[r] \in Int
    BY <2>2, <2>3
  <2>5. v[f[x]] = w[x]
    OBVIOUS
  <2>. HIDE DEF A, v
  <2>6. CalculateTotalSpend(A \cup {f[x]}, v) = CalculateTotalSpend(A, v) + v[f[x]]
    <3>1. IsFiniteSet(A) /\ f[x] \notin A
      BY <2>2, <2>3
    <3>. QED
      BY ONLY <2>4, <3>1, SumAdd
  <2>7. \A k \in S : w[k] \in Int
    OBVIOUS
  <2>8. IsFiniteSet(T) /\ x \notin T /\ \A k \in T \cup {x} : w[k] \in Int
    BY <2>2, <2>7, FS_Subset
  <2>9. CalculateTotalSpend(T \cup {x}, w) = CalculateTotalSpend(T, w) + w[x]
    BY ONLY <2>8, SumAdd
  <2>10. IsFiniteSet(A \cup {f[x]})
    BY <2>2, FS_AddElement
  <2>11. Same(T \cup {x})
    BY <2>2, <2>3, <2>5, <2>6, <2>9, <2>10 DEF Same
  <2>. QED
    BY <2>3, <2>11 DEF Good
<1>3. Good \in SUBSET SUBSET S
  OBVIOUS
<1>4. S \in Good
  <2>. HIDE DEF Good
  <2>. QED
    BY <1>1, <1>2, <1>3, OneByOne
<1>5. Same(S)
  <2>. HIDE DEF Same
  <2>. QED
    BY <1>4
<1>7. IsFiniteSet(R) /\ CalculateTotalSpend(R, v) = CalculateTotalSpend(S, w)
  BY <1>5
<1>6. TotalValue(R) = CalculateTotalSpend(R, v)
  BY <1>7, TotalIs
<1>. QED
  BY <1>6, <1>7

LEMMA TotalUnion ==
    ASSUME NEW S, IsFiniteSet(S), NEW T, IsFiniteSet(T), S \cap T = {}, NEW U, U = S \cup T,
           \A r \in U : r.value \in Int
    PROVE  IsFiniteSet(U) /\ TotalValue(U) = TotalValue(S) + TotalValue(T)
<1>. DEFINE v == [r \in U |-> r.value]
<1>1. /\ \A r \in U : v[r] = r.value
      /\ \A r \in U : v[r] \in Int
      /\ \A r \in S : v[r] = r.value
      /\ \A r \in T : v[r] = r.value
  OBVIOUS
<1>. HIDE DEF v
<1>2. /\ IsFiniteSet(U)
      /\ CalculateTotalSpend(U, v) = CalculateTotalSpend(S, v) + CalculateTotalSpend(T, v)
  <2>1. \A r \in U : v[r] \in Int
    BY <1>1
  <2>. QED
    BY ONLY <2>1, SumUnion, IsFiniteSet(S), IsFiniteSet(T), S \cap T = {}, U = S \cup T
<1>3. /\ TotalValue(U) = CalculateTotalSpend(U, v) /\ TotalValue(S) = CalculateTotalSpend(S, v)
      /\ TotalValue(T) = CalculateTotalSpend(T, v)
  BY <1>1, <1>2, TotalIs
<1>. QED
  BY <1>2, <1>3

LEMMA SumZero ==
    ASSUME NEW S, IsFiniteSet(S), NEW v, \A k \in S : v[k] = 0
    PROVE  CalculateTotalSpend(S, v) = 0
<1>. DEFINE Good == {T \in SUBSET S : CalculateTotalSpend(T, v) = 0}
<1>1. {} \in Good
  BY SumEmpty
<1>2. ASSUME NEW T \in Good, NEW x \in S \ T PROVE T \cup {x} \in Good
  <2>1. IsFiniteSet(T) /\ CalculateTotalSpend(T, v) = 0
    BY FS_Subset
  <2>2. \A k \in T \cup {x} : v[k] \in Int
    OBVIOUS
  <2>3. x \notin T /\ v[x] = 0
    OBVIOUS
  <2>. HIDE DEF Good
  <2>4. CalculateTotalSpend(T \cup {x}, v) = CalculateTotalSpend(T, v) + v[x]
    BY ONLY <2>1, <2>2, <2>3, SumAdd
  <2>5. T \cup {x} \in SUBSET S
    BY DEF Good
  <2>. QED
    BY <2>1, <2>3, <2>4, <2>5 DEF Good
<1>3. Good \in SUBSET SUBSET S
  OBVIOUS
<1>4. S \in Good
  <2>. HIDE DEF Good
  <2>. QED
    BY <1>1, <1>2, <1>3, OneByOne
<1>. QED
  BY <1>4

LEMMA SumNonZero ==
    ASSUME NEW U, IsFiniteSet(U), NEW S \in SUBSET U, NEW v, \A k \in U : v[k] \in Int,
           \A k \in U \ S : v[k] = 0
    PROVE  CalculateTotalSpend(U, v) = CalculateTotalSpend(S, v)
<1>1. PICK T : T = U \ S
  OBVIOUS
<1>2. IsFiniteSet(T) /\ \A k \in T : v[k] = 0
  BY <1>1, FS_Subset
<1>3. CalculateTotalSpend(T, v) = 0
  BY <1>2, SumZero
<1>4. CalculateTotalSpend(T, v) = CalculateTotalSpend(U, v) - CalculateTotalSpend(S, v)
  BY <1>1, SumMinus
<1>5. CalculateTotalSpend(U, v) \in Int /\ CalculateTotalSpend(S, v) \in Int
  <2>1. IsFiniteSet(S) /\ \A k \in S : v[k] \in Int
    BY FS_Subset
  <2>. QED
    BY <2>1, SumInt
<1>. QED
  BY <1>3, <1>4, <1>5

\* So are the amounts of entries, and the values of notes.
LEMMA UnshieldsAre ==
    ASSUME NEW R, IsFiniteSet(R), NEW L, NEW v, \A r \in R : v[r] = L[r].unshield
    PROVE  MapThenSumSet(LAMBDA n : L[n].unshield, R) = CalculateTotalSpend(R, v)
<1>. DEFINE Total(G) == G = [s \in SUBSET R |-> IF s = {} THEN 0
                                               ELSE LET x == CHOOSE x \in s : TRUE IN L[x].unshield + G[s \ {x}]]
<1>1. MapThenSumSet(LAMBDA n : L[n].unshield, R) = (CHOOSE G : Total(G))[R]
  BY DEF MapThenSumSet, MapThenFoldSet
<1>2. ASSUME NEW G
      PROVE  Total(G) <=> IsSum(G, v, R)
  <2>1. \A s \in SUBSET R : (IF s = {} THEN 0 ELSE LET x == CHOOSE x \in s : TRUE IN L[x].unshield + G[s \ {x}])
                          = (IF s = {} THEN 0 ELSE LET x == CHOOSE x \in s : TRUE IN v[x] + G[s \ {x}])
    <3>1. SUFFICES ASSUME NEW s \in SUBSET R, s # {}
                   PROVE  (LET x == CHOOSE x \in s : TRUE IN L[x].unshield + G[s \ {x}])
                          = (LET x == CHOOSE x \in s : TRUE IN v[x] + G[s \ {x}])
      OBVIOUS
    <3>2. (CHOOSE x \in s : TRUE) \in R
      BY <3>1
    <3>. QED
      BY <3>2
  <2>. QED
    BY <2>1 DEF IsSum
<1>. HIDE DEF Total
<1>3. PICK F : IsSum(F, v, R)
  BY SumExists
<1>4. Total(CHOOSE G : Total(G))
  BY <1>2, <1>3
<1>5. IsSum(CHOOSE G : Total(G), v, R)
  BY <1>2, <1>4
<1>6. CalculateTotalSpend(R, v) = (CHOOSE G : Total(G))[R]
  BY <1>5, SumIs
<1>. QED
  BY <1>1, <1>6

LEMMA ValuesAre ==
    ASSUME NEW R, IsFiniteSet(R), NEW L, NEW v, \A r \in R : v[r] = L[r].value
    PROVE  MapThenSumSet(LAMBDA n : L[n].value, R) = CalculateTotalSpend(R, v)
<1>. DEFINE Total(G) == G = [s \in SUBSET R |-> IF s = {} THEN 0
                                               ELSE LET x == CHOOSE x \in s : TRUE IN L[x].value + G[s \ {x}]]
<1>1. MapThenSumSet(LAMBDA n : L[n].value, R) = (CHOOSE G : Total(G))[R]
  BY DEF MapThenSumSet, MapThenFoldSet
<1>2. ASSUME NEW G
      PROVE  Total(G) <=> IsSum(G, v, R)
  <2>1. \A s \in SUBSET R : (IF s = {} THEN 0 ELSE LET x == CHOOSE x \in s : TRUE IN L[x].value + G[s \ {x}])
                          = (IF s = {} THEN 0 ELSE LET x == CHOOSE x \in s : TRUE IN v[x] + G[s \ {x}])
    <3>1. SUFFICES ASSUME NEW s \in SUBSET R, s # {}
                   PROVE  (LET x == CHOOSE x \in s : TRUE IN L[x].value + G[s \ {x}])
                          = (LET x == CHOOSE x \in s : TRUE IN v[x] + G[s \ {x}])
      OBVIOUS
    <3>2. (CHOOSE x \in s : TRUE) \in R
      BY <3>1
    <3>. QED
      BY <3>2
  <2>. QED
    BY <2>1 DEF IsSum
<1>. HIDE DEF Total
<1>3. PICK F : IsSum(F, v, R)
  BY SumExists
<1>4. Total(CHOOSE G : Total(G))
  BY <1>2, <1>3
<1>5. IsSum(CHOOSE G : Total(G), v, R)
  BY <1>2, <1>4
<1>6. CalculateTotalSpend(R, v) = (CHOOSE G : Total(G))[R]
  BY <1>5, SumIs
<1>. QED
  BY <1>1, <1>6
-----------------------------------------------------------------------------
(* Places in the trees.                                                     *)

LEMMA Divide ==
    ASSUME NEW k \in Nat
    PROVE  /\ k \div TreeSize \in Nat /\ k % TreeSize \in 0..(TreeSize - 1)
           /\ k = (k \div TreeSize) * TreeSize + (k % TreeSize)
<1>1. TreeSize \in Nat \ {0}
  BY SelectionAssumption
<1>2. k \div TreeSize \in Nat /\ k % TreeSize \in 0..(TreeSize - 1)
  BY <1>1
<1>3. k % TreeSize = k - TreeSize * (k \div TreeSize)
  BY <1>1
<1>4. TreeSize * (k \div TreeSize) = (k \div TreeSize) * TreeSize
  BY <1>1, <1>2
<1>. DEFINE q == (k \div TreeSize) * TreeSize
            r == k % TreeSize
<1>5. q \in Int /\ r \in Int /\ r = k - q
  BY <1>1, <1>2, <1>3, <1>4
<1>6. k = q + r
  <2>. HIDE DEF q, r
  <2>. QED
    BY <1>5
<1>. QED
  BY <1>2, <1>6

\* Every place of a tree is a key.
LEMMA KeyPlace ==
    ASSUME NEW t \in Trees, NEW p \in 0..(TreeSize - 1)
    PROVE  Key(t, p) \in Keys /\ TreeOf(Key(t, p)) = t /\ PositionOf(Key(t, p)) = p
<1>1. TreeSize \in Nat \ {0} /\ t \in Nat /\ t <= LastTree /\ LastTree \in Nat
  BY SelectionAssumption, PrivateAssumption DEF Trees
<1>2. (t * TreeSize + p) \div TreeSize = t /\ (t * TreeSize + p) % TreeSize = p
  BY <1>1
<1>3. t * TreeSize <= LastTree * TreeSize /\ t * TreeSize \in Nat
  BY <1>1
<1>4. (LastTree + 1) * TreeSize = LastTree * TreeSize + TreeSize
  BY <1>1
<1>5. t * TreeSize + p \in 0..((LastTree + 1) * TreeSize - 1)
  <2>. DEFINE a == t * TreeSize
              b == LastTree * TreeSize
              c == (LastTree + 1) * TreeSize
  <2>1. a \in Nat /\ b \in Int /\ a <= b /\ c = b + TreeSize
    BY <1>1, <1>3, <1>4
  <2>2. a + p \in 0..(c - 1)
    <3>. HIDE DEF a, b, c
    <3>. QED
      BY <1>1, <2>1
  <2>. QED
    BY <2>2
<1>. QED
  BY <1>2, <1>5 DEF Key, Keys, TreeOf, PositionOf

\* Every key is a place of a tree.
LEMMA PlaceKey ==
    ASSUME NEW k \in Keys
    PROVE  /\ TreeOf(k) \in Trees /\ PositionOf(k) \in 0..(TreeSize - 1)
           /\ k = Key(TreeOf(k), PositionOf(k)) /\ k \in Nat
<1>1. TreeSize \in Nat \ {0} /\ LastTree \in Nat
  BY SelectionAssumption, PrivateAssumption
<1>2. k \in Nat /\ k < (LastTree + 1) * TreeSize
  BY <1>1 DEF Keys
<1>3. k \div TreeSize <= LastTree
  BY <1>1, <1>2
<1>. QED
  BY <1>1, <1>2, <1>3, Divide DEF TreeOf, PositionOf, Key, Trees

\* The keys of a tree are in the order of its places.
LEMMA KeyOrder ==
    ASSUME NEW t \in Trees, NEW p \in Int, NEW q \in Int
    PROVE  /\ Key(t, p) \in Int /\ Key(t, p) + q = Key(t, p + q)
           /\ Key(t, p) <= Key(t, q) <=> p <= q
           /\ Key(t, p) = Key(t, q) <=> p = q
<1>1. t * TreeSize \in Int
  BY SelectionAssumption, PrivateAssumption DEF Trees
<1>. DEFINE a == t * TreeSize
<1>2. a \in Int /\ \A x : Key(t, x) = a + x
  BY <1>1 DEF Key
<1>. HIDE DEF a
<1>. QED
  BY <1>2

-----------------------------------------------------------------------------
(* The inductive invariant.                                                 *)

Worth(notes) == CalculateTotalSpend(notes, leaf)

NoteRec == [value : Nat, from : {"shield", "wallet"}, to : {"wallet", "other"},
            type : {NoType, "fee", "change"}]

\* Places of a tree next to each other.
Interval(t, p, n) == Key(t, p)..(Key(t, p) + n - 1)

NotesAt == UNION {[L -> NoteRec] : L \in SUBSET Keys}

EntryRec == [tree : Trees, leaves : SUBSET Keys, notes : NotesAt, spends : SUBSET Keys, unshield : Nat]

Reasons == {"none", "fee", "broadcaster", "balance", "utxos", "roots", "circuit", "download", "manifest",
            "witness", "verify", "estimate", "answer", "refused", "reverted", "receipt"}

CallRec == [pc : PC, reason : Reasons,
            request : Request \cup {NoRequest}, fee : Nat, amount : Int,
            offered : SUBSET Keys, inputs : SUBSET Keys, todo : SUBSET Keys,
            roots : SUBSET Nat, seen : Nat]

TypeInv ==
    /\ leaf \in [Keys -> Nat] /\ size \in [Trees -> 0..TreeSize]
    /\ revealed \in SUBSET Keys
    /\ log \in Seq(EntryRec)
    /\ imported \in 0..Len(log) /\ root \in [Trees -> Nat]
    /\ known \in SUBSET Keys /\ marked \in SUBSET known /\ valid \in SUBSET known
    /\ call \in [Caller -> CallRec]
    /\ pool \in SUBSET Caller
    /\ outcome \in [Caller -> {"none", "paid", "stuck", "reverted"}]
    /\ manifest.circuits \in SUBSET BuiltIn
    /\ files \in [BuiltIn -> {"absent", "good", "bad"}]

\* The notes of an entry that its transaction's sender reads: fee and change.
FeeLeaves(e) == {k \in e.leaves : e.notes[k].to = "other"}
Values(e) == [k \in e.leaves |-> e.notes[k].value]
ChangeLeaves(e) == {k \in e.leaves : e.notes[k].type = "change"}

\* What a note is worth to the wallet.
Kept(note) == IF note.to = "wallet" THEN note.value ELSE 0

\* A transaction: where its notes are, and that as much goes in as comes out. A
\* deposit has nothing of either.
EntryInv(e) ==
    /\ \E p \in 0..TreeSize, n \in 0..2 :
          e.leaves = Interval(e.tree, p, n) /\ p + n <= size[e.tree]
    /\ e.notes \in [e.leaves -> NoteRec]
    /\ \A k \in e.leaves :
          /\ leaf[k] = Kept(e.notes[k])
          /\ e.notes[k].value > 0
          /\ e.notes[k].from = "shield" => e.notes[k].to = "wallet"
          /\ e.notes[k].to = "other" => e.notes[k].type = "fee"
    /\ \A k \in e.spends : leaf[k] > 0
    /\ Worth(e.spends)
         = e.unshield + Worth(ChangeLeaves(e))
           + CalculateTotalSpend(FeeLeaves(e), Values(e))

\* The log holds what is on the chain: each leaf once, each spend once, and a note is
\* spent after it was made.
LogInv ==
    /\ \A n \in DOMAIN log : EntryInv(log[n])
    /\ \A n, m \in DOMAIN log :
          /\ n < m => \A k \in log[n].leaves, j \in log[m].leaves :
                          k # j /\ (TreeOf(k) = TreeOf(j) => k < j)
          /\ n # m => log[n].spends \cap log[m].spends = {}
          /\ n <= m => log[n].spends \cap log[m].leaves = {}
    /\ revealed = UNION {log[n].spends : n \in DOMAIN log}
    /\ \A k \in Keys : leaf[k] > 0 => PositionOf(k) < size[TreeOf(k)]

\* What is not imported is what the chain's trees have and the wallet's have not.
WalletInv ==
    /\ \A t \in Trees : root[t] <= size[t]
    /\ \A k \in Keys :
          (\E n \in (imported + 1)..Len(log) : k \in log[n].leaves)
            <=> PositionOf(k) \in root[TreeOf(k)]..(size[TreeOf(k)] - 1)
    /\ known = {k \in Keys : leaf[k] > 0 /\ PositionOf(k) < root[TreeOf(k)]}
    /\ \A n \in 1..imported : \A k \in log[n].spends : TreeOf(k) = 0 => k \in marked

Need(r) == r.amount + r.fee

\* The notes that a call was offered, and those it took.
SelectedInv(r) ==
    /\ r.offered \subseteq known /\ r.seen <= imported
    /\ \A n \in 1..r.seen : \A k \in r.offered \cap log[n].spends : TreeOf(k) > 0
    /\ r.pc \in {"start", "quote"} => r.fee = 0
    /\ r.pc = "quote" => r.request.relayed
    /\ r.pc = "select" \/ r.inputs # {} => (r.request.relayed <=> r.fee > 0)
    /\ r.inputs # {} =>
          /\ \E t \in Trees : r.inputs \subseteq InTree(r.offered, t)
          /\ Cardinality(r.inputs) <= MaxInputs
          /\ Worth(r.inputs) >= Need(r)
          /\ Worth(r.inputs) - Max({leaf[k] : k \in r.inputs}) < Need(r)
          /\ r.amount > 0
          /\ IF r.request.amount > 0 THEN r.amount = r.request.amount
             ELSE r.amount + r.fee = Worth(r.offered)
    /\ r.reason = "utxos" =>
          \A t \in Trees :
              (\E notes \in SUBSET InTree(r.offered, t) :
                    Cardinality(notes) <= MaxInputs /\ Worth(notes) >= Need(r))
              => \/ \E k \in r.offered : \E u \in (t + 1)..TreeOf(k) :
                        Worth(InTree(r.offered, u)) < Need(r)
                 \/ Cardinality(Ascending(InTree(r.offered, t), leaf, Need(r))) > MaxInputs

Begun == {"start", "quote", "select"}
Built == {"artifacts", "truncate", "write", "prove", "submit", "wait", "done"}

\* The proofs it has read are below one root, the wallet's if that has not grown.
ProofsInv(r) ==
    /\ r.pc \in Begun => r.inputs = {} /\ r.offered = {} /\ r.roots = {} /\ r.seen = 0
    /\ r.pc \notin {"done", "failed"} => r.reason = "none"
    /\ r.pc \in {"proofs"} \cup Built => r.inputs # {} /\ r.todo \subseteq r.inputs
    /\ r.pc = "proofs" => r.todo # {}
    /\ r.pc \in Built => r.todo = {}
    /\ r.pc \in {"proofs"} \cup Built =>
          /\ r.roots = {} <=> r.todo = r.inputs
          /\ \A x, y \in r.roots : x = y
          /\ \A x \in r.roots : \A k \in r.inputs \ r.todo : PositionOf(k) < x
          /\ imported = r.seen => \A k \in r.inputs : r.roots \subseteq {root[TreeOf(k)]}

\* Its own artifacts are there, in the manifest too unless another call replaced it.
ArtifactsInv(c) ==
    LET r == call[c]
    IN  /\ r.pc \in {"artifacts", "truncate", "write"} => NeedsManifest(r)
        /\ NeedsManifest(r) =>
            /\ r.pc \in {"truncate", "write", "prove"} =>
                  CircuitOf(r) \in BuiltIn /\ files[CircuitOf(r)] # "absent"
            /\ r.pc = "prove" /\ manifest.by = c => CircuitOf(r) \in manifest.circuits

\* Why the contract would not execute a call's transaction.
Raced(r) ==
    \/ \E k \in r.inputs : TreeOf(k) > 0 /\ k \in revealed
    \/ \E n \in (r.seen + 1)..Len(log) : r.inputs \cap log[n].spends # {}
    \/ r.request.base /\ r.request.rejects /\ ~r.request.relayed

\* What has become of a call's transaction.
OutcomeInv(c) ==
    LET r == call[c]
    IN  /\ c \in pool \/ outcome[c] # "none" =>
              r.pc \in {"wait", "done", "failed"} /\ r.inputs # {}
        /\ c \in pool => outcome[c] = "none"
        /\ r.pc = "wait" => c \in pool \/ outcome[c] # "none"
        /\ outcome[c] = "stuck" => r.request.relayed /\ r.request.base /\ r.request.rejects
        /\ outcome[c] = "reverted" => Raced(r)
        /\ r.pc = "done" => \/ outcome[c] \in {"paid", "stuck"}
                            \/ r.request.relayed /\ r.reason = "receipt"
        /\ r.pc = "failed" => \/ c \notin pool /\ outcome[c] \in {"none", "reverted"}
                              \/ r.reason \in {"answer", "receipt"}

MinedCalls == {c \in Caller : outcome[c] \in {"paid", "stuck"}}
Needs(calls) == [c \in Caller |-> Need(calls[c])]
Changes(calls, value) == [c \in Caller |-> CalculateTotalSpend(calls[c].inputs, value) - Need(calls[c])]

\* ValueKept, without the change on both sides.
LedgerInv ==
    /\ IsFiniteSet(MinedCalls)
    /\ Worth(Keys \ revealed) + CalculateTotalSpend(MinedCalls, Needs(call))
         = Worth(Keys) - CalculateTotalSpend(MinedCalls, Changes(call, leaf))

IInv ==
    /\ TypeInv
    /\ LogInv
    /\ WalletInv
    /\ \A c \in Caller : SelectedInv(call[c]) /\ ProofsInv(call[c])
    /\ \A c \in Caller : ArtifactsInv(c) /\ OutcomeInv(c)
    /\ LedgerInv

-----------------------------------------------------------------------------
(* The chain's trees.                                                       *)

LEMMA MaxIs ==
    ASSUME NEW N \in Nat, NEW S \in SUBSET (0..N), S # {}
    PROVE  Max(S) \in S /\ \A x \in S : x <= Max(S)
<1>. DEFINE T == {N - x : x \in S}
<1>1. T \in SUBSET Nat /\ T # {}
  <2>1. \A x \in S : N - x \in Nat
    OBVIOUS
  <2>2. \A x \in S : N - x \in T
    OBVIOUS
  <2>3. \A y \in T : \E x \in S : y = N - x
    OBVIOUS
  <2>. HIDE DEF T
  <2>. QED
    BY <2>1, <2>2, <2>3
<1>2. PICK m \in T : \A n \in T : m <= n
  <2>. HIDE DEF T
  <2>. QED
    BY <1>1, LeastNat
<1>3. PICK x \in S : m = N - x
  BY <1>2
<1>4. \A y \in S : N - x <= N - y
  BY <1>2, <1>3
<1>5. x \in S /\ \A y \in S : x >= y
  BY <1>4
<1>6. Max(S) \in S /\ \A y \in S : Max(S) >= y
  BY <1>5 DEF Max
<1>. QED
  BY <1>6

LEMMA MaxIsThis ==
    ASSUME NEW S \in SUBSET Int, NEW m \in S, \A y \in S : y <= m
    PROVE  Max(S) = m
<1>1. \A y \in S : m >= y
  OBVIOUS
<1>2. Max(S) \in S /\ \A y \in S : Max(S) >= y
  BY <1>1 DEF Max
<1>3. Max(S) \in Int /\ m \in Int /\ Max(S) >= m /\ Max(S) <= m
  BY <1>2
<1>. QED
  BY <1>3

\* The places of an interval.
LEMMA IntervalKeys ==
    ASSUME NEW t \in Trees, NEW p \in Nat, NEW n \in Nat, p + n <= TreeSize
    PROVE  /\ Interval(t, p, n) \in SUBSET Keys
           /\ \A k \in Keys : k \in Interval(t, p, n) <=>
                  TreeOf(k) = t /\ PositionOf(k) \in p..(p + n - 1)
           /\ \A k \in Interval(t, p, n) : k - Key(t, p) + 1 \in 1..n
           /\ IsFiniteSet(Interval(t, p, n)) /\ Cardinality(Interval(t, p, n)) = n
<1>1. TreeSize \in Nat \ {0}
  BY SelectionAssumption
<1>2. Key(t, p) \in Int
  BY KeyOrder
<1>3. ASSUME NEW k \in Interval(t, p, n)
      PROVE  /\ k \in Keys /\ TreeOf(k) = t /\ PositionOf(k) \in p..(p + n - 1)
             /\ k - Key(t, p) + 1 \in 1..n
  <2>1. k \in Int /\ k >= Key(t, p) /\ k <= Key(t, p) + n - 1
    BY <1>2 DEF Interval
  <2>. DEFINE d == k - Key(t, p)
  <2>2. d \in 0..(n - 1) /\ Key(t, p) + d = k
    BY <1>2, <2>1
  <2>. HIDE DEF d
  <2>3. k = Key(t, p + d)
    BY <2>2, KeyOrder
  <2>4. p + d \in 0..(TreeSize - 1)
    BY <1>1, <2>2
  <2>5. k \in Keys /\ TreeOf(k) = t /\ PositionOf(k) = p + d
    BY <2>3, <2>4, KeyPlace
  <2>. QED
    BY <2>2, <2>5 DEF d
<1>4. ASSUME NEW k \in Keys, TreeOf(k) = t, PositionOf(k) \in p..(p + n - 1)
      PROVE  k \in Interval(t, p, n)
  <2>. DEFINE q == PositionOf(k)
  <2>1. k = Key(t, q) /\ q \in Int /\ k \in Int
    BY <1>4, PlaceKey
  <2>2. Key(t, p) <= Key(t, q)
    BY <1>4, <2>1, KeyOrder
  <2>3. Key(t, q) <= Key(t, p + (n - 1))
    BY <1>4, <2>1, KeyOrder
  <2>4. Key(t, p) + (n - 1) = Key(t, p + (n - 1))
    BY KeyOrder
  <2>. QED
    BY <1>2, <2>1, <2>2, <2>3, <2>4 DEF Interval
<1>5. IsFiniteSet(Interval(t, p, n)) /\ Cardinality(Interval(t, p, n)) = n
  <2>1. Key(t, p) + n - 1 \in Int
    BY <1>2
  <2>2. /\ IsFiniteSet(Key(t, p)..(Key(t, p) + n - 1))
        /\ Cardinality(Key(t, p)..(Key(t, p) + n - 1)) =
              IF Key(t, p) > Key(t, p) + n - 1 THEN 0
              ELSE (Key(t, p) + n - 1) - Key(t, p) + 1
    BY <1>2, <2>1, FS_Interval
  <2>3. (IF Key(t, p) > Key(t, p) + n - 1 THEN 0
         ELSE (Key(t, p) + n - 1) - Key(t, p) + 1) = n
    BY <1>2
  <2>. QED
    BY <2>2, <2>3 DEF Interval
<1>. QED
  BY <1>3, <1>4, <1>5

\* New leaves go to the end of the last tree, or of an empty one.
LEMMA TargetFits ==
    ASSUME size \in [Trees -> 0..TreeSize], NEW n \in 0..2, TargetTree(n) \in Trees
    PROVE  size[TargetTree(n)] + n <= TreeSize
<1>. DEFINE used == {t \in Trees : size[t] > 0} \cup {0}
<1>1. TreeSize \in Nat /\ TreeSize > 1 /\ LastTree \in Nat
  BY SelectionAssumption, PrivateAssumption
<1>2. used \in SUBSET (0..LastTree) /\ used # {}
  BY <1>1 DEF Trees
<1>3. CurrentTree \in used /\ \A t \in used : t <= CurrentTree
  <2>1. CurrentTree = Max(used)
    BY DEF CurrentTree
  <2>. HIDE DEF used
  <2>. QED
    BY <1>1, <1>2, <2>1, MaxIs
<1>4. CurrentTree \in Trees
  BY <1>2, <1>3 DEF Trees
<1>5. CASE size[CurrentTree] + n > TreeSize
  <2>1. TargetTree(n) = CurrentTree + 1
    BY <1>5 DEF TargetTree
  <2>2. TargetTree(n) \notin used
    BY <1>1, <1>3, <1>4, <2>1 DEF Trees
  <2>3. size[TargetTree(n)] = 0
    BY <1>1, <2>2
  <2>. QED
    BY <1>1, <2>3
<1>6. CASE ~(size[CurrentTree] + n > TreeSize)
  BY <1>1, <1>4, <1>6 DEF TargetTree
<1>. QED
  BY <1>5, <1>6

-----------------------------------------------------------------------------
(* A transaction is mined, or a deposit.                                    *)

\* The transaction e is at the end of the log, and its notes after the others of
\* its tree.
Grown(e) ==
    /\ e \in EntryRec
    /\ \E n \in 0..2 : /\ size[e.tree] + n <= TreeSize
                       /\ e.leaves = Interval(e.tree, size[e.tree], n)
                       /\ size' = [size EXCEPT ![e.tree] = @ + n]
    /\ e.notes \in [e.leaves -> NoteRec]
    /\ leaf' \in [Keys -> Nat]
    /\ \A k \in Keys \ e.leaves : leaf'[k] = leaf[k]
    /\ \A k \in e.leaves : leaf'[k] = Kept(e.notes[k])
    /\ revealed' = revealed \cup e.spends
    /\ log' = Append(log, e)

\* It holds these notes, spends and amount.
Holds(e, notes, spends, unshield) ==
    /\ e.spends = spends /\ e.unshield = unshield
    /\ e.leaves = Interval(e.tree, size[e.tree], Len(notes))
    /\ \A k \in e.leaves : /\ k - Key(e.tree, size[e.tree]) + 1 \in 1..Len(notes)
                           /\ e.notes[k] = notes[k - Key(e.tree, size[e.tree]) + 1]

LEMMA EmitGrows ==
    ASSUME TypeInv, NEW notes \in Seq(NoteRec), Len(notes) \in 0..2,
           NEW spends \in SUBSET Keys, NEW unshield \in Nat, Emit(notes, spends, unshield)
    PROVE  \E e : Grown(e) /\ Holds(e, notes, spends, unshield)
<1>. DEFINE t == TargetTree(Len(notes))
            p == size[t]
            n == Len(notes)
            first == Key(t, p)
            leaves == first..(first + n - 1)
            e == [tree |-> t, leaves |-> leaves, notes |-> [k \in leaves |-> notes[k - first + 1]],
                  spends |-> spends, unshield |-> unshield]
<1>1. /\ t \in Trees
      /\ leaf' = [k \in Keys |-> IF k \in leaves THEN Kept(notes[k - first + 1]) ELSE leaf[k]]
      /\ size' = [size EXCEPT ![t] = @ + n]
      /\ revealed' = revealed \cup spends
      /\ log' = Append(log, e)
  BY DEF Emit, Kept
<1>2. p \in 0..TreeSize /\ p + n <= TreeSize /\ size \in [Trees -> 0..TreeSize]
  BY <1>1, TargetFits DEF TypeInv
<1>3. leaves = Interval(t, p, n)
  BY DEF Interval
<1>4. leaf \in [Keys -> Nat] /\ TreeSize \in Nat /\ p \in Nat
  BY <1>2, SelectionAssumption DEF TypeInv
<1>. HIDE DEF t, p
<1>5. leaves \in SUBSET Keys /\ \A k \in leaves : k - first + 1 \in 1..n
  <2>1. n \in Nat
    OBVIOUS
  <2>. HIDE DEF n, leaves
  <2>2. /\ Interval(t, p, n) \in SUBSET Keys
        /\ \A k \in Interval(t, p, n) : k - Key(t, p) + 1 \in 1..n
    BY <1>1, <1>2, <1>4, <2>1, IntervalKeys
  <2>. QED
    BY <1>3, <2>2
<1>6. \A i \in 1..n : notes[i] \in NoteRec
  OBVIOUS
<1>. HIDE DEF n, first, leaves
<1>7. e.notes = [k \in leaves |-> notes[k - first + 1]] /\ e.leaves = leaves /\ e.tree = t
      /\ e.spends = spends /\ e.unshield = unshield
  OBVIOUS
<1>8. \A k \in leaves : notes[k - first + 1] \in NoteRec
  BY <1>5, <1>6
<1>9. e.notes \in [leaves -> NoteRec]
  BY <1>7, <1>8
<1>10. e.notes \in NotesAt
  BY <1>5, <1>9 DEF NotesAt
<1>11. e \in EntryRec
  BY <1>1, <1>5, <1>7, <1>10 DEF EntryRec
<1>12. \A k \in leaves : e.notes[k] = notes[k - first + 1] /\ Kept(e.notes[k]) \in Nat
  BY <1>7, <1>8 DEF Kept, NoteRec
<1>13. /\ leaf' \in [Keys -> Nat]
       /\ \A k \in Keys \ leaves : leaf'[k] = leaf[k]
       /\ \A k \in leaves : leaf'[k] = Kept(e.notes[k])
  <2>. HIDE DEF e
  <2>. QED
    BY <1>1, <1>4, <1>5, <1>12
<1>. HIDE DEF e
<1>14. n \in 0..2
  BY DEF n
<1>15. /\ size[e.tree] + n <= TreeSize
       /\ e.leaves = Interval(e.tree, size[e.tree], n)
       /\ size' = [size EXCEPT ![e.tree] = @ + n]
  BY <1>1, <1>2, <1>3, <1>7 DEF p
<1>16. Grown(e)
  BY <1>1, <1>7, <1>9, <1>11, <1>13, <1>14, <1>15 DEF Grown
<1>17. Holds(e, notes, spends, unshield)
  BY <1>3, <1>5, <1>7, <1>12 DEF Holds, n, first, p
<1>. QED
  BY <1>16, <1>17

\* What a transaction is made of adds up, and it spends notes that are there.
Balanced(e) ==
    /\ \A k \in e.leaves :
          /\ e.notes[k].value > 0
          /\ e.notes[k].from = "shield" => e.notes[k].to = "wallet"
          /\ e.notes[k].to = "other" => e.notes[k].type = "fee"
    /\ \A k \in e.spends : leaf[k] > 0 /\ k \notin revealed
    /\ Worth(e.spends)
         = e.unshield + CalculateTotalSpend(ChangeLeaves(e), leaf')
           + CalculateTotalSpend(FeeLeaves(e), Values(e))

\* The places that are taken keep their notes.
LEMMA TakenPlaces ==
    ASSUME TypeInv, NEW e, Grown(e), NEW k \in Keys, PositionOf(k) < size[TreeOf(k)]
    PROVE  k \notin e.leaves /\ leaf'[k] = leaf[k] /\ PositionOf(k) < size'[TreeOf(k)]
<1>1. PICK n \in 0..2 : /\ size[e.tree] + n <= TreeSize
                        /\ e.leaves = Interval(e.tree, size[e.tree], n)
                        /\ size' = [size EXCEPT ![e.tree] = @ + n]
  BY DEF Grown
<1>2. e.tree \in Trees /\ size[e.tree] \in Nat /\ n \in Nat
  BY SelectionAssumption DEF Grown, EntryRec, TypeInv
<1>3. TreeOf(k) \in Trees /\ PositionOf(k) \in Nat /\ size[TreeOf(k)] \in Nat
  BY PlaceKey, SelectionAssumption DEF TypeInv
<1>4. k \notin e.leaves
  <2>1. k \in Interval(e.tree, size[e.tree], n) =>
            TreeOf(k) = e.tree /\ PositionOf(k) \in size[e.tree]..(size[e.tree] + n - 1)
    BY <1>1, <1>2, IntervalKeys
  <2>. QED
    BY <1>1, <1>2, <1>3, <2>1
<1>5. size'[TreeOf(k)] >= size[TreeOf(k)]
  BY <1>1, <1>2, <1>3 DEF TypeInv
<1>6. size'[TreeOf(k)] \in Int
  BY <1>1, <1>2, <1>3 DEF TypeInv
<1>. QED
  BY <1>3, <1>4, <1>5, <1>6 DEF Grown

\* The new places are after those.
LEMMA NewPlaces ==
    ASSUME TypeInv, NEW e, Grown(e)
    PROVE  /\ e.leaves \in SUBSET Keys /\ e.tree \in Trees
           /\ size' \in [Trees -> 0..TreeSize]
           /\ \A t \in Trees : size[t] <= size'[t]
           /\ \A k \in Keys : k \in e.leaves <=>
                  PositionOf(k) \in size[TreeOf(k)]..(size'[TreeOf(k)] - 1)
           /\ \E p \in 0..TreeSize, n \in 0..2 :
                  e.leaves = Interval(e.tree, p, n) /\ p + n <= size'[e.tree]
           /\ IsFiniteSet(e.leaves)
           /\ size'[e.tree] = size[e.tree] + Cardinality(e.leaves)
           /\ \A t \in Trees : t # e.tree => size'[t] = size[t]
<1>1. PICK n \in 0..2 : /\ size[e.tree] + n <= TreeSize
                        /\ e.leaves = Interval(e.tree, size[e.tree], n)
                        /\ size' = [size EXCEPT ![e.tree] = @ + n]
  BY DEF Grown
<1>. DEFINE p == size[e.tree]
<1>2. e.tree \in Trees /\ p \in 0..TreeSize /\ p \in Nat /\ n \in Nat /\ TreeSize \in Nat
      /\ size \in [Trees -> 0..TreeSize]
  BY SelectionAssumption DEF Grown, EntryRec, TypeInv
<1>3. size'[e.tree] = p + n /\ \A t \in Trees : t # e.tree => size'[t] = size[t]
  BY <1>1, <1>2
<1>4. size' \in [Trees -> 0..TreeSize]
  BY <1>1, <1>2, <1>3
<1>5. \A t \in Trees : size[t] <= size'[t]
  BY <1>2, <1>3
<1>. HIDE DEF p
<1>6. /\ e.leaves \in SUBSET Keys
      /\ \A k \in Keys : k \in e.leaves <=> TreeOf(k) = e.tree /\ PositionOf(k) \in p..(p + n - 1)
      /\ IsFiniteSet(e.leaves) /\ Cardinality(e.leaves) = n
  BY <1>1, <1>2, IntervalKeys DEF p
<1>7. ASSUME NEW k \in Keys
      PROVE  k \in e.leaves <=> PositionOf(k) \in size[TreeOf(k)]..(size'[TreeOf(k)] - 1)
  <2>1. TreeOf(k) \in Trees /\ PositionOf(k) \in Nat
    BY PlaceKey
  <2>2. CASE TreeOf(k) = e.tree
    <3>1. size[TreeOf(k)] = p /\ size'[TreeOf(k)] = p + n
      BY <1>3, <2>2 DEF p
    <3>2. k \in e.leaves <=> PositionOf(k) \in p..(p + n - 1)
      BY <1>6, <2>2
    <3>3. size[TreeOf(k)]..(size'[TreeOf(k)] - 1) = p..(p + n - 1)
      BY <1>2, <3>1
    <3>. QED
      BY <3>2, <3>3
  <2>3. CASE TreeOf(k) # e.tree
    BY <1>2, <1>3, <1>6, <2>1, <2>3
  <2>. QED
    BY <2>2, <2>3
<1>8. e.leaves = Interval(e.tree, p, n) /\ p + n <= size'[e.tree]
  BY <1>1, <1>2, <1>3 DEF p
<1>9. \E q \in 0..TreeSize, m \in 0..2 : e.leaves = Interval(e.tree, q, m) /\ q + m <= size'[e.tree]
  BY <1>2, <1>8
<1>. QED
  BY <1>2, <1>3, <1>4, <1>5, <1>6, <1>7, <1>9 DEF p

LEMMA KeysFinite == IsFiniteSet(Keys)
<1>1. (LastTree + 1) * TreeSize - 1 \in Int
  BY SelectionAssumption, PrivateAssumption
<1>. QED
  BY <1>1, FS_Interval DEF Keys

\* The notes of a transaction are at places that are taken.
LEMMA EntryPlaces ==
    ASSUME TypeInv, NEW d \in EntryRec, EntryInv(d)
    PROVE  \A k \in d.leaves : k \in Keys /\ PositionOf(k) < size[TreeOf(k)]
<1>1. PICK p \in 0..TreeSize, n \in 0..2 :
          d.leaves = Interval(d.tree, p, n) /\ p + n <= size[d.tree]
  BY DEF EntryInv
<1>2. d.tree \in Trees /\ size[d.tree] \in 0..TreeSize /\ TreeSize \in Nat
  BY SelectionAssumption DEF EntryRec, TypeInv
<1>3. p \in Nat /\ n \in Nat /\ p + n <= TreeSize
  BY <1>1, <1>2
<1>4. /\ Interval(d.tree, p, n) \in SUBSET Keys
      /\ \A k \in Keys : k \in Interval(d.tree, p, n) =>
             TreeOf(k) = d.tree /\ PositionOf(k) \in p..(p + n - 1)
  BY <1>2, <1>3, IntervalKeys
<1>5. ASSUME NEW k \in d.leaves
      PROVE  k \in Keys /\ PositionOf(k) < size[TreeOf(k)]
  <2>1. k \in Keys /\ TreeOf(k) = d.tree /\ PositionOf(k) \in p..(p + n - 1)
    BY <1>1, <1>4
  <2>. QED
    BY <1>1, <1>2, <1>3, <2>1
<1>. QED
  BY <1>5

\* The transactions of the log stay as they are.
LEMMA EntryKept ==
    ASSUME TypeInv, NEW e, Grown(e), NEW d \in EntryRec, EntryInv(d),
           \A k \in Keys : leaf[k] > 0 => PositionOf(k) < size[TreeOf(k)]
    PROVE  EntryInv(d)'
<1>1. \A k \in d.leaves : k \in Keys /\ leaf'[k] = leaf[k]
  BY EntryPlaces, TakenPlaces
<1>2. \A k \in d.spends : k \in Keys /\ leaf[k] > 0 /\ leaf'[k] = leaf[k]
  BY TakenPlaces DEF EntryRec, EntryInv
<1>3. IsFiniteSet(d.leaves) /\ IsFiniteSet(d.spends)
  BY <1>1, <1>2, KeysFinite, FS_Subset
<1>4. CalculateTotalSpend(d.spends, leaf') = Worth(d.spends)
  BY <1>2, <1>3, SumSame DEF Worth
<1>5. CalculateTotalSpend(ChangeLeaves(d), leaf') = Worth(ChangeLeaves(d))
  <2>1. ChangeLeaves(d) \in SUBSET d.leaves
    BY DEF ChangeLeaves
  <2>2. IsFiniteSet(ChangeLeaves(d))
    BY <1>3, <2>1, FS_Subset
  <2>. QED
    BY <1>1, <2>1, <2>2, SumSame DEF Worth
<1>6. PICK p \in 0..TreeSize, n \in 0..2 :
          d.leaves = Interval(d.tree, p, n) /\ p + n <= size[d.tree]
  BY DEF EntryInv
<1>7. p + n <= size'[d.tree]
  <2>1. d.tree \in Trees
    BY DEF EntryRec
  <2>2. size[d.tree] <= size'[d.tree] /\ size[d.tree] \in Int /\ size'[d.tree] \in Int
    BY <2>1, NewPlaces DEF TypeInv
  <2>. QED
    BY <1>6, <2>2
<1>8. /\ d.notes \in [d.leaves -> NoteRec]
      /\ \A k \in d.leaves :
            /\ leaf'[k] = Kept(d.notes[k])
            /\ d.notes[k].value > 0
            /\ d.notes[k].from = "shield" => d.notes[k].to = "wallet"
            /\ d.notes[k].to = "other" => d.notes[k].type = "fee"
  BY <1>1 DEF EntryInv
<1>9. \A k \in d.spends : leaf'[k] > 0
  BY <1>2
<1>10. CalculateTotalSpend(d.spends, leaf')
         = d.unshield + CalculateTotalSpend(ChangeLeaves(d), leaf')
           + CalculateTotalSpend(FeeLeaves(d), Values(d))
  BY <1>4, <1>5 DEF EntryInv
<1>. QED
  BY ONLY <1>6, <1>7, <1>8, <1>9, <1>10 DEF EntryInv, Worth, ChangeLeaves, FeeLeaves, Values, Interval

\* The new one is as it should be.
LEMMA EntryNew ==
    ASSUME TypeInv, NEW e, Grown(e), Balanced(e),
           \A k \in Keys : leaf[k] > 0 => PositionOf(k) < size[TreeOf(k)]
    PROVE  EntryInv(e)'
<1>1. \A k \in e.spends : k \in Keys /\ leaf[k] > 0 /\ leaf'[k] = leaf[k]
  BY TakenPlaces DEF Balanced, Grown, EntryRec
<1>2. IsFiniteSet(e.spends)
  BY <1>1, KeysFinite, FS_Subset
<1>3. CalculateTotalSpend(e.spends, leaf') = Worth(e.spends)
  BY <1>1, <1>2, SumSame DEF Worth
<1>4. \E p \in 0..TreeSize, n \in 0..2 :
          e.leaves = Interval(e.tree, p, n) /\ p + n <= size'[e.tree]
  BY NewPlaces
<1>5. /\ e.notes \in [e.leaves -> NoteRec]
      /\ \A k \in e.leaves :
            /\ leaf'[k] = Kept(e.notes[k])
            /\ e.notes[k].value > 0
            /\ e.notes[k].from = "shield" => e.notes[k].to = "wallet"
            /\ e.notes[k].to = "other" => e.notes[k].type = "fee"
  BY DEF Balanced, Grown
<1>6. \A k \in e.spends : leaf'[k] > 0
  BY <1>1
<1>7. CalculateTotalSpend(e.spends, leaf')
         = e.unshield + CalculateTotalSpend(ChangeLeaves(e), leaf')
           + CalculateTotalSpend(FeeLeaves(e), Values(e))
  BY <1>3 DEF Balanced
<1>. QED
  BY ONLY <1>4, <1>5, <1>6, <1>7 DEF EntryInv, Worth, ChangeLeaves, FeeLeaves, Values, Interval

LEMMA LogGrows ==
    ASSUME TypeInv, LogInv, NEW e, Grown(e), Balanced(e)
    PROVE  LogInv'
<1>1. \A k \in Keys : leaf[k] > 0 => PositionOf(k) < size[TreeOf(k)]
  BY DEF LogInv
<1>. DEFINE last == Len(log) + 1
<1>2. /\ log' = Append(log, e) /\ e \in EntryRec /\ log \in Seq(EntryRec)
      /\ revealed' = revealed \cup e.spends
  BY DEF Grown, TypeInv
<1>3. /\ last \in Nat /\ DOMAIN log = 1..Len(log) /\ DOMAIN log' = 1..last
      /\ last \notin DOMAIN log /\ log'[last] = e
      /\ \A n \in DOMAIN log' : n \in DOMAIN log \/ n = last
      /\ \A n \in DOMAIN log : n \in DOMAIN log' /\ log'[n] = log[n] /\ log[n] \in EntryRec /\ n < last
  BY <1>2
<1>. HIDE DEF last
<1>4. ASSUME NEW n \in DOMAIN log'
      PROVE  EntryInv(log[n])'
  <2>1. CASE n = last
    <3>1. EntryInv(e)'
      BY <1>1, EntryNew
    <3>. QED
      BY <1>3, <2>1, <3>1
  <2>2. CASE n \in DOMAIN log
    <3>1. EntryInv(log[n]) /\ log[n] \in EntryRec /\ log'[n] = log[n]
      BY <1>3, <2>2 DEF LogInv
    <3>2. ASSUME NEW d, d = log[n]
          PROVE  EntryInv(d)'
      BY <1>1, <3>1, <3>2, EntryKept
    <3>. QED
      BY <3>1, <3>2
  <2>. QED
    BY <1>3, <2>1, <2>2
<1>5. ASSUME NEW n \in DOMAIN log
      PROVE  /\ \A k \in log[n].leaves : k \in Keys /\ k \notin e.leaves /\ PositionOf(k) < size[TreeOf(k)]
             /\ \A k \in log[n].spends : k \in Keys /\ k \notin e.leaves /\ k \in revealed
  <2>1. EntryInv(log[n]) /\ log[n] \in EntryRec
    BY <1>3 DEF LogInv
  <2>2. \A k \in log[n].leaves : k \in Keys /\ PositionOf(k) < size[TreeOf(k)]
    BY <2>1, EntryPlaces
  <2>3. \A k \in log[n].spends : k \in Keys /\ leaf[k] > 0
    BY <2>1 DEF EntryInv, EntryRec
  <2>4. \A k \in log[n].spends : k \in revealed
    BY DEF LogInv
  <2>. QED
    BY <1>1, <2>2, <2>3, <2>4, TakenPlaces
<1>6. \A j \in e.leaves : j \in Keys /\ PositionOf(j) \in Int /\ PositionOf(j) >= size[TreeOf(j)]
  <2>1. \A j \in e.leaves : j \in Keys /\ PositionOf(j) \in size[TreeOf(j)]..(size'[TreeOf(j)] - 1)
    BY NewPlaces
  <2>. QED
    BY <2>1
<1>7. \A k \in e.spends : k \in Keys /\ k \notin revealed /\ k \notin e.leaves
  <2>1. \A k \in e.spends : k \in Keys /\ leaf[k] > 0 /\ k \notin revealed
    BY <1>2 DEF Balanced, EntryRec
  <2>. QED
    BY <1>1, <2>1, TakenPlaces
<1>8. ASSUME NEW n \in DOMAIN log, NEW k \in log[n].leaves, NEW j \in e.leaves
      PROVE  k # j /\ (TreeOf(k) = TreeOf(j) => k < j)
  <2>1. k # j /\ k \in Keys /\ j \in Keys
    BY <1>5, <1>6
  <2>2. ASSUME TreeOf(k) = TreeOf(j)
        PROVE  k < j
    <3>1. /\ TreeOf(k) \in Trees /\ size[TreeOf(k)] \in Int
          /\ k = Key(TreeOf(k), PositionOf(k)) /\ j = Key(TreeOf(k), PositionOf(j))
          /\ PositionOf(k) \in Int /\ PositionOf(j) \in Int /\ k \in Nat /\ j \in Nat
      BY <2>1, <2>2, PlaceKey DEF TypeInv
    <3>2. PositionOf(k) <= PositionOf(j)
      BY <1>5, <1>6, <2>2, <3>1
    <3>3. k <= j
      BY <3>1, <3>2, KeyOrder
    <3>. QED
      BY <2>1, <3>1, <3>3
  <2>. QED
    BY <2>1, <2>2
<1>9. ASSUME NEW n \in DOMAIN log', NEW m \in DOMAIN log'
      PROVE  /\ n < m => \A k \in log'[n].leaves, j \in log'[m].leaves :
                            k # j /\ (TreeOf(k) = TreeOf(j) => k < j)
             /\ n # m => log'[n].spends \cap log'[m].spends = {}
             /\ n <= m => log'[n].spends \cap log'[m].leaves = {}
  <2>1. CASE n \in DOMAIN log /\ m \in DOMAIN log
    BY <1>3, <2>1 DEF LogInv
  <2>2. CASE n \in DOMAIN log /\ m = last
    <3>1. log'[n] = log[n] /\ log'[m] = e
      BY <1>3, <2>2
    <3>2. log[n].spends \cap e.spends = {} /\ log[n].spends \cap e.leaves = {}
      BY <1>5, <1>7, <2>2
    <3>3. \A k \in log[n].leaves, j \in e.leaves : k # j /\ (TreeOf(k) = TreeOf(j) => k < j)
      BY <1>8, <2>2
    <3>. QED
      BY <3>1, <3>2, <3>3
  <2>3. CASE n = last /\ m \in DOMAIN log
    <3>1. log'[n] = e /\ log'[m] = log[m] /\ ~(n < m) /\ ~(n <= m)
      BY <1>3, <2>3
    <3>2. log[m].spends \cap e.spends = {}
      BY <1>5, <1>7, <2>3
    <3>. QED
      BY <3>1, <3>2
  <2>4. CASE n = last /\ m = last
    <3>1. log'[n] = e /\ n = m /\ ~(n < m)
      BY <1>3, <2>4
    <3>. QED
      BY <1>7, <3>1, <1>3, <2>4
  <2>. QED
    BY <1>3, <2>1, <2>2, <2>3, <2>4
<1>10. revealed' = UNION {log'[n].spends : n \in DOMAIN log'}
  <2>1. revealed = UNION {log[n].spends : n \in DOMAIN log}
    BY DEF LogInv
  <2>. QED
    BY <1>2, <1>3, <2>1
<1>11. \A k \in Keys : leaf'[k] > 0 => PositionOf(k) < size'[TreeOf(k)]
  <2>1. SUFFICES ASSUME NEW k \in Keys, leaf'[k] > 0
                 PROVE  PositionOf(k) < size'[TreeOf(k)]
    OBVIOUS
  <2>2. CASE k \in e.leaves
    <3>1. PositionOf(k) \in size[TreeOf(k)]..(size'[TreeOf(k)] - 1)
      BY <2>2, NewPlaces
    <3>2. size[TreeOf(k)] \in Int /\ size'[TreeOf(k)] \in Int
      <4>1. TreeOf(k) \in Trees /\ TreeSize \in Nat
        BY PlaceKey, SelectionAssumption
      <4>2. size \in [Trees -> 0..TreeSize] /\ size' \in [Trees -> 0..TreeSize]
        BY NewPlaces DEF TypeInv
      <4>. QED
        BY <4>1, <4>2
    <3>3. \A a, b \in Int : \A x \in a..(b - 1) : x < b
      OBVIOUS
    <3>. QED
      BY <3>1, <3>2, <3>3
  <2>3. CASE k \notin e.leaves
    <3>1. leaf'[k] = leaf[k]
      BY <2>3 DEF Grown
    <3>. QED
      BY <1>1, <2>1, <3>1, TakenPlaces
  <2>. QED
    BY <2>2, <2>3
<1>. QED
  BY <1>4, <1>9, <1>10, <1>11 DEF LogInv

\* The wallet knows nothing of it yet.
LEMMA WalletGrows ==
    ASSUME TypeInv, LogInv, WalletInv, NEW e, Grown(e), UNCHANGED <<imported, root, known, marked>>
    PROVE  WalletInv'
<1>1. /\ log' = Append(log, e) /\ e \in EntryRec /\ log \in Seq(EntryRec)
      /\ imported \in 0..Len(log) /\ TreeSize \in Nat
      /\ root \in [Trees -> Nat] /\ size \in [Trees -> 0..TreeSize]
  BY SelectionAssumption DEF Grown, TypeInv
<1>2. /\ Len(log) \in Nat /\ Len(log') = Len(log) + 1 /\ log'[Len(log) + 1] = e
      /\ \A n \in 1..Len(log) : log'[n] = log[n]
  BY <1>1
<1>3. /\ size' \in [Trees -> 0..TreeSize]
      /\ \A t \in Trees : size[t] <= size'[t]
      /\ \A k \in Keys : k \in e.leaves <=>
             PositionOf(k) \in size[TreeOf(k)]..(size'[TreeOf(k)] - 1)
  BY NewPlaces
<1>4. ASSUME NEW t \in Trees
      PROVE  /\ root[t] \in Nat /\ size[t] \in Nat /\ size'[t] \in Nat
             /\ root[t] <= size[t] /\ size[t] <= size'[t]
  BY <1>1, <1>3 DEF WalletInv
<1>5. ASSUME NEW t \in Trees
      PROVE  root'[t] <= size'[t]
  BY <1>4
<1>6. ASSUME NEW k \in Keys
      PROVE  (\E n \in (imported' + 1)..Len(log') : k \in log'[n].leaves)
                <=> PositionOf(k) \in root'[TreeOf(k)]..(size'[TreeOf(k)] - 1)
  <2>1. TreeOf(k) \in Trees /\ PositionOf(k) \in Int
    BY PlaceKey
  <2>2. (\E n \in (imported' + 1)..Len(log') : k \in log'[n].leaves)
          <=> (\E n \in (imported + 1)..Len(log) : k \in log[n].leaves) \/ k \in e.leaves
    <3>1. ASSUME NEW n \in (imported' + 1)..Len(log'), k \in log'[n].leaves
          PROVE  (\E m \in (imported + 1)..Len(log) : k \in log[m].leaves) \/ k \in e.leaves
      <4>1. (n \in (imported + 1)..Len(log) /\ n \in 1..Len(log)) \/ n = Len(log) + 1
        BY <1>1, <1>2
      <4>. QED
        BY <1>2, <3>1, <4>1
    <3>2. ASSUME NEW n \in (imported + 1)..Len(log), k \in log[n].leaves
          PROVE  \E m \in (imported' + 1)..Len(log') : k \in log'[m].leaves
      <4>1. n \in (imported' + 1)..Len(log') /\ n \in 1..Len(log)
        BY <1>1, <1>2
      <4>. QED
        BY <1>2, <3>2, <4>1
    <3>3. ASSUME k \in e.leaves
          PROVE  \E m \in (imported' + 1)..Len(log') : k \in log'[m].leaves
      <4>1. Len(log) + 1 \in (imported' + 1)..Len(log')
        BY <1>1, <1>2
      <4>. QED
        BY <1>2, <3>3, <4>1
    <3>. QED
      BY <3>1, <3>2, <3>3
  <2>3. (\E n \in (imported + 1)..Len(log) : k \in log[n].leaves)
          <=> PositionOf(k) \in root[TreeOf(k)]..(size[TreeOf(k)] - 1)
    BY DEF WalletInv
  <2>4. k \in e.leaves <=> PositionOf(k) \in size[TreeOf(k)]..(size'[TreeOf(k)] - 1)
    BY <1>3
  <2>5. root'[TreeOf(k)] = root[TreeOf(k)]
    OBVIOUS
  <2>6. /\ root[TreeOf(k)] \in Nat /\ size[TreeOf(k)] \in Nat /\ size'[TreeOf(k)] \in Nat
        /\ root[TreeOf(k)] <= size[TreeOf(k)] /\ size[TreeOf(k)] <= size'[TreeOf(k)]
    BY <1>4, <2>1
  <2>7. PositionOf(k) \in root[TreeOf(k)]..(size'[TreeOf(k)] - 1) <=>
            \/ PositionOf(k) \in root[TreeOf(k)]..(size[TreeOf(k)] - 1)
            \/ PositionOf(k) \in size[TreeOf(k)]..(size'[TreeOf(k)] - 1)
    BY <2>1, <2>6
  <2>. QED
    BY <2>2, <2>3, <2>4, <2>5, <2>7
<1>7. known' = {k \in Keys : leaf'[k] > 0 /\ PositionOf(k) < root'[TreeOf(k)]}
  <2>1. ASSUME NEW k \in Keys, PositionOf(k) < root[TreeOf(k)]
        PROVE  leaf'[k] = leaf[k]
    <3>1. TreeOf(k) \in Trees /\ PositionOf(k) \in Int
      BY PlaceKey
    <3>2. PositionOf(k) < size[TreeOf(k)]
      BY <1>4, <2>1, <3>1
    <3>. QED
      BY <3>2, TakenPlaces
  <2>2. known = {k \in Keys : leaf[k] > 0 /\ PositionOf(k) < root[TreeOf(k)]}
    BY DEF WalletInv
  <2>. QED
    BY <2>1, <2>2
<1>8. \A n \in 1..imported' : \A k \in log'[n].spends : TreeOf(k) = 0 => k \in marked'
  <2>1. \A n \in 1..imported : log'[n] = log[n]
    BY <1>1, <1>2
  <2>. QED
    BY <2>1 DEF WalletInv
<1>. QED
  BY <1>5, <1>6, <1>7, <1>8 DEF WalletInv

\* What is known is worth what it was.
LEMMA KnownKept ==
    ASSUME TypeInv, WalletInv, NEW e, Grown(e)
    PROVE  \A k \in known : k \in Keys /\ leaf'[k] = leaf[k]
<1>1. SUFFICES ASSUME NEW k \in known PROVE k \in Keys /\ leaf'[k] = leaf[k]
  OBVIOUS
<1>2. k \in Keys /\ PositionOf(k) < root[TreeOf(k)]
  BY DEF WalletInv
<1>3. TreeOf(k) \in Trees /\ PositionOf(k) \in Int /\ TreeSize \in Nat
  BY <1>2, PlaceKey, SelectionAssumption
<1>4. root[TreeOf(k)] <= size[TreeOf(k)] /\ root[TreeOf(k)] \in Nat /\ size[TreeOf(k)] \in Nat
  BY <1>3 DEF TypeInv, WalletInv
<1>5. PositionOf(k) < size[TreeOf(k)]
  BY <1>2, <1>3, <1>4
<1>. QED
  BY <1>2, <1>5, TakenPlaces

\* The order of the notes of a tree, and how many are taken, depends on their
\* values alone.
LEMMA AscendingSame ==
    ASSUME NEW S, IsFiniteSet(S), NEW v, NEW w, \A k \in S : v[k] = w[k], NEW x
    PROVE  Ascending(S, v, x) = Ascending(S, w, x)
<1>1. ASSUME NEW k \in S
      PROVE  CalculateTotalSpend({j \in S : Before(j, k, v)}, v)
             = CalculateTotalSpend({j \in S : Before(j, k, w)}, w)
  <2>. DEFINE T == {j \in S : Before(j, k, v)}
  <2>1. T = {j \in S : Before(j, k, w)}
    BY DEF Before
  <2>2. IsFiniteSet(T) /\ \A j \in T : v[j] = w[j]
    BY FS_Subset
  <2>. HIDE DEF T
  <2>3. CalculateTotalSpend(T, v) = CalculateTotalSpend(T, w)
    BY <2>2, SumSame
  <2>. QED
    BY <2>1, <2>3 DEF T
<1>. QED
  BY <1>1 DEF Ascending

\* A call took what it took.
LEMMA SelectedGrows ==
    ASSUME TypeInv, WalletInv, NEW e, Grown(e), UNCHANGED <<imported, known>>,
           NEW r \in CallRec, SelectedInv(r)
    PROVE  SelectedInv(r)'
<1>1. r.offered \in SUBSET known /\ r.seen <= imported /\ r.offered \in SUBSET Keys
      /\ r.inputs \in SUBSET Keys /\ r.seen \in Nat
  BY DEF SelectedInv, CallRec
<1>2. \A k \in r.offered : leaf'[k] = leaf[k]
  BY <1>1, KnownKept
<1>3. IsFiniteSet(r.offered)
  BY <1>1, KeysFinite, FS_Subset
<1>4. ASSUME NEW S \in SUBSET r.offered
      PROVE  CalculateTotalSpend(S, leaf') = CalculateTotalSpend(S, leaf)
  <2>1. IsFiniteSet(S) /\ \A k \in S : leaf'[k] = leaf[k]
    BY <1>2, <1>3, FS_Subset
  <2>. QED
    BY ONLY <2>1, SumSame
<1>5. \A n \in 1..r.seen : log'[n] = log[n]
  <2>1. log' = Append(log, e) /\ log \in Seq(EntryRec) /\ imported \in 0..Len(log)
    BY DEF Grown, TypeInv
  <2>. QED
    BY <1>1, <2>1
<1>6. ASSUME r.inputs # {}
      PROVE  /\ \E t \in Trees : r.inputs \subseteq InTree(r.offered, t)
             /\ Cardinality(r.inputs) <= MaxInputs
             /\ CalculateTotalSpend(r.inputs, leaf') >= Need(r)
             /\ CalculateTotalSpend(r.inputs, leaf') - Max({leaf'[k] : k \in r.inputs}) < Need(r)
             /\ r.amount > 0
             /\ IF r.request.amount > 0 THEN r.amount = r.request.amount
                ELSE r.amount + r.fee = CalculateTotalSpend(r.offered, leaf')
  <2>1. /\ \E t \in Trees : r.inputs \subseteq InTree(r.offered, t)
        /\ Cardinality(r.inputs) <= MaxInputs
        /\ Worth(r.inputs) >= Need(r)
        /\ Worth(r.inputs) - Max({leaf[k] : k \in r.inputs}) < Need(r)
        /\ r.amount > 0
        /\ IF r.request.amount > 0 THEN r.amount = r.request.amount
           ELSE r.amount + r.fee = Worth(r.offered)
    BY <1>6 DEF SelectedInv
  <2>2. r.inputs \in SUBSET r.offered
    BY <2>1 DEF InTree
  <2>3. {leaf'[k] : k \in r.inputs} = {leaf[k] : k \in r.inputs}
    BY <1>2, <2>2
  <2>4. CalculateTotalSpend(r.inputs, leaf') = Worth(r.inputs)
        /\ CalculateTotalSpend(r.offered, leaf') = Worth(r.offered)
    BY <1>4, <2>2 DEF Worth
  <2>. QED
    BY <2>1, <2>3, <2>4
<1>7. ASSUME r.reason = "utxos", NEW t \in Trees,
             \E notes \in SUBSET InTree(r.offered, t) :
                 Cardinality(notes) <= MaxInputs /\ CalculateTotalSpend(notes, leaf') >= Need(r)
      PROVE  \/ \E k \in r.offered : \E u \in (t + 1)..TreeOf(k) :
                    CalculateTotalSpend(InTree(r.offered, u), leaf') < Need(r)
             \/ Cardinality(Ascending(InTree(r.offered, t), leaf', Need(r))) > MaxInputs
  <2>1. \A u : InTree(r.offered, u) \in SUBSET r.offered
    BY DEF InTree
  <2>2. \E notes \in SUBSET InTree(r.offered, t) :
            Cardinality(notes) <= MaxInputs /\ Worth(notes) >= Need(r)
    BY <1>4, <1>7, <2>1 DEF Worth
  <2>3. \/ \E k \in r.offered : \E u \in (t + 1)..TreeOf(k) : Worth(InTree(r.offered, u)) < Need(r)
        \/ Cardinality(Ascending(InTree(r.offered, t), leaf, Need(r))) > MaxInputs
    BY <1>7, <2>2 DEF SelectedInv
  <2>4. \A u : CalculateTotalSpend(InTree(r.offered, u), leaf') = Worth(InTree(r.offered, u))
    BY <1>4, <2>1 DEF Worth
  <2>5. Ascending(InTree(r.offered, t), leaf', Need(r)) = Ascending(InTree(r.offered, t), leaf, Need(r))
    <3>1. IsFiniteSet(InTree(r.offered, t)) /\ \A k \in InTree(r.offered, t) : leaf'[k] = leaf[k]
      BY <1>2, <1>3, <2>1, FS_Subset
    <3>. QED
      BY ONLY <3>1, AscendingSame
  <2>. QED
    BY <2>3, <2>4, <2>5
<1>8. /\ r.offered \subseteq known' /\ r.seen <= imported'
      /\ \A n \in 1..r.seen : \A k \in r.offered \cap log'[n].spends : TreeOf(k) > 0
      /\ r.pc \in {"start", "quote"} => r.fee = 0
      /\ r.pc = "quote" => r.request.relayed
      /\ r.pc = "select" \/ r.inputs # {} => (r.request.relayed <=> r.fee > 0)
  BY <1>1, <1>5 DEF SelectedInv
<1>. QED
  BY ONLY <1>6, <1>7, <1>8 DEF SelectedInv, Worth, Need, InTree, Ascending, Before

-----------------------------------------------------------------------------
(* The history: what the transactions took in is what they paid out and     *)
(* kept, and the records of the notes are worth what the notes are.         *)

Landed(N) == UNION {log[n].leaves : n \in 1..N}
Spends(N) == UNION {log[n].spends : n \in 1..N}
ChangeKept(N) == UNION {ChangeLeaves(log[n]) : n \in 1..N}
Received(N) == UNION {NotesOf(n, FALSE) : n \in 1..N}
Sent(N) == UNION {NotesOf(n, TRUE) : n \in 1..N}
Unshielded(N) == CalculateTotalSpend(1..N, [n \in 1..N |-> log[n].unshield])

HistoryAt(N) ==
    /\ IsFiniteSet(Received(N)) /\ IsFiniteSet(Sent(N))
    /\ TotalValue(Received(N)) = Worth(Landed(N))
    /\ Worth(Spends(N)) = Unshielded(N) + Worth(ChangeKept(N)) + TotalValue(Sent(N))

Record(k, n, note, type) == [id |-> k, txid |-> n, value |-> note.value, type |-> type]

\* A note is received when the wallet is a receiver, and otherwise a fee.
LEMMA NoteIs ==
    ASSUME NEW note \in NoteRec, note.from = "shield" => note.to = "wallet",
           note.to = "other" => note.type = "fee", NEW k, NEW n
    PROVE  /\ IsSent(note) = (note.to = "other")
           /\ note.to = "wallet" =>
                txoFromV2CommitmentWithDirection(note, k, n) = {Record(k, n, note, NoType)}
           /\ note.to = "other" =>
                txoFromV2CommitmentWithDirection(note, k, n) = {Record(k, n, note, "fee")}
<1>1. note.to \in {"wallet", "other"} /\ note.from \in {"shield", "wallet"}
  BY DEF NoteRec
<1>2. CASE note.to = "wallet"
  <2>1. IsSent(note) = FALSE
    BY <1>2 DEF IsSent, tryDecryptV2
  <2>2. CASE note.from = "shield"
    <3>1. txoFromV2CommitmentWithDirection(note, k, n) = txoFromShieldCommitment(note, k, n)
      BY <2>2 DEF txoFromV2CommitmentWithDirection
    <3>2. {"wallet"} \cap {note.to} = {"wallet"}
      BY <1>2
    <3>3. txoFromShieldCommitment(note, k, n) = {Record(k, n, note, NoType)}
      BY <3>2 DEF txoFromShieldCommitment, Record
    <3>. QED
      BY <1>2, <2>1, <3>1, <3>3
  <2>3. CASE note.from # "shield"
    <3>1. {s \in {IsSent(note)} : tryDecryptV2(note, s)} = {FALSE}
      BY <1>2, <2>1 DEF tryDecryptV2
    <3>2. OutputType(note, FALSE) = NoType
      BY DEF OutputType
    <3>3. txoFromV2CommitmentWithDirection(note, k, n)
            = {[id |-> k, txid |-> n, value |-> note.value, type |-> OutputType(note, isSent)] : isSent \in {FALSE}}
      BY <2>3, <3>1 DEF txoFromV2CommitmentWithDirection
    <3>4. txoFromV2CommitmentWithDirection(note, k, n) = {Record(k, n, note, NoType)}
      BY <3>2, <3>3 DEF Record
    <3>. QED
      BY <1>2, <2>1, <3>4
  <2>. QED
    BY <2>2, <2>3
<1>3. CASE note.to = "other"
  <2>1. note.from = "wallet" /\ note.type = "fee"
    BY <1>1, <1>3
  <2>2. IsSent(note) = TRUE
    BY <1>3, <2>1 DEF IsSent, tryDecryptV2
  <2>3. {s \in {IsSent(note)} : tryDecryptV2(note, s)} = {TRUE}
    BY <2>1, <2>2 DEF tryDecryptV2
  <2>4. OutputType(note, TRUE) = "fee"
    BY <2>1 DEF OutputType
  <2>5. txoFromV2CommitmentWithDirection(note, k, n)
          = {[id |-> k, txid |-> n, value |-> note.value, type |-> OutputType(note, isSent)] : isSent \in {TRUE}}
    BY <2>1, <2>3 DEF txoFromV2CommitmentWithDirection
  <2>6. txoFromV2CommitmentWithDirection(note, k, n) = {Record(k, n, note, "fee")}
    BY <2>4, <2>5 DEF Record
  <2>. QED
    BY <1>3, <2>2, <2>6
<1>. QED
  BY <1>1, <1>2, <1>3

\* The records of a transaction: of what the wallet gets, of what it pays.
Kinds(e, to) == {k \in e.leaves : e.notes[k].to = to}

LEMMA NotesOfEntry ==
    ASSUME TypeInv, LogInv, NEW n \in DOMAIN log
    PROVE  /\ NotesOf(n, FALSE) = {Record(k, n, log[n].notes[k], NoType) : k \in Kinds(log[n], "wallet")}
           /\ NotesOf(n, TRUE) = {Record(k, n, log[n].notes[k], "fee") : k \in FeeLeaves(log[n])}
<1>. DEFINE e == log[n]
            R(k) == txoFromV2CommitmentWithDirection(e.notes[k], k, n)
<1>1. EntryInv(e)
  BY DEF LogInv
<1>2. ASSUME NEW k \in e.leaves
      PROVE  /\ e.notes[k].to \in {"wallet", "other"}
             /\ IsSent(e.notes[k]) = (e.notes[k].to = "other")
             /\ e.notes[k].to = "wallet" => R(k) = {Record(k, n, e.notes[k], NoType)}
             /\ e.notes[k].to = "other" => R(k) = {Record(k, n, e.notes[k], "fee")}
  <2>1. /\ e.notes[k] \in NoteRec
        /\ e.notes[k].from = "shield" => e.notes[k].to = "wallet"
        /\ e.notes[k].to = "other" => e.notes[k].type = "fee"
    BY <1>1 DEF EntryInv
  <2>2. e.notes[k].to \in {"wallet", "other"}
    BY <2>1 DEF NoteRec
  <2>. HIDE DEF e
  <2>. QED
    BY <2>1, <2>2, NoteIs
<1>3. NotesOf(n, FALSE) = UNION {R(k) : k \in {k \in e.leaves : IsSent(e.notes[k]) = FALSE}}
      /\ NotesOf(n, TRUE) = UNION {R(k) : k \in {k \in e.leaves : IsSent(e.notes[k]) = TRUE}}
  BY DEF NotesOf
<1>. HIDE DEF e, R
<1>4. {k \in e.leaves : IsSent(e.notes[k]) = FALSE} = Kinds(e, "wallet")
      /\ {k \in e.leaves : IsSent(e.notes[k]) = TRUE} = FeeLeaves(e)
  BY <1>2 DEF Kinds, FeeLeaves
<1>5. UNION {R(k) : k \in Kinds(e, "wallet")} = {Record(k, n, e.notes[k], NoType) : k \in Kinds(e, "wallet")}
  <2>1. \A k \in Kinds(e, "wallet") : R(k) = {Record(k, n, e.notes[k], NoType)}
    BY <1>2 DEF Kinds
  <2>. QED
    BY <2>1
<1>6. UNION {R(k) : k \in FeeLeaves(e)} = {Record(k, n, e.notes[k], "fee") : k \in FeeLeaves(e)}
  <2>1. \A k \in FeeLeaves(e) : R(k) = {Record(k, n, e.notes[k], "fee")}
    BY <1>2 DEF FeeLeaves
  <2>. QED
    BY <2>1
<1>. QED
  BY <1>3, <1>4, <1>5, <1>6 DEF e

\* They are worth what the notes are.
LEMMA EntryTotals ==
    ASSUME TypeInv, LogInv, NEW n \in DOMAIN log
    PROVE  /\ log[n].leaves \in SUBSET Keys /\ log[n].spends \in SUBSET Keys /\ log[n].unshield \in Nat
           /\ IsFiniteSet(NotesOf(n, FALSE)) /\ IsFiniteSet(NotesOf(n, TRUE))
           /\ TotalValue(NotesOf(n, FALSE)) = Worth(log[n].leaves)
           /\ Worth(log[n].spends)
                = log[n].unshield + Worth(ChangeLeaves(log[n])) + TotalValue(NotesOf(n, TRUE))
           /\ \A sent \in BOOLEAN : \A r \in NotesOf(n, sent) : r.txid = n
           /\ \A sent \in BOOLEAN : \A r \in NotesOf(n, sent) : r.value \in Nat \ {0}
           /\ \A r \in NotesOf(n, FALSE) : r.type = NoType
           /\ \A r \in NotesOf(n, TRUE) : r.type = "fee"
<1>1. PICK e : e = log[n]
  OBVIOUS
<1>2. EntryInv(e) /\ e \in EntryRec
  BY <1>1 DEF LogInv, TypeInv
<1>3. e.leaves \in SUBSET Keys /\ e.spends \in SUBSET Keys /\ e.unshield \in Nat
  BY <1>2 DEF EntryRec
<1>4. ASSUME NEW k \in e.leaves
      PROVE  /\ k \in Keys /\ e.notes[k].value \in Nat /\ e.notes[k].value > 0
             /\ leaf[k] = IF e.notes[k].to = "wallet" THEN e.notes[k].value ELSE 0
  BY <1>2, <1>3 DEF EntryInv, NoteRec, Kept
<1>5. /\ NotesOf(n, FALSE) = {Record(k, n, e.notes[k], NoType) : k \in Kinds(e, "wallet")}
      /\ NotesOf(n, TRUE) = {Record(k, n, e.notes[k], "fee") : k \in FeeLeaves(e)}
  BY <1>1, NotesOfEntry
<1>6. /\ IsFiniteSet(e.leaves) /\ IsFiniteSet(Kinds(e, "wallet")) /\ IsFiniteSet(FeeLeaves(e))
      /\ Kinds(e, "wallet") \in SUBSET e.leaves /\ FeeLeaves(e) \in SUBSET e.leaves
  <2>1. Kinds(e, "wallet") \in SUBSET e.leaves /\ FeeLeaves(e) \in SUBSET e.leaves
    BY DEF Kinds, FeeLeaves
  <2>. QED
    BY <1>3, <2>1, KeysFinite, FS_Subset
<1>7. IsFiniteSet(NotesOf(n, FALSE)) /\ TotalValue(NotesOf(n, FALSE)) = CalculateTotalSpend(Kinds(e, "wallet"), leaf)
  <2>. DEFINE S == Kinds(e, "wallet")
              f == [k \in S |-> Record(k, n, e.notes[k], NoType)]
              R == NotesOf(n, FALSE)
  <2>1. \A k \in S : f[k] = Record(k, n, e.notes[k], NoType)
    OBVIOUS
  <2>2. R = {f[k] : k \in S}
    BY <1>5, <2>1
  <2>3. \A j, k \in S : f[j] = f[k] => j = k
    BY <2>1 DEF Record
  <2>4. \A k \in S : f[k].value = leaf[k] /\ leaf[k] \in Int
    BY <1>4, <1>6, <2>1 DEF Record, Kinds
  <2>. HIDE DEF f, S, R
  <2>5. IsFiniteSet(S)
    BY <1>6 DEF S
  <2>6. IsFiniteSet(R) /\ TotalValue(R) = CalculateTotalSpend(S, leaf)
    BY <2>2, <2>3, <2>4, <2>5, TotalImage
  <2>. QED
    BY <2>6 DEF S, R
<1>8. IsFiniteSet(NotesOf(n, TRUE)) /\ TotalValue(NotesOf(n, TRUE)) = CalculateTotalSpend(FeeLeaves(e), Values(e))
  <2>. DEFINE S == FeeLeaves(e)
              f == [k \in S |-> Record(k, n, e.notes[k], "fee")]
              R == NotesOf(n, TRUE)
              w == Values(e)
  <2>1. \A k \in S : f[k] = Record(k, n, e.notes[k], "fee")
    OBVIOUS
  <2>2. R = {f[k] : k \in S}
    BY <1>5, <2>1
  <2>3. \A j, k \in S : f[j] = f[k] => j = k
    BY <2>1 DEF Record
  <2>4. \A k \in S : f[k].value = w[k] /\ w[k] \in Int
    BY <1>4, <1>6, <2>1 DEF Record, Values
  <2>. HIDE DEF f, S, R, w
  <2>5. IsFiniteSet(S)
    BY <1>6 DEF S
  <2>6. IsFiniteSet(R) /\ TotalValue(R) = CalculateTotalSpend(S, w)
    BY <2>2, <2>3, <2>4, <2>5, TotalImage
  <2>. QED
    BY <2>6 DEF S, R, w
<1>9. Worth(e.leaves) = CalculateTotalSpend(Kinds(e, "wallet"), leaf)
  <2>1. \A k \in e.leaves : leaf[k] \in Int
    BY <1>4
  <2>2. \A k \in e.leaves \ Kinds(e, "wallet") : leaf[k] = 0
    BY <1>4 DEF Kinds
  <2>. QED
    BY <1>6, <2>1, <2>2, SumNonZero DEF Worth
<1>10. Worth(e.spends) = e.unshield + Worth(ChangeLeaves(e)) + TotalValue(NotesOf(n, TRUE))
  BY <1>2, <1>8 DEF EntryInv
<1>11. ASSUME NEW r \in NotesOf(n, FALSE)
       PROVE  r.txid = n /\ r.value \in Nat \ {0} /\ r.type = NoType
  <2>1. PICK k \in Kinds(e, "wallet") : r = Record(k, n, e.notes[k], NoType)
    BY <1>5
  <2>. QED
    BY <1>4, <1>6, <2>1 DEF Record
<1>12. ASSUME NEW r \in NotesOf(n, TRUE)
       PROVE  r.txid = n /\ r.value \in Nat \ {0} /\ r.type = "fee"
  <2>1. PICK k \in FeeLeaves(e) : r = Record(k, n, e.notes[k], "fee")
    BY <1>5
  <2>. QED
    BY <1>4, <1>6, <2>1 DEF Record
<1>. QED
  BY <1>1, <1>3, <1>7, <1>8, <1>9, <1>10, <1>11, <1>12

LEMMA TotalEmpty == TotalValue({}) = 0
<1>1. IsFiniteSet({})
  BY FS_EmptySet
<1>2. TotalValue({}) = CalculateTotalSpend({}, [r \in {} |-> 0])
  BY <1>1, TotalIs
<1>. QED
  BY <1>2, SumEmpty

LEMMA TotalInt ==
    ASSUME NEW R, IsFiniteSet(R), \A r \in R : r.value \in Int
    PROVE  TotalValue(R) \in Int
<1>. DEFINE v == [r \in R |-> r.value]
<1>1. (\A r \in R : v[r] = r.value) /\ (\A r \in R : v[r] \in Int)
  OBVIOUS
<1>. HIDE DEF v
<1>2. TotalValue(R) = CalculateTotalSpend(R, v)
  BY <1>1, TotalIs
<1>3. CalculateTotalSpend(R, v) \in Int
  BY <1>1, SumInt
<1>. QED
  BY <1>2, <1>3

LEMMA HistoryStep ==
    ASSUME TypeInv, LogInv, NEW N \in Nat, N + 1 <= Len(log), HistoryAt(N)
    PROVE  HistoryAt(N + 1)
<1>. DEFINE m == N + 1
<1>1. /\ DOMAIN log = 1..Len(log) /\ Len(log) \in Nat
      /\ m \in DOMAIN log /\ \A n \in 1..N : n \in DOMAIN log /\ n # m /\ n < m
  BY DEF TypeInv
<1>2. PICK e : e = log[m]
  OBVIOUS
<1>3. leaf \in [Keys -> Nat]
  BY DEF TypeInv
<1>4. /\ Landed(m) = Landed(N) \cup e.leaves
      /\ Spends(m) = Spends(N) \cup e.spends
      /\ ChangeKept(m) = ChangeKept(N) \cup ChangeLeaves(e)
      /\ Received(m) = Received(N) \cup NotesOf(m, FALSE)
      /\ Sent(m) = Sent(N) \cup NotesOf(m, TRUE)
  <2>1. 1..m = (1..N) \cup {m}
    OBVIOUS
  <2>. HIDE DEF m
  <2>. QED
    BY <1>2, <2>1 DEF Landed, Spends, ChangeKept, Received, Sent
<1>5. /\ e.leaves \in SUBSET Keys /\ e.spends \in SUBSET Keys /\ e.unshield \in Nat
      /\ IsFiniteSet(NotesOf(m, FALSE)) /\ IsFiniteSet(NotesOf(m, TRUE))
      /\ TotalValue(NotesOf(m, FALSE)) = Worth(e.leaves)
      /\ Worth(e.spends) = e.unshield + Worth(ChangeLeaves(e)) + TotalValue(NotesOf(m, TRUE))
  <2>. HIDE DEF m
  <2>. QED
    BY <1>1, <1>2, EntryTotals
<1>6. ASSUME NEW n \in 1..N
      PROVE  /\ \A k \in log[n].leaves : k \in Keys /\ k \notin e.leaves
             /\ \A k \in log[n].spends : k \in Keys /\ k \notin e.spends
             /\ log[n].unshield \in Int
  <2>1. n \in DOMAIN log /\ m \in DOMAIN log /\ n < m /\ n # m
    BY <1>1
  <2>. HIDE DEF m
  <2>2. log[n].leaves \cap e.leaves = {} /\ log[n].spends \cap e.spends = {}
    BY <1>2, <2>1 DEF LogInv
  <2>3. log[n].leaves \in SUBSET Keys /\ log[n].spends \in SUBSET Keys /\ log[n].unshield \in Nat
    BY <2>1, EntryTotals
  <2>. QED
    BY <2>2, <2>3
<1>. HIDE DEF m
<1>7. ChangeLeaves(e) \in SUBSET e.leaves /\ \A n \in 1..N : ChangeLeaves(log[n]) \in SUBSET log[n].leaves
  BY DEF ChangeLeaves
<1>8. /\ Landed(N) \in SUBSET Keys /\ Landed(N) \cap e.leaves = {}
      /\ Spends(N) \in SUBSET Keys /\ Spends(N) \cap e.spends = {}
      /\ ChangeKept(N) \in SUBSET Keys /\ ChangeKept(N) \cap ChangeLeaves(e) = {}
  <2>1. \A k \in Landed(N) : k \in Keys /\ k \notin e.leaves
    BY <1>6 DEF Landed
  <2>2. \A k \in Spends(N) : k \in Keys /\ k \notin e.spends
    BY <1>6 DEF Spends
  <2>3. ChangeKept(N) \in SUBSET Landed(N)
    BY <1>7 DEF Landed, ChangeKept
  <2>. QED
    BY <1>7, <2>1, <2>2, <2>3
\* The records of a store are of transactions up to N.
<1>9. ASSUME NEW sent \in BOOLEAN, NEW R, R = UNION {NotesOf(n, sent) : n \in 1..N}, IsFiniteSet(R),
             IsFiniteSet(NotesOf(m, sent)), NEW U, U = R \cup NotesOf(m, sent)
      PROVE  /\ IsFiniteSet(U) /\ TotalValue(U) = TotalValue(R) + TotalValue(NotesOf(m, sent))
             /\ TotalValue(R) \in Int /\ TotalValue(NotesOf(m, sent)) \in Int
  <2>1. R \cap NotesOf(m, sent) = {}
    <3>1. \A n \in 1..N : \A r \in NotesOf(n, sent) : r.txid = n
      BY <1>1, EntryTotals
    <3>2. \A r \in NotesOf(m, sent) : r.txid = m
      BY <1>1, EntryTotals
    <3>3. SUFFICES ASSUME NEW r \in R, r \in NotesOf(m, sent)
                   PROVE  FALSE
      OBVIOUS
    <3>4. PICK n \in 1..N : r \in NotesOf(n, sent)
      BY <1>9
    <3>5. r.txid = n /\ r.txid = m
      BY <3>1, <3>2, <3>3, <3>4
    <3>. QED
      BY <1>1, <3>5
  <2>2. \A r \in R : r.value \in Int
    <3>1. SUFFICES ASSUME NEW r \in R
                   PROVE  r.value \in Int
      OBVIOUS
    <3>2. PICK n \in 1..N : r \in NotesOf(n, sent)
      BY <1>9
    <3>3. r.value \in Nat \ {0}
      BY <1>1, <3>2, EntryTotals
    <3>. QED
      BY <3>3
  <2>3. \A r \in NotesOf(m, sent) : r.value \in Int
    <3>1. SUFFICES ASSUME NEW r \in NotesOf(m, sent)
                   PROVE  r.value \in Int
      OBVIOUS
    <3>2. r.value \in Nat \ {0}
      BY <1>1, EntryTotals
    <3>. QED
      BY <3>2
  <2>4. \A r \in U : r.value \in Int
    BY <1>9, <2>2, <2>3
  <2>5. IsFiniteSet(R) /\ IsFiniteSet(NotesOf(m, sent)) /\ U = R \cup NotesOf(m, sent)
    BY <1>9
  <2>6. IsFiniteSet(U) /\ TotalValue(U) = TotalValue(R) + TotalValue(NotesOf(m, sent))
    BY ONLY <2>1, <2>4, <2>5, TotalUnion
  <2>7. TotalValue(R) \in Int
    BY ONLY <2>2, <2>5, TotalInt
  <2>8. TotalValue(NotesOf(m, sent)) \in Int
    BY ONLY <2>3, <2>5, TotalInt
  <2>. QED
    BY <2>6, <2>7, <2>8
<1>10. ASSUME NEW S \in SUBSET Keys, NEW T \in SUBSET Keys, S \cap T = {}, NEW U, U = S \cup T
       PROVE  Worth(U) = Worth(S) + Worth(T) /\ Worth(S) \in Nat /\ Worth(T) \in Nat
  <2>1. /\ IsFiniteSet(S) /\ IsFiniteSet(T)
        /\ \A k \in S : leaf[k] \in Nat
        /\ \A k \in T : leaf[k] \in Nat
        /\ \A k \in U : leaf[k] \in Int
    BY <1>3, <1>10, KeysFinite, FS_Subset
  <2>2. CalculateTotalSpend(U, leaf) = CalculateTotalSpend(S, leaf) + CalculateTotalSpend(T, leaf)
    BY ONLY <1>10, <2>1, SumUnion
  <2>3. CalculateTotalSpend(S, leaf) \in Nat /\ CalculateTotalSpend(T, leaf) \in Nat
    BY ONLY <2>1, SumNat
  <2>. QED
    BY <2>2, <2>3 DEF Worth
<1>11. /\ Worth(Landed(m)) = Worth(Landed(N)) + Worth(e.leaves)
       /\ Worth(Landed(N)) \in Nat /\ Worth(e.leaves) \in Nat
  BY <1>4, <1>5, <1>8, <1>10
<1>12. /\ Worth(Spends(m)) = Worth(Spends(N)) + Worth(e.spends)
       /\ Worth(Spends(N)) \in Nat /\ Worth(e.spends) \in Nat
  BY <1>4, <1>5, <1>8, <1>10
<1>13. /\ Worth(ChangeKept(m)) = Worth(ChangeKept(N)) + Worth(ChangeLeaves(e))
       /\ Worth(ChangeKept(N)) \in Nat /\ Worth(ChangeLeaves(e)) \in Nat
  <2>1. ChangeLeaves(e) \in SUBSET Keys
    BY <1>5, <1>7
  <2>. QED
    BY <1>4, <1>8, <1>10, <2>1
<1>14. /\ IsFiniteSet(Received(m))
       /\ TotalValue(Received(m)) = TotalValue(Received(N)) + TotalValue(NotesOf(m, FALSE))
  <2>1. Received(N) = UNION {NotesOf(n, FALSE) : n \in 1..N} /\ IsFiniteSet(Received(N))
    BY DEF Received, HistoryAt
  <2>. QED
    BY <1>4, <1>5, <1>9, <2>1
<1>15. /\ IsFiniteSet(Sent(m))
       /\ TotalValue(Sent(m)) = TotalValue(Sent(N)) + TotalValue(NotesOf(m, TRUE))
       /\ TotalValue(Sent(N)) \in Int /\ TotalValue(NotesOf(m, TRUE)) \in Int
  <2>1. Sent(N) = UNION {NotesOf(n, TRUE) : n \in 1..N} /\ IsFiniteSet(Sent(N))
    BY DEF Sent, HistoryAt
  <2>. QED
    BY <1>4, <1>5, <1>9, <2>1
<1>16. Unshielded(m) = Unshielded(N) + e.unshield /\ Unshielded(N) \in Int
  <2>. DEFINE v == [n \in 1..m |-> log[n].unshield]
              w == [n \in 1..N |-> log[n].unshield]
              S == 1..N
  <2>1. 1..m = S \cup {m} /\ m \notin S /\ m \in 1..m
    BY DEF m
  <2>7. IsFiniteSet(S)
    <3>1. 1 \in Int /\ N \in Int
      OBVIOUS
    <3>. QED
      BY <3>1, FS_Interval
  <2>8. \A n \in S : log[n].unshield \in Int
    BY <1>6
  <2>9. log[m].unshield = e.unshield /\ e.unshield \in Int
    BY <1>2, <1>5
  <2>10. \A n \in S : n \in 1..m /\ v[n] = log[n].unshield /\ w[n] = log[n].unshield
    BY <2>1
  <2>11. v[m] = e.unshield
    BY <2>1, <2>9
  <2>2. \A n \in S \cup {m} : v[n] \in Int
    BY <2>8, <2>9, <2>10, <2>11
  <2>12. \A n \in S : v[n] = w[n]
    BY <2>10
  <2>13. \A n \in S : w[n] \in Int
    BY <2>8, <2>10
  <2>3. Unshielded(m) = CalculateTotalSpend(S \cup {m}, v) /\ Unshielded(N) = CalculateTotalSpend(S, w)
    BY <2>1 DEF Unshielded
  <2>. HIDE DEF v, w, S
  <2>4. CalculateTotalSpend(S \cup {m}, v) = CalculateTotalSpend(S, v) + v[m]
    <3>1. m \notin S
      BY <2>1
    <3>. QED
      BY ONLY <2>2, <2>7, <3>1, SumAdd
  <2>5. CalculateTotalSpend(S, v) = CalculateTotalSpend(S, w)
    BY ONLY <2>7, <2>12, SumSame
  <2>6. CalculateTotalSpend(S, w) \in Int
    BY ONLY <2>7, <2>13, SumInt
  <2>. QED
    BY <2>3, <2>4, <2>5, <2>6, <2>11
<1>18. TotalValue(Received(m)) = Worth(Landed(m))
  <2>1. TotalValue(Received(N)) = Worth(Landed(N))
    BY DEF HistoryAt
  <2>. QED
    BY <1>5, <1>11, <1>14, <2>1
<1>19. Worth(Spends(m)) = Unshielded(m) + Worth(ChangeKept(m)) + TotalValue(Sent(m))
  <2>1. Worth(Spends(N)) = Unshielded(N) + Worth(ChangeKept(N)) + TotalValue(Sent(N))
    BY DEF HistoryAt
  <2>2. Worth(e.spends) = e.unshield + Worth(ChangeLeaves(e)) + TotalValue(NotesOf(m, TRUE)) /\ e.unshield \in Int
    BY <1>5
  <2>3. TotalValue(Sent(m)) = TotalValue(Sent(N)) + TotalValue(NotesOf(m, TRUE))
       /\ TotalValue(Sent(N)) \in Int /\ TotalValue(NotesOf(m, TRUE)) \in Int
    BY <1>15
  <2>. DEFINE a == Worth(Spends(N))
              b == Unshielded(N)
              c == Worth(ChangeKept(N))
              d == TotalValue(Sent(N))
              f == Worth(e.spends)
              g == Worth(ChangeLeaves(e))
              h == TotalValue(NotesOf(m, TRUE))
              u == e.unshield
  <2>4. a \in Int /\ b \in Int /\ c \in Int /\ d \in Int /\ f \in Int /\ g \in Int /\ h \in Int /\ u \in Int
    <3>1. a \in Int /\ f \in Int
      BY <1>12
    <3>2. c \in Int /\ g \in Int
      BY <1>13
    <3>3. b \in Int
      BY <1>16
    <3>4. u \in Int
      BY <1>5
    <3>5. d \in Int /\ h \in Int
      BY <1>15
    <3>. QED
      BY <3>1, <3>2, <3>3, <3>4, <3>5
  <2>5. a = b + c + d /\ f = u + g + h
    BY <2>1, <2>2
  <2>6. Worth(Spends(m)) = a + f /\ Unshielded(m) = b + u /\ Worth(ChangeKept(m)) = c + g
        /\ TotalValue(Sent(m)) = d + h
    BY <1>12, <1>13, <1>16, <2>3
  <2>. HIDE DEF a, b, c, d, f, g, h, u
  <2>7. a + f = (b + u) + (c + g) + (d + h)
    BY <2>4, <2>5
  <2>. QED
    BY <2>6, <2>7
<1>20. HistoryAt(m)
  BY <1>14, <1>15, <1>18, <1>19 DEF HistoryAt
<1>. QED
  BY <1>20 DEF m

\* However many there are.
LEMMA HistoryAdds ==
    ASSUME TypeInv, LogInv
    PROVE  \A N \in 0..Len(log) : HistoryAt(N)
<1>. DEFINE T == {N \in 0..Len(log) : ~HistoryAt(N)}
<1>1. SUFFICES T = {}
  OBVIOUS
<1>2. Len(log) \in Nat
  BY DEF TypeInv
<1>3. HistoryAt(0)
  <2>1. 1..0 = {}
    OBVIOUS
  <2>2. /\ Landed(0) = {} /\ Spends(0) = {} /\ ChangeKept(0) = {} /\ Received(0) = {} /\ Sent(0) = {}
    BY <2>1 DEF Landed, Spends, ChangeKept, Received, Sent
  <2>3. Unshielded(0) = 0
    BY <2>1, SumEmpty DEF Unshielded
  <2>4. Worth({}) = 0 /\ TotalValue({}) = 0 /\ IsFiniteSet({})
    BY SumEmpty, TotalEmpty, FS_EmptySet DEF Worth
  <2>. QED
    BY <2>2, <2>3, <2>4 DEF HistoryAt
<1>4. ASSUME T # {} PROVE FALSE
  <2>1. T \in SUBSET Nat
    BY <1>2
  <2>2. PICK M \in T : \A N \in T : M <= N
    <3>. HIDE DEF T
    <3>. QED
      BY <1>4, <2>1, LeastNat
  <2>3. M \in 0..Len(log) /\ ~HistoryAt(M) /\ M # 0
    BY <1>3, <2>2
  <2>. DEFINE N == M - 1
  <2>4. N \in Nat /\ N + 1 = M /\ N + 1 <= Len(log) /\ N \in 0..Len(log) /\ ~(M <= N)
    BY <1>2, <2>3
  <2>. HIDE DEF N
  <2>5. HistoryAt(N)
    BY <2>2, <2>4
  <2>6. HistoryAt(N + 1)
    BY <2>4, <2>5, HistoryStep
  <2>. QED
    BY <2>3, <2>4, <2>6
<1>. QED
  BY <1>4

\* The list shows every record: no note is annotated as change where the wallet
\* looks for it.
LEMMA HistoryShows ==
    ASSUME NEW txos, NEW sent,
           \A r \in txos \cup sent : r.value > 0,
           \A r \in sent : r.type = "fee"
    PROVE  /\ UNION {entry.receive : entry \in TransactionHistory(txos, sent)} = txos
           /\ UNION {entry.fee : entry \in TransactionHistory(txos, sent)} = sent
<1>. DEFINE Receive(x) == {r \in Of(txos, x) : ~matchingChange(transactionSpendHistory(sent, x), r)}
            Entry(x) == [txid |-> x, fee |-> transactionSpendHistory(sent, x).fee,
                         change |-> transactionSpendHistory(sent, x).change,
                         transfer |-> transactionSpendHistory(sent, x).transfer,
                         receive |-> Receive(x)]
            X == {r.txid : r \in {r \in txos \cup sent : r.value > 0}}
<1>1. TransactionHistory(txos, sent) = {Entry(x) : x \in X}
  BY DEF TransactionHistory
<1>2. ASSUME NEW x
      PROVE  /\ Receive(x) = {r \in txos : r.txid = x}
             /\ Entry(x).fee = {r \in sent : r.txid = x}
             /\ Entry(x).receive = Receive(x)
  <2>1. Of(sent, x) = {r \in sent : r.txid = x} /\ Of(txos, x) = {r \in txos : r.txid = x}
    BY DEF Of
  <2>2. transactionSpendHistory(sent, x).change = {}
    BY <2>1 DEF transactionSpendHistory
  <2>3. transactionSpendHistory(sent, x).fee = {r \in sent : r.txid = x}
    BY <2>1 DEF transactionSpendHistory
  <2>4. \A r : ~matchingChange(transactionSpendHistory(sent, x), r)
    BY <2>2 DEF matchingChange
  <2>. QED
    BY <2>1, <2>3, <2>4
<1>3. \A r \in txos \cup sent : r.txid \in X
  OBVIOUS
<1>. HIDE DEF Receive, Entry, X
<1>4. UNION {entry.receive : entry \in TransactionHistory(txos, sent)} = txos
  <2>1. UNION {entry.receive : entry \in TransactionHistory(txos, sent)} = UNION {Entry(x).receive : x \in X}
    BY <1>1
  <2>2. \A x : Entry(x).receive = {r \in txos : r.txid = x}
    BY <1>2
  <2>. QED
    BY <1>3, <2>1, <2>2
<1>5. UNION {entry.fee : entry \in TransactionHistory(txos, sent)} = sent
  <2>1. UNION {entry.fee : entry \in TransactionHistory(txos, sent)} = UNION {Entry(x).fee : x \in X}
    BY <1>1
  <2>2. \A x : Entry(x).fee = {r \in sent : r.txid = x}
    BY <1>2
  <2>3. \A r \in sent : r.txid \in X /\ r \in Entry(r.txid).fee
    BY <1>3, <2>2
  <2>4. \A x \in X : Entry(x).fee \in SUBSET sent
    BY <2>2
  <2>. QED
    BY <2>1, <2>3, <2>4
<1>. QED
  BY <1>4, <1>5

\* What was there before, and what has landed, less what was spent.
LEMMA HistoryFollows ==
    ASSUME TypeInv, LogInv
    PROVE  HistoryAddsUp
<1>. DEFINE N == imported
            history == TransactionHistory(Received(N), Sent(N))
            first == {k \in Keys : leaf[k] > 0} \ UNION {log[n].leaves : n \in DOMAIN log}
            owned == (first \cup Landed(N)) \ Spends(N)
<1>1. N \in 0..Len(log) /\ DOMAIN log = 1..Len(log) /\ Len(log) \in Nat /\ N \in Nat
  BY DEF TypeInv
<1>2. \A n \in 1..N : n \in DOMAIN log
  BY <1>1
<1>3. HistoryAt(N)
  BY <1>1, HistoryAdds
<1>4. ASSUME NEW sent \in BOOLEAN, NEW r \in UNION {NotesOf(n, sent) : n \in 1..N}
      PROVE  r.value > 0 /\ (sent = TRUE => r.type = "fee")
  <2>1. PICK n \in 1..N : r \in NotesOf(n, sent)
    BY <1>4
  <2>2. r.value \in Nat \ {0}
    BY <1>2, <2>1, EntryTotals
  <2>3. sent = TRUE => r.type = "fee"
    BY <1>2, <2>1, EntryTotals
  <2>. QED
    BY <2>2, <2>3
<1>5. /\ UNION {entry.receive : entry \in history} = Received(N)
      /\ UNION {entry.fee : entry \in history} = Sent(N)
  <2>1. \A r \in Received(N) : r.value > 0
    BY <1>4 DEF Received
  <2>2. \A r \in Sent(N) : r.value > 0
    BY <1>4 DEF Sent
  <2>3. \A r \in Sent(N) : r.type = "fee"
    BY <1>4 DEF Sent
  <2>4. \A r \in Received(N) \cup Sent(N) : r.value > 0
    BY <2>1, <2>2
  <2>. QED
    BY ONLY <2>3, <2>4, HistoryShows
<1>6. ASSUME NEW k \in Spends(N)
      PROVE  k \in Keys /\ k \in first \cup Landed(N)
  <2>1. PICK n \in 1..N : k \in log[n].spends
    BY DEF Spends
  <2>2. k \in Keys /\ leaf[k] > 0
    <3>1. EntryInv(log[n]) /\ log[n] \in EntryRec
      BY <1>2 DEF LogInv, TypeInv
    <3>. QED
      BY <2>1, <3>1 DEF EntryInv, EntryRec
  <2>3. ASSUME NEW m \in DOMAIN log, k \in log[m].leaves
        PROVE  m \in 1..N
    <3>1. ~(n <= m)
      BY <1>2, <2>1, <2>3 DEF LogInv
    <3>. QED
      BY <1>1, <3>1
  <2>. QED
    BY <2>2, <2>3 DEF Landed
<1>7. /\ first \in SUBSET Keys /\ Landed(N) \in SUBSET Keys /\ first \cap Landed(N) = {}
      /\ ChangeKept(N) \in SUBSET Keys
  <2>1. \A n \in 1..N : log[n].leaves \in SUBSET Keys
    BY <1>2, EntryTotals
  <2>2. Landed(N) \in SUBSET Keys
    BY <2>1 DEF Landed
  <2>3. ChangeKept(N) \in SUBSET Landed(N)
    BY DEF ChangeKept, ChangeLeaves, Landed
  <2>. QED
    BY <1>2, <2>2, <2>3 DEF Landed
<1>. HIDE DEF first
<1>8. /\ Worth(first) \in Int /\ Worth(Landed(N)) \in Int /\ Worth(Spends(N)) \in Int
       /\ Worth(ChangeKept(N)) \in Int /\ TotalValue(Sent(N)) \in Int /\ Unshielded(N) \in Int
  <2>1. ASSUME NEW S \in SUBSET Keys
        PROVE  Worth(S) \in Int
    <3>1. IsFiniteSet(S) /\ \A k \in S : leaf[k] \in Int
      BY KeysFinite, FS_Subset DEF TypeInv
    <3>. QED
      BY <3>1, SumInt DEF Worth
  <2>2. Spends(N) \in SUBSET Keys
    BY <1>6
  <2>3. TotalValue(Sent(N)) \in Int
    <3>1. IsFiniteSet(Sent(N))
      BY <1>3 DEF HistoryAt
    <3>2. \A r \in Sent(N) : r.value \in Int
      <4>1. SUFFICES ASSUME NEW r \in Sent(N) PROVE r.value \in Int
        OBVIOUS
      <4>2. PICK n \in 1..N : r \in NotesOf(n, TRUE)
        BY DEF Sent
      <4>3. r.value \in Nat \ {0}
        BY <1>2, <4>2, EntryTotals
      <4>. QED
        BY <4>3
    <3>. QED
      BY ONLY <3>1, <3>2, TotalInt
  <2>4. Unshielded(N) \in Int
    <3>. DEFINE v == [n \in 1..N |-> log[n].unshield]
    <3>1. \A n \in 1..N : log[n].unshield \in Nat
      BY <1>2, EntryTotals
    <3>2. \A n \in 1..N : v[n] \in Int
      BY <3>1
    <3>3. IsFiniteSet(1..N)
      <4>1. 1 \in Int /\ N \in Int
        BY <1>1
      <4>. QED
        BY <4>1, FS_Interval
    <3>4. Unshielded(N) = CalculateTotalSpend(1..N, v)
      BY DEF Unshielded
    <3>. HIDE DEF v, N
    <3>. QED
      BY <3>2, <3>3, <3>4, SumInt
  <2>. QED
    BY <1>7, <2>1, <2>2, <2>3, <2>4
<1>9. Worth(owned) = Worth(first) + Worth(Landed(N)) - Worth(Spends(N))
  <2>1. PICK U : U = first \cup Landed(N)
    OBVIOUS
  <2>2. U \in SUBSET Keys /\ Spends(N) \in SUBSET U /\ owned = U \ Spends(N)
    BY <1>6, <1>7, <2>1
  <2>3. /\ IsFiniteSet(first) /\ IsFiniteSet(Landed(N)) /\ first \cap Landed(N) = {} /\ IsFiniteSet(U)
    BY <1>7, <2>2, KeysFinite, FS_Subset
  <2>4. \A k \in U : leaf[k] \in Int
    BY <2>2 DEF TypeInv
  <2>. HIDE DEF owned, N
  <2>5. CalculateTotalSpend(U, leaf) = CalculateTotalSpend(first, leaf) + CalculateTotalSpend(Landed(N), leaf)
    BY ONLY <2>1, <2>3, <2>4, SumUnion
  <2>6. CalculateTotalSpend(owned, leaf) = CalculateTotalSpend(U, leaf) - CalculateTotalSpend(Spends(N), leaf)
    BY ONLY <2>2, <2>3, <2>4, SumMinus
  <2>7. Worth(U) = Worth(first) + Worth(Landed(N)) /\ Worth(owned) = Worth(U) - Worth(Spends(N))
    BY <2>5, <2>6 DEF Worth
  <2>. QED
    BY <1>8, <2>7
<1>10. MapThenSumSet(LAMBDA n : log[n].unshield, 1..N) = Unshielded(N)
  <2>. DEFINE v == [n \in 1..N |-> log[n].unshield]
  <2>1. \A n \in 1..N : v[n] = log[n].unshield
    OBVIOUS
  <2>2. IsFiniteSet(1..N)
    <3>1. 1 \in Int /\ N \in Int
      BY <1>1
    <3>. QED
      BY <3>1, FS_Interval
  <2>3. Unshielded(N) = CalculateTotalSpend(1..N, v)
    BY DEF Unshielded
  <2>. HIDE DEF v, N
  <2>. QED
    BY <2>1, <2>2, <2>3, UnshieldsAre
<1>11. ChangeKept(N) = {k \in Landed(N) : \E n \in 1..N : k \in log[n].leaves /\ log[n].notes[k].type = "change"}
  BY DEF ChangeKept, ChangeLeaves, Landed
<1>. DEFINE a == Worth(first)
            b == Worth(Landed(N))
            c == TotalValue(Sent(N))
            d == Worth(owned)
            f == Unshielded(N)
            g == Worth(ChangeKept(N))
            h == Worth(Spends(N))
<1>12. d = a + b - h /\ h = f + g + c /\ TotalValue(Received(N)) = b
  <2>1. TotalValue(Received(N)) = Worth(Landed(N))
        /\ Worth(Spends(N)) = Unshielded(N) + Worth(ChangeKept(N)) + TotalValue(Sent(N))
    BY <1>3 DEF HistoryAt
  <2>. QED
    BY <1>9, <2>1
<1>13. a \in Int /\ b \in Int /\ c \in Int /\ f \in Int /\ g \in Int /\ h \in Int
  BY <1>8
<1>. HIDE DEF a, b, c, d, f, g, h, owned, history
<1>14. a + b - c = d + f + g
  BY <1>12, <1>13
<1>15. Worth(first) + TotalValue(UNION {entry.receive : entry \in history})
           - TotalValue(UNION {entry.fee : entry \in history})
       = Worth(owned) + MapThenSumSet(LAMBDA n : log[n].unshield, 1..N) + Worth(ChangeKept(N))
  BY <1>5, <1>10, <1>12, <1>14 DEF a, b, c, d, f, g
<1>. QED
  BY <1>11, <1>15 DEF HistoryAddsUp, Worth, first, owned, history, Landed, Spends, Received, Sent

-----------------------------------------------------------------------------
(* What a call builds.                                                      *)

FeeNote(r) == Note(r.fee, "wallet", "other", "fee")
ChangeNote(r) == Note(Change(r), "wallet", "wallet", "change")

LEMMA OutputsAre ==
    ASSUME NEW r, NEW b \in BOOLEAN, b <=> r.request.relayed
    PROVE  /\ b /\ Change(r) > 0 => Outputs(r) = <<FeeNote(r), ChangeNote(r)>>
           /\ b /\ ~(Change(r) > 0) => Outputs(r) = <<FeeNote(r)>>
           /\ ~b /\ Change(r) > 0 => Outputs(r) = <<ChangeNote(r)>>
           /\ ~b /\ ~(Change(r) > 0) => Outputs(r) = <<>>
<1>1. ASSUME NEW x, NEW y
      PROVE  <<x>> \o <<y>> = <<x, y>>
  <2>. DEFINE S == {x, y}
              s == <<x>>
              t == <<y>>
              u == <<x, y>>
  <2>1. s \in Seq(S) /\ t \in Seq(S) /\ u \in Seq(S)
    OBVIOUS
  <2>2. Len(s) = 1 /\ Len(t) = 1 /\ Len(u) = 2 /\ s[1] = x /\ t[1] = y /\ u[1] = x /\ u[2] = y
    OBVIOUS
  <2>. HIDE DEF S, s, t, u
  <2>5. /\ s \o t \in Seq(S) /\ Len(s \o t) = Len(s) + Len(t)
        /\ \A i \in 1 .. Len(s) + Len(t) : (s \o t)[i] = IF i <= Len(s) THEN s[i] ELSE t[i - Len(s)]
    BY ONLY <2>1, ConcatProperties, Zenon
  <2>3. /\ s \o t \in Seq(S) /\ Len(s \o t) = 2
        /\ (s \o t)[1] = x /\ (s \o t)[2] = y
    <3>1. 1 \in 1 .. Len(s) + Len(t) /\ 2 \in 1 .. Len(s) + Len(t)
      BY ONLY <2>2
    <3>2. (s \o t)[1] = s[1] /\ (s \o t)[2] = t[1]
      BY ONLY <2>2, <2>5, <3>1
    <3>. QED
      BY ONLY <2>2, <2>5, <3>2
  <2>4. s \o t = u
    BY <2>1, <2>2, <2>3, SeqEqual
  <2>. QED
    BY <2>4 DEF s, t, u
<1>2. \A x : <<x>> \o <<>> = <<x>>
  OBVIOUS
<1>3. \A x : <<>> \o <<x>> = <<x>>
  OBVIOUS
<1>4. <<>> \o <<>> = <<>>
  OBVIOUS
<1>5. Outputs(r) = (IF b THEN <<FeeNote(r)>> ELSE <<>>)
                   \o (IF Change(r) > 0 THEN <<ChangeNote(r)>> ELSE <<>>)
  BY DEF Outputs, FeeNote, ChangeNote
<1>. QED
  BY <1>1, <1>2, <1>3, <1>4, <1>5

\* The inputs of a call that has some.
LEMMA InputsAre ==
    ASSUME TypeInv, WalletInv, NEW r \in CallRec, SelectedInv(r), r.inputs # {}
    PROVE  /\ r.inputs \in SUBSET known /\ r.inputs \in SUBSET Keys /\ IsFiniteSet(r.inputs)
           /\ SpentBy(UnprovedTransaction(r)) = r.inputs
           /\ \E t \in Trees : \A k \in r.inputs : TreeOf(k) = t
           /\ UnprovedTransaction(r).roots = r.roots
           /\ UnprovedTransaction(r).nullifiers = {PositionOf(k) : k \in r.inputs}
           /\ UnprovedTransaction(r).commitments = Len(Outputs(r)) + 1
           /\ UnprovedTransaction(r).adaptParams = SentParams(r)
           /\ TotalIn(r) \in Nat /\ Change(r) \in Nat /\ r.amount \in Nat \ {0} /\ r.fee \in Nat
           /\ TotalIn(r) = r.amount + r.fee + Change(r)
<1>1. r.inputs \in SUBSET Keys /\ r.fee \in Nat /\ r.amount \in Int
  BY DEF CallRec
<1>2. PICK t \in Trees : r.inputs \subseteq InTree(r.offered, t)
  BY DEF SelectedInv
<1>3. \A k \in r.inputs : TreeOf(k) = t /\ k \in known
  BY <1>2 DEF InTree, SelectedInv
<1>4. IsFiniteSet(r.inputs)
  BY <1>1, KeysFinite, FS_Subset
<1>5. TotalIn(r) = Worth(r.inputs)
  BY DEF TotalIn, Worth
<1>6. TotalIn(r) \in Nat
  <2>1. \A k \in r.inputs : leaf[k] \in Nat
    BY <1>1 DEF TypeInv
  <2>. QED
    BY <1>4, <1>5, <2>1, SumNat DEF Worth
<1>7. TotalIn(r) >= r.amount + r.fee /\ r.amount > 0
  BY <1>5 DEF SelectedInv, Need
<1>8. Change(r) \in Nat /\ TotalIn(r) = r.amount + r.fee + Change(r)
  <2>1. Change(r) = TotalIn(r) - r.amount - r.fee
    BY DEF Change
  <2>. QED
    BY <1>1, <1>6, <1>7, <2>1
<1>9. TreeOf(Min(r.inputs)) = t
  <2>1. Min(r.inputs) \in r.inputs
    <3>1. r.inputs \in SUBSET Nat
      BY <1>1, PlaceKey
    <3>2. PICK x \in r.inputs : \A y \in r.inputs : x <= y
      BY <3>1, LeastNat
    <3>. QED
      BY <3>2 DEF Min
  <2>. QED
    BY <1>3, <2>1
<1>10. t % 2^16 = t
  BY PrivateAssumption DEF Trees
<1>. DEFINE tx == UnprovedTransaction(r)
<1>11. /\ tx.tree = t /\ tx.roots = r.roots /\ tx.nullifiers = {PositionOf(k) : k \in r.inputs}
       /\ tx.commitments = Len(Outputs(r)) + 1 /\ tx.adaptParams = AdaptParams(r)
  BY <1>9, <1>10 DEF UnprovedTransaction, GenerateTransactionRequestV2, requestInputsForDummyGroup
<1>. HIDE DEF tx
<1>12. SpentBy(tx) = r.inputs
  <2>1. \A k \in r.inputs : Key(t, PositionOf(k)) = k
    BY <1>1, <1>3, PlaceKey
  <2>2. SpentBy(tx) = {Key(t, n) : n \in {PositionOf(k) : k \in r.inputs}}
    BY <1>11 DEF SpentBy
  <2>3. {Key(t, n) : n \in {PositionOf(k) : k \in r.inputs}} = {Key(t, PositionOf(k)) : k \in r.inputs}
    OBVIOUS
  <2>. QED
    BY <2>1, <2>2, <2>3
<1>13. AdaptParams(r) = SentParams(r)
  BY DEF AdaptParams, SentParams, RequireSuccess
<1>. QED
  BY <1>1, <1>3, <1>4, <1>6, <1>7, <1>8, <1>11, <1>12, <1>13 DEF tx

LEMMA RequestIs ==
    ASSUME NEW r \in CallRec
    PROVE  r.request \in [base : BOOLEAN, relayed : BOOLEAN, rejects : BOOLEAN,
                          configured : BOOLEAN, amount : Nat]
<1>1. r.request \in Request \cup {NoRequest}
  BY DEF CallRec
<1>2. NoRequest \in [base : BOOLEAN, relayed : BOOLEAN, rejects : BOOLEAN,
                     configured : BOOLEAN, amount : Nat]
  BY DEF NoRequest
<1>. QED
  BY <1>1, <1>2, PrivateAssumption

\* How many notes there are, and what each is.
LEMMA OutputsShape ==
    ASSUME NEW r \in CallRec, Change(r) \in Int, r.request.relayed <=> r.fee > 0
    PROVE  /\ Outputs(r) \in Seq(NoteRec) /\ Len(Outputs(r)) \in 0..2
           /\ r.request.relayed /\ Change(r) > 0 =>
                Len(Outputs(r)) = 2 /\ Outputs(r)[1] = FeeNote(r) /\ Outputs(r)[2] = ChangeNote(r)
           /\ r.request.relayed /\ ~(Change(r) > 0) => Len(Outputs(r)) = 1 /\ Outputs(r)[1] = FeeNote(r)
           /\ ~r.request.relayed /\ Change(r) > 0 => Len(Outputs(r)) = 1 /\ Outputs(r)[1] = ChangeNote(r)
           /\ ~r.request.relayed /\ ~(Change(r) > 0) => Len(Outputs(r)) = 0
<1>1. r.request.relayed \in BOOLEAN /\ r.fee \in Nat
  BY RequestIs DEF CallRec
<1>9. PICK b \in BOOLEAN : b <=> r.request.relayed
  BY <1>1
<1>2. FeeNote(r) \in NoteRec
  BY <1>1 DEF FeeNote, Note, NoteRec
<1>3. ASSUME Change(r) > 0
      PROVE  ChangeNote(r) \in NoteRec
  <2>1. Change(r) \in Nat
    BY <1>3
  <2>. QED
    BY <2>1 DEF ChangeNote, Note, NoteRec
<1>8. PICK f, c : f = FeeNote(r) /\ c = ChangeNote(r)
  OBVIOUS
<1>4. CASE b /\ Change(r) > 0
  <2>1. Outputs(r) = <<f, c>> /\ f \in NoteRec /\ c \in NoteRec
    <3>1. Outputs(r) = <<FeeNote(r), ChangeNote(r)>>
      BY <1>9, <1>4, OutputsAre
    <3>. QED
      BY <1>2, <1>3, <1>4, <1>8, <3>1
  <2>. QED
    BY <1>9, <1>4, <1>8, <2>1
<1>5. CASE b /\ ~(Change(r) > 0)
  <2>1. Outputs(r) = <<f>> /\ f \in NoteRec
    <3>1. Outputs(r) = <<FeeNote(r)>>
      BY <1>9, <1>5, OutputsAre
    <3>. QED
      BY <1>2, <1>8, <3>1
  <2>. QED
    BY <1>9, <1>5, <1>8, <2>1
<1>6. CASE ~b /\ Change(r) > 0
  <2>1. Outputs(r) = <<c>> /\ c \in NoteRec
    BY <1>3, <1>6, <1>8, <1>9, OutputsAre
  <2>. QED
    BY <1>9, <1>6, <1>8, <2>1
<1>7. CASE ~b /\ ~(Change(r) > 0)
  <2>1. Outputs(r) = <<>>
    BY <1>7, <1>9, OutputsAre
  <2>. QED
    BY <1>9, <1>7, <2>1
<1>. QED
  BY <1>9, <1>4, <1>5, <1>6, <1>7

\* As much goes in as comes out.
LEMMA OutputsAddUp ==
    ASSUME NEW r \in CallRec, Change(r) \in Nat, r.request.relayed <=> r.fee > 0
    PROVE  MapThenSumSet(LAMBDA i : Outputs(r)[i].value, DOMAIN Outputs(r)) = r.fee + Change(r)
<1>. DEFINE L == Outputs(r)
            v == [i \in DOMAIN L |-> L[i].value]
<1>1. r.fee \in Nat /\ FeeNote(r).value = r.fee /\ ChangeNote(r).value = Change(r)
  BY DEF CallRec, FeeNote, ChangeNote, Note
<1>2. L \in Seq(NoteRec) /\ DOMAIN L = 1..Len(L) /\ Len(L) \in 0..2
  BY OutputsShape
<1>3. IsFiniteSet(DOMAIN L)
  <2>1. 1 \in Int /\ Len(L) \in Int
    BY <1>2
  <2>. QED
    BY <1>2, <2>1, FS_Interval
<1>4. \A i \in DOMAIN L : v[i] = L[i].value
  OBVIOUS
<1>5. MapThenSumSet(LAMBDA i : L[i].value, DOMAIN L) = CalculateTotalSpend(DOMAIN L, v)
  <2>. HIDE DEF v, L
  <2>. QED
    BY <1>3, <1>4, ValuesAre
<1>6. CASE Len(L) = 0
  <2>1. DOMAIN L = {} /\ ~r.request.relayed /\ ~(Change(r) > 0)
    BY <1>2, <1>6, OutputsShape
  <2>2. r.fee = 0 /\ Change(r) = 0
    BY <1>1, <2>1
  <2>3. CalculateTotalSpend(DOMAIN L, v) = 0
    BY <2>1, SumEmpty
  <2>. QED
    BY <1>5, <2>2, <2>3
<1>7. CASE Len(L) = 1
  <2>1. DOMAIN L = {1}
    BY <1>2, <1>7
  <2>2. v[1] = r.fee + Change(r)
    <3>1. v[1] = L[1].value
      BY <1>4, <2>1
    <3>2. CASE r.request.relayed
      <4>1. ~(Change(r) > 0) /\ L[1] = FeeNote(r)
        BY <1>7, <3>2, OutputsShape
      <4>. QED
        BY <1>1, <3>1, <4>1
    <3>3. CASE ~r.request.relayed
      <4>2. Change(r) > 0
        BY <1>7, <3>3, OutputsShape
      <4>3. L[1] = ChangeNote(r)
        BY <3>3, <4>2, OutputsShape
      <4>1. Change(r) > 0 /\ L[1] = ChangeNote(r) /\ ~(r.fee > 0)
        BY <3>3, <4>2, <4>3
      <4>. QED
        BY <1>1, <3>1, <4>1
    <3>. QED
      BY <3>2, <3>3
  <2>3. v[1] \in Int
    BY <1>1, <2>2
  <2>4. CalculateTotalSpend({1}, v) = v[1]
    <3>. HIDE DEF v
    <3>. QED
      BY <2>3, SumOne
  <2>5. CalculateTotalSpend(DOMAIN L, v) = r.fee + Change(r)
    <3>. HIDE DEF v, L
    <3>. QED
      BY <2>1, <2>2, <2>4
  <2>. QED
    BY <1>5, <2>5
<1>8. CASE Len(L) = 2
  <2>1. DOMAIN L = {1} \cup {2}
    BY <1>2, <1>8
  <2>2. r.request.relayed /\ Change(r) > 0 /\ L[1] = FeeNote(r) /\ L[2] = ChangeNote(r)
    BY <1>8, OutputsShape
  <2>3. v[1] = r.fee /\ v[2] = Change(r)
    BY <1>1, <1>4, <2>1, <2>2
  <2>8. v[1] \in Int /\ v[2] \in Int
    BY <1>1, <2>3
  <2>4. \A i \in {1} \cup {2} : v[i] \in Int
    BY <2>8
  <2>5. IsFiniteSet({1}) /\ 2 \notin {1}
    <3>1. IsFiniteSet({1})
      BY FS_Singleton
    <3>. QED
      BY <3>1
  <2>. HIDE DEF v
  <2>6. CalculateTotalSpend({1} \cup {2}, v) = CalculateTotalSpend({1}, v) + v[2]
    BY ONLY <2>4, <2>5, SumAdd
  <2>7. CalculateTotalSpend({1}, v) = v[1]
    BY <2>8, SumOne
  <2>. QED
    BY <1>5, <2>1, <2>3, <2>6, <2>7
<1>9. Len(L) = 0 \/ Len(L) = 1 \/ Len(L) = 2
  BY <1>2
<1>. QED
  BY <1>6, <1>7, <1>8, <1>9

-----------------------------------------------------------------------------
(* The transactions that are mined.                                         *)

\* The notes of a call's transaction are its fee and its change.
LEMMA NotesHeld ==
    ASSUME TypeInv, NEW r \in CallRec, Change(r) \in Nat, r.request.relayed <=> r.fee > 0,
           NEW e, Grown(e), NEW spends, NEW unshield, Holds(e, Outputs(r), spends, unshield)
    PROVE  /\ \A k \in e.leaves : /\ e.notes[k].value > 0 /\ e.notes[k].from = "wallet"
                                  /\ e.notes[k].to = "other" => e.notes[k].type = "fee"
           /\ CalculateTotalSpend(FeeLeaves(e), Values(e)) = r.fee
           /\ CalculateTotalSpend(ChangeLeaves(e), leaf') = Change(r)
<1>. DEFINE first == Key(e.tree, size[e.tree])
            n == Len(Outputs(r))
            f == FeeNote(r)
            c == ChangeNote(r)
<1>1. e.tree \in Trees /\ size[e.tree] \in Int /\ first \in Int /\ r.fee \in Nat
  <2>1. e.tree \in Trees
    BY DEF Grown, EntryRec
  <2>2. size[e.tree] \in Int
    BY <2>1, SelectionAssumption DEF TypeInv
  <2>. QED
    BY <2>1, <2>2, KeyOrder DEF CallRec
<1>2. /\ f.value = r.fee /\ f.from = "wallet" /\ f.to = "other" /\ f.type = "fee"
      /\ c.value = Change(r) /\ c.from = "wallet" /\ c.to = "wallet" /\ c.type = "change"
  BY DEF FeeNote, ChangeNote, Note
<1>3. /\ n \in 0..2
      /\ r.fee > 0 /\ Change(r) > 0 => n = 2 /\ Outputs(r)[1] = f /\ Outputs(r)[2] = c
      /\ r.fee > 0 /\ ~(Change(r) > 0) => n = 1 /\ Outputs(r)[1] = f
      /\ ~(r.fee > 0) /\ Change(r) > 0 => n = 1 /\ Outputs(r)[1] = c
      /\ ~(r.fee > 0) /\ ~(Change(r) > 0) => n = 0
  BY OutputsShape
<1>4. /\ e.leaves = first..(first + n - 1)
      /\ \A k \in e.leaves : e.notes[k] = Outputs(r)[k - first + 1]
      /\ \A k \in e.leaves : leaf'[k] = Kept(e.notes[k])
  BY DEF Holds, Grown, Interval
<1>. HIDE DEF first, n, f, c
<1>5. ASSUME NEW F, NEW k, F = {k}, Values(e)[k] = r.fee
      PROVE  CalculateTotalSpend(F, Values(e)) = r.fee
  <2>1. Values(e)[k] \in Int
    BY <1>1, <1>5
  <2>. QED
    BY ONLY <1>5, <2>1, SumOne
<1>6. ASSUME NEW C, NEW k, C = {k}, leaf'[k] = Change(r)
      PROVE  CalculateTotalSpend(C, leaf') = Change(r)
  <2>1. leaf'[k] \in Int
    BY <1>6
  <2>. QED
    BY ONLY <1>6, <2>1, SumOne
<1>7. ASSUME NEW F, F = {}, NEW v
      PROVE  CalculateTotalSpend(F, v) = 0
  BY <1>7, SumEmpty
<1>8. CASE r.fee > 0 /\ Change(r) > 0
  <2>1. e.leaves = {first, first + 1} /\ first # first + 1
    BY <1>1, <1>3, <1>4, <1>8
  <2>2. first - first + 1 = 1 /\ (first + 1) - first + 1 = 2
    BY <1>1
  <2>3. e.notes[first] = f /\ e.notes[first + 1] = c
    BY <1>3, <1>4, <1>8, <2>1, <2>2
  <2>4. FeeLeaves(e) = {first} /\ Values(e)[first] = r.fee
    BY <1>2, <2>1, <2>3 DEF FeeLeaves, Values
  <2>5. ChangeLeaves(e) = {first + 1} /\ leaf'[first + 1] = Change(r)
    BY <1>2, <1>4, <2>1, <2>3 DEF ChangeLeaves, Kept
  <2>. QED
    BY <1>2, <1>5, <1>6, <1>8, <2>1, <2>3, <2>4, <2>5
<1>9. CASE r.fee > 0 /\ ~(Change(r) > 0)
  <2>1. e.leaves = {first} /\ first - first + 1 = 1 /\ Change(r) = 0
    BY <1>1, <1>3, <1>4, <1>9
  <2>2. e.notes[first] = f
    BY <1>3, <1>4, <1>9, <2>1
  <2>3. FeeLeaves(e) = {first} /\ Values(e)[first] = r.fee /\ ChangeLeaves(e) = {}
    BY <1>2, <2>1, <2>2 DEF FeeLeaves, Values, ChangeLeaves
  <2>. QED
    BY <1>2, <1>5, <1>7, <1>9, <2>1, <2>2, <2>3
<1>10. CASE ~(r.fee > 0) /\ Change(r) > 0
  <2>1. e.leaves = {first} /\ first - first + 1 = 1 /\ r.fee = 0
    BY <1>1, <1>3, <1>4, <1>10
  <2>2. e.notes[first] = c
    BY <1>3, <1>4, <1>10, <2>1
  <2>3. ChangeLeaves(e) = {first} /\ leaf'[first] = Change(r) /\ FeeLeaves(e) = {}
    BY <1>2, <1>4, <2>1, <2>2 DEF FeeLeaves, ChangeLeaves, Kept
  <2>. QED
    BY <1>2, <1>6, <1>7, <1>10, <2>1, <2>2, <2>3
<1>11. CASE ~(r.fee > 0) /\ ~(Change(r) > 0)
  <2>1. e.leaves = {} /\ r.fee = 0 /\ Change(r) = 0
    BY <1>1, <1>3, <1>4, <1>11
  <2>2. ChangeLeaves(e) = {} /\ FeeLeaves(e) = {}
    BY <2>1 DEF FeeLeaves, ChangeLeaves
  <2>. QED
    BY <1>7, <2>1, <2>2
<1>. QED
  BY <1>8, <1>9, <1>10, <1>11

LEMMA MineGrows ==
    ASSUME TypeInv, LogInv, WalletInv, NEW r \in CallRec, SelectedInv(r), r.inputs # {}, Executes(r),
           Emit(Outputs(r), SpentBy(UnprovedTransaction(r)), r.amount)
    PROVE  \E e : Grown(e) /\ Balanced(e) /\ e.spends = r.inputs /\ r.inputs \cap revealed = {}
<1>1. /\ r.inputs \in SUBSET known /\ r.inputs \in SUBSET Keys
      /\ SpentBy(UnprovedTransaction(r)) = r.inputs
      /\ Change(r) \in Nat /\ r.amount \in Nat /\ r.fee \in Nat
      /\ TotalIn(r) = r.amount + r.fee + Change(r)
  BY InputsAre
<1>2. r.request.relayed <=> r.fee > 0
  BY DEF SelectedInv
<1>3. Outputs(r) \in Seq(NoteRec) /\ Len(Outputs(r)) \in 0..2
  BY <1>1, <1>2, OutputsShape
<1>4. r.inputs \cap revealed = {}
  BY <1>1 DEF Executes
<1>5. Emit(Outputs(r), r.inputs, r.amount)
  BY <1>1
<1>6. PICK e : Grown(e) /\ Holds(e, Outputs(r), r.inputs, r.amount)
  BY <1>1, <1>3, <1>5, EmitGrows
<1>7. /\ \A k \in e.leaves : /\ e.notes[k].value > 0 /\ e.notes[k].from = "wallet"
                             /\ e.notes[k].to = "other" => e.notes[k].type = "fee"
      /\ CalculateTotalSpend(FeeLeaves(e), Values(e)) = r.fee
      /\ CalculateTotalSpend(ChangeLeaves(e), leaf') = Change(r)
  BY <1>1, <1>2, <1>6, NotesHeld
<1>8. e.spends = r.inputs /\ e.unshield = r.amount
  BY <1>6 DEF Holds
<1>9. \A k \in e.spends : leaf[k] > 0 /\ k \notin revealed
  BY <1>1, <1>4, <1>8 DEF WalletInv
<1>10. Worth(e.spends) = e.unshield + CalculateTotalSpend(ChangeLeaves(e), leaf')
                           + CalculateTotalSpend(FeeLeaves(e), Values(e))
  <2>1. Worth(e.spends) = TotalIn(r)
    BY <1>8 DEF Worth, TotalIn
  <2>2. r.amount + r.fee + Change(r) = r.amount + Change(r) + r.fee
    BY <1>1
  <2>. QED
    BY <1>1, <1>7, <1>8, <2>1, <2>2
<1>11. Balanced(e)
  <2>1. \A k \in e.leaves :
            /\ e.notes[k].value > 0
            /\ e.notes[k].from = "shield" => e.notes[k].to = "wallet"
            /\ e.notes[k].to = "other" => e.notes[k].type = "fee"
    BY <1>7
  <2>. QED
    BY <1>9, <1>10, <2>1 DEF Balanced
<1>. QED
  BY <1>4, <1>6, <1>8, <1>11

LEMMA ShieldGrows ==
    ASSUME TypeInv, NEW value \in ShieldValue, Shield(value)
    PROVE  \E e : Grown(e) /\ Balanced(e) /\ e.spends = {}
<1>. DEFINE note == Note(value, "shield", "wallet", NoType)
<1>1. value \in Nat \ {0}
  BY PrivateAssumption
<1>2. note \in NoteRec /\ note.value = value /\ note.to = "wallet" /\ note.type = NoType
  BY <1>1 DEF Note, NoteRec
<1>. HIDE DEF note
<1>3. <<note>> \in Seq(NoteRec) /\ Len(<<note>>) \in 0..2 /\ Len(<<note>>) = 1 /\ <<note>>[1] = note
  BY <1>2
<1>4. Emit(<<note>>, {}, 0)
  BY DEF Shield, note
<1>5. PICK e : Grown(e) /\ Holds(e, <<note>>, {}, 0)
  BY <1>3, <1>4, EmitGrows
<1>6. \A k \in e.leaves : e.notes[k] = note
  <2>1. \A k \in e.leaves : /\ k - Key(e.tree, size[e.tree]) + 1 \in 1..1
                            /\ e.notes[k] = <<note>>[k - Key(e.tree, size[e.tree]) + 1]
    BY <1>3, <1>5 DEF Holds
  <2>2. 1..1 = {1}
    OBVIOUS
  <2>. QED
    BY <1>3, <2>1, <2>2
<1>7. FeeLeaves(e) = {} /\ ChangeLeaves(e) = {} /\ e.spends = {} /\ e.unshield = 0
  BY <1>2, <1>5, <1>6 DEF FeeLeaves, ChangeLeaves, Holds, NoType
<1>8. /\ Worth({}) = 0 /\ CalculateTotalSpend({}, leaf') = 0
      /\ CalculateTotalSpend({}, Values(e)) = 0
  BY SumEmpty DEF Worth
<1>9. Balanced(e)
  BY <1>1, <1>2, <1>6, <1>7, <1>8 DEF Balanced
<1>. QED
  BY <1>5, <1>7, <1>9

\* What a call builds does not change with the chain.
LEMMA BuildKept ==
    ASSUME TypeInv, WalletInv, NEW e, Grown(e), NEW r, r.inputs \in SUBSET known
    PROVE  /\ TotalIn(r)' = TotalIn(r) /\ Change(r)' = Change(r)
           /\ CircuitOf(r)' = CircuitOf(r)
<1>1. /\ \A k \in r.inputs : k \in Keys /\ leaf'[k] = leaf[k]
      /\ r.inputs \in SUBSET Keys
  BY KnownKept
<1>2. IsFiniteSet(r.inputs)
  BY <1>1, KeysFinite, FS_Subset
<1>3. CalculateTotalSpend(r.inputs, leaf') = CalculateTotalSpend(r.inputs, leaf)
  BY ONLY <1>1, <1>2, SumSame
<1>4. TotalIn(r)' = TotalIn(r)
  BY <1>3 DEF TotalIn
<1>5. Change(r)' = Change(r)
  BY <1>4 DEF Change
<1>6. Outputs(r)' = Outputs(r)
  BY <1>5 DEF Outputs
<1>7. requestInputsForDummyGroup(r)' = requestInputsForDummyGroup(r)
  BY <1>5, <1>6 DEF requestInputsForDummyGroup
<1>8. UnprovedTransaction(r)' = UnprovedTransaction(r)
  BY <1>7 DEF UnprovedTransaction, GenerateTransactionRequestV2
<1>9. CircuitOf(r)' = CircuitOf(r)
  BY <1>8 DEF CircuitOf
<1>. QED
  BY <1>4, <1>5, <1>9

\* Who came first stays so.
LEMMA RacedKept ==
    ASSUME TypeInv, NEW e, Grown(e), NEW r \in CallRec, Raced(r)
    PROVE  Raced(r)'
<1>1. /\ log' = Append(log, e) /\ log \in Seq(EntryRec) /\ r.seen \in Nat
      /\ revealed' = revealed \cup e.spends
  BY DEF Grown, TypeInv, CallRec
<1>2. /\ \A n \in (r.seen + 1)..Len(log) : n \in (r.seen + 1)..Len(log') /\ log'[n] = log[n]
  BY <1>1
<1>3. CASE \E k \in r.inputs : TreeOf(k) > 0 /\ k \in revealed
  BY <1>1, <1>3 DEF Raced
<1>4. CASE \E n \in (r.seen + 1)..Len(log) : r.inputs \cap log[n].spends # {}
  <2>1. \E n \in (r.seen + 1)..Len(log') : r.inputs \cap log'[n].spends # {}
    BY <1>2, <1>4
  <2>. QED
    BY <2>1 DEF Raced
<1>5. CASE r.request.base /\ r.request.rejects /\ ~r.request.relayed
  BY <1>5 DEF Raced
<1>. QED
  BY <1>3, <1>4, <1>5 DEF Raced

\* The contract executes what a call has built, unless another call came first.
LEMMA RacedIs ==
    ASSUME TypeInv, LogInv, WalletInv, NEW r \in CallRec, SelectedInv(r), r.inputs # {}, ~Executes(r)
    PROVE  Raced(r)
<1>1. /\ SpentBy(UnprovedTransaction(r)) = r.inputs /\ r.inputs \in SUBSET Keys
      /\ UnprovedTransaction(r).adaptParams = SentParams(r)
  BY InputsAre
<1>2. r.inputs \cap revealed # {} \/ (r.request.base /\ r.request.rejects /\ ~r.request.relayed)
  BY <1>1 DEF Executes, RequireSuccess
<1>3. ASSUME NEW k \in r.inputs, k \in revealed
      PROVE  Raced(r)
  <2>1. PICK n \in DOMAIN log : k \in log[n].spends
    BY <1>3 DEF LogInv
  <2>2. TreeOf(k) \in Nat
    BY <1>1, <1>3, PlaceKey, PrivateAssumption DEF Trees
  <2>3. k \in r.offered
    BY <1>3 DEF SelectedInv, InTree
  <2>4. n \in 1..Len(log) /\ r.seen \in Nat
    BY <2>1 DEF TypeInv, CallRec
  <2>5. CASE n <= r.seen
    <3>1. n \in 1..r.seen
      BY <2>4, <2>5
    <3>2. TreeOf(k) > 0
      BY <2>1, <2>3, <3>1 DEF SelectedInv
    <3>. QED
      BY <1>3, <3>2 DEF Raced
  <2>6. CASE ~(n <= r.seen)
    <3>1. n \in (r.seen + 1)..Len(log)
      BY <2>4, <2>6
    <3>2. r.inputs \cap log[n].spends # {}
      BY <1>3, <2>1
    <3>. QED
      BY <3>1, <3>2 DEF Raced
  <2>. QED
    BY <2>5, <2>6
<1>. QED
  BY <1>2, <1>3 DEF Raced

LEMMA WorthUnion ==
    ASSUME NEW v, \A k \in Keys : v[k] \in Int,
           NEW S, S \in SUBSET Keys, NEW T, T \in SUBSET Keys, S \cap T = {}, NEW U, U = S \cup T
    PROVE  CalculateTotalSpend(U, v) = CalculateTotalSpend(S, v) + CalculateTotalSpend(T, v)
<1>1. IsFiniteSet(S) /\ IsFiniteSet(T)
  BY KeysFinite, FS_Subset
<1>2. \A k \in U : v[k] \in Int
  OBVIOUS
<1>3. U = S \cup T /\ S \cap T = {}
  OBVIOUS
<1>. QED
  BY ONLY <1>1, <1>2, <1>3, SumUnion

\* New notes add as much to what there is and to what is unspent.
LEMMA WorthGrows ==
    ASSUME TypeInv, LogInv, NEW e, Grown(e), Balanced(e)
    PROVE  \E s \in Int :
              /\ CalculateTotalSpend(Keys, leaf') = Worth(Keys) + s
              /\ CalculateTotalSpend(Keys \ revealed', leaf')
                    = Worth(Keys \ revealed) + s - Worth(e.spends)
<1>. DEFINE old == Keys \ e.leaves
            open == Keys \ revealed
            kept == open \ e.leaves
            s == CalculateTotalSpend(e.leaves, leaf')
<1>1. /\ leaf \in [Keys -> Nat] /\ leaf' \in [Keys -> Nat] /\ revealed \in SUBSET Keys
      /\ e.leaves \in SUBSET Keys /\ e.spends \in SUBSET Keys
      /\ revealed' = revealed \cup e.spends
      /\ \A k \in Keys \ e.leaves : leaf'[k] = leaf[k]
  BY NewPlaces DEF TypeInv, Grown, EntryRec
<1>2. \A k \in e.leaves : leaf[k] = 0
  <2>1. SUFFICES ASSUME NEW k \in e.leaves, leaf[k] # 0
                 PROVE  FALSE
    OBVIOUS
  <2>2. k \in Keys /\ leaf[k] > 0
    BY <1>1, <2>1
  <2>3. PositionOf(k) < size[TreeOf(k)]
    BY <2>2 DEF LogInv
  <2>. QED
    BY <2>1, <2>2, <2>3, TakenPlaces
<1>3. e.leaves \cap revealed = {} /\ e.leaves \cap e.spends = {} /\ e.spends \cap revealed = {}
  <2>1. ASSUME NEW k \in revealed
        PROVE  leaf[k] > 0 /\ k \in Keys
    <3>1. PICK n \in DOMAIN log : k \in log[n].spends
      BY <2>1 DEF LogInv
    <3>2. EntryInv(log[n])
      BY <3>1 DEF LogInv
    <3>. QED
      BY <1>1, <3>1, <3>2 DEF EntryInv
  <2>2. \A k \in e.spends : leaf[k] > 0 /\ k \notin revealed
    BY DEF Balanced
  <2>3. \A k \in e.leaves : ~(leaf[k] > 0)
    BY <1>2
  <2>. QED
    BY <2>1, <2>2, <2>3
<1>4. ASSUME NEW S \in SUBSET Keys
      PROVE  /\ IsFiniteSet(S) /\ \A k \in S : leaf[k] \in Int /\ leaf'[k] \in Int
             /\ CalculateTotalSpend(S, leaf) \in Int /\ CalculateTotalSpend(S, leaf') \in Int
  <2>1. IsFiniteSet(S) /\ \A k \in S : leaf[k] \in Int /\ leaf'[k] \in Int
    BY <1>1, KeysFinite, FS_Subset
  <2>. QED
    BY <2>1, SumInt
<1>5. old \in SUBSET Keys /\ open \in SUBSET Keys /\ kept \in SUBSET Keys
      /\ e.leaves \in SUBSET open /\ e.spends \in SUBSET open
      /\ Keys = old \cup e.leaves /\ old \cap e.leaves = {}
      /\ open = kept \cup e.leaves /\ kept \cap e.leaves = {}
      /\ e.spends \in SUBSET kept
  BY <1>1, <1>3
<1>6. Keys \ revealed' = open \ e.spends
  BY <1>1
<1>7. ASSUME NEW S \in SUBSET Keys, S \cap e.leaves = {}
      PROVE  CalculateTotalSpend(S, leaf') = CalculateTotalSpend(S, leaf)
  <2>1. IsFiniteSet(S) /\ \A k \in S : leaf'[k] = leaf[k]
    BY <1>1, <1>4, <1>7
  <2>. QED
    BY ONLY <2>1, SumSame
<1>8. CalculateTotalSpend(e.leaves, leaf) = 0
  <2>1. IsFiniteSet(e.leaves)
    BY <1>1, <1>4
  <2>. QED
    BY ONLY <1>2, <2>1, SumZero
<1>9. ASSUME NEW S \in SUBSET Keys, NEW T \in SUBSET Keys, S \cap T = {}, NEW U \in SUBSET Keys, U = S \cup T
      PROVE  /\ CalculateTotalSpend(U, leaf) = CalculateTotalSpend(S, leaf) + CalculateTotalSpend(T, leaf)
             /\ CalculateTotalSpend(U, leaf') = CalculateTotalSpend(S, leaf') + CalculateTotalSpend(T, leaf')
  <2>1. \A k \in Keys : leaf[k] \in Int /\ leaf'[k] \in Int
    BY <1>1
  <2>2. CalculateTotalSpend(U, leaf) = CalculateTotalSpend(S, leaf) + CalculateTotalSpend(T, leaf)
    BY ONLY <1>9, <2>1, WorthUnion
  <2>3. CalculateTotalSpend(U, leaf') = CalculateTotalSpend(S, leaf') + CalculateTotalSpend(T, leaf')
    BY ONLY <1>9, <2>1, WorthUnion
  <2>. QED
    BY <2>2, <2>3
<1>10. CalculateTotalSpend(Keys, leaf') = CalculateTotalSpend(Keys, leaf) + s
  <2>. HIDE DEF old, s
  <2>1. /\ CalculateTotalSpend(Keys, leaf) = CalculateTotalSpend(old, leaf) + CalculateTotalSpend(e.leaves, leaf)
        /\ CalculateTotalSpend(Keys, leaf') = CalculateTotalSpend(old, leaf') + CalculateTotalSpend(e.leaves, leaf')
    BY <1>1, <1>5, <1>9
  <2>2. CalculateTotalSpend(old, leaf') = CalculateTotalSpend(old, leaf)
    BY <1>5, <1>7
  <2>3. CalculateTotalSpend(old, leaf) \in Int /\ s \in Int
    BY <1>1, <1>4, <1>5 DEF s
  <2>. QED
    BY <1>8, <2>1, <2>2, <2>3 DEF s
<1>11. CalculateTotalSpend(open, leaf') = CalculateTotalSpend(open, leaf) + s
  <2>. HIDE DEF open, kept, s
  <2>1. /\ CalculateTotalSpend(open, leaf) = CalculateTotalSpend(kept, leaf) + CalculateTotalSpend(e.leaves, leaf)
        /\ CalculateTotalSpend(open, leaf') = CalculateTotalSpend(kept, leaf') + CalculateTotalSpend(e.leaves, leaf')
    BY <1>1, <1>5, <1>9
  <2>2. CalculateTotalSpend(kept, leaf') = CalculateTotalSpend(kept, leaf)
    BY <1>5, <1>7
  <2>3. CalculateTotalSpend(kept, leaf) \in Int /\ s \in Int
    BY <1>1, <1>4, <1>5 DEF s
  <2>. QED
    BY <1>8, <2>1, <2>2, <2>3 DEF s
<1>12. CalculateTotalSpend(open \ e.spends, leaf') = CalculateTotalSpend(open, leaf') - CalculateTotalSpend(e.spends, leaf')
  <2>. HIDE DEF open
  <2>1. IsFiniteSet(open) /\ \A k \in open : leaf'[k] \in Int
    BY <1>4, <1>5
  <2>. QED
    BY ONLY <1>5, <2>1, SumMinus
<1>13. CalculateTotalSpend(e.spends, leaf') = CalculateTotalSpend(e.spends, leaf)
  BY <1>1, <1>3, <1>7
<1>14. s \in Int /\ Worth(open) \in Int /\ Worth(e.spends) \in Int
  BY <1>1, <1>4, <1>5 DEF Worth
<1>. HIDE DEF s
<1>15. CalculateTotalSpend(Keys, leaf') = Worth(Keys) + s
  BY <1>10 DEF Worth
<1>16. CalculateTotalSpend(Keys \ revealed', leaf') = Worth(open) + s - Worth(e.spends)
  <2>1. Worth(open) = CalculateTotalSpend(open, leaf) /\ Worth(e.spends) = CalculateTotalSpend(e.spends, leaf)
    BY DEF Worth
  <2>. HIDE DEF open
  <2>2. CalculateTotalSpend(Keys \ revealed', leaf') = CalculateTotalSpend(open, leaf') - CalculateTotalSpend(e.spends, leaf')
    BY <1>6, <1>12
  <2>3. CalculateTotalSpend(Keys \ revealed', leaf') = (CalculateTotalSpend(open, leaf) + s) - CalculateTotalSpend(e.spends, leaf)
    BY ONLY <1>11, <1>13, <2>2
  <2>. QED
    BY <1>14, <2>1, <2>3
<1>. QED
  BY <1>14, <1>15, <1>16

-----------------------------------------------------------------------------
(* What was deposited is unspent or was paid.                               *)

LEMMA MinedAre ==
    ASSUME TypeInv, WalletInv, \A c \in Caller : SelectedInv(call[c]) /\ OutcomeInv(c)
    PROVE  \A c \in MinedCalls :
              /\ c \in Caller /\ call[c] \in CallRec /\ call[c].inputs \in SUBSET known
              /\ Needs(call)[c] \in Int /\ Changes(call, leaf)[c] \in Int
              /\ Worth(call[c].inputs) = Needs(call)[c] + Changes(call, leaf)[c]
<1>1. SUFFICES ASSUME NEW c \in MinedCalls
               PROVE  /\ c \in Caller /\ call[c] \in CallRec /\ call[c].inputs \in SUBSET known
                      /\ Needs(call)[c] \in Int /\ Changes(call, leaf)[c] \in Int
                      /\ Worth(call[c].inputs) = Needs(call)[c] + Changes(call, leaf)[c]
  OBVIOUS
<1>2. c \in Caller /\ outcome[c] # "none"
  BY DEF MinedCalls
<1>3. PICK r \in CallRec : r = call[c]
  BY <1>2 DEF TypeInv
<1>4. r.inputs # {} /\ SelectedInv(r)
  BY <1>2, <1>3 DEF OutcomeInv
<1>5. r.inputs \in SUBSET known /\ TotalIn(r) \in Nat /\ r.amount \in Nat /\ r.fee \in Nat
  BY <1>4, InputsAre
<1>6. Worth(r.inputs) = TotalIn(r) /\ Worth(r.inputs) = CalculateTotalSpend(r.inputs, leaf)
  BY DEF Worth, TotalIn
<1>7. Needs(call)[c] = Need(r) /\ Changes(call, leaf)[c] = Worth(r.inputs) - Need(r)
  BY <1>2, <1>3, <1>6 DEF Needs, Changes
<1>8. Need(r) \in Int /\ Worth(r.inputs) \in Int
  BY <1>5, <1>6 DEF Need
<1>. QED
  BY <1>2, <1>3, <1>5, <1>7, <1>8

\* The steps that are not of the chain.
LEMMA LedgerKept ==
    ASSUME LedgerInv, UNCHANGED <<leaf, revealed, outcome>>,
           \A c \in MinedCalls : /\ call'[c].amount = call[c].amount /\ call'[c].fee = call[c].fee
                                 /\ call'[c].inputs = call[c].inputs
    PROVE  LedgerInv'
<1>1. MinedCalls' = MinedCalls /\ IsFiniteSet(MinedCalls) /\ MinedCalls \in SUBSET Caller
  BY DEF MinedCalls, LedgerInv
<1>2. \A c \in MinedCalls : Needs(call')[c] = Needs(call)[c] /\ Changes(call', leaf)[c] = Changes(call, leaf)[c]
  BY <1>1 DEF Needs, Changes, Need
<1>3. CalculateTotalSpend(MinedCalls, Needs(call')) = CalculateTotalSpend(MinedCalls, Needs(call))
  BY ONLY <1>1, <1>2, SumSame
<1>4. CalculateTotalSpend(MinedCalls, Changes(call', leaf)) = CalculateTotalSpend(MinedCalls, Changes(call, leaf))
  BY ONLY <1>1, <1>2, SumSame
<1>5. CalculateTotalSpend(MinedCalls, Changes(call', leaf')) = CalculateTotalSpend(MinedCalls, Changes(call, leaf))
  BY <1>4
<1>6. Worth(Keys \ revealed)' = Worth(Keys \ revealed) /\ Worth(Keys)' = Worth(Keys)
  BY DEF Worth
<1>. QED
  BY <1>1, <1>3, <1>5, <1>6 DEF LedgerInv

\* The chain's: the notes that a mined call took are spent.
LEMMA LedgerGrows ==
    ASSUME TypeInv, LogInv, WalletInv, LedgerInv, \A c \in Caller : SelectedInv(call[c]) /\ OutcomeInv(c),
           NEW e, Grown(e), Balanced(e), UNCHANGED call,
           \/ UNCHANGED outcome /\ e.spends = {}
           \/ \E c \in Caller : /\ outcome[c] = "none" /\ call[c].inputs # {} /\ e.spends = call[c].inputs
                                /\ \E x \in {"paid", "stuck"} : outcome' = [outcome EXCEPT ![c] = x]
    PROVE  LedgerInv'
<1>1. PICK s \in Int :
         /\ CalculateTotalSpend(Keys, leaf') = Worth(Keys) + s
         /\ CalculateTotalSpend(Keys \ revealed', leaf') = Worth(Keys \ revealed) + s - Worth(e.spends)
  BY WorthGrows
<1>. DEFINE M == MinedCalls
            needs == Needs(call)
            changes == Changes(call, leaf)
            later == Changes(call, leaf')
<1>2. IsFiniteSet(M) /\ M \in SUBSET Caller
  BY DEF LedgerInv, MinedCalls
<1>3. \A c \in M : /\ c \in Caller /\ call[c] \in CallRec /\ call[c].inputs \in SUBSET known
                   /\ needs[c] \in Int /\ changes[c] \in Int
  BY MinedAre
<1>4. ASSUME NEW c \in Caller, call[c].inputs \in SUBSET known
      PROVE  later[c] = changes[c]
  <2>1. \A k \in call[c].inputs : k \in Keys /\ leaf'[k] = leaf[k]
    BY <1>4, KnownKept
  <2>2. IsFiniteSet(call[c].inputs)
    BY <2>1, KeysFinite, FS_Subset
  <2>3. CalculateTotalSpend(call[c].inputs, leaf') = CalculateTotalSpend(call[c].inputs, leaf)
    BY ONLY <2>1, <2>2, SumSame
  <2>. QED
    BY <2>3 DEF Changes
<1>5. CalculateTotalSpend(M, later) = CalculateTotalSpend(M, changes)
  <2>1. \A c \in M : later[c] = changes[c]
    BY <1>3, <1>4
  <2>. HIDE DEF M, later, changes
  <2>. QED
    BY ONLY <1>2, <2>1, SumSame
<1>6. CalculateTotalSpend(M, needs) \in Int /\ CalculateTotalSpend(M, changes) \in Int
  <2>1. \A c \in M : needs[c] \in Int /\ changes[c] \in Int
    BY <1>3
  <2>. HIDE DEF M, needs, changes
  <2>. QED
    BY ONLY <1>2, <2>1, SumInt
<1>7. /\ Worth(Keys) \in Int /\ Worth(Keys \ revealed) \in Int /\ Worth(e.spends) \in Int
  <2>1. ASSUME NEW S \in SUBSET Keys
        PROVE  Worth(S) \in Int
    <3>1. IsFiniteSet(S) /\ \A k \in S : leaf[k] \in Int
      BY KeysFinite, FS_Subset DEF TypeInv
    <3>. QED
      BY <3>1, SumInt DEF Worth
  <2>2. e.spends \in SUBSET Keys
    BY DEF Grown, EntryRec
  <2>. QED
    BY <2>1, <2>2
<1>8. Worth(Keys \ revealed) + CalculateTotalSpend(M, needs) = Worth(Keys) - CalculateTotalSpend(M, changes)
  BY DEF LedgerInv
<1>. DEFINE M2 == MinedCalls'
<1>. HIDE DEF M, M2, needs, changes, later
\* The sums by names of their own: what is left is arithmetic on five integers.
<1>9. PICK all \in Int : all = Worth(Keys)
  BY <1>7
<1>10. PICK unspent \in Int : unspent = Worth(Keys \ revealed)
  BY <1>7
<1>11. PICK taken \in Int : taken = CalculateTotalSpend(M, needs)
  BY <1>6
<1>12. PICK back \in Int : back = CalculateTotalSpend(M, changes)
  BY <1>6
<1>13. unspent + taken = all - back
  BY ONLY <1>8, <1>9, <1>10, <1>11, <1>12, Zenon
<1>14. CASE UNCHANGED outcome /\ e.spends = {}
  <2>1. M2 = M
    BY <1>14 DEF M, M2, MinedCalls
  <2>2. Worth(e.spends) = 0
    BY <1>14, SumEmpty DEF Worth
  <2>3. CalculateTotalSpend(Keys \ revealed', leaf') + CalculateTotalSpend(M2, needs)
          = CalculateTotalSpend(Keys, leaf') - CalculateTotalSpend(M2, later)
    <3>1. (unspent + s - 0) + taken = (all + s) - back
      BY ONLY <1>13, s \in Int, all \in Int, unspent \in Int, taken \in Int, back \in Int
    <3>2. /\ CalculateTotalSpend(Keys \ revealed', leaf') = unspent + s - 0
          /\ CalculateTotalSpend(Keys, leaf') = all + s
      BY ONLY <1>1, <1>9, <1>10, <2>2, Zenon
    <3>3. CalculateTotalSpend(M2, needs) = taken /\ CalculateTotalSpend(M2, later) = back
      BY ONLY <1>5, <1>11, <1>12, <2>1, Zenon
    <3>. QED
      BY ONLY <3>1, <3>2, <3>3, Zenon
  <2>. QED
    BY <1>2, <2>1, <2>3 DEF LedgerInv, M2, needs, later, Worth
<1>15. CASE \E c \in Caller : /\ outcome[c] = "none" /\ call[c].inputs # {} /\ e.spends = call[c].inputs
                              /\ \E x \in {"paid", "stuck"} : outcome' = [outcome EXCEPT ![c] = x]
  <2>1. PICK c \in Caller : /\ outcome[c] = "none" /\ call[c].inputs # {} /\ e.spends = call[c].inputs
                            /\ \E x \in {"paid", "stuck"} : outcome' = [outcome EXCEPT ![c] = x]
    BY <1>15
  <2>2. M2 = M \cup {c} /\ c \notin M
    <3>1. \A d \in Caller : d # c => outcome'[d] = outcome[d]
      BY <2>1 DEF TypeInv
    <3>2. outcome'[c] \in {"paid", "stuck"}
      BY <2>1 DEF TypeInv
    <3>. QED
      BY <2>1, <3>1, <3>2 DEF M, M2, MinedCalls
  <2>3. PICK r \in CallRec : r = call[c]
    BY DEF TypeInv
  <2>4. /\ r.inputs \in SUBSET known /\ TotalIn(r) \in Nat /\ r.amount \in Nat /\ r.fee \in Nat
    BY <2>1, <2>3, InputsAre
  <2>5. Need(r) \in Int /\ Worth(r.inputs) \in Int /\ Worth(r.inputs) = CalculateTotalSpend(r.inputs, leaf)
    BY <2>4 DEF Need, Worth, TotalIn
  <2>6. needs[c] = Need(r) /\ changes[c] = Worth(r.inputs) - Need(r) /\ later[c] = changes[c]
    <3>1. later[c] = changes[c]
      BY <1>4, <2>3, <2>4
    <3>. QED
      BY <2>3, <2>5, <3>1 DEF needs, changes, Needs, Changes
  <2>7. Worth(e.spends) = needs[c] + changes[c] /\ needs[c] \in Int /\ changes[c] \in Int /\ later[c] \in Int
    BY <2>1, <2>3, <2>5, <2>6
  <2>8. CalculateTotalSpend(M \cup {c}, needs) = CalculateTotalSpend(M, needs) + needs[c]
    <3>1. \A d \in M \cup {c} : needs[d] \in Int
      BY <1>3, <2>7
    <3>. QED
      BY ONLY <1>2, <2>2, <3>1, SumAdd
  <2>9. CalculateTotalSpend(M \cup {c}, later) = CalculateTotalSpend(M, later) + later[c]
    <3>1. \A d \in M \cup {c} : later[d] \in Int
      BY <1>3, <1>4, <2>7
    <3>. QED
      BY ONLY <1>2, <2>2, <3>1, SumAdd
  <2>10. IsFiniteSet(M2)
    BY <1>2, <2>2, FS_AddElement
  <2>11. CalculateTotalSpend(Keys \ revealed', leaf') + CalculateTotalSpend(M2, needs)
          = CalculateTotalSpend(Keys, leaf') - CalculateTotalSpend(M2, later)
    <3>1. PICK n \in Int : n = needs[c]
      BY <2>7
    <3>2. PICK h \in Int : h = changes[c]
      BY <2>7
    <3>3. (unspent + s - (n + h)) + (taken + n) = (all + s) - (back + h)
      BY ONLY <1>13, s \in Int, all \in Int, unspent \in Int, taken \in Int, back \in Int,
              n \in Int, h \in Int
    <3>4. /\ CalculateTotalSpend(Keys \ revealed', leaf') = unspent + s - (n + h)
          /\ CalculateTotalSpend(Keys, leaf') = all + s
      BY ONLY <1>1, <1>9, <1>10, <2>7, <3>1, <3>2, Zenon
    <3>5. CalculateTotalSpend(M2, needs) = taken + n
      BY ONLY <1>11, <2>2, <2>8, <3>1, Zenon
    <3>6. CalculateTotalSpend(M2, later) = back + h
      BY ONLY <1>5, <1>12, <2>2, <2>6, <2>9, <3>2, Zenon
    <3>. QED
      BY ONLY <3>3, <3>4, <3>5, <3>6, Zenon
  <2>. QED
    BY <2>10, <2>11 DEF LedgerInv, M2, needs, later, Worth
<1>. QED
  BY <1>14, <1>15

-----------------------------------------------------------------------------
(* The steps of a call leave the chain and the wallet alone.                *)

LEMMA LogStays ==
    ASSUME LogInv, UNCHANGED <<leaf, size, revealed, log>>
    PROVE  LogInv'
<1>1. \A d : EntryInv(d) => EntryInv(d)'
  BY DEF EntryInv, Worth, ChangeLeaves, FeeLeaves, Values, Interval
<1>2. \A n \in DOMAIN log : EntryInv(log[n]) => EntryInv(log[n])'
  <2>1. SUFFICES ASSUME NEW n \in DOMAIN log, EntryInv(log[n])
                 PROVE  EntryInv(log[n])'
    OBVIOUS
  <2>2. ASSUME NEW d, d = log[n]
        PROVE  EntryInv(d)'
    BY <1>1, <2>1, <2>2
  <2>. QED
    BY <2>2
<1>. QED
  BY <1>2 DEF LogInv

LEMMA WalletStays ==
    ASSUME WalletInv, UNCHANGED <<leaf, size, log, imported, root, known, marked>>
    PROVE  WalletInv'
BY DEF WalletInv

LEMMA CallStays ==
    ASSUME UNCHANGED <<leaf, log, imported, root, known>>, NEW r
    PROVE  (SelectedInv(r)' <=> SelectedInv(r)) /\ (ProofsInv(r)' <=> ProofsInv(r))
<1>1. SelectedInv(r)' <=> SelectedInv(r)
  BY DEF SelectedInv, Worth, Need, InTree, Ascending, Before
<1>2. ProofsInv(r)' <=> ProofsInv(r)
  BY DEF ProofsInv
<1>. QED
  BY <1>1, <1>2

LEMMA BuildStays ==
    ASSUME UNCHANGED <<leaf, revealed, log>>, NEW r
    PROVE  /\ Raced(r)' <=> Raced(r)
           /\ CircuitOf(r)' = CircuitOf(r)
<1>1. UnprovedTransaction(r)' = UnprovedTransaction(r)
  BY DEF UnprovedTransaction, GenerateTransactionRequestV2, requestInputsForDummyGroup, Outputs, Change, TotalIn
<1>. QED
  BY <1>1 DEF CircuitOf, Raced

LEMMA TypesStay ==
    ASSUME TypeInv, UNCHANGED <<leaf, size, revealed, log, imported, root, known, marked, valid>>,
           call' \in [Caller -> CallRec], pool' \in SUBSET Caller,
           outcome' \in [Caller -> {"none", "paid", "stuck", "reverted"}],
           manifest'.circuits \in SUBSET BuiltIn, files' \in [BuiltIn -> {"absent", "good", "bad"}]
    PROVE  TypeInv'
BY DEF TypeInv

\* What a call takes is fixed once it is selected.
SameNotes(r, s) ==
    /\ s.request = r.request /\ s.fee = r.fee /\ s.amount = r.amount
    /\ s.offered = r.offered /\ s.inputs = r.inputs /\ s.seen = r.seen

LEMMA SelectedSame ==
    ASSUME NEW r, SelectedInv(r), NEW s, SameNotes(r, s),
           s.pc \notin {"start", "quote", "select"}, s.reason # "utxos"
    PROVE  SelectedInv(s)
<1>1. Need(s) = Need(r)
  BY DEF Need, SameNotes
<1>. QED
  BY <1>1 DEF SelectedInv, SameNotes

LEMMA CircuitSame ==
    ASSUME NEW r, NEW s, SameNotes(r, s)
    PROVE  CircuitOf(s) = CircuitOf(r) /\ (Raced(r) <=> Raced(s))
<1>1. TotalIn(s) = TotalIn(r)
  BY DEF TotalIn, SameNotes
<1>2. Change(s) = Change(r)
  BY <1>1 DEF Change, SameNotes
<1>3. Outputs(s) = Outputs(r)
  BY <1>2 DEF Outputs, SameNotes
<1>4. /\ UnprovedTransaction(s).nullifiers = UnprovedTransaction(r).nullifiers
      /\ UnprovedTransaction(s).commitments = UnprovedTransaction(r).commitments
  BY <1>2, <1>3 DEF SameNotes, UnprovedTransaction, GenerateTransactionRequestV2, requestInputsForDummyGroup
<1>5. CircuitOf(s) = CircuitOf(r)
  BY <1>4 DEF CircuitOf
<1>6. Raced(r) <=> Raced(s)
  BY DEF Raced, SameNotes
<1>. QED
  BY <1>5, <1>6

LEMMA CallKeeps ==
    ASSUME IInv, UNCHANGED <<leaf, size, revealed, log, imported, root, known, marked, valid, outcome>>,
           NEW c \in Caller, NEW s \in CallRec, s = call'[c], call' \in [Caller -> CallRec],
           \A d \in Caller \ {c} : call'[d] = call[d],
           SelectedInv(s), ProofsInv(s), pool' \in {pool, pool \cup {c}},
           manifest'.circuits \in SUBSET BuiltIn, files' \in [BuiltIn -> {"absent", "good", "bad"}],
           \A d \in Caller : ArtifactsInv(d)', OutcomeInv(c)',
           outcome[c] # "none" => SameNotes(call[c], s)
    PROVE  IInv'
<1>1. TypeInv'
  <2>1. pool' \in SUBSET Caller /\ outcome' \in [Caller -> {"none", "paid", "stuck", "reverted"}]
    BY DEF IInv, TypeInv
  <2>. QED
    BY <2>1, TypesStay DEF IInv
<1>2. LogInv' /\ WalletInv'
  BY LogStays, WalletStays DEF IInv
<1>3. \A d \in Caller : SelectedInv(call[d])' /\ ProofsInv(call[d])'
  <2>1. SUFFICES ASSUME NEW d \in Caller
                 PROVE  SelectedInv(call[d])' /\ ProofsInv(call[d])'
    OBVIOUS
  <2>2. PICK r : r = call'[d]
    OBVIOUS
  <2>3. SelectedInv(r) /\ ProofsInv(r)
    <3>1. CASE d = c
      BY <2>2, <3>1
    <3>2. CASE d # c
      BY <2>2, <3>2 DEF IInv
    <3>. QED
      BY <3>1, <3>2
  <2>4. SelectedInv(r)' /\ ProofsInv(r)'
    BY <2>3, CallStays
  <2>. QED
    BY <2>2, <2>4
<1>4. \A d \in Caller : OutcomeInv(d)'
  <2>1. SUFFICES ASSUME NEW d \in Caller, d # c
                 PROVE  OutcomeInv(d)'
    OBVIOUS
  <2>2. PICK r : r = call[d] /\ r = call'[d]
    BY <2>1
  <2>3. Raced(r)' <=> Raced(r)
    BY BuildStays
  <2>4. Raced(call[d])' <=> Raced(call[d])
    BY <2>2, <2>3
  <2>5. (d \in pool' <=> d \in pool) /\ call'[d] = call[d] /\ outcome' = outcome
    BY <2>1
  <2>. QED
    BY <2>1, <2>4, <2>5 DEF IInv, OutcomeInv
<1>5. LedgerInv'
  <2>1. \A d \in MinedCalls : /\ call'[d].amount = call[d].amount /\ call'[d].fee = call[d].fee
                              /\ call'[d].inputs = call[d].inputs
    <3>1. SUFFICES ASSUME NEW d \in MinedCalls
                   PROVE  /\ call'[d].amount = call[d].amount /\ call'[d].fee = call[d].fee
                          /\ call'[d].inputs = call[d].inputs
      OBVIOUS
    <3>2. d \in Caller /\ outcome[d] # "none"
      BY DEF MinedCalls
    <3>3. CASE d = c
      BY <3>2, <3>3 DEF SameNotes
    <3>4. CASE d # c
      BY <3>2, <3>4
    <3>. QED
      BY <3>3, <3>4
  <2>. QED
    BY <2>1, LedgerKept DEF IInv
<1>. QED
  BY <1>1, <1>2, <1>3, <1>4, <1>5 DEF IInv

\* Only the outcome of a call changes.
LEMMA WaitingKeeps ==
    ASSUME IInv, UNCHANGED <<leaf, size, revealed, log, imported, root, known, marked, valid, call, manifest, files>>,
           TypeInv', \A c \in Caller : OutcomeInv(c)', MinedCalls' = MinedCalls
    PROVE  IInv'
<1>1. LogInv' /\ WalletInv'
  BY LogStays, WalletStays DEF IInv
<1>2. ASSUME NEW d \in Caller
      PROVE  SelectedInv(call[d])' /\ ProofsInv(call[d])' /\ ArtifactsInv(d)'
  <2>1. PICK r : r = call[d] /\ r = call'[d]
    OBVIOUS
  <2>2. /\ SelectedInv(r)' /\ ProofsInv(r)' /\ CircuitOf(r)' = CircuitOf(r)
    BY <2>1, CallStays, BuildStays DEF IInv
  <2>3. CircuitOf(call[d])' = CircuitOf(call[d])
    BY <2>1, <2>2
  <2>4. ArtifactsInv(d)'
    BY <2>3 DEF IInv, ArtifactsInv, NeedsManifest
  <2>. QED
    BY <2>1, <2>2, <2>4
<1>3. LedgerInv'
  <2>1. Worth(Keys \ revealed)' = Worth(Keys \ revealed) /\ Worth(Keys)' = Worth(Keys)
    BY DEF Worth
  <2>. QED
    BY <2>1 DEF IInv, LedgerInv
<1>. QED
  BY <1>1, <1>2, <1>3 DEF IInv

-----------------------------------------------------------------------------
(* The steps of the chain.                                                  *)

\* What the notes of a call are among.
LEMMA TakenAre ==
    ASSUME NEW r \in CallRec, SelectedInv(r)
    PROVE  r.inputs \in SUBSET r.offered /\ r.inputs \in SUBSET known
<1>1. CASE r.inputs = {}
  BY <1>1
<1>2. CASE r.inputs # {}
  <2>1. PICK t \in Trees : r.inputs \subseteq InTree(r.offered, t)
    BY <1>2 DEF SelectedInv
  <2>. QED
    BY <2>1 DEF InTree, SelectedInv
<1>. QED
  BY <1>1, <1>2

LEMMA ChainTypes ==
    ASSUME TypeInv, NEW e, Grown(e), UNCHANGED <<wallet, call, artifacts>>, pool' \in SUBSET Caller,
           outcome' \in [Caller -> {"none", "paid", "stuck", "reverted"}]
    PROVE  TypeInv'
<1>1. /\ leaf' \in [Keys -> Nat] /\ e \in EntryRec /\ log' = Append(log, e)
      /\ revealed' = revealed \cup e.spends /\ e.spends \in SUBSET Keys
  BY DEF Grown, EntryRec
<1>2. size' \in [Trees -> 0..TreeSize]
  BY NewPlaces
<1>3. revealed' \in SUBSET Keys
  BY <1>1 DEF TypeInv
<1>4. log' \in Seq(EntryRec) /\ imported' \in 0..Len(log')
  <2>1. log \in Seq(EntryRec) /\ imported \in 0..Len(log) /\ imported' = imported
    BY DEF TypeInv, wallet
  <2>. QED
    BY <1>1, <2>1
<1>5. /\ root' \in [Trees -> Nat] /\ known' \in SUBSET Keys /\ marked' \in SUBSET known' /\ valid' \in SUBSET known'
      /\ call' \in [Caller -> CallRec] /\ manifest'.circuits \in SUBSET BuiltIn
      /\ files' \in [BuiltIn -> {"absent", "good", "bad"}]
  BY DEF TypeInv, wallet, artifacts
<1>. QED
  BY ONLY <1>1, <1>2, <1>3, <1>4, <1>5, pool' \in SUBSET Caller,
          outcome' \in [Caller -> {"none", "paid", "stuck", "reverted"}]
     DEF TypeInv, CallRec, EntryRec, NotesAt, NoteRec, Keys, Trees, BuiltIn, PC, NoRequest, NoType, Reasons

\* What does not depend on the chain, or only on what the call has taken.
LEMMA CallsGrow ==
    ASSUME TypeInv, WalletInv, NEW e, Grown(e), UNCHANGED <<wallet, call, artifacts>>,
           NEW c \in Caller, SelectedInv(call[c]), ProofsInv(call[c]), ArtifactsInv(c)
    PROVE  SelectedInv(call[c])' /\ ProofsInv(call[c])' /\ ArtifactsInv(c)'
<1>1. PICK r \in CallRec : r = call[c] /\ r = call'[c]
  BY DEF TypeInv
<1>2. UNCHANGED <<imported, root, known, files, manifest, call>>
  BY DEF wallet, artifacts
<1>3. SelectedInv(call[c])'
  <2>1. SelectedInv(r)'
    BY <1>1, <1>2, SelectedGrows
  <2>. QED
    BY <1>1, <2>1
<1>4. ProofsInv(call[c])'
  BY <1>1, <1>2 DEF ProofsInv
<1>5. ArtifactsInv(c)'
  <2>1. r.inputs \in SUBSET known
    BY <1>1, TakenAre
  <2>2. CircuitOf(r)' = CircuitOf(r)
    BY <2>1, BuildKept
  <2>3. CircuitOf(call[c])' = CircuitOf(call[c])
    BY <1>1, <2>2
  <2>. QED
    BY <1>2, <2>3 DEF ArtifactsInv, NeedsManifest
<1>. QED
  BY <1>3, <1>4, <1>5

\* Nothing has happened to a call whose transaction waits.
LEMMA OutcomeGrows ==
    ASSUME TypeInv, NEW e, Grown(e), UNCHANGED call, NEW c \in Caller, OutcomeInv(c),
           outcome'[c] = outcome[c], c \in pool' <=> c \in pool
    PROVE  OutcomeInv(c)'
<1>1. PICK r \in CallRec : r = call[c] /\ r = call'[c]
  BY DEF TypeInv
<1>2. Raced(r) => Raced(r)'
  BY RacedKept
<1>3. Raced(call[c]) => Raced(call[c])'
  BY <1>1, <1>2
<1>. QED
  BY <1>3 DEF OutcomeInv

\* The transaction of a call is mined.
LEMMA OutcomeMined ==
    ASSUME TypeInv, NEW e, Grown(e), UNCHANGED call, NEW c \in Caller, OutcomeInv(c), c \in pool, c \notin pool',
           Executes(call[c]),
           outcome' = [outcome EXCEPT ![c] = IF call[c].request.base /\ call[c].request.rejects
                                             THEN "stuck" ELSE "paid"]
    PROVE  OutcomeInv(c)'
<1>1. PICK r \in CallRec : r = call[c] /\ r = call'[c]
  BY DEF TypeInv
<1>2. ~(r.request.base /\ r.request.rejects /\ ~r.request.relayed)
  BY <1>1 DEF Executes, RequireSuccess
<1>3. /\ outcome[c] = "none" /\ r.pc \in {"wait", "done", "failed"} /\ r.inputs # {}
      /\ r.pc = "failed" => r.reason \in {"answer", "receipt"}
  BY <1>1 DEF OutcomeInv
<1>4. /\ outcome'[c] = (IF r.request.base /\ r.request.rejects THEN "stuck" ELSE "paid")
  BY <1>1 DEF TypeInv
<1>5. /\ outcome'[c] \in {"stuck", "paid"}
      /\ outcome'[c] = "stuck" => r.request.relayed /\ r.request.base /\ r.request.rejects
  BY <1>2, <1>4
<1>. QED
  BY <1>1, <1>3, <1>5 DEF OutcomeInv

\* The transaction of a call reverts.
LEMMA OutcomeReverted ==
    ASSUME TypeInv, UNCHANGED <<call, revealed, log>>, NEW c \in Caller, OutcomeInv(c), c \in pool, c \notin pool',
           Raced(call[c]), outcome' = [outcome EXCEPT ![c] = "reverted"]
    PROVE  OutcomeInv(c)'
<1>1. PICK r \in CallRec : r = call[c] /\ r = call'[c]
  BY DEF TypeInv
<1>3. /\ outcome[c] = "none" /\ r.pc \in {"wait", "done", "failed"} /\ r.inputs # {}
      /\ r.pc = "done" => r.request.relayed /\ r.reason = "receipt"
  BY <1>1 DEF OutcomeInv
<1>4. outcome'[c] = "reverted"
  BY DEF TypeInv
<1>5. Raced(call[c])'
  BY DEF Raced
<1>. QED
  BY <1>1, <1>3, <1>4, <1>5 DEF OutcomeInv

LEMMA ShieldKeeps ==
    ASSUME IInv, NEW value \in ShieldValue, Shield(value)
    PROVE  IInv'
<1>1. PICK e : Grown(e) /\ Balanced(e) /\ e.spends = {}
  BY ShieldGrows DEF IInv
<1>2. UNCHANGED <<wallet, call, artifacts>> /\ pool' = pool /\ outcome' = outcome
  BY DEF Shield
<1>3. TypeInv'
  BY <1>1, <1>2, ChainTypes DEF IInv, TypeInv
<1>4. LogInv' /\ WalletInv'
  BY <1>1, <1>2, LogGrows, WalletGrows DEF IInv, wallet
<1>5. \A c \in Caller : SelectedInv(call[c])' /\ ProofsInv(call[c])' /\ ArtifactsInv(c)'
  BY <1>1, <1>2, CallsGrow DEF IInv
<1>6. \A c \in Caller : OutcomeInv(c)'
  BY <1>1, <1>2, OutcomeGrows DEF IInv
<1>7. LedgerInv'
  BY <1>1, <1>2, LedgerGrows DEF IInv
<1>. QED
  BY <1>3, <1>4, <1>5, <1>6, <1>7 DEF IInv

LEMMA MineKeeps ==
    ASSUME IInv, NEW c \in Caller, Mine(c)
    PROVE  IInv'
<1>1. PICK r \in CallRec : r = call[c]
  BY DEF IInv, TypeInv
<1>2. /\ UNCHANGED <<wallet, call, artifacts>> /\ c \in pool /\ pool' = pool \ {c}
  BY DEF Mine
<1>3. outcome[c] = "none" /\ r.inputs # {} /\ SelectedInv(r)
  BY <1>1, <1>2 DEF IInv, OutcomeInv
<1>4. \A d \in Caller \ {c} : d \in pool' <=> d \in pool
  BY <1>2
<1>5. CASE Executes(r)
  <2>1. /\ Emit(Outputs(r), SpentBy(UnprovedTransaction(r)), r.amount)
        /\ outcome' = [outcome EXCEPT ![c] = IF r.request.base /\ r.request.rejects THEN "stuck" ELSE "paid"]
    BY <1>1, <1>5 DEF Mine
  <2>2. PICK e : Grown(e) /\ Balanced(e) /\ e.spends = r.inputs
    BY <1>3, <1>5, <2>1, MineGrows DEF IInv
  <2>3. TypeInv'
    <3>1. outcome' \in [Caller -> {"none", "paid", "stuck", "reverted"}]
      BY <2>1 DEF IInv, TypeInv
    <3>2. pool' \in SUBSET Caller
      BY <1>2 DEF IInv, TypeInv
    <3>. QED
      BY <1>2, <2>2, <3>1, <3>2, ChainTypes DEF IInv
  <2>4. LogInv' /\ WalletInv'
    BY <1>2, <2>2, LogGrows, WalletGrows DEF IInv, wallet
  <2>5. \A d \in Caller : SelectedInv(call[d])' /\ ProofsInv(call[d])' /\ ArtifactsInv(d)'
    BY <1>2, <2>2, CallsGrow DEF IInv
  <2>6. \A d \in Caller \ {c} : OutcomeInv(d)'
    <3>1. \A d \in Caller \ {c} : outcome'[d] = outcome[d]
      BY <2>1 DEF IInv, TypeInv
    <3>. QED
      BY <1>2, <1>4, <2>2, <3>1, OutcomeGrows DEF IInv
  <2>7. OutcomeInv(c)'
    BY <1>1, <1>2, <1>5, <2>1, <2>2, OutcomeMined DEF IInv
  <2>8. LedgerInv'
    <3>1. \E x \in {"paid", "stuck"} : outcome' = [outcome EXCEPT ![c] = x]
      BY <2>1
    <3>. QED
      BY <1>1, <1>2, <1>3, <2>2, <3>1, LedgerGrows DEF IInv
  <2>. QED
    BY <2>3, <2>4, <2>5, <2>6, <2>7, <2>8 DEF IInv
<1>6. CASE ~Executes(r)
  <2>1. /\ outcome' = [outcome EXCEPT ![c] = "reverted"]
        /\ UNCHANGED <<leaf, size, revealed, log, imported, root, known, marked, valid, call, manifest, files>>
    BY <1>1, <1>6 DEF Mine, wallet, artifacts
  <2>2. Raced(r)
    BY <1>3, <1>6, RacedIs DEF IInv
  <2>3. OutcomeInv(c)'
    BY <1>1, <1>2, <2>1, <2>2, OutcomeReverted DEF IInv
  <2>4. \A d \in Caller \ {c} : OutcomeInv(d)'
    <3>1. \A d \in Caller \ {c} : outcome'[d] = outcome[d]
      BY <2>1 DEF IInv, TypeInv
    <3>2. \A d \in Caller : Raced(call[d])' <=> Raced(call[d])
      BY <2>1 DEF Raced
    <3>. QED
      BY <1>4, <2>1, <3>1, <3>2 DEF IInv, OutcomeInv
  <2>5. MinedCalls' = MinedCalls
    BY <1>3, <2>1 DEF IInv, TypeInv, MinedCalls
  <2>6. TypeInv'
    <3>1. outcome' \in [Caller -> {"none", "paid", "stuck", "reverted"}] /\ pool' \in SUBSET Caller
      BY <1>2, <2>1 DEF IInv, TypeInv
    <3>. QED
      BY <2>1, <3>1, TypesStay DEF IInv, TypeInv
  <2>. QED
    BY <2>1, <2>3, <2>4, <2>5, <2>6, WaitingKeeps
<1>. QED
  BY <1>5, <1>6

-----------------------------------------------------------------------------
(* The wallet imports the next transaction.                                 *)

\* What it brings is where the wallet's tree ends.
Import(e) ==
    /\ e = log[imported + 1] /\ e \in EntryRec /\ EntryInv(e)
    /\ imported + 1 \in DOMAIN log
    /\ \E n \in 0..2 :
          /\ e.leaves = Interval(e.tree, root[e.tree], n)
          /\ root[e.tree] + n <= size[e.tree]
          /\ root' = [root EXCEPT ![e.tree] = @ + n]
    /\ imported' = imported + 1
    /\ known' = known \cup {k \in e.leaves : leaf[k] > 0}
    /\ marked' = marked \cup (NullifierKeys(e.spends) \cap known')

LEMMA NextLeaves ==
    ASSUME TypeInv, LogInv, WalletInv, imported < Len(log), NEW e, e = log[imported + 1]
    PROVE  \E n \in 0..2 : /\ e.leaves = Interval(e.tree, root[e.tree], n)
                           /\ root[e.tree] + n <= size[e.tree] /\ Cardinality(e.leaves) = n
<1>1. /\ imported \in Nat /\ Len(log) \in Nat /\ imported + 1 \in DOMAIN log /\ DOMAIN log = 1..Len(log)
      /\ e \in EntryRec
  BY DEF TypeInv
<1>2. EntryInv(e)
  BY <1>1 DEF LogInv
<1>3. PICK p \in 0..TreeSize, n \in 0..2 : e.leaves = Interval(e.tree, p, n) /\ p + n <= size[e.tree]
  BY <1>2 DEF EntryInv
<1>. DEFINE t == e.tree
            q == root[t]
<1>4. t \in Trees /\ size[t] \in 0..TreeSize /\ q \in Nat /\ q <= size[t] /\ TreeSize \in Nat
  BY <1>1, SelectionAssumption DEF EntryRec, TypeInv, WalletInv
<1>5. p \in Nat /\ n \in Nat /\ p + n <= TreeSize /\ p + n <= size[t]
  BY <1>3, <1>4
<1>. HIDE DEF t, q
<1>6. /\ \A k \in Keys : k \in e.leaves <=> TreeOf(k) = t /\ PositionOf(k) \in p..(p + n - 1)
      /\ Cardinality(e.leaves) = n
  BY <1>3, <1>4, <1>5, IntervalKeys DEF t
<1>7. \A x \in 0..(TreeSize - 1) : Key(t, x) \in Keys /\ TreeOf(Key(t, x)) = t /\ PositionOf(Key(t, x)) = x
  BY <1>4, KeyPlace
<1>8. \A k \in Keys : TreeOf(k) = t =>
          ((\E m \in (imported + 1)..Len(log) : k \in log[m].leaves) <=> PositionOf(k) \in q..(size[t] - 1))
  BY DEF WalletInv, q
<1>9. CASE n = 0
  <2>1. e.leaves = {}
    <3>1. Key(t, p) \in Int /\ Key(t, q) \in Int
      BY <1>4, <1>5, KeyOrder
    <3>2. Key(t, p)..(Key(t, p) + 0 - 1) = {} /\ Key(t, q)..(Key(t, q) + 0 - 1) = {}
      BY <3>1
    <3>3. Interval(t, p, 0) = {} /\ Interval(t, q, 0) = {}
      BY <3>2 DEF Interval
    <3>. QED
      BY <1>3, <1>9, <3>3 DEF t
  <2>2. Interval(t, q, 0) = {}
    <3>1. Key(t, q) \in Int
      BY <1>4, KeyOrder
    <3>2. Key(t, q)..(Key(t, q) + 0 - 1) = {}
      BY <3>1
    <3>. QED
      BY <3>2 DEF Interval
  <2>3. 0 \in 0..2 /\ e.leaves = Interval(t, q, 0) /\ q + 0 <= size[t] /\ Cardinality(e.leaves) = 0
    BY <1>4, <1>6, <1>9, <2>1, <2>2
  <2>. QED
    BY <2>3 DEF t, q
<1>10. CASE n > 0
  <2>1. p \in 0..(TreeSize - 1) /\ p \in p..(p + n - 1)
    BY <1>4, <1>5, <1>10
  <2>2. PICK k \in Keys : TreeOf(k) = t /\ PositionOf(k) = p /\ k = Key(t, p)
    BY <1>7, <2>1
  <2>3. k \in e.leaves
    BY <1>6, <2>1, <2>2
  <2>4. imported + 1 \in (imported + 1)..Len(log)
    BY <1>1
  <2>5. p >= q
    <3>1. PositionOf(k) \in q..(size[t] - 1)
      BY <1>8, <2>2, <2>3, <2>4
    <3>. QED
      BY <1>4, <1>5, <2>2, <3>1
  <2>6. ASSUME p > q
        PROVE  FALSE
    <3>1. q \in 0..(TreeSize - 1) /\ q \in q..(size[t] - 1)
      BY <1>4, <1>5, <1>10, <2>6
    <3>2. PICK j \in Keys : TreeOf(j) = t /\ PositionOf(j) = q /\ j = Key(t, q)
      BY <1>7, <3>1
    <3>3. PICK m \in (imported + 1)..Len(log) : j \in log[m].leaves
      BY <1>8, <3>1, <3>2
    <3>4. m # imported + 1
      <4>1. ~(q \in p..(p + n - 1))
        BY <1>4, <1>5, <2>6
      <4>2. j \notin e.leaves
        BY <1>6, <3>2, <4>1
      <4>. QED
        BY <3>3, <4>2
    <3>5. imported + 1 < m /\ m \in DOMAIN log
      BY <1>1, <3>4
    <3>6. k < j
      BY <1>1, <2>2, <2>3, <3>2, <3>3, <3>5 DEF LogInv
    <3>7. Key(t, q) <= Key(t, p) /\ Key(t, p) \in Int /\ Key(t, q) \in Int
      BY <1>4, <1>5, <2>6, KeyOrder
    <3>. QED
      BY <2>2, <3>2, <3>6, <3>7
  <2>7. p = q
    BY <1>4, <1>5, <2>5, <2>6
  <2>. QED
    BY <1>3, <1>5, <1>6, <2>7 DEF t, q
<1>. QED
  BY <1>9, <1>10

LEMMA SyncImports ==
    ASSUME TypeInv, LogInv, WalletInv, Sync
    PROVE  \E e : Import(e)
<1>1. PICK e : e = log[imported + 1]
  OBVIOUS
<1>2. imported < Len(log) /\ imported + 1 \in DOMAIN log /\ e \in EntryRec
  BY <1>1 DEF Sync, TypeInv
<1>3. EntryInv(e)
  BY <1>1, <1>2 DEF LogInv
<1>4. PICK n \in 0..2 : /\ e.leaves = Interval(e.tree, root[e.tree], n)
                        /\ root[e.tree] + n <= size[e.tree] /\ Cardinality(e.leaves) = n
  BY <1>1, <1>2, NextLeaves
<1>5. /\ imported' = imported + 1
      /\ known' = known \cup {txo.id : txo \in NotesOf(imported + 1, FALSE)}
      /\ marked' = marked \cup (NullifierKeys(e.spends) \cap known')
      /\ root' = [root EXCEPT ![e.tree] = @ + n]
  BY <1>1, <1>4 DEF Sync
<1>6. {txo.id : txo \in NotesOf(imported + 1, FALSE)} = {k \in e.leaves : leaf[k] > 0}
  <2>1. NotesOf(imported + 1, FALSE) = {Record(k, imported + 1, e.notes[k], NoType) : k \in Kinds(e, "wallet")}
    BY <1>1, <1>2, NotesOfEntry
  <2>2. \A k : Record(k, imported + 1, e.notes[k], NoType).id = k
    BY DEF Record
  <2>3. {txo.id : txo \in NotesOf(imported + 1, FALSE)} = Kinds(e, "wallet")
    <3>. DEFINE R(k) == Record(k, imported + 1, e.notes[k], NoType)
    <3>1. \A k : R(k).id = k
      BY <2>2
    <3>2. NotesOf(imported + 1, FALSE) = {R(k) : k \in Kinds(e, "wallet")}
      BY <2>1
    <3>. HIDE DEF R
    <3>3. {txo.id : txo \in {R(k) : k \in Kinds(e, "wallet")}} = {R(k).id : k \in Kinds(e, "wallet")}
      OBVIOUS
    <3>4. \A x : x \in {R(k).id : k \in Kinds(e, "wallet")} <=> x \in Kinds(e, "wallet")
      BY <3>1
    <3>. QED
      BY <3>2, <3>3, <3>4
  <2>4. ASSUME NEW k \in e.leaves
        PROVE  leaf[k] > 0 <=> e.notes[k].to = "wallet"
    <3>1. leaf[k] = Kept(e.notes[k]) /\ e.notes[k].value > 0 /\ e.notes[k] \in NoteRec
      BY <1>3 DEF EntryInv
    <3>. QED
      BY <3>1 DEF Kept, NoteRec
  <2>. QED
    BY <2>3, <2>4 DEF Kinds
<1>7. known' = known \cup {k \in e.leaves : leaf[k] > 0}
  BY <1>5, <1>6
<1>. QED
  BY <1>1, <1>2, <1>3, <1>4, <1>5, <1>7 DEF Import

LEMMA ImportTypes ==
    ASSUME TypeInv, NEW e, Import(e), UNCHANGED <<chain, valid, call, artifacts>>
    PROVE  TypeInv'
<1>1. PICK n \in 0..2 :
          /\ e.leaves = Interval(e.tree, root[e.tree], n)
          /\ root[e.tree] + n <= size[e.tree]
          /\ root' = [root EXCEPT ![e.tree] = @ + n]
  BY DEF Import
<1>2. root' \in [Trees -> Nat]
  <2>1. e.tree \in Trees /\ root \in [Trees -> Nat]
    BY DEF Import, EntryRec, TypeInv
  <2>2. root[e.tree] + n \in Nat
    BY <2>1
  <2>. QED
    BY <1>1, <2>1, <2>2
<1>3. imported' \in 0..Len(log) /\ log \in Seq(EntryRec)
  BY DEF Import, TypeInv
<1>4. known' \in SUBSET Keys /\ known \in SUBSET known'
  BY DEF Import, TypeInv, EntryRec
<1>5. marked' \in SUBSET known' /\ valid \in SUBSET known'
  BY <1>4 DEF Import, TypeInv
<1>6. UNCHANGED <<leaf, size, revealed, log, pool, outcome, valid, call, manifest, files>>
  BY DEF chain, artifacts
<1>. QED
  BY <1>2, <1>3, <1>4, <1>5, <1>6 DEF TypeInv

LEMMA ImportKeeps ==
    ASSUME TypeInv, LogInv, WalletInv, NEW e, Import(e), UNCHANGED <<leaf, size, log>>
    PROVE  WalletInv'
<1>1. PICK n \in 0..2 :
          /\ e.leaves = Interval(e.tree, root[e.tree], n)
          /\ root[e.tree] + n <= size[e.tree]
          /\ root' = [root EXCEPT ![e.tree] = @ + n]
  BY DEF Import
<1>2. /\ e = log[imported + 1] /\ EntryInv(e) /\ e \in EntryRec /\ e.tree \in Trees
      /\ imported' = imported + 1 /\ imported \in Nat /\ Len(log) \in Nat /\ imported + 1 <= Len(log)
      /\ imported + 1 \in DOMAIN log /\ DOMAIN log = 1..Len(log)
  BY DEF Import, EntryRec, TypeInv
<1>3. /\ TreeSize \in Nat /\ size \in [Trees -> 0..TreeSize] /\ root \in [Trees -> Nat]
      /\ root' \in [Trees -> Nat] /\ n \in Nat
      /\ \A t \in Trees : root[t] <= size[t]
  <2>1. /\ TreeSize \in Nat /\ size \in [Trees -> 0..TreeSize] /\ root \in [Trees -> Nat]
        /\ n \in Nat /\ \A t \in Trees : root[t] <= size[t]
    BY SelectionAssumption DEF TypeInv, WalletInv
  <2>2. root[e.tree] + n \in Nat
    BY <1>2, <2>1
  <2>. QED
    BY <1>1, <2>1, <2>2
<1>4. /\ root'[e.tree] = root[e.tree] + n
      /\ \A t \in Trees : t # e.tree => root'[t] = root[t]
  BY <1>1, <1>2, <1>3
<1>5. ASSUME NEW t \in Trees
      PROVE  root'[t] <= size'[t]
  BY <1>1, <1>2, <1>3, <1>4
<1>. DEFINE Pending(k) == \E m \in (imported + 1)..Len(log) : k \in log[m].leaves
            PendingNext(k) == \E m \in (imported + 2)..Len(log) : k \in log[m].leaves
<1>6. ASSUME NEW k \in Keys
      PROVE  /\ k \in e.leaves <=> PositionOf(k) \in root[TreeOf(k)]..(root'[TreeOf(k)] - 1)
             /\ root[TreeOf(k)] \in Nat /\ root'[TreeOf(k)] \in Nat /\ size[TreeOf(k)] \in Nat
             /\ root[TreeOf(k)] <= root'[TreeOf(k)] /\ root'[TreeOf(k)] <= size[TreeOf(k)]
             /\ PositionOf(k) \in Nat /\ TreeOf(k) \in Trees
  <2>1. TreeOf(k) \in Trees /\ PositionOf(k) \in Nat
    BY PlaceKey
  <2>2. root[e.tree] \in Nat /\ size[e.tree] \in 0..TreeSize
    BY <1>2, <1>3
  <2>3. root[e.tree] + n <= TreeSize
    BY <1>1, <1>3, <2>2
  <2>4. k \in e.leaves <=> TreeOf(k) = e.tree /\ PositionOf(k) \in root[e.tree]..(root[e.tree] + n - 1)
    BY <1>1, <1>2, <1>3, <2>2, <2>3, IntervalKeys
  <2>5. CASE TreeOf(k) = e.tree
    BY <1>1, <1>3, <1>4, <2>1, <2>2, <2>4, <2>5
  <2>6. CASE TreeOf(k) # e.tree
    BY <1>3, <1>4, <2>1, <2>4, <2>6
  <2>. QED
    BY <2>5, <2>6
<1>7. ASSUME NEW k \in Keys
      PROVE  PendingNext(k) <=> Pending(k) /\ k \notin e.leaves
  <2>1. ASSUME NEW m \in (imported + 2)..Len(log), k \in log[m].leaves
        PROVE  m \in (imported + 1)..Len(log) /\ k \notin e.leaves
    <3>1. m \in DOMAIN log /\ imported + 1 < m /\ m \in (imported + 1)..Len(log)
      BY <1>2
    <3>2. \A j \in log[imported + 1].leaves, i \in log[m].leaves : j # i
      BY <1>2, <3>1 DEF LogInv
    <3>. QED
      BY <1>2, <2>1, <3>1, <3>2
  <2>2. ASSUME NEW m \in (imported + 1)..Len(log), k \in log[m].leaves, k \notin e.leaves
        PROVE  m \in (imported + 2)..Len(log)
    <3>1. m # imported + 1
      BY <1>2, <2>2
    <3>. QED
      BY <1>2, <3>1
  <2>. QED
    BY <2>1, <2>2
<1>8. ASSUME NEW k \in Keys
      PROVE  PendingNext(k) <=> PositionOf(k) \in root'[TreeOf(k)]..(size[TreeOf(k)] - 1)
  <2>1. Pending(k) <=> PositionOf(k) \in root[TreeOf(k)]..(size[TreeOf(k)] - 1)
    BY DEF WalletInv
  <2>. HIDE DEF Pending, PendingNext
  <2>. QED
    BY <1>6, <1>7, <2>1
<1>9. ASSUME NEW k \in Keys
      PROVE  (\E m \in (imported' + 1)..Len(log') : k \in log'[m].leaves)
                <=> PositionOf(k) \in root'[TreeOf(k)]..(size'[TreeOf(k)] - 1)
  <2>1. imported' + 1 = imported + 2
    BY <1>2
  <2>. QED
    BY <1>8, <2>1
<1>10. known' = {k \in Keys : leaf[k] > 0 /\ PositionOf(k) < root'[TreeOf(k)]}
  <2>1. known' = known \cup {k \in e.leaves : leaf[k] > 0} /\ e.leaves \in SUBSET Keys
    BY DEF Import, EntryRec
  <2>2. known = {k \in Keys : leaf[k] > 0 /\ PositionOf(k) < root[TreeOf(k)]}
    BY DEF WalletInv
  <2>3. \A k \in Keys : PositionOf(k) < root'[TreeOf(k)] <=> PositionOf(k) < root[TreeOf(k)] \/ k \in e.leaves
    BY <1>6
  <2>. QED
    BY <2>1, <2>2, <2>3
<1>11. ASSUME NEW m \in 1..imported', NEW k \in log'[m].spends, TreeOf(k) = 0
       PROVE  k \in marked'
  <2>1. CASE m \in 1..imported
    BY <1>11, <2>1 DEF WalletInv, Import
  <2>2. CASE m = imported + 1
    <3>1. k \in e.spends /\ k \in Keys /\ leaf[k] > 0
      BY <1>2, <1>11, <2>2 DEF EntryInv, EntryRec
    <3>2. PositionOf(k) = k
      <4>1. k = Key(0, PositionOf(k)) /\ PositionOf(k) \in Nat /\ TreeSize \in Nat
        BY <1>3, <1>11, <3>1, PlaceKey
      <4>2. \A x \in Nat : 0 * TreeSize + x = x
        BY <1>3
      <4>. QED
        BY <4>1, <4>2 DEF Key
    <3>3. k \in NullifierKeys(e.spends)
      BY <3>1, <3>2 DEF NullifierKeys
    <3>4. ~PendingNext(k)
      <4>1. SUFFICES ASSUME NEW i \in (imported + 2)..Len(log), k \in log[i].leaves
                     PROVE  FALSE
        OBVIOUS
      <4>2. i \in DOMAIN log /\ imported + 1 <= i
        BY <1>2
      <4>3. log[imported + 1].spends \cap log[i].leaves = {}
        BY <1>2, <4>2 DEF LogInv
      <4>. QED
        BY <1>2, <3>1, <4>1, <4>3
    <3>5. PositionOf(k) < size[TreeOf(k)]
      BY <3>1 DEF LogInv
    <3>6. PositionOf(k) < root'[TreeOf(k)]
      <4>. HIDE DEF PendingNext
      <4>. QED
        BY <1>6, <1>8, <3>1, <3>4, <3>5
    <3>7. k \in known'
      BY <1>10, <3>1, <3>6
    <3>. QED
      BY <3>3, <3>7 DEF Import
  <2>. QED
    BY <1>2, <2>1, <2>2
<1>. QED
  BY <1>5, <1>9, <1>10, <1>11 DEF WalletInv

LEMMA ImportCalls ==
    ASSUME TypeInv, NEW e, Import(e), UNCHANGED <<leaf, revealed, log, call, manifest, files>>,
           NEW c \in Caller, SelectedInv(call[c]), ProofsInv(call[c]), ArtifactsInv(c)
    PROVE  SelectedInv(call[c])' /\ ProofsInv(call[c])' /\ ArtifactsInv(c)'
<1>1. PICK r \in CallRec : r = call[c] /\ r = call'[c]
  BY DEF TypeInv
<1>2. known \in SUBSET known' /\ imported' = imported + 1 /\ imported \in Nat /\ r.seen \in Nat
  BY DEF Import, TypeInv, CallRec
<1>3. SelectedInv(r) /\ ProofsInv(r)
  BY <1>1
<1>4. r.offered \subseteq known' /\ r.seen <= imported' /\ r.seen < imported'
  BY <1>2, <1>3 DEF SelectedInv
<1>5. SelectedInv(r)'
  BY <1>3, <1>4 DEF SelectedInv, Worth, Need, InTree, Ascending, Before
<1>6. ProofsInv(r)'
  BY <1>2, <1>3, <1>4 DEF ProofsInv
<1>7. CircuitOf(call[c])' = CircuitOf(call[c])
  <2>1. CircuitOf(r)' = CircuitOf(r)
    BY BuildStays
  <2>. QED
    BY <1>1, <2>1
<1>8. ArtifactsInv(c)'
  BY <1>7 DEF ArtifactsInv, NeedsManifest
<1>. QED
  BY <1>1, <1>5, <1>6, <1>8

\* What became of the transactions does not depend on the wallet.
LEMMA OutcomeStays ==
    ASSUME UNCHANGED <<leaf, revealed, log, call, pool, outcome>>, NEW c \in Caller, OutcomeInv(c)
    PROVE  OutcomeInv(c)'
<1>1. PICK r : r = call[c] /\ r = call'[c]
  OBVIOUS
<1>2. Raced(r)' <=> Raced(r)
  BY BuildStays
<1>3. Raced(call[c])' <=> Raced(call[c])
  BY <1>1, <1>2
<1>. QED
  BY <1>3 DEF OutcomeInv

LEMMA LedgerStays ==
    ASSUME LedgerInv, UNCHANGED <<leaf, revealed, call, outcome>>
    PROVE  LedgerInv'
BY LedgerKept

LEMMA SyncKeeps ==
    ASSUME IInv, Sync
    PROVE  IInv'
<1>1. PICK e : Import(e)
  BY SyncImports DEF IInv
<1>2. UNCHANGED <<chain, valid, call, artifacts, leaf, size, revealed, log, pool, outcome, manifest, files>>
  BY DEF Sync, chain, artifacts
<1>3. TypeInv'
  BY <1>1, <1>2, ImportTypes DEF IInv
<1>4. LogInv' /\ WalletInv'
  BY <1>1, <1>2, LogStays, ImportKeeps DEF IInv
<1>5. \A c \in Caller : SelectedInv(call[c])' /\ ProofsInv(call[c])' /\ ArtifactsInv(c)'
  BY <1>1, <1>2, ImportCalls DEF IInv
<1>6. \A c \in Caller : OutcomeInv(c)'
  BY <1>2, OutcomeStays DEF IInv
<1>7. LedgerInv'
  BY <1>2, LedgerStays DEF IInv
<1>. QED
  BY <1>3, <1>4, <1>5, <1>6, <1>7 DEF IInv

LEMMA RefreshKeeps ==
    ASSUME IInv, RefreshPOIs
    PROVE  IInv'
<1>1. /\ UNCHANGED <<leaf, size, revealed, log, pool, outcome, imported, root, known, marked, call, manifest, files>>
      /\ valid' = known
  BY DEF RefreshPOIs, chain, artifacts
<1>2. TypeInv'
  BY <1>1 DEF IInv, TypeInv
<1>3. LogInv' /\ WalletInv'
  BY <1>1, LogStays, WalletStays DEF IInv
<1>4. ASSUME NEW c \in Caller
      PROVE  SelectedInv(call[c])' /\ ProofsInv(call[c])' /\ ArtifactsInv(c)'
  <2>1. PICK r : r = call[c] /\ r = call'[c]
    BY <1>1
  <2>2. /\ SelectedInv(r)' /\ ProofsInv(r)' /\ CircuitOf(r)' = CircuitOf(r)
    BY <1>1, <2>1, CallStays, BuildStays DEF IInv
  <2>3. CircuitOf(call[c])' = CircuitOf(call[c])
    BY <2>1, <2>2
  <2>4. ArtifactsInv(c)'
    BY <1>1, <2>3 DEF IInv, ArtifactsInv, NeedsManifest
  <2>. QED
    BY <2>1, <2>2, <2>4
<1>5. \A c \in Caller : OutcomeInv(c)'
  BY <1>1, OutcomeStays DEF IInv
<1>6. LedgerInv'
  BY <1>1, LedgerStays DEF IInv
<1>. QED
  BY <1>2, <1>3, <1>4, <1>5, <1>6 DEF IInv

-----------------------------------------------------------------------------
(* A call, up to its transaction.                                           *)

\* Nothing has been sent yet, and nothing is.
LEMMA EarlyKeeps ==
    ASSUME IInv, UNCHANGED <<chain, wallet>>, NEW c \in Caller,
           NEW s \in CallRec, s = call'[c], call' \in [Caller -> CallRec],
           \A d \in Caller \ {c} : call'[d] = call[d],
           call[c].pc \notin {"wait", "done", "failed"}, s.pc \notin {"wait", "done"},
           SelectedInv(s), ProofsInv(s),
           manifest'.circuits \in SUBSET BuiltIn, files' \in [BuiltIn -> {"absent", "good", "bad"}],
           \A d \in Caller : ArtifactsInv(d)'
    PROVE  IInv'
<1>1. UNCHANGED <<leaf, size, revealed, log, imported, root, known, marked, valid, pool, outcome>>
  BY DEF chain, wallet
<1>2. c \notin pool /\ outcome[c] = "none"
  BY DEF IInv, OutcomeInv
<1>3. OutcomeInv(c)'
  BY <1>1, <1>2 DEF OutcomeInv
<1>. QED
  BY <1>1, <1>2, <1>3, CallKeeps

LEMMA ArtifactsStay ==
    ASSUME UNCHANGED <<leaf, manifest, files, revealed, log>>, NEW c \in Caller, ArtifactsInv(c), call'[c] = call[c]
    PROVE  ArtifactsInv(c)'
<1>1. PICK r : r = call[c] /\ r = call'[c]
  OBVIOUS
<1>2. CircuitOf(r)' = CircuitOf(r)
  BY BuildStays
<1>3. CircuitOf(call[c])' = CircuitOf(call[c])
  BY <1>1, <1>2
<1>. QED
  BY <1>3 DEF ArtifactsInv, NeedsManifest

\* The same when no artifact is touched.
LEMMA QuietKeeps ==
    ASSUME IInv, UNCHANGED <<chain, wallet, artifacts>>, NEW c \in Caller,
           NEW s \in CallRec, s = call'[c], call' \in [Caller -> CallRec],
           \A d \in Caller \ {c} : call'[d] = call[d],
           call[c].pc \notin {"wait", "done", "failed"},
           s.pc \notin {"truncate", "write", "wait", "done"},
           s.pc = "prove" => ~NeedsManifest(s),
           s.pc = "artifacts" => NeedsManifest(s),
           SelectedInv(s), ProofsInv(s)
    PROVE  IInv'
<1>1. UNCHANGED <<leaf, revealed, log, manifest, files>>
  BY DEF chain, artifacts
<1>2. ASSUME NEW d \in Caller
      PROVE  ArtifactsInv(d)'
  <2>1. CASE d = c
    <3>1. NeedsManifest(call[c])' <=> NeedsManifest(s)
      BY DEF NeedsManifest
    <3>. QED
      BY <2>1, <3>1 DEF ArtifactsInv
  <2>2. CASE d # c
    BY <1>1, <2>2, ArtifactsStay DEF IInv
  <2>. QED
    BY <2>1, <2>2
<1>3. manifest'.circuits \in SUBSET BuiltIn /\ files' \in [BuiltIn -> {"absent", "good", "bad"}]
  BY <1>1 DEF IInv, TypeInv
<1>. QED
  BY <1>2, <1>3, EarlyKeeps

LEMMA BeginKeeps ==
    ASSUME IInv, NEW c \in Caller, NEW request \in Request, Begin(c, request)
    PROVE  IInv'
<1>1. PICK r \in CallRec : r = call[c]
  BY DEF IInv, TypeInv
<1>2. PICK s : s = call'[c]
  OBVIOUS
<1>3. /\ r.pc = "start" /\ SelectedInv(r) /\ ProofsInv(r)
      /\ UNCHANGED <<chain, wallet, artifacts>>
      /\ call' = [call EXCEPT ![c].pc = IF request.relayed THEN "quote" ELSE "select", ![c].request = request]
  BY <1>1 DEF Begin, At, IInv
<1>4. /\ s \in CallRec /\ s.pc = (IF request.relayed THEN "quote" ELSE "select")
      /\ s.reason = r.reason /\ s.request = request /\ s.fee = r.fee /\ s.amount = r.amount
      /\ s.offered = r.offered /\ s.inputs = r.inputs /\ s.todo = r.todo /\ s.roots = r.roots /\ s.seen = r.seen
      /\ call' \in [Caller -> CallRec] /\ \A d \in Caller \ {c} : call'[d] = call[d]
  BY <1>1, <1>2, <1>3 DEF IInv, TypeInv, CallRec, PC
<1>5. r.fee = 0 /\ r.inputs = {} /\ r.offered = {} /\ r.roots = {} /\ r.seen = 0 /\ r.reason = "none"
  BY <1>3 DEF SelectedInv, ProofsInv, Begun
<1>6. request.relayed \in BOOLEAN
  BY PrivateAssumption
<1>7. SelectedInv(s)
  <2>1. 0 <= imported
    BY DEF IInv, TypeInv
  <2>. QED
    BY <1>4, <1>5, <1>6, <2>1 DEF SelectedInv
<1>8. ProofsInv(s)
  BY <1>4, <1>5, <1>6 DEF ProofsInv, Begun, Built
<1>9. s.pc \in {"quote", "select"}
  BY <1>4
<1>. QED
  BY <1>1, <1>2, <1>3, <1>4, <1>7, <1>8, <1>9, QuietKeeps

LEMMA FeeIsNat ==
    ASSUME NEW quote \in Quote
    PROVE  FeeAmount(quote) \in Nat
<1>1. quote \in Nat /\ GasEstimate \in Nat /\ FeeScale \in Nat \ {0}
  BY PrivateAssumption
<1>2. PICK p \in Nat : p = quote * GasEstimate
  BY <1>1
<1>3. p \div FeeScale \in Nat
  BY <1>1
<1>. QED
  BY <1>2, <1>3 DEF FeeAmount

\* A call goes on, or ends, with the notes it took.
Moved(c, pc, reason, s) ==
    /\ s = call'[c] /\ s.pc = pc /\ s.reason = reason /\ SameNotes(call[c], s)
    /\ s.todo = call[c].todo /\ s.roots = call[c].roots
    /\ call' \in [Caller -> CallRec] /\ \A d \in Caller \ {c} : call'[d] = call[d]

Turn(c, pc, reason) == call' = [call EXCEPT ![c] = [@ EXCEPT !.pc = pc, !.reason = reason]]

LEMMA Moves ==
    ASSUME TypeInv, NEW c \in Caller, NEW pc \in PC, NEW reason \in Reasons, Turn(c, pc, reason)
    PROVE  \E s \in CallRec : Moved(c, pc, reason, s)
<1>1. PICK r \in CallRec : r = call[c]
  BY DEF TypeInv
<1>2. PICK s : s = [r EXCEPT !.pc = pc, !.reason = reason]
  OBVIOUS
<1>3. /\ s \in CallRec /\ s.pc = pc /\ s.reason = reason /\ SameNotes(r, s)
      /\ s.todo = r.todo /\ s.roots = r.roots
  BY <1>2 DEF CallRec, SameNotes
<1>4. call' = [call EXCEPT ![c] = s] /\ call \in [Caller -> CallRec]
  BY <1>1, <1>2 DEF TypeInv, Turn
<1>5. call' \in [Caller -> CallRec] /\ call'[c] = s /\ \A d \in Caller \ {c} : call'[d] = call[d]
  BY <1>3, <1>4
<1>. QED
  BY <1>1, <1>3, <1>5 DEF Moved

LEMMA Turns ==
    ASSUME TypeInv, NEW c \in Caller
    PROVE  /\ \A reason : Fail(c, reason) => Turn(c, "failed", reason)
           /\ \A pc : Goto(c, pc) => Turn(c, pc, call[c].reason)
<1>1. PICK r \in CallRec : r = call[c]
  BY DEF TypeInv
<1>2. ASSUME NEW reason, Fail(c, reason)
      PROVE  Turn(c, "failed", reason)
  BY <1>2 DEF Fail, TypeInv, Turn
<1>3. ASSUME NEW pc, Goto(c, pc)
      PROVE  Turn(c, pc, call[c].reason)
  <2>1. [r EXCEPT !.pc = pc] = [r EXCEPT !.pc = pc, !.reason = r.reason]
    BY DEF CallRec
  <2>. QED
    BY <1>1, <1>3, <2>1 DEF Goto, TypeInv, Turn
<1>. QED
  BY <1>2, <1>3

LEMMA Fails ==
    ASSUME TypeInv, NEW c \in Caller, NEW reason \in Reasons, Fail(c, reason)
    PROVE  \E s \in CallRec : Moved(c, "failed", reason, s)
<1>1. "failed" \in PC
  BY DEF PC
<1>. QED
  BY <1>1, Turns, Moves

LEMMA Goes ==
    ASSUME TypeInv, NEW c \in Caller, NEW pc \in PC, Goto(c, pc)
    PROVE  \E s \in CallRec : Moved(c, pc, call[c].reason, s)
<1>1. call[c].reason \in Reasons
  BY DEF TypeInv, CallRec
<1>. QED
  BY <1>1, Turns, Moves

\* A call that fails before it has sent anything.
LEMMA FailKeeps ==
    ASSUME IInv, NEW c \in Caller, NEW reason \in {"fee", "broadcaster", "balance", "roots", "circuit", "download",
                                                   "manifest", "witness", "verify", "estimate", "refused"},
           Fail(c, reason), UNCHANGED <<chain, wallet, artifacts>>,
           call[c].pc \notin {"start", "wait", "done", "failed"}
    PROVE  IInv'
<1>1. PICK r \in CallRec : r = call[c]
  BY DEF IInv, TypeInv
<1>2. reason \in Reasons
  BY DEF Reasons
<1>3. PICK s \in CallRec : Moved(c, "failed", reason, s)
  BY <1>2, Fails DEF IInv
<1>4. /\ s = call'[c] /\ s.pc = "failed" /\ s.reason = reason /\ SameNotes(r, s)
      /\ call' \in [Caller -> CallRec] /\ \A d \in Caller \ {c} : call'[d] = call[d]
  BY <1>1, <1>3 DEF Moved
<1>5. SelectedInv(s)
  <2>1. SelectedInv(r) /\ s.reason # "utxos"
    BY <1>1, <1>4 DEF IInv
  <2>. QED
    BY <1>4, <2>1, SelectedSame
<1>6. ProofsInv(s)
  BY <1>4 DEF ProofsInv, Begun, Built
<1>. QED
  BY <1>1, <1>4, <1>5, <1>6, QuietKeeps

LEMMA SelectBroadcasterKeeps ==
    ASSUME IInv, NEW c \in Caller, SelectBroadcaster(c)
    PROVE  IInv'
<1>1. PICK r \in CallRec : r = call[c]
  BY DEF IInv, TypeInv
<1>2. PICK s : s = call'[c]
  OBVIOUS
<1>3. /\ r.pc = "quote" /\ SelectedInv(r) /\ ProofsInv(r)
      /\ UNCHANGED <<chain, wallet, artifacts>>
  BY <1>1 DEF SelectBroadcaster, At, IInv
<1>4. CASE Fail(c, "fee") \/ Fail(c, "broadcaster")
  BY <1>1, <1>3, <1>4, FailKeeps
<1>5. CASE \E quote \in Quote : /\ FeeAmount(quote) # 0
                                /\ call' = [call EXCEPT ![c].pc = "select", ![c].fee = FeeAmount(quote)]
  <2>1. PICK quote \in Quote : /\ FeeAmount(quote) # 0
                               /\ call' = [call EXCEPT ![c].pc = "select", ![c].fee = FeeAmount(quote)]
    BY <1>5
  <2>2. PICK fee \in Nat : fee = FeeAmount(quote) /\ fee > 0
    BY <2>1, FeeIsNat
  <2>7. PICK n : n = [r EXCEPT !.pc = "select", !.fee = fee]
    OBVIOUS
  <2>8. call' = [call EXCEPT ![c] = n] /\ call \in [Caller -> CallRec]
    BY <1>1, <2>1, <2>2, <2>7 DEF IInv, TypeInv
  <2>9. "select" \in PC
    BY DEF PC
  <2>10. n \in CallRec
    BY <2>2, <2>7, <2>9 DEF CallRec
  <2>11. s = n /\ call' \in [Caller -> CallRec] /\ \A d \in Caller \ {c} : call'[d] = call[d]
    BY <1>2, <2>8, <2>10
  <2>3. /\ s \in CallRec /\ s.pc = "select" /\ s.fee = fee
        /\ s.reason = r.reason /\ s.request = r.request /\ s.amount = r.amount
        /\ s.offered = r.offered /\ s.inputs = r.inputs /\ s.todo = r.todo /\ s.roots = r.roots /\ s.seen = r.seen
        /\ call' \in [Caller -> CallRec] /\ \A d \in Caller \ {c} : call'[d] = call[d]
    BY <2>7, <2>10, <2>11 DEF CallRec
  <2>4. r.request.relayed /\ r.inputs = {} /\ r.offered = {} /\ r.roots = {} /\ r.seen = 0 /\ r.reason = "none"
    BY <1>3 DEF SelectedInv, ProofsInv, Begun
  <2>5. SelectedInv(s)
    <3>1. 0 <= imported
      BY DEF IInv, TypeInv
    <3>2. s.request.relayed <=> s.fee > 0
      BY <2>2, <2>3, <2>4
    <3>. QED
      BY <2>3, <2>4, <3>1, <3>2 DEF SelectedInv
  <2>6. ProofsInv(s)
    BY <2>3, <2>4 DEF ProofsInv, Begun, Built
  <2>. QED
    BY <1>1, <1>2, <1>3, <2>3, <2>5, <2>6, QuietKeeps
<1>. QED
  BY <1>4, <1>5 DEF SelectBroadcaster

-----------------------------------------------------------------------------
(* Which notes are taken.                                                   *)

\* The order of the notes is a strict and total one.
LEMMA BeforeIs ==
    ASSUME TypeInv, NEW i \in Keys, NEW j \in Keys, NEW k \in Keys
    PROVE  /\ i # j => Before(i, j, leaf) \/ Before(j, i, leaf)
           /\ ~(Before(i, j, leaf) /\ Before(j, i, leaf))
           /\ ~Before(i, i, leaf)
           /\ Before(i, j, leaf) /\ Before(j, k, leaf) => Before(i, k, leaf)
           /\ Before(i, j, leaf) => leaf[i] <= leaf[j]
<1>1. leaf[i] \in Nat /\ leaf[j] \in Nat /\ leaf[k] \in Nat
  BY DEF TypeInv
<1>2. i \in Nat /\ j \in Nat /\ k \in Nat
  BY PlaceKey
<1>. QED
  BY <1>1, <1>2 DEF Before

LEMMA FirstNote ==
    ASSUME TypeInv, NEW S \in SUBSET Keys, S # {}
    PROVE  \E k \in S : \A j \in S \ {k} : Before(k, j, leaf)
<1>. DEFINE V == {leaf[k] : k \in S}
<1>1. V \in SUBSET Nat /\ V # {}
  BY DEF TypeInv
<1>2. PICK m \in V : \A x \in V : m <= x
  <2>. HIDE DEF V
  <2>. QED
    BY <1>1, LeastNat
<1>. DEFINE T == {k \in S : leaf[k] = m}
<1>3. T \in SUBSET Nat /\ T # {}
  BY <1>2, PlaceKey
<1>4. PICK k \in T : \A j \in T : k <= j
  <2>. HIDE DEF T
  <2>. QED
    BY <1>3, LeastNat
<1>5. ASSUME NEW j \in S \ {k}
      PROVE  Before(k, j, leaf)
  <2>1. m <= leaf[j] /\ leaf[k] = m /\ m \in Nat /\ leaf[j] \in Nat
    BY <1>1, <1>2, <1>4 DEF TypeInv
  <2>2. leaf[j] = m => k <= j /\ k # j
    BY <1>4
  <2>3. j \in Nat /\ k \in Nat
    BY <1>3, <1>4, PlaceKey
  <2>. QED
    BY <2>1, <2>2, <2>3 DEF Before
<1>. QED
  BY <1>4, <1>5

LEMMA LastNote ==
    ASSUME TypeInv, NEW S \in SUBSET Keys, S # {}
    PROVE  \E k \in S : \A j \in S \ {k} : Before(j, k, leaf)
<1>. DEFINE Good == {T \in SUBSET S : T = {} \/ \E k \in T : \A j \in T \ {k} : Before(j, k, leaf)}
<1>1. IsFiniteSet(S)
  BY KeysFinite, FS_Subset
<1>2. Good \in SUBSET SUBSET S /\ {} \in Good
  OBVIOUS
<1>3. ASSUME NEW T \in Good, NEW x \in S \ T
      PROVE  T \cup {x} \in Good
  <2>1. CASE T = {}
    <3>1. x \in T \cup {x} /\ \A j \in (T \cup {x}) \ {x} : Before(j, x, leaf)
      BY <2>1
    <3>. QED
      BY <3>1
  <2>2. CASE T # {}
    <3>1. PICK k \in T : \A j \in T \ {k} : Before(j, k, leaf)
      BY <2>2
    <3>2. k \in Keys /\ x \in Keys /\ T \in SUBSET Keys /\ x # k
      OBVIOUS
    <3>3. CASE Before(x, k, leaf)
      <4>1. \A j \in (T \cup {x}) \ {k} : Before(j, k, leaf)
        BY <3>1, <3>3
      <4>. QED
        BY <4>1
    <3>4. CASE Before(k, x, leaf)
      <4>1. ASSUME NEW j \in T
            PROVE  Before(j, x, leaf)
        <5>1. j = k \/ Before(j, k, leaf)
          BY <3>1
        <5>. QED
          BY <3>2, <3>4, <5>1, BeforeIs
      <4>2. \A j \in (T \cup {x}) \ {x} : Before(j, x, leaf)
        BY <4>1
      <4>3. x \in T \cup {x} /\ T \cup {x} \in SUBSET S
        OBVIOUS
      <4>. QED
        BY <4>2, <4>3
    <3>. QED
      BY <3>2, <3>3, <3>4, BeforeIs
  <2>. QED
    BY <2>1, <2>2
<1>4. S \in Good
  <2>. HIDE DEF Good
  <2>. QED
    BY <1>1, <1>2, <1>3, OneByOne
<1>. QED
  BY <1>4

\* The sums of the notes of a tree.
LEMMA WorthIs ==
    ASSUME TypeInv, NEW S \in SUBSET Keys
    PROVE  /\ IsFiniteSet(S) /\ Worth(S) \in Nat /\ Cardinality(S) \in Nat
           /\ \A T \in SUBSET S : Worth(T) <= Worth(S) /\ Worth(T) \in Nat
           /\ \A k \in S : Worth(S) = leaf[k] + Worth(S \ {k}) /\ leaf[k] \in Nat
<1>1. IsFiniteSet(S) /\ \A k \in S : leaf[k] \in Nat
  BY KeysFinite, FS_Subset DEF TypeInv
<1>2. Worth(S) \in Nat /\ \A T \in SUBSET S : Worth(T) <= Worth(S)
  BY <1>1, SumNat DEF Worth
<1>3. ASSUME NEW T \in SUBSET S
      PROVE  Worth(T) \in Nat
  <2>1. IsFiniteSet(T) /\ \A k \in T : leaf[k] \in Nat
    BY <1>1, FS_Subset
  <2>. QED
    BY <2>1, SumNat DEF Worth
<1>4. ASSUME NEW k \in S
      PROVE  Worth(S) = leaf[k] + Worth(S \ {k}) /\ leaf[k] \in Nat
  <2>1. \A j \in S : leaf[j] \in Int
    BY <1>1
  <2>. QED
    BY <1>1, <2>1, SumRemove DEF Worth
<1>. QED
  BY <1>1, <1>2, <1>3, <1>4, FS_CardinalityType

\* The smallest notes that cover what is required are no more than it takes.
LEMMA AscendingCovers ==
    ASSUME TypeInv, NEW T \in SUBSET Keys, NEW need \in Nat, need > 0, Worth(T) >= need
    PROVE  LET X == Ascending(T, leaf, need)
           IN  /\ X \in SUBSET T /\ X # {} /\ Worth(X) >= need
               /\ Worth(X) - Max({leaf[k] : k \in X}) < need
<1>. DEFINE X == Ascending(T, leaf, need)
            Smaller(k) == {j \in T : Before(j, k, leaf)}
<1>1. X \in SUBSET T /\ \A k \in T : k \in X <=> Worth(Smaller(k)) < need
  BY DEF Ascending, Worth
<1>2. \A k \in T : Smaller(k) \in SUBSET T /\ Smaller(k) \in SUBSET Keys
  OBVIOUS
<1>3. X \in SUBSET Keys /\ Worth(X) \in Nat
  BY <1>1, WorthIs
<1>. HIDE DEF X
<1>4. Worth(X) >= need
  <2>1. CASE X = T
    BY <2>1
  <2>2. CASE X # T
    <3>1. T \ X \in SUBSET Keys /\ T \ X # {}
      BY <1>1, <2>2
    <3>2. PICK k \in T \ X : \A j \in (T \ X) \ {k} : Before(k, j, leaf)
      BY <3>1, FirstNote
    <3>3. Smaller(k) \in SUBSET X
      <4>1. SUFFICES ASSUME NEW j \in T, Before(j, k, leaf)
                     PROVE  j \in X
        OBVIOUS
      <4>2. j \in Keys /\ k \in Keys
        OBVIOUS
      <4>3. j # k /\ ~Before(k, j, leaf)
        BY <4>1, <4>2, BeforeIs
      <4>. QED
        BY <3>2, <4>3
    <3>4. ~(Worth(Smaller(k)) < need)
      BY <1>1, <3>2
    <3>. HIDE DEF Smaller
    <3>5. Worth(Smaller(k)) <= Worth(X) /\ Worth(Smaller(k)) \in Nat
      BY <1>3, <3>3, WorthIs
    <3>. QED
      BY <1>3, <3>4, <3>5
  <2>. QED
    BY <2>1, <2>2
<1>5. X # {}
  <2>1. Worth({}) = 0
    BY SumEmpty DEF Worth
  <2>. QED
    BY <1>4, <2>1
<1>6. PICK m \in X : \A j \in X \ {m} : Before(j, m, leaf)
  BY <1>3, <1>5, LastNote
<1>7. X \ {m} \in SUBSET Smaller(m) /\ m \in T
  BY <1>1, <1>6
<1>8. Worth(Smaller(m)) < need
  BY <1>1, <1>6
<1>9. Worth(X \ {m}) < need
  <2>1. Smaller(m) \in SUBSET Keys
    BY <1>2, <1>7
  <2>. HIDE DEF Smaller
  <2>2. Worth(X \ {m}) <= Worth(Smaller(m)) /\ Worth(Smaller(m)) \in Nat /\ Worth(X \ {m}) \in Nat
    BY <1>7, <2>1, WorthIs
  <2>. QED
    BY <1>8, <2>2
<1>10. Max({leaf[k] : k \in X}) = leaf[m]
  <2>. DEFINE V == {leaf[k] : k \in X}
  <2>1. V \in SUBSET Int /\ leaf[m] \in V
    BY <1>3 DEF TypeInv
  <2>2. \A y \in V : y <= leaf[m]
    <3>1. ASSUME NEW k \in X
          PROVE  leaf[k] <= leaf[m]
      <4>1. leaf[k] \in Nat /\ leaf[m] \in Nat
        BY <1>3 DEF TypeInv
      <4>2. k = m \/ Before(k, m, leaf)
        BY <1>6
      <4>. QED
        BY <1>3, <4>1, <4>2, BeforeIs
    <3>. QED
      BY <3>1
  <2>. HIDE DEF V
  <2>3. Max(V) = leaf[m]
    BY <2>1, <2>2, MaxIsThis
  <2>. QED
    BY <2>3 DEF V
<1>11. Worth(X) = leaf[m] + Worth(X \ {m}) /\ leaf[m] \in Nat /\ Worth(X \ {m}) \in Nat
  BY <1>3, WorthIs
<1>12. Worth(X) - Max({leaf[k] : k \in X}) < need
  BY <1>9, <1>10, <1>11
<1>. QED
  BY <1>1, <1>4, <1>5, <1>12 DEF X

\* Notes that cover what is required, and not without the largest of them.
Covering(X, T, need) ==
    /\ X \in SUBSET T /\ X # {} /\ Cardinality(X) <= MaxInputs
    /\ Worth(X) >= need /\ Worth(X) - Max({leaf[k] : k \in X}) < need

LEMMA ExactIs ==
    ASSUME TypeInv, NEW T \in SUBSET Keys, NEW need \in Nat, need > 0
    PROVE  LET solutions == FindExactSolutionsOverTargetValue(T, leaf, need)
           IN  \/ solutions = {{}} /\ Worth(T) < need
               \/ solutions = {} /\ Worth(T) >= need
                  /\ Cardinality(Ascending(T, leaf, need)) > MaxInputs
               \/ Worth(T) >= need /\ \E X : solutions = {X} /\ Covering(X, T, need)
<1>. DEFINE solutions == FindExactSolutionsOverTargetValue(T, leaf, need)
            exact == {k \in T : leaf[k] = need}
            selected == Ascending(T, leaf, need)
<1>1. solutions = IF Worth(T) < need THEN {{}}
                  ELSE IF exact # {} THEN {{Min(exact)}}
                  ELSE IF Cardinality(selected) <= MaxInputs THEN {selected} ELSE {}
  BY DEF FindExactSolutionsOverTargetValue, Worth
<1>2. Worth(T) \in Nat /\ MaxInputs \in Nat \ {0}
  BY WorthIs, SelectionAssumption
<1>3. CASE Worth(T) < need
  BY <1>1, <1>3
<1>4. CASE Worth(T) >= need /\ exact # {}
  <2>1. exact \in SUBSET Nat
    BY PlaceKey
  <2>2. PICK i \in exact : \A j \in exact : i <= j
    <3>. HIDE DEF exact
    <3>. QED
      BY <1>4, <2>1, LeastNat
  <2>3. Min(exact) \in exact
    <3>. HIDE DEF exact
    <3>. QED
      BY <2>2 DEF Min
  <2>4. PICK m : m = Min(exact)
    OBVIOUS
  <2>5. m \in T /\ leaf[m] = need /\ m \in Keys
    BY <2>3, <2>4
  <2>6. Worth({m}) = need
    <3>1. leaf[m] \in Int
      BY <2>5
    <3>. QED
      BY <2>5, <3>1, SumOne DEF Worth
  <2>7. Max({leaf[k] : k \in {m}}) = need
    <3>1. {leaf[k] : k \in {m}} = {need}
      BY <2>5
    <3>2. Max({need}) = need
      <4>1. {need} \in SUBSET Int /\ need \in {need} /\ \A y \in {need} : y <= need
        OBVIOUS
      <4>. QED
        BY <4>1, MaxIsThis
    <3>. QED
      BY <3>1, <3>2
  <2>8. Cardinality({m}) = 1
    BY FS_Singleton
  <2>9. Covering({m}, T, need)
    BY <1>2, <2>5, <2>6, <2>7, <2>8 DEF Covering
  <2>10. solutions = {{m}}
    BY <1>1, <1>2, <1>4, <2>4
  <2>. QED
    BY <1>4, <2>9, <2>10
<1>5. CASE Worth(T) >= need /\ exact = {} /\ Cardinality(selected) <= MaxInputs
  <2>1. Covering(selected, T, need)
    BY <1>5, AscendingCovers DEF Covering
  <2>2. solutions = {selected}
    BY <1>1, <1>2, <1>5
  <2>. QED
    BY <1>5, <2>1, <2>2
<1>6. CASE Worth(T) >= need /\ exact = {} /\ ~(Cardinality(selected) <= MaxInputs)
  <2>1. solutions = {}
    BY <1>1, <1>2, <1>6
  <2>2. Cardinality(selected) \in Nat
    <3>1. selected \in SUBSET Keys
      BY DEF Ascending
    <3>. QED
      BY <3>1, WorthIs
  <2>3. Cardinality(selected) > MaxInputs
    BY <1>2, <1>6, <2>2
  <2>. QED
    BY <1>6, <2>1, <2>3
<1>. QED
  BY <1>2, <1>3, <1>4, <1>5, <1>6

\* One solution at most; and none only for the reasons there are.
LEMMA GroupIs ==
    ASSUME TypeInv, NEW N \in SUBSET Keys, NEW need \in Nat, need > 0
    PROVE  LET solutions == CreateSimpleSatisfyingUTXOGroup(N, leaf, need)
           IN  /\ \A X \in solutions : ~(solutions \subseteq {{}}) =>
                      \E t \in Trees : Covering(X, InTree(N, t), need)
               /\ solutions \subseteq {{}} =>
                      \A t \in Trees :
                          (\E notes \in SUBSET InTree(N, t) :
                                Cardinality(notes) <= MaxInputs /\ Worth(notes) >= need)
                          => \/ \E k \in N : \E u \in (t + 1)..TreeOf(k) : Worth(InTree(N, u)) < need
                             \/ Cardinality(Ascending(InTree(N, t), leaf, need)) > MaxInputs
<1>. DEFINE found(t) == FindExactSolutionsOverTargetValue(InTree(N, t), leaf, need)
            trees == {TreeOf(k) : k \in N} \cup {0}
            solved == {t \in 0..Max(trees) : found(t) # {}}
            solutions == CreateSimpleSatisfyingUTXOGroup(N, leaf, need)
<1>1. solutions = IF N = {} \/ solved = {} THEN {} ELSE found(Max(solved))
  BY DEF CreateSimpleSatisfyingUTXOGroup
<1>2. LastTree \in Nat /\ Trees = 0..LastTree
  BY PrivateAssumption DEF Trees
<1>3. trees \in SUBSET (0..LastTree) /\ trees # {}
  <2>1. \A k \in N : TreeOf(k) \in 0..LastTree
    BY <1>2, PlaceKey
  <2>2. 0 \in 0..LastTree
    BY <1>2
  <2>. QED
    BY <2>1, <2>2
<1>4. Max(trees) \in trees /\ \A t \in trees : t <= Max(trees)
  <2>. HIDE DEF trees
  <2>. QED
    BY <1>2, <1>3, MaxIs
<1>. DEFINE mx == Max(trees)
<1>5. mx \in Trees /\ mx \in Nat /\ \A t \in 0..mx : t \in Trees
  BY <1>2, <1>3, <1>4
<1>6. ASSUME NEW t \in Trees
      PROVE  \/ found(t) = {{}} /\ Worth(InTree(N, t)) < need
             \/ found(t) = {} /\ Worth(InTree(N, t)) >= need
                /\ Cardinality(Ascending(InTree(N, t), leaf, need)) > MaxInputs
             \/ Worth(InTree(N, t)) >= need /\ \E X : found(t) = {X} /\ Covering(X, InTree(N, t), need)
  <2>1. InTree(N, t) \in SUBSET Keys
    BY DEF InTree
  <2>. QED
    BY <2>1, ExactIs
<1>. HIDE DEF found, mx
<1>7. ASSUME solved # {}
      PROVE  /\ Max(solved) \in solved /\ \A t \in solved : t <= Max(solved)
             /\ Max(solved) \in Trees /\ Max(solved) <= mx
  <2>1. solved \in SUBSET (0..mx)
    BY DEF mx
  <2>. HIDE DEF solved
  <2>2. Max(solved) \in solved /\ \A t \in solved : t <= Max(solved)
    BY <1>5, <1>7, <2>1, MaxIs
  <2>3. PICK u : u = Max(solved)
    OBVIOUS
  <2>4. u \in 0..mx
    BY <2>1, <2>2, <2>3
  <2>5. u \in Trees /\ u <= mx
    BY <1>5, <2>4
  <2>. QED
    BY ONLY <2>2, <2>3, <2>5
<1>8. ASSUME NEW X \in solutions, ~(solutions \subseteq {{}})
      PROVE  \E t \in Trees : Covering(X, InTree(N, t), need)
  <2>1. solved # {} /\ solutions = found(Max(solved))
    BY <1>1, <1>8
  <2>2. PICK u \in Trees : u = Max(solved)
    BY <1>7, <2>1
  <2>. HIDE DEF solutions, solved
  <2>3. \E Y : found(u) = {Y} /\ Covering(Y, InTree(N, u), need)
    BY <1>6, <1>8, <2>1, <2>2
  <2>. QED
    BY <1>8, <2>1, <2>2, <2>3
<1>9. ASSUME solutions \subseteq {{}}, NEW t \in Trees, NEW notes \in SUBSET InTree(N, t), Worth(notes) >= need
      PROVE  \/ \E k \in N : \E u \in (t + 1)..TreeOf(k) : Worth(InTree(N, u)) < need
             \/ Cardinality(Ascending(InTree(N, t), leaf, need)) > MaxInputs
  <2>1. InTree(N, t) \in SUBSET Keys /\ InTree(N, t) \in SUBSET N
    BY DEF InTree
  <2>2. Worth(InTree(N, t)) >= need /\ Worth(InTree(N, t)) \in Nat
    <3>1. Worth(notes) <= Worth(InTree(N, t)) /\ Worth(notes) \in Nat /\ Worth(InTree(N, t)) \in Nat
      BY <2>1, WorthIs
    <3>. QED
      BY <1>9, <3>1
  <2>3. PICK j : j \in InTree(N, t)
    <3>1. Worth({}) = 0
      BY SumEmpty DEF Worth
    <3>2. InTree(N, t) # {}
      BY <2>2, <3>1
    <3>. QED
      BY <3>2
  <2>4. j \in N /\ TreeOf(j) = t /\ t \in 0..mx
    <3>1. j \in N /\ TreeOf(j) = t
      BY <2>3 DEF InTree
    <3>2. t <= mx
      BY <1>4, <3>1 DEF mx
    <3>. QED
      BY <1>2, <1>5, <3>1, <3>2
  <2>5. CASE found(t) = {}
    BY <1>6, <2>5
  <2>6. CASE found(t) # {}
    <3>1. t \in solved
      BY <2>4, <2>6 DEF mx
    <3>2. PICK u \in Trees : u = Max(solved)
      BY <1>7, <3>1
    <3>3. solutions = found(u)
      BY <1>1, <2>4, <3>1, <3>2
    <3>4. t <= u /\ u <= mx /\ found(u) # {}
      BY <1>7, <3>1, <3>2
    <3>. HIDE DEF solutions, solved
    <3>5. found(u) = {{}} /\ Worth(InTree(N, u)) < need
      <4>1. \A X : Covering(X, InTree(N, u), need) => X # {}
        BY DEF Covering
      <4>. QED
        BY <1>6, <1>9, <3>3, <3>4, <4>1
    <3>6. t # u
      BY <2>2, <3>5
    <3>7. u \in Nat /\ t \in Nat /\ u > 0
      BY <1>2, <3>4, <3>6
    <3>8. PICK m \in Nat : m = mx /\ u <= m
      BY <1>5, <3>4
    <3>11. m > 0
      BY <3>7, <3>8
    <3>9. PICK k \in N : TreeOf(k) = mx
      <4>1. m \in trees
        BY <1>4, <3>8 DEF mx
      <4>2. m \in {TreeOf(k) : k \in N}
        BY <3>11, <4>1
      <4>. QED
        BY <3>8, <4>2
    <3>10. u \in (t + 1)..TreeOf(k)
      <4>1. TreeOf(k) = m /\ u \in Nat /\ t \in Nat /\ t <= u /\ t # u
        BY <3>4, <3>6, <3>7, <3>8, <3>9
      <4>. QED
        BY <3>8, <4>1
    <3>. QED
      BY <3>5, <3>9, <3>10
  <2>. QED
    BY <2>5, <2>6
<1>. QED
  BY <1>8, <1>9

\* What a call asks for, and that the fee comes on top.
LEMMA AskedIs ==
    ASSUME NEW r \in CallRec, NEW balance \in Nat
    PROVE  /\ Asked(r, balance) \in Int /\ r.fee \in Nat /\ r.request.amount \in Nat
           /\ IF r.request.amount > 0 THEN Asked(r, balance) = r.request.amount
              ELSE Asked(r, balance) + r.fee = balance
<1>1. r.fee \in Nat /\ r.request \in Request \cup {NoRequest}
  BY DEF CallRec
<1>2. r.request.amount \in Nat
  BY <1>1, PrivateAssumption DEF NoRequest
<1>. QED
  BY <1>1, <1>2 DEF Asked

LEMMA SelectUTXOsKeeps ==
    ASSUME IInv, NEW c \in Caller, SelectUTXOs(c)
    PROVE  IInv'
<1>1. PICK r \in CallRec : r = call[c]
  BY DEF IInv, TypeInv
<1>2. PICK s : s = call'[c]
  OBVIOUS
<1>3. /\ r.pc = "select" /\ SelectedInv(r) /\ ProofsInv(r) /\ TypeInv
      /\ UNCHANGED <<chain, wallet, artifacts>>
  BY <1>1 DEF SelectUTXOs, At, IInv
<1>4. PICK N : N = Spendable
  OBVIOUS
<1>5. N \in SUBSET known /\ N \in SUBSET Keys
  BY <1>3, <1>4 DEF TypeInv, Spendable
<1>6. \A n \in 1..imported : \A k \in N \cap log[n].spends : TreeOf(k) > 0
  <2>1. SUFFICES ASSUME NEW n \in 1..imported, NEW k \in N \cap log[n].spends
                 PROVE  TreeOf(k) > 0
    OBVIOUS
  <2>2. k \notin marked
    BY <1>4 DEF Spendable
  <2>3. TreeOf(k) # 0
    BY <2>2 DEF IInv, WalletInv
  <2>4. TreeOf(k) \in Nat
    BY <1>5, PlaceKey, PrivateAssumption DEF Trees
  <2>. QED
    BY <2>3, <2>4
<1>7. Worth(N) \in Nat
  BY <1>3, <1>5, WorthIs
<1>8. PICK amount \in Int : amount = Asked(r, Worth(N))
  BY <1>7, AskedIs
<1>9. /\ r.fee \in Nat
      /\ IF r.request.amount > 0 THEN amount = r.request.amount ELSE amount + r.fee = Worth(N)
  BY <1>7, <1>8, AskedIs
<1>10. PICK solutions : solutions = CreateSimpleSatisfyingUTXOGroup(N, leaf, amount + r.fee)
  OBVIOUS
<1>11. IF amount <= 0 THEN Fail(c, "balance")
       ELSE IF solutions \subseteq {{}}
       THEN call' = [call EXCEPT ![c].pc = "failed", ![c].reason = "utxos", ![c].amount = amount, ![c].offered = N]
       ELSE \E X \in solutions :
              call' = [call EXCEPT ![c].pc = "proofs", ![c].amount = amount, ![c].offered = N, ![c].seen = imported,
                                   ![c].inputs = X, ![c].todo = X]
  BY <1>1, <1>4, <1>8, <1>10 DEF SelectUTXOs, Worth
<1>12. /\ r.inputs = {} /\ r.offered = {} /\ r.roots = {} /\ r.seen = 0 /\ r.reason = "none"
       /\ r.request.relayed <=> r.fee > 0
  BY <1>3 DEF SelectedInv, ProofsInv, Begun
<1>13. imported \in Nat
  BY <1>3 DEF TypeInv
<1>14. CASE amount <= 0
  BY <1>1, <1>3, <1>11, <1>14, FailKeeps
<1>15. CASE ~(amount <= 0)
  <2>1. PICK need \in Nat : need = amount + r.fee /\ need > 0
    BY <1>9, <1>15
  <2>2. /\ \A X \in solutions : ~(solutions \subseteq {{}}) =>
                      \E t \in Trees : Covering(X, InTree(N, t), need)
        /\ solutions \subseteq {{}} =>
                      \A t \in Trees :
                          (\E notes \in SUBSET InTree(N, t) :
                                Cardinality(notes) <= MaxInputs /\ Worth(notes) >= need)
                          => \/ \E k \in N : \E u \in (t + 1)..TreeOf(k) : Worth(InTree(N, u)) < need
                             \/ Cardinality(Ascending(InTree(N, t), leaf, need)) > MaxInputs
    BY <1>3, <1>5, <1>10, <2>1, GroupIs
  <2>3. CASE solutions \subseteq {{}}
    <3>1. PICK n : n = [r EXCEPT !.pc = "failed", !.reason = "utxos", !.amount = amount, !.offered = N]
      OBVIOUS
    <3>2. call' = [call EXCEPT ![c] = n] /\ call \in [Caller -> CallRec]
      BY <1>1, <1>3, <1>11, <1>15, <2>3, <3>1 DEF TypeInv
    <3>3. "failed" \in PC /\ "utxos" \in Reasons
      BY DEF PC, Reasons
    <3>4. n \in CallRec
      BY <1>5, <3>1, <3>3 DEF CallRec
    <3>5. s = n /\ call' \in [Caller -> CallRec] /\ \A d \in Caller \ {c} : call'[d] = call[d]
      BY <1>2, <3>2, <3>4
    <3>6. /\ s.pc = "failed" /\ s.reason = "utxos" /\ s.amount = amount /\ s.offered = N
          /\ s.request = r.request /\ s.fee = r.fee /\ s.inputs = {} /\ s.seen = 0
      BY <1>12, <3>1, <3>5 DEF CallRec
    <3>7. Need(s) = need
      BY <2>1, <3>6 DEF Need
    <3>8. SelectedInv(s)
      <4>1. 1..0 = {} /\ 0 <= imported
        BY <1>13
      <4>. QED
        BY <1>5, <2>2, <2>3, <3>6, <3>7, <4>1 DEF SelectedInv
    <3>9. ProofsInv(s)
      BY <3>6 DEF ProofsInv, Begun, Built
    <3>. QED
      BY <1>1, <1>2, <1>3, <3>4, <3>5, <3>6, <3>8, <3>9, QuietKeeps
  <2>4. CASE ~(solutions \subseteq {{}})
    <3>1. PICK X \in solutions :
              call' = [call EXCEPT ![c].pc = "proofs", ![c].amount = amount, ![c].offered = N, ![c].seen = imported,
                                   ![c].inputs = X, ![c].todo = X]
      BY <1>11, <1>15, <2>4
    <3>2. PICK t \in Trees : Covering(X, InTree(N, t), need)
      BY <2>2, <2>4, <3>1
    <3>3. /\ X \in SUBSET InTree(N, t) /\ X # {} /\ X \in SUBSET Keys /\ Cardinality(X) <= MaxInputs
          /\ Worth(X) >= need /\ Worth(X) - Max({leaf[k] : k \in X}) < need
      BY <1>5, <3>2 DEF Covering, InTree
    <3>4. PICK n : n = [r EXCEPT !.pc = "proofs", !.amount = amount, !.offered = N, !.seen = imported,
                                 !.inputs = X, !.todo = X]
      OBVIOUS
    <3>5. call' = [call EXCEPT ![c] = n] /\ call \in [Caller -> CallRec]
      BY <1>1, <1>3, <3>1, <3>4 DEF TypeInv
    <3>6. "proofs" \in PC
      BY DEF PC
    <3>7. n \in CallRec
      BY <1>5, <1>13, <3>3, <3>4, <3>6 DEF CallRec
    <3>8. s = n /\ call' \in [Caller -> CallRec] /\ \A d \in Caller \ {c} : call'[d] = call[d]
      BY <1>2, <3>5, <3>7
    <3>9. /\ s.pc = "proofs" /\ s.reason = "none" /\ s.amount = amount /\ s.offered = N /\ s.request = r.request
          /\ s.fee = r.fee /\ s.inputs = X /\ s.todo = X /\ s.seen = imported /\ s.roots = {}
      BY <1>12, <3>4, <3>8 DEF CallRec
    <3>10. Need(s) = need
      BY <2>1, <3>9 DEF Need
    <3>11. SelectedInv(s)
      <4>1. /\ s.request.relayed <=> s.fee > 0
            /\ amount > 0 /\ s.reason # "utxos" /\ imported <= imported
            /\ IF s.request.amount > 0 THEN s.amount = s.request.amount ELSE s.amount + s.fee = Worth(s.offered)
        BY <1>9, <1>12, <1>13, <1>15, <3>9
      <4>. QED
        BY <1>5, <1>6, <3>3, <3>9, <3>10, <4>1 DEF SelectedInv
    <3>12. ProofsInv(s)
      BY <3>3, <3>9 DEF ProofsInv, Begun, Built
    <3>. QED
      BY <1>1, <1>2, <1>3, <3>7, <3>8, <3>9, <3>11, <3>12, QuietKeeps
  <2>. QED
    BY <2>3, <2>4
<1>. QED
  BY <1>14, <1>15

-----------------------------------------------------------------------------
(* The Merkle proofs, the artifacts and the proof.                          *)

\* One root is one: what is read must be what was read before.
LEMMA OneRootIs ==
    ASSUME NEW roots, \A x, y \in roots : x = y, NEW x, OneRoot(roots \cup {x})
    PROVE  roots \cup {x} = {x}
<1>1. CASE \E y \in roots : y # x
  <2>1. PICK y \in roots : y # x
    BY <1>1
  <2>2. roots \cup {x} = {x} \cup {y}
    BY <2>1
  <2>3. IsFiniteSet({x}) /\ Cardinality({x}) = 1 /\ y \notin {x}
    BY <2>1, FS_Singleton
  <2>4. Cardinality({x} \cup {y}) = 2
    BY <2>3, FS_AddElement
  <2>. QED
    BY <2>2, <2>4 DEF OneRoot
<1>2. CASE \A y \in roots : y = x
  BY <1>2
<1>. QED
  BY <1>1, <1>2

LEMMA UTXOMerkleProofKeeps ==
    ASSUME IInv, NEW c \in Caller, UTXOMerkleProofForTXO(c)
    PROVE  IInv'
<1>1. PICK r \in CallRec : r = call[c]
  BY DEF IInv, TypeInv
<1>2. PICK s : s = call'[c]
  OBVIOUS
<1>13. At(c, "proofs") /\ UNCHANGED <<chain, wallet, artifacts>>
  BY Zenon DEF UTXOMerkleProofForTXO
<1>3. /\ r.pc = "proofs" /\ SelectedInv(r) /\ ProofsInv(r) /\ TypeInv
      /\ UNCHANGED <<chain, wallet, artifacts>>
  BY <1>1, <1>13 DEF At, IInv
<1>4. /\ r.inputs # {} /\ r.todo \subseteq r.inputs /\ r.todo # {} /\ r.reason = "none"
      /\ r.roots = {} <=> r.todo = r.inputs
      /\ \A x, y \in r.roots : x = y
      /\ \A x \in r.roots : \A k \in r.inputs \ r.todo : PositionOf(k) < x
  BY <1>3 DEF ProofsInv
<1>5. r.inputs \in SUBSET known /\ r.inputs \in SUBSET Keys
  BY <1>3, TakenAre DEF TypeInv
<1>6. PICK k : k = CHOOSE q \in r.todo : \A j \in r.todo \ {q} : Before(q, j, leaf)
  OBVIOUS
<1>7. k \in r.todo
  <2>1. r.todo \in SUBSET Keys
    BY <1>4, <1>5
  <2>2. \E x \in r.todo : \A j \in r.todo \ {x} : Before(x, j, leaf)
    BY <1>3, <1>4, <2>1, FirstNote
  <2>. QED
    BY <1>6, <2>2
<1>8. PICK x : x = root[TreeOf(k)]
  OBVIOUS
<1>9. PICK pc : pc = IF r.todo # {k} THEN "proofs" ELSE IF NeedsManifest(r) THEN "artifacts" ELSE "prove"
  OBVIOUS
<1>10. IF OneRoot(r.roots \cup {x})
       THEN call' = [call EXCEPT ![c].pc = pc, ![c].todo = @ \ {k}, ![c].roots = r.roots \cup {x}]
       ELSE Fail(c, "roots")
  <2>1. call[c] = r
    BY <1>1
  <2>. QED
    BY <1>6, <1>8, <1>9, <2>1, Zenon DEF UTXOMerkleProofForTXO
<1>11. CASE ~OneRoot(r.roots \cup {x})
  BY <1>1, <1>3, <1>10, <1>11, FailKeeps
<1>12. CASE OneRoot(r.roots \cup {x})
  <2>1. r.roots \cup {x} = {x}
    BY <1>4, <1>12, OneRootIs
  <2>2. TreeOf(k) \in Trees /\ x \in Nat /\ PositionOf(k) < x
    <3>1. k \in Keys /\ k \in known
      BY <1>4, <1>5, <1>7
    <3>2. TreeOf(k) \in Trees
      BY <3>1, PlaceKey
    <3>. QED
      BY <1>3, <1>8, <3>1, <3>2 DEF TypeInv, IInv, WalletInv
  <2>3. PICK n : n = [r EXCEPT !.pc = pc, !.todo = r.todo \ {k}, !.roots = {x}]
    OBVIOUS
  <2>4. call' = [call EXCEPT ![c] = n] /\ call \in [Caller -> CallRec]
    BY <1>1, <1>3, <1>10, <1>12, <2>1, <2>3 DEF TypeInv
  <2>5. pc \in PC
    BY <1>9 DEF PC
  <2>6. n \in CallRec
    BY <2>2, <2>3, <2>5 DEF CallRec
  <2>7. s = n /\ call' \in [Caller -> CallRec] /\ \A d \in Caller \ {c} : call'[d] = call[d]
    BY <1>2, <2>4, <2>6
  <2>8. /\ s.pc = pc /\ s.reason = "none" /\ SameNotes(r, s) /\ s.todo = r.todo \ {k} /\ s.roots = {x}
    BY <1>4, <2>3, <2>7 DEF CallRec, SameNotes
  <2>9. s.pc \in {"proofs", "artifacts", "prove"}
    BY <1>9, <2>8
  <2>10. SelectedInv(s)
    BY <1>3, <2>8, <2>9, SelectedSame
  <2>11. ProofsInv(s)
    <3>1. s.inputs = r.inputs
      BY <2>8 DEF SameNotes
    <3>2. s.inputs # {} /\ s.todo \subseteq s.inputs /\ s.todo # s.inputs /\ s.roots # {}
      BY <1>4, <1>7, <2>8, <3>1
    <3>3. s.pc = "proofs" => s.todo # {}
      BY <1>7, <1>9, <2>8
    <3>4. s.pc # "proofs" => s.todo = {}
      BY <1>9, <2>8
    <3>5. ASSUME NEW j \in s.inputs \ s.todo
          PROVE  PositionOf(j) < x
      <4>1. CASE j = k
        BY <2>2, <4>1
      <4>2. CASE j # k
        <5>1. j \in r.inputs \ r.todo
          BY <2>8, <3>1, <4>2
        <5>2. r.roots # {}
          BY <1>4, <5>1
        <5>3. x \in r.roots
          BY <2>1, <5>2
        <5>. QED
          BY <1>4, <5>1, <5>3
      <4>. QED
        BY <4>1, <4>2
    <3>6. \A j \in s.inputs : s.roots \subseteq {root[TreeOf(j)]}
      <4>1. PICK t \in Trees : r.inputs \subseteq InTree(r.offered, t)
        BY <1>3, <1>4 DEF SelectedInv
      <4>2. \A j \in r.inputs : TreeOf(j) = t
        BY <4>1 DEF InTree
      <4>3. TreeOf(k) = t
        BY <1>4, <1>7, <4>2
      <4>. QED
        BY <1>8, <2>8, <3>1, <4>2, <4>3
    <3>. QED
      BY <2>8, <2>9, <3>2, <3>3, <3>4, <3>5, <3>6 DEF ProofsInv, Begun, Built
  <2>12. /\ s.pc = "prove" => ~NeedsManifest(s)
         /\ s.pc = "artifacts" => NeedsManifest(s)
    BY <1>9, <2>8 DEF NeedsManifest, SameNotes
  <2>. QED
    BY <1>1, <1>2, <1>3, <2>6, <2>7, <2>9, <2>10, <2>11, <2>12, QuietKeeps
<1>. QED
  BY <1>11, <1>12

\* A call that is built goes on.
LEMMA BuiltSame ==
    ASSUME NEW r, SelectedInv(r), ProofsInv(r), r.pc \in Built, NEW s, SameNotes(r, s),
           s.todo = r.todo, s.roots = r.roots, s.pc \in Built \cup {"failed"}, s.reason # "utxos",
           s.pc \notin {"done", "failed"} => s.reason = "none"
    PROVE  SelectedInv(s) /\ ProofsInv(s)
<1>1. SelectedInv(s)
  <2>1. s.pc \notin {"start", "quote", "select"}
    BY DEF Built
  <2>. QED
    BY <2>1, SelectedSame
<1>2. ProofsInv(s)
  <2>1. s.inputs = r.inputs /\ s.seen = r.seen
    BY DEF SameNotes
  <2>. QED
    BY <2>1 DEF ProofsInv, Built, Begun
<1>. QED
  BY <1>1, <1>2

\* The call puts its artifacts there, or its circuit in the manifest.
LEMMA ArtifactsKeep ==
    ASSUME IInv, UNCHANGED <<chain, wallet>>, NEW c \in Caller, NEW pc \in {"truncate", "write", "prove"}, Goto(c, pc),
           call[c].pc \in {"artifacts", "truncate", "write"},
           manifest'.circuits \in SUBSET BuiltIn, files' \in [BuiltIn -> {"absent", "good", "bad"}],
           \A x \in BuiltIn : files[x] # "absent" => files'[x] # "absent",
           manifest' = manifest \/ manifest'.by = c,
           CircuitOf(call[c]) \in BuiltIn, files'[CircuitOf(call[c])] # "absent",
           pc = "prove" => CircuitOf(call[c]) \in manifest'.circuits
    PROVE  IInv'
<1>1. PICK r \in CallRec : r = call[c]
  BY DEF IInv, TypeInv
<1>2. pc \in PC
  BY DEF PC
<1>3. PICK s \in CallRec : Moved(c, pc, r.reason, s)
  BY <1>1, <1>2, Goes DEF IInv
<1>4. /\ s = call'[c] /\ s.pc = pc /\ s.reason = r.reason /\ SameNotes(r, s)
      /\ s.todo = r.todo /\ s.roots = r.roots
      /\ call' \in [Caller -> CallRec] /\ \A d \in Caller \ {c} : call'[d] = call[d]
  BY <1>1, <1>3 DEF Moved
<1>5. SelectedInv(r) /\ ProofsInv(r) /\ r.pc \in Built /\ r.reason = "none" /\ NeedsManifest(r)
  BY <1>1 DEF IInv, ProofsInv, Built, ArtifactsInv
<1>6. SelectedInv(s) /\ ProofsInv(s)
  <2>1. s.pc \in Built /\ s.reason # "utxos"
    BY <1>4, <1>5 DEF Built
  <2>. QED
    BY <1>4, <1>5, <2>1, BuiltSame
<1>7. UNCHANGED <<leaf, revealed, log>>
  BY DEF chain
<1>8. ASSUME NEW d \in Caller
      PROVE  ArtifactsInv(d)'
  <2>1. CASE d = c
    <3>1. CircuitOf(s) = CircuitOf(r) /\ CircuitOf(s)' = CircuitOf(s)
      BY <1>4, <1>7, CircuitSame, BuildStays
    <3>2. CircuitOf(call[c])' = CircuitOf(call[c])
      BY <1>1, <1>4, <3>1
    <3>3. NeedsManifest(s)
      BY <1>4, <1>5 DEF NeedsManifest, SameNotes
    <3>. QED
      BY <1>4, <2>1, <3>2, <3>3 DEF ArtifactsInv, NeedsManifest
  <2>2. CASE d # c
    <3>1. PICK q : q = call[d] /\ q = call'[d]
      BY <1>4, <2>2
    <3>2. CircuitOf(q)' = CircuitOf(q)
      BY <1>7, BuildStays
    <3>3. CircuitOf(call[d])' = CircuitOf(call[d])
      BY <3>1, <3>2
    <3>4. PICK x : x = CircuitOf(call[d]) /\ x = CircuitOf(call[d])'
      BY <3>3
    <3>5. ArtifactsInv(d)
      BY DEF IInv
    <3>6. NeedsManifest(call[d])' <=> NeedsManifest(call[d])
      BY <3>1 DEF NeedsManifest
    <3>. QED
      BY <2>2, <3>1, <3>4, <3>5, <3>6 DEF ArtifactsInv
  <2>. QED
    BY <2>1, <2>2
<1>. QED
  BY <1>1, <1>4, <1>6, <1>8, EarlyKeeps

LEMMA EnsureArtifactsKeeps ==
    ASSUME IInv, NEW c \in Caller, EnsureArtifacts(c)
    PROVE  IInv'
<1>1. PICK circuit : circuit = CircuitOf(call[c])
  OBVIOUS
<1>2. /\ call[c].pc = "artifacts" /\ UNCHANGED <<chain, wallet, manifest>>
      /\ manifest.circuits \in SUBSET BuiltIn /\ files \in [BuiltIn -> {"absent", "good", "bad"}]
  BY DEF EnsureArtifacts, At, IInv, TypeInv
<1>3. CASE (Fail(c, "circuit") \/ Fail(c, "download")) /\ UNCHANGED files
  <2>1. UNCHANGED <<chain, wallet, artifacts>>
    BY <1>2, <1>3 DEF artifacts
  <2>. QED
    BY <1>2, <1>3, <2>1, FailKeeps
<1>4. CASE /\ circuit \in BuiltIn /\ Goto(c, "truncate")
           /\ \/ files' = [files EXCEPT ![circuit] = IF @ = "absent" THEN "good" ELSE @]
              \/ files' = [files EXCEPT ![circuit] = "bad"]
  <2>1. /\ files' \in [BuiltIn -> {"absent", "good", "bad"}] /\ files'[circuit] # "absent"
        /\ \A x \in BuiltIn : files[x] # "absent" => files'[x] # "absent"
    BY <1>2, <1>4
  <2>2. manifest'.circuits \in SUBSET BuiltIn /\ manifest' = manifest
    BY <1>2
  <2>. QED
    BY <1>1, <1>2, <1>4, <2>1, <2>2, ArtifactsKeep
<1>. QED
  BY <1>1, <1>3, <1>4 DEF EnsureArtifacts

LEMMA TruncateManifestKeeps ==
    ASSUME IInv, NEW c \in Caller, TruncateManifest(c)
    PROVE  IInv'
<1>1. /\ call[c].pc = "truncate" /\ UNCHANGED <<chain, wallet, files>> /\ Goto(c, "write")
      /\ files \in [BuiltIn -> {"absent", "good", "bad"}]
      /\ manifest'.by = c /\ manifest'.circuits \in SUBSET BuiltIn
  BY DEF TruncateManifest, At, IInv, TypeInv
<1>2. CircuitOf(call[c]) \in BuiltIn /\ files[CircuitOf(call[c])] # "absent"
  BY <1>1 DEF IInv, ArtifactsInv
<1>. QED
  BY <1>1, <1>2, ArtifactsKeep

LEMMA WriteManifestKeeps ==
    ASSUME IInv, NEW c \in Caller, WriteManifest(c)
    PROVE  IInv'
<1>1. /\ call[c].pc = "write" /\ UNCHANGED <<chain, wallet, files>> /\ Goto(c, "prove")
      /\ files \in [BuiltIn -> {"absent", "good", "bad"}]
      /\ manifest'.by = c /\ manifest'.circuits = {CircuitOf(call[c])}
  BY DEF WriteManifest, At, IInv, TypeInv
<1>2. CircuitOf(call[c]) \in BuiltIn /\ files[CircuitOf(call[c])] # "absent"
  BY <1>1 DEF IInv, ArtifactsInv
<1>3. manifest'.circuits \in SUBSET BuiltIn /\ CircuitOf(call[c]) \in manifest'.circuits
  BY <1>1, <1>2
<1>. QED
  BY <1>1, <1>2, <1>3, ArtifactsKeep

LEMMA ProveRailgunKeeps ==
    ASSUME IInv, NEW c \in Caller, ProveRailgun(c)
    PROVE  IInv'
<1>1. PICK r \in CallRec : r = call[c]
  BY DEF IInv, TypeInv
<1>2. /\ r.pc = "prove" /\ SelectedInv(r) /\ ProofsInv(r) /\ TypeInv
      /\ UNCHANGED <<chain, wallet, artifacts>>
  BY <1>1 DEF ProveRailgun, At, IInv
<1>3. CASE Fail(c, "manifest") \/ Fail(c, "witness") \/ Fail(c, "verify")
  BY <1>1, <1>2, <1>3, FailKeeps
<1>4. CASE Goto(c, "submit")
  <2>1. "submit" \in PC
    BY DEF PC
  <2>2. PICK s \in CallRec : Moved(c, "submit", r.reason, s)
    BY <1>1, <1>2, <1>4, <2>1, Goes
  <2>3. /\ s = call'[c] /\ s.pc = "submit" /\ s.reason = r.reason /\ SameNotes(r, s)
        /\ s.todo = r.todo /\ s.roots = r.roots
        /\ call' \in [Caller -> CallRec] /\ \A d \in Caller \ {c} : call'[d] = call[d]
    BY <1>1, <2>2 DEF Moved
  <2>4. r.reason = "none" /\ r.pc \in Built /\ s.pc \in Built
    BY <1>2, <2>3 DEF ProofsInv, Built
  <2>5. SelectedInv(s) /\ ProofsInv(s)
    BY <1>2, <2>3, <2>4, BuiltSame
  <2>. QED
    BY <1>1, <1>2, <2>3, <2>5, QuietKeeps
<1>. QED
  BY <1>3, <1>4 DEF ProveRailgun

-----------------------------------------------------------------------------
(* Submission.                                                              *)

\* The call submits, or hears what became of its transaction.
LEMMA SubmitKeeps ==
    ASSUME IInv, UNCHANGED <<leaf, size, revealed, log, outcome, wallet, artifacts>>,
           NEW c \in Caller, NEW pc \in {"wait", "done", "failed"}, NEW reason \in Reasons, reason # "utxos",
           pc = "wait" => reason = "none",
           Turn(c, pc, reason),
           call[c].pc \in {"submit", "wait"}, pool' \in {pool, pool \cup {c}},
           c \in pool' => outcome[c] = "none",
           pc = "wait" => c \in pool' \/ outcome[c] # "none",
           pc = "done" => outcome[c] \in {"paid", "stuck"} \/ (call[c].request.relayed /\ reason = "receipt"),
           pc = "failed" => \/ c \notin pool' /\ outcome[c] \in {"none", "reverted"}
                            \/ reason \in {"answer", "receipt"}
    PROVE  IInv'
<1>1. PICK r \in CallRec : r = call[c]
  BY DEF IInv, TypeInv
<1>2. pc \in PC /\ TypeInv
  BY DEF PC, IInv
<1>3. PICK s \in CallRec : Moved(c, pc, reason, s)
  BY <1>2, Moves
<1>4. /\ s = call'[c] /\ s.pc = pc /\ s.reason = reason /\ SameNotes(r, s) /\ SameNotes(call[c], s)
      /\ s.todo = r.todo /\ s.roots = r.roots
      /\ call' \in [Caller -> CallRec] /\ \A d \in Caller \ {c} : call'[d] = call[d]
  BY <1>1, <1>3 DEF Moved
<1>5. SelectedInv(r) /\ ProofsInv(r) /\ r.pc \in Built /\ OutcomeInv(c) /\ r.inputs # {}
  BY <1>1 DEF IInv, ProofsInv, Built
<1>6. SelectedInv(s) /\ ProofsInv(s)
  <2>1. s.pc \in Built \cup {"failed"} /\ s.reason # "utxos"
    BY <1>4 DEF Built
  <2>. QED
    BY <1>4, <1>5, <2>1, BuiltSame
<1>7. UNCHANGED <<leaf, size, revealed, log, imported, root, known, marked, valid, outcome, manifest, files>>
  BY DEF wallet, artifacts
<1>8. ASSUME NEW d \in Caller
      PROVE  ArtifactsInv(d)'
  <2>1. CASE d = c
    BY <1>4, <2>1 DEF ArtifactsInv
  <2>2. CASE d # c
    BY <1>4, <1>7, <2>2, ArtifactsStay DEF IInv
  <2>. QED
    BY <2>1, <2>2
<1>9. OutcomeInv(c)'
  <2>1. (Raced(r) <=> Raced(s)) /\ (Raced(s)' <=> Raced(s))
    BY <1>4, <1>7, CircuitSame, BuildStays
  <2>2. Raced(call[c]) => Raced(call[c])'
    BY <1>1, <1>4, <2>1
  <2>3. s.inputs = r.inputs /\ s.request = r.request
    BY <1>4 DEF SameNotes
  <2>. QED
    BY <1>1, <1>4, <1>5, <1>7, <2>2, <2>3 DEF OutcomeInv
<1>10. manifest'.circuits \in SUBSET BuiltIn /\ files' \in [BuiltIn -> {"absent", "good", "bad"}]
  BY <1>2, <1>7 DEF TypeInv
<1>. QED
  BY <1>4, <1>6, <1>7, <1>8, <1>9, <1>10, CallKeeps

\* What is known of a call that submits or waits.
LEMMA SubmitIs ==
    ASSUME IInv, NEW c \in Caller, call[c].pc \in {"submit", "wait"}
    PROVE  /\ call[c].reason = "none" /\ TypeInv
           /\ call[c].pc = "submit" => c \notin pool /\ outcome[c] = "none"
           /\ c \in pool => outcome[c] = "none"
           /\ outcome[c] \in {"none", "paid", "stuck", "reverted"}
<1>1. OutcomeInv(c) /\ ProofsInv(call[c]) /\ TypeInv
  BY DEF IInv
<1>. QED
  BY <1>1 DEF OutcomeInv, ProofsInv, TypeInv

LEMMA SelfBroadcastKeeps ==
    ASSUME IInv, NEW c \in Caller, SelfBroadcast(c)
    PROVE  IInv'
<1>1. call[c].pc = "submit" /\ UNCHANGED <<leaf, size, revealed, log, outcome, wallet, artifacts>>
  BY DEF SelfBroadcast, At
<1>2. call[c].reason = "none" /\ TypeInv /\ c \notin pool /\ outcome[c] = "none"
  BY <1>1, SubmitIs
<1>3. CASE Goto(c, "wait") /\ pool' = pool \cup {c}
  <2>1. Turn(c, "wait", "none")
    BY <1>2, <1>3, Turns
  <2>2. "none" \in Reasons
    BY DEF Reasons
  <2>. QED
    BY <1>1, <1>2, <1>3, <2>1, <2>2, SubmitKeeps
<1>4. CASE Fail(c, "estimate") /\ UNCHANGED pool
  <2>1. Turn(c, "failed", "estimate")
    BY <1>2, <1>4, Turns
  <2>2. "estimate" \in Reasons
    BY DEF Reasons
  <2>. QED
    BY <1>1, <1>2, <1>4, <2>1, <2>2, SubmitKeeps
<1>. QED
  BY <1>3, <1>4 DEF SelfBroadcast

LEMMA RelayKeeps ==
    ASSUME IInv, NEW c \in Caller, Relay(c)
    PROVE  IInv'
<1>1. call[c].pc = "submit" /\ UNCHANGED <<leaf, size, revealed, log, outcome, wallet, artifacts>>
  BY DEF Relay, At
<1>2. call[c].reason = "none" /\ TypeInv /\ c \notin pool /\ outcome[c] = "none"
  BY <1>1, SubmitIs
<1>3. CASE Goto(c, "wait") /\ pool' = pool \cup {c}
  <2>1. Turn(c, "wait", "none")
    BY <1>2, <1>3, Turns
  <2>2. "none" \in Reasons
    BY DEF Reasons
  <2>. QED
    BY <1>1, <1>2, <1>3, <2>1, <2>2, SubmitKeeps
<1>4. CASE (Fail(c, "estimate") \/ Fail(c, "refused")) /\ UNCHANGED pool
  <2>1. PICK reason \in {"estimate", "refused"} : Fail(c, reason)
    BY <1>4
  <2>2. Turn(c, "failed", reason)
    BY <1>2, <2>1, Turns
  <2>3. reason \in Reasons
    BY DEF Reasons
  <2>. QED
    BY <1>1, <1>2, <1>4, <2>2, <2>3, SubmitKeeps
<1>5. CASE Fail(c, "answer") /\ pool' = pool \cup {c}
  <2>1. Turn(c, "failed", "answer")
    BY <1>2, <1>5, Turns
  <2>2. "answer" \in Reasons
    BY DEF Reasons
  <2>. QED
    BY <1>1, <1>2, <1>5, <2>1, <2>2, SubmitKeeps
<1>. QED
  BY <1>3, <1>4, <1>5 DEF Relay

LEMMA ReceiptKeeps ==
    ASSUME IInv, NEW c \in Caller, Receipt(c)
    PROVE  IInv'
<1>1. /\ call[c].pc = "wait" /\ outcome[c] # "none" /\ pool' = pool
      /\ UNCHANGED <<leaf, size, revealed, log, outcome, wallet, artifacts>>
  BY DEF Receipt, At, chain
<1>2. call[c].reason = "none" /\ TypeInv /\ c \notin pool /\ outcome[c] \in {"paid", "stuck", "reverted"}
  BY <1>1, SubmitIs
<1>3. CASE outcome[c] = "reverted"
  <2>1. Turn(c, "failed", "reverted")
    BY <1>2, <1>3, Turns DEF Receipt
  <2>2. "reverted" \in Reasons
    BY DEF Reasons
  <2>. QED
    BY <1>1, <1>2, <1>3, <2>1, <2>2, SubmitKeeps
<1>4. CASE outcome[c] # "reverted"
  <2>1. Turn(c, "done", "none")
    BY <1>2, <1>4, Turns DEF Receipt
  <2>2. "none" \in Reasons
    BY DEF Reasons
  <2>. QED
    BY <1>1, <1>2, <1>4, <2>1, <2>2, SubmitKeeps
<1>. QED
  BY <1>3, <1>4

LEMMA WaitFailsKeeps ==
    ASSUME IInv, NEW c \in Caller, WaitFails(c)
    PROVE  IInv'
<1>1. /\ call[c].pc = "wait" /\ pool' = pool
      /\ UNCHANGED <<leaf, size, revealed, log, outcome, wallet, artifacts>>
  BY DEF WaitFails, At, chain
<1>2. TypeInv /\ (c \in pool => outcome[c] = "none")
  BY <1>1, SubmitIs
<1>3. PICK pc : pc = IF call[c].request.relayed THEN "done" ELSE "failed"
  OBVIOUS
<1>4. Turn(c, pc, "receipt")
  BY <1>2, <1>3 DEF WaitFails, TypeInv, Turn
<1>5. "receipt" \in Reasons
  BY DEF Reasons
<1>6. pc \in {"done", "failed"} /\ (pc = "done" => call[c].request.relayed)
  BY <1>3
<1>. QED
  BY <1>1, <1>2, <1>4, <1>5, <1>6, SubmitKeeps

-----------------------------------------------------------------------------
(* Where it starts.                                                         *)

\* The deposits fill their trees from the left.
LEMMA DepositsFill ==
    ASSUME NEW deposit \in Deposits, NEW t \in Trees
    PROVE  /\ Cardinality(InTree(DOMAIN deposit, t)) \in 0..TreeSize
           /\ \A k \in DOMAIN deposit : TreeOf(k) = t => PositionOf(k) < Cardinality(InTree(DOMAIN deposit, t))
<1>. DEFINE D == DOMAIN deposit
            T == InTree(D, t)
<1>1. /\ D \in SUBSET Keys
      /\ \A k \in D : \A j \in Keys : TreeOf(j) = TreeOf(k) /\ j < k => j \in D
  BY DepositsAssumption
<1>2. TreeSize \in Nat /\ \A k \in D : k \in Keys /\ TreeOf(k) \in Trees /\ PositionOf(k) \in 0..(TreeSize - 1)
  BY <1>1, PlaceKey, SelectionAssumption
<1>3. T \in SUBSET D /\ T \in SUBSET Keys /\ IsFiniteSet(T)
  <2>1. T \in SUBSET D
    BY DEF InTree
  <2>. QED
    BY <1>1, <2>1, KeysFinite, FS_Subset
<1>4. Cardinality(T) \in Nat /\ Cardinality(T) <= TreeSize
  <2>1. /\ \A k \in Keys : k \in Interval(t, 0, TreeSize) <=>
                  TreeOf(k) = t /\ PositionOf(k) \in 0..(0 + TreeSize - 1)
        /\ IsFiniteSet(Interval(t, 0, TreeSize)) /\ Cardinality(Interval(t, 0, TreeSize)) = TreeSize
    BY <1>2, IntervalKeys
  <2>2. ASSUME NEW k \in T
        PROVE  k \in Interval(t, 0, TreeSize)
    <3>1. k \in Keys /\ k \in D /\ TreeOf(k) = t
      BY <1>3 DEF InTree
    <3>. QED
      BY <1>2, <2>1, <3>1
  <2>3. T \in SUBSET Interval(t, 0, TreeSize)
    BY <2>2
  <2>. HIDE DEF T
  <2>. QED
    BY <1>3, <2>1, <2>3, FS_Subset, FS_CardinalityType
<1>5. ASSUME NEW k \in D, TreeOf(k) = t
      PROVE  PositionOf(k) < Cardinality(T)
  <2>1. PICK p \in Nat : p = PositionOf(k) /\ p + 1 <= TreeSize /\ k = Key(t, p) /\ k \in Keys
    BY <1>2, <1>5, PlaceKey
  <2>2. /\ Interval(t, 0, p + 1) \in SUBSET Keys
        /\ \A j \in Keys : j \in Interval(t, 0, p + 1) <=> TreeOf(j) = t /\ PositionOf(j) \in 0..(0 + (p + 1) - 1)
        /\ IsFiniteSet(Interval(t, 0, p + 1)) /\ Cardinality(Interval(t, 0, p + 1)) = p + 1
    BY <2>1, IntervalKeys
  <2>3. ASSUME NEW j \in Interval(t, 0, p + 1)
        PROVE  j \in T
    <3>1. j \in Keys /\ TreeOf(j) = t /\ PositionOf(j) \in 0..p
      BY <2>1, <2>2
    <3>2. j = Key(t, PositionOf(j)) /\ j \in Nat /\ k \in Nat
      BY <2>1, <3>1, PlaceKey
    <3>3. j <= k
      <4>1. PositionOf(j) \in Int /\ p \in Int /\ PositionOf(j) <= p
        BY <2>1, <3>1
      <4>. QED
        BY <2>1, <3>2, <4>1, KeyOrder
    <3>4. j = k \/ j < k
      BY <3>2, <3>3
    <3>5. j \in D
      BY <1>1, <1>5, <3>1, <3>4
    <3>. QED
      BY <3>1, <3>5 DEF InTree
  <2>4. Interval(t, 0, p + 1) \in SUBSET T
    BY <2>3
  <2>. HIDE DEF T
  <2>5. p + 1 <= Cardinality(T)
    BY <1>3, <2>2, <2>4, FS_Subset
  <2>. QED
    BY <1>4, <2>1, <2>5
<1>. QED
  BY <1>4, <1>5

LEMMA InitHolds ==
    ASSUME Init
    PROVE  IInv
<1>1. PICK deposit \in Deposits :
          /\ leaf = [k \in Keys |-> IF k \in DOMAIN deposit THEN deposit[k] ELSE 0]
          /\ size = [t \in Trees |-> Cardinality(InTree(DOMAIN deposit, t))]
  BY DEF Init
<1>2. /\ revealed = {} /\ log = <<>> /\ pool = {} /\ outcome = [c \in Caller |-> "none"] /\ imported = 0 /\ root = size
      /\ known = {k \in Keys : leaf[k] > 0} /\ marked = {} /\ valid = known /\ call = [c \in Caller |-> NoCall]
      /\ manifest = [by |-> "none", circuits |-> {}] /\ files = [circuit \in BuiltIn |-> "absent"]
  BY DEF Init
<1>3. leaf \in [Keys -> Nat]
  BY <1>1, DepositsAssumption
<1>4. size \in [Trees -> 0..TreeSize]
  BY <1>1, DepositsFill
<1>5. ASSUME NEW k \in Keys, leaf[k] > 0
      PROVE  PositionOf(k) < size[TreeOf(k)]
  <2>1. k \in DOMAIN deposit
    BY <1>1, <1>5
  <2>2. TreeOf(k) \in Trees
    BY PlaceKey
  <2>. QED
    BY <1>1, <2>1, <2>2, DepositsFill
<1>6. NoCall \in CallRec /\ NoCall.pc = "start" /\ NoCall.reason = "none" /\ NoCall.fee = 0
      /\ NoCall.offered = {} /\ NoCall.inputs = {} /\ NoCall.todo = {} /\ NoCall.roots = {} /\ NoCall.seen = 0
  BY DEF NoCall, CallRec, PC, Reasons
<1>7. TypeInv
  <2>1. log \in Seq(EntryRec) /\ imported \in 0..Len(log) /\ TreeSize \in Nat
    BY <1>2, SelectionAssumption
  <2>2. root \in [Trees -> Nat]
    BY <1>2, <1>4, <2>1
  <2>3. /\ revealed \in SUBSET Keys /\ known \in SUBSET Keys /\ marked \in SUBSET known /\ valid \in SUBSET known
        /\ pool \in SUBSET Caller /\ outcome \in [Caller -> {"none", "paid", "stuck", "reverted"}]
        /\ manifest.circuits \in SUBSET BuiltIn /\ files \in [BuiltIn -> {"absent", "good", "bad"}]
    BY <1>2
  <2>4. call \in [Caller -> CallRec]
    BY <1>2, <1>6
  <2>. QED
    BY <1>3, <1>4, <2>1, <2>2, <2>3, <2>4 DEF TypeInv
<1>8. LogInv
  <2>1. DOMAIN log = {}
    BY <1>2
  <2>. QED
    BY <1>2, <1>5, <2>1 DEF LogInv
<1>9. WalletInv
  <2>1. \A t \in Trees : root[t] <= size[t] /\ root[t] \in Nat
    BY <1>2, <1>4
  <2>2. \A n : n \notin (imported + 1)..Len(log) /\ n \notin 1..imported
    BY <1>2
  <2>3. \A k \in Keys : PositionOf(k) \notin root[TreeOf(k)]..(size[TreeOf(k)] - 1)
    <3>1. SUFFICES ASSUME NEW k \in Keys
                   PROVE  PositionOf(k) \notin root[TreeOf(k)]..(size[TreeOf(k)] - 1)
      OBVIOUS
    <3>2. PICK n \in Nat : n = root[TreeOf(k)] /\ n = size[TreeOf(k)]
      BY <1>2, <2>1, PlaceKey
    <3>. QED
      BY <3>2
  <2>4. known = {k \in Keys : leaf[k] > 0 /\ PositionOf(k) < root[TreeOf(k)]}
    BY <1>2, <1>5
  <2>. QED
    BY <2>1, <2>2, <2>3, <2>4 DEF WalletInv
<1>10. ASSUME NEW c \in Caller
       PROVE  SelectedInv(call[c]) /\ ProofsInv(call[c]) /\ ArtifactsInv(c) /\ OutcomeInv(c)
  <2>1. PICK r : r = call[c] /\ r = NoCall
    BY <1>2
  <2>2. SelectedInv(r)
    <3>1. 1..0 = {} /\ 0 <= imported
      BY <1>2
    <3>. QED
      BY <1>6, <2>1, <3>1 DEF SelectedInv
  <2>3. ProofsInv(r)
    BY <1>6, <2>1 DEF ProofsInv, Begun, Built
  <2>4. ArtifactsInv(c)
    BY <1>6, <2>1 DEF ArtifactsInv
  <2>5. OutcomeInv(c)
    BY <1>2, <1>6, <2>1 DEF OutcomeInv
  <2>. QED
    BY <2>1, <2>2, <2>3, <2>4, <2>5
<1>11. LedgerInv
  <2>1. MinedCalls = {} /\ Keys \ revealed = Keys
    BY <1>2 DEF MinedCalls
  <2>2. Worth(Keys) \in Nat
    BY <1>7, WorthIs
  <2>3. IsFiniteSet({})
    BY FS_EmptySet
  <2>4. /\ CalculateTotalSpend({}, Needs(call)) = 0 /\ CalculateTotalSpend({}, Changes(call, leaf)) = 0
    BY SumEmpty
  <2>5. Worth(Keys) + 0 = Worth(Keys) - 0
    BY <2>2
  <2>. QED
    BY <2>1, <2>3, <2>4, <2>5 DEF LedgerInv
<1>. QED
  BY <1>7, <1>8, <1>9, <1>10, <1>11 DEF IInv

LEMMA StutterKeeps ==
    ASSUME IInv, UNCHANGED vars
    PROVE  IInv'
<1>1. /\ UNCHANGED <<leaf, size, revealed, log, pool, outcome, imported, root, known, marked, valid, call, manifest, files>>
  BY DEF vars, chain, wallet, artifacts
<1>2. TypeInv'
  BY <1>1, TypesStay DEF IInv, TypeInv
<1>3. MinedCalls' = MinedCalls
  BY <1>1 DEF MinedCalls
<1>4. \A c \in Caller : OutcomeInv(c)'
  BY <1>1, OutcomeStays DEF IInv
<1>. QED
  BY <1>1, <1>2, <1>3, <1>4, WaitingKeeps

-----------------------------------------------------------------------------
(* The theorems.                                                            *)

LEMMA NextKeeps ==
    ASSUME IInv, [Next]_vars
    PROVE  IInv'
<1>1. CASE \E value \in ShieldValue : Shield(value)
  BY <1>1, ShieldKeeps
<1>2. CASE Sync \/ RefreshPOIs
  BY <1>2, SyncKeeps, RefreshKeeps
<1>3. ASSUME NEW c \in Caller,
             \/ \E request \in Request : Begin(c, request)
             \/ SelectBroadcaster(c) \/ SelectUTXOs(c) \/ UTXOMerkleProofForTXO(c)
             \/ EnsureArtifacts(c) \/ TruncateManifest(c) \/ WriteManifest(c) \/ ProveRailgun(c)
      PROVE  IInv'
  BY <1>3, BeginKeeps, SelectBroadcasterKeeps, SelectUTXOsKeeps, UTXOMerkleProofKeeps, EnsureArtifactsKeeps,
     TruncateManifestKeeps, WriteManifestKeeps, ProveRailgunKeeps
<1>4. ASSUME NEW c \in Caller,
             SelfBroadcast(c) \/ Relay(c) \/ Mine(c) \/ Receipt(c) \/ WaitFails(c)
      PROVE  IInv'
  BY <1>4, SelfBroadcastKeeps, RelayKeeps, MineKeeps, ReceiptKeeps, WaitFailsKeeps
<1>5. CASE UNCHANGED vars
  BY <1>5, StutterKeeps
<1>. QED
  BY <1>1, <1>2, <1>3, <1>4, <1>5 DEF Next

\* The inductive invariant holds, whatever the trees, the deposits, the calls and
\* their number, and however they, the imports and the chain interleave.
THEOREM PrivateInductive == Spec => []IInv
<1>1. Init => IInv
  BY InitHolds
<1>2. IInv /\ [Next]_vars => IInv'
  BY NextKeeps
<1>. QED
  BY <1>1, <1>2, PTL DEF Spec

\* The state keeps its shape; in particular the wallet's trees never grow past the
\* chain's, and the manifest names built-in circuits only
\* (ensureDefaultRailgunArtifactManifest).
THEOREM PrivateTypes == Spec => []TypeOK
<1>1. ASSUME IInv
      PROVE  TypeOK
  <2>1. TypeInv /\ \A t \in Trees : root[t] <= size[t]
    BY <1>1 DEF IInv, WalletInv
  <2>2. root \in [Trees -> 0..TreeSize]
    <3>1. \A t \in Trees : root[t] \in 0..TreeSize
      <4>1. SUFFICES ASSUME NEW t \in Trees
                     PROVE  root[t] \in 0..TreeSize
        OBVIOUS
      <4>2. root[t] \in Nat /\ size[t] \in 0..TreeSize /\ root[t] <= size[t] /\ TreeSize \in Nat
        BY <2>1, SelectionAssumption DEF TypeInv
      <4>. QED
        BY <4>2
    <3>. QED
      BY <2>1, <3>1 DEF TypeInv
  <2>3. \A c \in Caller : call[c].pc \in PC /\ call[c].amount \in Int
    BY <2>1 DEF TypeInv, CallRec
  <2>. QED
    BY <2>1, <2>2, <2>3 DEF TypeInv, TypeOK
<1>. QED
  BY <1>1, PrivateInductive, PTL

\* What a call selects covers the amount and the fee with notes of one tree, and
\* not without the largest; it is refused only for the reasons that
\* CreateSimpleSatisfyingUTXOGroup has (selectSpendableUTXOs).
THEOREM SelectedOrRefusedHolds == Spec => []SelectedOrRefused
<1>1. ASSUME IInv
      PROVE  SelectedOrRefused
  <2>1. SUFFICES ASSUME NEW c \in Caller, NEW r, r = call[c]
                 PROVE
        LET need == r.amount + r.fee
            largest == Max({leaf[k] : k \in r.inputs})
            Total(t) == CalculateTotalSpend(InTree(r.offered, t), leaf)
            Covers(t) == \E notes \in SUBSET InTree(r.offered, t) :
                            /\ Cardinality(notes) <= MaxInputs
                            /\ CalculateTotalSpend(notes, leaf) >= need
        IN  /\ r.inputs # {} =>
                /\ \E t \in Trees : r.inputs \subseteq InTree(r.offered, t)
                /\ Cardinality(r.inputs) <= MaxInputs
                /\ TotalIn(r) >= need /\ TotalIn(r) - largest < need
            /\ r.reason = "utxos" =>
                \A t \in Trees : Covers(t) =>
                    \/ \E k \in r.offered : \E u \in (t + 1)..TreeOf(k) : Total(u) < need
                    \/ Cardinality(Ascending(InTree(r.offered, t), leaf, need)) > MaxInputs
    BY DEF SelectedOrRefused
  <2>2. SelectedInv(r)
    BY <1>1, <2>1 DEF IInv
  <2>. QED
    BY <2>2 DEF SelectedInv, Need, Worth, TotalIn
<1>. QED
  BY <1>1, PrivateInductive, PTL

\* Nothing of the wallet's is lost or paid twice, whichever calls race for the
\* same notes (dummyGroupChangeValue, applyBroadcasterFeeToInputs).
THEOREM ValueKeptHolds == Spec => []ValueKept
<1>1. ASSUME IInv
      PROVE  ValueKept
  <2>. DEFINE out == [c \in Caller |-> call[c].amount + call[c].fee]
              change == [c \in Caller |-> Change(call[c])]
              Deposits0 == CalculateTotalSpend({k \in Keys : leaf[k] > 0}, leaf)
  <2>1. TypeInv /\ LedgerInv
    BY <1>1 DEF IInv
  <2>2. Needs(call) = out
    BY DEF Needs, Need
  <2>3. \A c \in Caller : call[c] \in CallRec
    BY <2>1 DEF TypeInv
  <2>4. Changes(call, leaf) = change
    <3>1. ASSUME NEW c \in Caller
          PROVE  CalculateTotalSpend(call[c].inputs, leaf) - Need(call[c]) = Change(call[c])
      <4>1. PICK r \in CallRec : r = call[c]
        BY <2>3
      <4>2. Worth(r.inputs) \in Nat /\ r.amount \in Int /\ r.fee \in Nat
        BY <2>1, WorthIs DEF CallRec
      <4>3. PICK w \in Nat : w = CalculateTotalSpend(r.inputs, leaf)
        BY <4>2 DEF Worth
      <4>4. w - (r.amount + r.fee) = w - r.amount - r.fee
        BY <4>2
      <4>. QED
        BY <4>1, <4>3, <4>4 DEF Need, Change, TotalIn
    <3>. QED
      BY <3>1 DEF Changes
  <2>5. Deposits0 = Worth(Keys)
    <3>1. {k \in Keys : leaf[k] > 0} \in SUBSET Keys
      OBVIOUS
    <3>2. \A k \in Keys : leaf[k] \in Int
      BY <2>1 DEF TypeInv
    <3>3. \A k \in Keys \ {j \in Keys : leaf[j] > 0} : leaf[k] = 0
      BY <2>1 DEF TypeInv
    <3>. QED
      BY <3>1, <3>2, <3>3, KeysFinite, SumNonZero DEF Worth
  <2>6. CalculateTotalSpend(Keys \ revealed, leaf) + CalculateTotalSpend(MinedCalls, out)
          = Deposits0 - CalculateTotalSpend(MinedCalls, change)
    BY <2>1, <2>2, <2>4, <2>5 DEF LedgerInv, Worth
  <2>7. ASSUME NEW c \in MinedCalls
        PROVE  IF call[c].request.amount > 0 THEN call[c].amount = call[c].request.amount
               ELSE call[c].amount + call[c].fee = CalculateTotalSpend(call[c].offered, leaf)
    <3>1. c \in Caller /\ outcome[c] # "none"
      BY DEF MinedCalls
    <3>2. PICK r : r = call[c]
      OBVIOUS
    <3>3. SelectedInv(r) /\ r.inputs # {}
      BY <1>1, <3>1, <3>2 DEF IInv, OutcomeInv
    <3>. QED
      BY <3>2, <3>3 DEF SelectedInv, Worth
  <2>. QED
    BY <2>6, <2>7 DEF ValueKept, MinedCalls
<1>. QED
  BY <1>1, PrivateInductive, PTL

\* What a call returns is what became of its transaction, but for an answer or a
\* wait that failed (submitViaBroadcaster, sendRelayAdaptRequest).
THEOREM ResultToldHolds == Spec => []ResultTold
<1>1. ASSUME IInv
      PROVE  ResultTold
  <2>1. SUFFICES ASSUME NEW c \in Caller, NEW r, r = call[c]
                 PROVE  /\ r.pc = "done" =>
                              \/ outcome[c] = "paid"
                              \/ outcome[c] = "stuck" /\ r.request.relayed /\ r.request.rejects
                              \/ r.request.relayed /\ r.reason = "receipt"
                        /\ r.pc = "failed" =>
                              \/ c \notin pool /\ outcome[c] \in {"none", "reverted"}
                              \/ r.reason \in {"answer", "receipt"}
    BY DEF ResultTold, At
  <2>. QED
    BY <1>1, <2>1 DEF IInv, OutcomeInv
<1>. QED
  BY <1>1, PrivateInductive, PTL

\* The history accounts for every note, at every point of the import
\* (TransactionHistory, txoFromV2CommitmentWithDirection).
THEOREM HistoryAddsUpHolds == Spec => []HistoryAddsUp
<1>1. IInv => HistoryAddsUp
  BY HistoryFollows DEF IInv
<1>. QED
  BY <1>1, PrivateInductive, PTL

\* In the first tree, where a global position is the position, every note whose
\* nullifier is imported is marked; so what SpentIsMarked misses is in later trees
\* only (markNullifiersSpent).
THEOREM FirstTreeMarked ==
    Spec => [](imported = Len(log) => \A k \in revealed : TreeOf(k) = 0 => k \in marked)
<1>1. ASSUME IInv, imported = Len(log), NEW k \in revealed, TreeOf(k) = 0
      PROVE  k \in marked
  <2>1. PICK n \in DOMAIN log : k \in log[n].spends
    BY <1>1 DEF IInv, LogInv
  <2>2. n \in 1..imported
    BY <1>1 DEF IInv, TypeInv
  <2>. QED
    BY <1>1, <2>1, <2>2 DEF IInv, WalletInv
<1>2. IInv => (imported = Len(log) => \A k \in revealed : TreeOf(k) = 0 => k \in marked)
  BY <1>1
<1>. QED
  BY <1>2, PrivateInductive, PTL

-----------------------------------------------------------------------------
(* What a failure may be put down to.                                       *)

\* FailsOnlyIfRaced, of one call that becomes s.
Blamed(c, s) ==
    s.reason # call[c].reason =>
        /\ s.reason # "witness"
        /\ s.reason = "manifest" => manifest.by # c
        /\ s.reason = "verify" => files[CircuitOf(s)] = "bad"
        /\ s.reason = "roots" => imported > s.seen
        /\ s.reason \in {"estimate", "reverted"} => Raced(s)

LEMMA FailBlamed ==
    ASSUME TypeInv, NEW c \in Caller, NEW reason \in Reasons, Fail(c, reason), reason # "witness",
           reason = "manifest" => manifest.by # c,
           reason = "verify" => files[CircuitOf(call[c])] = "bad",
           reason = "roots" => imported > call[c].seen,
           reason \in {"estimate", "reverted"} => Raced(call[c])
    PROVE  \A d \in Caller : Blamed(d, call'[d])
<1>1. PICK s \in CallRec : Moved(c, "failed", reason, s)
  BY Fails
<1>2. PICK r : r = call[c]
  OBVIOUS
<1>3. /\ s = call'[c] /\ s.reason = reason /\ SameNotes(r, s) /\ \A d \in Caller \ {c} : call'[d] = call[d]
  BY <1>1, <1>2 DEF Moved
<1>4. CircuitOf(s) = CircuitOf(r) /\ (Raced(r) <=> Raced(s)) /\ s.seen = r.seen
  BY <1>3, CircuitSame DEF SameNotes
<1>5. Blamed(c, s)
  BY <1>2, <1>3, <1>4 DEF Blamed
<1>6. \A d \in Caller \ {c} : Blamed(d, call'[d])
  BY <1>3 DEF Blamed
<1>. QED
  BY <1>3, <1>5, <1>6

LEMMA SilentBlamed ==
    ASSUME \A d \in Caller : call'[d].reason \in {call[d].reason, "utxos", "receipt"}
    PROVE  \A d \in Caller : Blamed(d, call'[d])
BY DEF Blamed

\* A step that goes on gives no reason.
LEMMA OnBlamed ==
    ASSUME TypeInv, NEW c \in Caller, NEW pc \in PC, Goto(c, pc)
    PROVE  \A d \in Caller : Blamed(d, call'[d])
<1>1. PICK s \in CallRec : Moved(c, pc, call[c].reason, s)
  BY Goes
<1>2. s = call'[c] /\ s.reason = call[c].reason /\ \A d \in Caller \ {c} : call'[d] = call[d]
  BY <1>1 DEF Moved
<1>. QED
  BY <1>2, SilentBlamed

LEMMA UTXOMerkleProofBlamed ==
    ASSUME IInv, NEW c \in Caller, UTXOMerkleProofForTXO(c)
    PROVE  \A d \in Caller : Blamed(d, call'[d])
<1>1. PICK r \in CallRec : r = call[c]
  BY DEF IInv, TypeInv
<1>2. At(c, "proofs")
  BY Zenon DEF UTXOMerkleProofForTXO
<1>3. r.pc = "proofs" /\ SelectedInv(r) /\ ProofsInv(r) /\ TypeInv
  BY <1>1, <1>2 DEF At, IInv
<1>4. /\ r.todo \subseteq r.inputs /\ r.todo # {}
      /\ imported = r.seen => \A k \in r.inputs : r.roots \subseteq {root[TreeOf(k)]}
  BY <1>3 DEF ProofsInv
<1>5. PICK k : k = CHOOSE q \in r.todo : \A j \in r.todo \ {q} : Before(q, j, leaf)
  OBVIOUS
<1>6. k \in r.todo
  <2>1. r.todo \in SUBSET Keys
    BY DEF CallRec
  <2>2. \E x \in r.todo : \A j \in r.todo \ {x} : Before(x, j, leaf)
    BY <1>3, <1>4, <2>1, FirstNote
  <2>. QED
    BY <1>5, <2>2
<1>7. PICK x : x = root[TreeOf(k)]
  OBVIOUS
<1>8. PICK pc : pc = IF r.todo # {k} THEN "proofs" ELSE IF NeedsManifest(r) THEN "artifacts" ELSE "prove"
  OBVIOUS
<1>9. IF OneRoot(r.roots \cup {x})
      THEN call' = [call EXCEPT ![c].pc = pc, ![c].todo = @ \ {k}, ![c].roots = r.roots \cup {x}]
      ELSE Fail(c, "roots")
  <2>1. call[c] = r
    BY <1>1
  <2>. QED
    BY <1>5, <1>7, <1>8, <2>1, Zenon DEF UTXOMerkleProofForTXO
<1>10. CASE OneRoot(r.roots \cup {x})
  <2>2. PICK n : n = [r EXCEPT !.pc = pc, !.todo = r.todo \ {k}, !.roots = r.roots \cup {x}]
    OBVIOUS
  <2>3. call' = [call EXCEPT ![c] = n] /\ call \in [Caller -> CallRec]
    BY <1>1, <1>3, <1>9, <1>10, <2>2 DEF TypeInv
  <2>4. n.reason = r.reason
    BY <2>2 DEF CallRec
  <2>1. \A d \in Caller : call'[d].reason = call[d].reason
    BY <1>1, <2>3, <2>4
  <2>. QED
    BY <2>1, SilentBlamed
<1>11. CASE ~OneRoot(r.roots \cup {x})
  <2>1. r.seen # imported
    <3>1. SUFFICES ASSUME r.seen = imported
                   PROVE  FALSE
      OBVIOUS
    <3>2. r.roots \subseteq {x}
      BY <1>4, <1>6, <1>7, <3>1
    <3>3. r.roots \cup {x} = {x}
      BY <3>2
    <3>. QED
      BY <1>11, <3>3, FS_Singleton DEF OneRoot
  <2>2. r.seen <= imported /\ r.seen \in Nat /\ imported \in Nat
    BY <1>3 DEF SelectedInv, CallRec, TypeInv
  <2>3. imported > call[c].seen
    BY <1>1, <2>1, <2>2
  <2>4. "roots" \in Reasons /\ Fail(c, "roots")
    BY <1>9, <1>11 DEF Reasons
  <2>. QED
    BY <1>3, <2>3, <2>4, FailBlamed
<1>. QED
  BY <1>10, <1>11

\* What a call has built satisfies the circuit.
LEMMA BuiltSatisfies ==
    ASSUME IInv, NEW c \in Caller, call[c].pc = "prove"
    PROVE  Satisfied(call[c])
<1>1. PICK r \in CallRec : r = call[c]
  BY DEF IInv, TypeInv
<1>2. SelectedInv(r) /\ ProofsInv(r) /\ TypeInv /\ WalletInv /\ r.pc = "prove"
  BY <1>1 DEF IInv
<1>3. /\ r.inputs # {} /\ r.todo = {} /\ r.roots # {}
      /\ \A x, y \in r.roots : x = y
      /\ \A x \in r.roots : \A k \in r.inputs : PositionOf(k) < x
  BY <1>2 DEF ProofsInv, Built
<1>4. /\ UnprovedTransaction(r).roots = r.roots
      /\ UnprovedTransaction(r).nullifiers = {PositionOf(k) : k \in r.inputs}
      /\ Change(r) \in Nat /\ r.amount \in Nat /\ r.fee \in Nat
      /\ TotalIn(r) = r.amount + r.fee + Change(r)
  BY <1>2, <1>3, InputsAre
<1>5. Cardinality(r.roots) = 1
  <2>1. PICK x : r.roots = {x}
    BY <1>3
  <2>. QED
    BY <2>1, FS_Singleton
<1>6. MapThenSumSet(LAMBDA i : Outputs(r)[i].value, DOMAIN Outputs(r)) = r.fee + Change(r)
  <2>1. r.request.relayed <=> r.fee > 0
    BY <1>2, <1>3 DEF SelectedInv
  <2>. QED
    BY <1>4, <2>1, OutputsAddUp
<1>7. TotalIn(r) = r.amount + (r.fee + Change(r))
  BY <1>4
<1>8. Satisfied(r)
  BY <1>3, <1>4, <1>5, <1>6, <1>7 DEF Satisfied
<1>. QED
  BY <1>1, <1>8

LEMMA ProveRailgunBlamed ==
    ASSUME IInv, NEW c \in Caller, ProveRailgun(c)
    PROVE  \A d \in Caller : Blamed(d, call'[d])
<1>1. call[c].pc = "prove" /\ TypeInv /\ ArtifactsInv(c) /\ files \in [BuiltIn -> {"absent", "good", "bad"}]
  BY DEF ProveRailgun, At, IInv, TypeInv
<1>2. Satisfied(call[c])
  BY <1>1, BuiltSatisfies
<1>3. CASE Goto(c, "submit")
  <2>1. "submit" \in PC
    BY DEF PC
  <2>. QED
    BY <1>1, <1>3, <2>1, OnBlamed
<1>4. CASE Fail(c, "manifest") /\ ~HasArtifacts(call[c])
  <2>1. manifest.by # c
    BY <1>1, <1>4 DEF ArtifactsInv, HasArtifacts
  <2>2. "manifest" \in Reasons
    BY DEF Reasons
  <2>. QED
    BY <1>1, <1>4, <2>1, <2>2, FailBlamed
<1>5. CASE Fail(c, "verify") /\ ~Verified(call[c])
  <2>1. files[CircuitOf(call[c])] = "bad"
    BY <1>1, <1>5 DEF ArtifactsInv, Verified
  <2>2. "verify" \in Reasons
    BY DEF Reasons
  <2>. QED
    BY <1>1, <1>5, <2>1, <2>2, FailBlamed
<1>. QED
  BY <1>2, <1>3, <1>4, <1>5 DEF ProveRailgun

\* A call that is submitted, or whose transaction was, has notes.
LEMMA SubmittedHas ==
    ASSUME IInv, NEW c \in Caller, call[c].pc \in {"submit", "wait"}
    PROVE  /\ call[c].inputs # {} /\ call[c] \in CallRec /\ SelectedInv(call[c])
           /\ ~Executes(call[c]) => Raced(call[c])
           /\ outcome[c] = "reverted" => Raced(call[c])
<1>1. PICK r \in CallRec : r = call[c]
  BY DEF IInv, TypeInv
<1>2. SelectedInv(r) /\ ProofsInv(r) /\ TypeInv /\ LogInv /\ WalletInv /\ OutcomeInv(c)
  BY <1>1 DEF IInv
<1>3. r.inputs # {}
  BY <1>1, <1>2 DEF ProofsInv, Built
<1>4. ~Executes(r) => Raced(r)
  BY <1>2, <1>3, RacedIs
<1>. QED
  BY <1>1, <1>2, <1>3, <1>4 DEF OutcomeInv

LEMMA NextBlamed ==
    ASSUME IInv, [Next]_vars
    PROVE  \A d \in Caller : Blamed(d, call'[d])
<1>0. TypeInv
  BY DEF IInv
<1>1. CASE UNCHANGED call
  BY <1>1, SilentBlamed
<1>2. ASSUME NEW c \in Caller, NEW pc \in {"truncate", "write", "prove", "wait", "done"}, Goto(c, pc)
      PROVE  \A d \in Caller : Blamed(d, call'[d])
  <2>1. pc \in PC
    BY DEF PC
  <2>. QED
    BY <1>0, <1>2, <2>1, OnBlamed
<1>3. ASSUME NEW c \in Caller, NEW reason \in {"fee", "broadcaster", "balance", "circuit", "download", "answer", "refused"},
             Fail(c, reason)
      PROVE  \A d \in Caller : Blamed(d, call'[d])
  <2>1. reason \in Reasons
    BY DEF Reasons
  <2>. QED
    BY <1>0, <1>3, <2>1, FailBlamed
<1>4. ASSUME NEW c \in Caller, NEW request \in Request, Begin(c, request)
      PROVE  \A d \in Caller : Blamed(d, call'[d])
  <2>1. \A d \in Caller : call'[d].reason = call[d].reason
    BY <1>0, <1>4 DEF Begin, TypeInv, CallRec
  <2>. QED
    BY <2>1, SilentBlamed
<1>5. ASSUME NEW c \in Caller, SelectBroadcaster(c)
      PROVE  \A d \in Caller : Blamed(d, call'[d])
  <2>1. CASE Fail(c, "fee") \/ Fail(c, "broadcaster")
    BY <1>3, <2>1
  <2>2. CASE \E fee : call' = [call EXCEPT ![c].pc = "select", ![c].fee = fee]
    <3>1. \A d \in Caller : call'[d].reason = call[d].reason
      BY <1>0, <2>2 DEF TypeInv, CallRec
    <3>. QED
      BY <3>1, SilentBlamed
  <2>. QED
    BY <1>5, <2>1, <2>2 DEF SelectBroadcaster
<1>6. ASSUME NEW c \in Caller, SelectUTXOs(c)
      PROVE  \A d \in Caller : Blamed(d, call'[d])
  <2>5. PICK N : N = Spendable
    OBVIOUS
  <2>6. PICK r : r = call[c]
    OBVIOUS
  <2>7. PICK amount : amount = Asked(r, CalculateTotalSpend(N, leaf))
    OBVIOUS
  <2>8. PICK solutions : solutions = CreateSimpleSatisfyingUTXOGroup(N, leaf, amount + r.fee)
    OBVIOUS
  <2>1.     IF amount <= 0 THEN Fail(c, "balance")
            ELSE IF solutions \subseteq {{}}
            THEN call' = [call EXCEPT ![c].pc = "failed", ![c].reason = "utxos", ![c].amount = amount, ![c].offered = N]
            ELSE \E X \in solutions :
                   call' = [call EXCEPT ![c].pc = "proofs", ![c].amount = amount, ![c].offered = N, ![c].seen = imported,
                                        ![c].inputs = X, ![c].todo = X]
    BY <1>6, <2>5, <2>6, <2>7, <2>8, Zenon DEF SelectUTXOs
  <2>2. CASE Fail(c, "balance")
    BY <1>3, <2>2
  <2>3. CASE call' = [call EXCEPT ![c].pc = "failed", ![c].reason = "utxos", ![c].amount = amount, ![c].offered = N]
    <3>1. \A d \in Caller : call'[d].reason \in {call[d].reason, "utxos"}
      BY <1>0, <2>3 DEF TypeInv, CallRec
    <3>. QED
      BY <3>1, SilentBlamed
  <2>4. CASE \E X \in solutions :
                   call' = [call EXCEPT ![c].pc = "proofs", ![c].amount = amount, ![c].offered = N, ![c].seen = imported,
                                        ![c].inputs = X, ![c].todo = X]
    <3>1. PICK X \in solutions :
                   call' = [call EXCEPT ![c].pc = "proofs", ![c].amount = amount, ![c].offered = N, ![c].seen = imported,
                                        ![c].inputs = X, ![c].todo = X]
      BY <2>4
    <3>2. \A d \in Caller : call'[d].reason = call[d].reason
      BY <1>0, <3>1 DEF TypeInv, CallRec
    <3>. QED
      BY <3>2, SilentBlamed
  <2>. QED
    BY <2>1, <2>2, <2>3, <2>4
<1>7. ASSUME NEW c \in Caller, EnsureArtifacts(c)
      PROVE  \A d \in Caller : Blamed(d, call'[d])
  <2>1. Fail(c, "circuit") \/ Fail(c, "download") \/ Goto(c, "truncate")
    BY <1>7 DEF EnsureArtifacts
  <2>. QED
    BY <1>2, <1>3, <2>1
<1>8. ASSUME NEW c \in Caller, TruncateManifest(c) \/ WriteManifest(c)
      PROVE  \A d \in Caller : Blamed(d, call'[d])
  <2>1. Goto(c, "write") \/ Goto(c, "prove")
    BY <1>8 DEF TruncateManifest, WriteManifest
  <2>. QED
    BY <1>2, <2>1
<1>9. ASSUME NEW c \in Caller, SelfBroadcast(c) \/ Relay(c)
      PROVE  \A d \in Caller : Blamed(d, call'[d])
  <2>1. /\ call[c].pc = "submit"
        /\ \/ Goto(c, "wait") \/ Fail(c, "answer") \/ Fail(c, "refused")
           \/ Fail(c, "estimate") /\ ~Executes(call[c])
    BY <1>9 DEF SelfBroadcast, Relay, At
  <2>2. CASE Fail(c, "estimate") /\ ~Executes(call[c])
    <3>1. Raced(call[c])
      BY <2>1, <2>2, SubmittedHas
    <3>2. "estimate" \in Reasons
      BY DEF Reasons
    <3>. QED
      BY <1>0, <2>2, <3>1, <3>2, FailBlamed
  <2>. QED
    BY <1>2, <1>3, <2>1, <2>2
<1>10. ASSUME NEW c \in Caller, Receipt(c)
       PROVE  \A d \in Caller : Blamed(d, call'[d])
  <2>1. /\ call[c].pc = "wait"
        /\ Goto(c, "done") \/ (Fail(c, "reverted") /\ outcome[c] = "reverted")
    BY <1>10 DEF Receipt, At
  <2>2. CASE Fail(c, "reverted") /\ outcome[c] = "reverted"
    <3>1. Raced(call[c])
      BY <2>1, <2>2, SubmittedHas
    <3>2. "reverted" \in Reasons
      BY DEF Reasons
    <3>. QED
      BY <1>0, <2>2, <3>1, <3>2, FailBlamed
  <2>. QED
    BY <1>2, <2>1, <2>2
<1>11. ASSUME NEW c \in Caller, WaitFails(c)
       PROVE  \A d \in Caller : Blamed(d, call'[d])
  <2>1. \A d \in Caller : call'[d].reason \in {call[d].reason, "receipt"}
    BY <1>0, <1>11 DEF WaitFails, TypeInv, CallRec
  <2>. QED
    BY <2>1, SilentBlamed
<1>12. CASE \/ \E value \in ShieldValue : Shield(value)
            \/ Sync \/ RefreshPOIs \/ UNCHANGED vars
            \/ \E c \in Caller : Mine(c)
  <2>1. UNCHANGED call
    BY <1>12 DEF Shield, Sync, RefreshPOIs, Mine, vars
  <2>. QED
    BY <1>1, <2>1
<1>. QED
  BY <1>4, <1>5, <1>6, <1>7, <1>8, <1>9, <1>10, <1>11, <1>12, UTXOMerkleProofBlamed, ProveRailgunBlamed DEF Next

\* A call fails on what another one did, on a wrong download or on a tree that
\* grew, never on what it has built itself (ensureDefaultRailgunArtifactManifest,
\* buildUnshieldTokenBatchInputs, RelayAdaptParamsUnshieldBaseTokenV2).
THEOREM FailsOnlyIfRacedHolds == Spec => FailsOnlyIfRaced
<1>1. IInv /\ [Next]_vars =>
        [\A c \in Caller :
            LET r == call'[c]
            IN  r.reason # call[c].reason =>
                    /\ r.reason # "witness"
                    /\ r.reason = "manifest" => manifest.by # c
                    /\ r.reason = "verify" => files[CircuitOf(r)] = "bad"
                    /\ r.reason = "roots" => imported > r.seen
                    /\ r.reason \in {"estimate", "reverted"} =>
                          \/ \E k \in r.inputs : TreeOf(k) > 0 /\ k \in revealed
                          \/ \E n \in (r.seen + 1)..Len(log) : r.inputs \cap log[n].spends # {}
                          \/ r.request.base /\ r.request.rejects /\ ~r.request.relayed]_vars
  <2>1. SUFFICES ASSUME IInv, [Next]_vars, NEW c \in Caller, NEW r, r = call'[c]
                 PROVE  r.reason # call[c].reason =>
                    /\ r.reason # "witness"
                    /\ r.reason = "manifest" => manifest.by # c
                    /\ r.reason = "verify" => files[CircuitOf(r)] = "bad"
                    /\ r.reason = "roots" => imported > r.seen
                    /\ r.reason \in {"estimate", "reverted"} =>
                          \/ \E k \in r.inputs : TreeOf(k) > 0 /\ k \in revealed
                          \/ \E n \in (r.seen + 1)..Len(log) : r.inputs \cap log[n].spends # {}
                          \/ r.request.base /\ r.request.rejects /\ ~r.request.relayed
    OBVIOUS
  <2>2. Blamed(c, r)
    BY <2>1, NextBlamed
  <2>. QED
    BY <2>2 DEF Blamed, Raced
<1>. QED
  BY <1>1, PrivateInductive, PTL DEF Spec, FailsOnlyIfRaced

=============================================================================
