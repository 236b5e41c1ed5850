-------------------------- MODULE EventSources_proofs --------------------------
(***************************************************************************)
(* Theorems about EventSources, for any calls, tree size and page size:    *)
(* that an event keeps the place, the transaction and the block which the  *)
(* contract gave it, that pages are complete, that the fees of a log add   *)
(* up, and which unshields share a key. The order of the proof: sums and   *)
(* division; the calls that are mined; the events that are read out of     *)
(* them; the pages; the fees.                                              *)
(***************************************************************************)
EXTENDS EventSources, FiniteSetTheorems, WellFoundedInduction, TLAPS

-----------------------------------------------------------------------------
(* Induction on numbers, in the form of sets.                               *)

\* A set of naturals has a least one.
LEMMA LeastNat ==
    ASSUME NEW T \in SUBSET Nat, T # {}
    PROVE  \E m \in T : \A n \in T : m <= n
<1>. DEFINE R == OpToRel(<, Nat)
<1>1. IsWellFoundedOn(R, Nat)
  BY NatLessThanWellFounded
<1>2. \A n, m \in Nat : <<n, m>> \in R <=> n < m
  BY DEF OpToRel
<1>. HIDE DEF R
<1>3. PICK m \in T : \A n \in T : ~ (<<n, m>> \in R)
  BY <1>1, WFMin
<1>4. \A n \in T : ~ (n < m)
  <2>. TAKE n \in T
  <2>1. n \in Nat /\ m \in Nat
    OBVIOUS
  <2>. QED
    BY <1>2, <1>3, <2>1
<1>. QED
  BY <1>4

\* A set that holds 0 and, with a number, the next one, holds all that are counted.
LEMMA Climb ==
    ASSUME NEW N \in Nat, NEW T, 0 \in T,
           \A n \in 0 .. N - 1 : n \in T => n + 1 \in T
    PROVE  \A n \in 0 .. N : n \in T
<1>. DEFINE Out == {n \in 0 .. N : n \notin T}
<1>. SUFFICES ASSUME Out # {} PROVE FALSE
  OBVIOUS
<1>1. Out \in SUBSET Nat
  OBVIOUS
<1>2. PICK m \in Out : \A n \in Out : m <= n
  BY <1>1, LeastNat
<1>3. m # 0 /\ m - 1 \in 0 .. N - 1 /\ m - 1 \notin Out
  BY <1>2
<1>4. (m - 1) + 1 \in T
  BY <1>3
<1>. QED
  BY <1>2, <1>4

-----------------------------------------------------------------------------
(* Sums of sequences.                                                      *)

LEMMA SumsAre ==
    ASSUME NEW x, Len(x) \in Nat
    PROVE  Sums(x) = [n \in 0..Len(x) |-> IF n = 0 THEN 0 ELSE Sums(x)[n - 1] + x[n]]
<1>. DEFINE Is(g, m) == /\ g = [n \in 0 .. m |-> g[n]]
                        /\ \A n \in 0 .. m : g[n] = IF n = 0 THEN 0 ELSE g[n - 1] + x[n]
            N == Len(x)
            Good == {m \in 0 .. N : \E g : Is(g, m)}
<1>0. N \in Nat
  OBVIOUS
<1>1. 0 \in Good
  <2>1. PICK h : h = [n \in 0 .. 0 |-> 0]
    OBVIOUS
  <2>2. h = [n \in 0 .. 0 |-> h[n]]
    BY <2>1
  <2>3. \A n \in 0 .. 0 : h[n] = IF n = 0 THEN 0 ELSE h[n - 1] + x[n]
    BY <2>1
  <2>. QED
    BY <1>0, <2>2, <2>3
<1>2. ASSUME NEW m \in 0 .. N - 1, m \in Good
      PROVE  m + 1 \in Good
  <2>1. PICK g : Is(g, m)
    BY <1>2
  <2>2. m \in Nat /\ m + 1 \in 0 .. N
    BY <1>0
  <2>. HIDE DEF Good, N
  <2>3. PICK h : h = [n \in 0 .. m + 1 |-> IF n = 0 THEN 0 ELSE g[n - 1] + x[n]]
    OBVIOUS
  <2>4. \A n \in 0 .. m : h[n] = g[n]
    <3>. TAKE n \in 0 .. m
    <3>1. n \in 0 .. m + 1 /\ h[n] = IF n = 0 THEN 0 ELSE g[n - 1] + x[n]
      BY <2>2, <2>3
    <3>2. g[n] = IF n = 0 THEN 0 ELSE g[n - 1] + x[n]
      BY <2>1 DEF Is
    <3>. QED
      BY <3>1, <3>2
  <2>5. h = [n \in 0 .. m + 1 |-> h[n]]
    BY <2>3
  <2>6. \A n \in 0 .. m + 1 : h[n] = IF n = 0 THEN 0 ELSE h[n - 1] + x[n]
    <3>. TAKE n \in 0 .. m + 1
    <3>1. h[n] = IF n = 0 THEN 0 ELSE g[n - 1] + x[n]
      BY <2>3
    <3>2. n # 0 => n - 1 \in 0 .. m
      BY <2>2
    <3>. QED
      BY <2>4, <3>1, <3>2
  <2>. QED
    BY <2>2, <2>5, <2>6 DEF Good, Is
<1>3. N \in Good
  <2>1. \A m \in 0 .. N - 1 : m \in Good => m + 1 \in Good
    BY <1>2
  <2>. HIDE DEF Good, N
  <2>2. \A m \in 0 .. N : m \in Good
    BY <1>0, <1>1, <2>1, Climb
  <2>. QED
    BY <1>0, <2>2
<1>4. PICK g : Is(g, N)
  BY <1>3
<1>5. g = [n \in 0 .. Len(x) |-> IF n = 0 THEN 0 ELSE g[n - 1] + x[n]]
  BY <1>4
<1>. QED
  BY <1>5 DEF Sums

LEMMA SumsStep ==
    ASSUME NEW x, Len(x) \in Nat
    PROVE  /\ Sums(x)[0] = 0
           /\ \A n \in 1..Len(x) : Sums(x)[n] = Sums(x)[n - 1] + x[n]
<1>1. 0 \in 0..Len(x) /\ \A n \in 1..Len(x) : n \in 0..Len(x) /\ n # 0
  OBVIOUS
<1>. QED
  BY <1>1, SumsAre

LEMMA SumsInt ==
    ASSUME NEW x, Len(x) \in Nat, \A n \in 1..Len(x) : x[n] \in Int
    PROVE  \A n \in 0..Len(x) : Sums(x)[n] \in Int
<1>. DEFINE Good == {n \in 0..Len(x) : Sums(x)[n] \in Int}
<1>1. 0 \in Good
  BY SumsStep
<1>2. ASSUME NEW n \in 0..(Len(x) - 1), n \in Good
      PROVE  n + 1 \in Good
  <2>1. n + 1 \in 1..Len(x) /\ (n + 1) - 1 = n
    OBVIOUS
  <2>2. Sums(x)[n + 1] = Sums(x)[n] + x[n + 1]
    BY <2>1, SumsStep
  <2>. QED
    BY <1>2, <2>1, <2>2
<1>. HIDE DEF Good
<1>3. \A n \in 0..Len(x) : n \in Good
  BY <1>1, <1>2, Climb
<1>. QED
  BY <1>3 DEF Good

\* The sums of naturals go up.
LEMMA SumsUp ==
    ASSUME NEW x, Len(x) \in Nat, \A n \in 1..Len(x) : x[n] \in Nat
    PROVE  /\ \A n \in 0..Len(x) : Sums(x)[n] \in Nat
           /\ \A m, n \in 0..Len(x) : m <= n => Sums(x)[m] <= Sums(x)[n]
<1>1. \A n \in 0..Len(x) : Sums(x)[n] \in Int
  BY SumsInt
<1>. DEFINE Good == {n \in 0..Len(x) : /\ Sums(x)[n] \in Nat
                                       /\ \A m \in 0..n : Sums(x)[m] <= Sums(x)[n]}
<1>2. 0 \in Good
  BY SumsStep
<1>3. ASSUME NEW n \in 0..(Len(x) - 1), n \in Good
      PROVE  n + 1 \in Good
  <2>1. n + 1 \in 1..Len(x) /\ (n + 1) - 1 = n /\ n \in 0..Len(x)
    OBVIOUS
  <2>2. Sums(x)[n + 1] = Sums(x)[n] + x[n + 1] /\ x[n + 1] \in Nat
    BY <2>1, SumsStep
  <2>3. Sums(x)[n + 1] \in Nat /\ Sums(x)[n] \in Nat /\ Sums(x)[n] <= Sums(x)[n + 1]
    BY <1>3, <2>2
  <2>4. ASSUME NEW m \in 0..(n + 1) PROVE Sums(x)[m] <= Sums(x)[n + 1]
    <3>1. m \in 0..Len(x) /\ Sums(x)[m] \in Int
      BY <1>1
    <3>2. m = n + 1 \/ m \in 0..n
      OBVIOUS
    <3>3. m \in 0..n => Sums(x)[m] <= Sums(x)[n]
      BY <1>3
    <3>. QED
      BY <2>3, <3>1, <3>2, <3>3
  <2>. QED
    BY <2>1, <2>3, <2>4
<1>. HIDE DEF Good
<1>4. \A n \in 0..Len(x) : n \in Good
  BY <1>2, <1>3, Climb
<1>5. \A m, n \in 0..Len(x) : m <= n => m \in 0..n
  OBVIOUS
<1>. QED
  BY <1>4, <1>5 DEF Good

\* Items of one each are as many as they are.
LEMMA SumsOnes ==
    ASSUME NEW x, Len(x) \in Nat, NEW n \in 0..Len(x), \A m \in 1..n : x[m] = 1
    PROVE  Sums(x)[n] = n
<1>. DEFINE Good == {m \in 0..n : Sums(x)[m] = m}
<1>1. 0 \in Good
  BY SumsStep
<1>2. ASSUME NEW m \in 0..(n - 1), m \in Good
      PROVE  m + 1 \in Good
  <2>1. m + 1 \in 1..Len(x) /\ m + 1 \in 1..n /\ (m + 1) - 1 = m
    OBVIOUS
  <2>2. Sums(x)[m + 1] = Sums(x)[m] + x[m + 1]
    BY <2>1, SumsStep
  <2>. QED
    BY <1>2, <2>1, <2>2
<1>. HIDE DEF Good
<1>3. \A m \in 0..n : m \in Good
  BY <1>1, <1>2, Climb
<1>. QED
  BY <1>3 DEF Good

-----------------------------------------------------------------------------
(* Division.                                                               *)

LEMMA Divide ==
    ASSUME NEW a \in Nat, NEW b \in Nat \ {0}
    PROVE  /\ a \div b \in Nat /\ a % b \in 0..(b - 1)
           /\ (a \div b) * b + (a % b) = a
<1>1. a \div b \in Nat /\ a % b \in 0..(b - 1)
  OBVIOUS
<1>2. a % b = a - b * (a \div b)
  OBVIOUS
<1>3. b * (a \div b) = (a \div b) * b
  BY <1>1
<1>. DEFINE q == (a \div b) * b
            r == a % b
<1>4. q \in Int /\ r \in Int /\ r = a - q
  BY <1>1, <1>2, <1>3
<1>5. q + r = a
  <2>. HIDE DEF q, r
  <2>. QED
    BY <1>4
<1>6. (a \div b) * b + (a % b) = a
  BY <1>5
<1>. QED
  BY <1>1, <1>6

\* A quotient is what is left when the remainder is small enough.
LEMMA Quotient ==
    ASSUME NEW q \in Nat, NEW b \in Nat \ {0}, NEW r \in 0..(b - 1)
    PROVE  (q * b + r) \div b = q /\ (q * b + r) % b = r
OBVIOUS

-----------------------------------------------------------------------------
(* What a call may do.                                                     *)

LEMMA SequenceIs ==
    ASSUME NEW S, NEW s \in Seq(S)
    PROVE  /\ Len(s) \in Nat /\ DOMAIN s = 1..Len(s)
           /\ \A i \in 1..Len(s) : s[i] \in S
OBVIOUS

\* A function on the first numbers is a sequence.
LEMMA LenIs ==
    ASSUME NEW n \in Nat, NEW f, DOMAIN f = 1..n
    PROVE  Len(f) = n
OBVIOUS

LEMMA Sizes0 == TreeSize \in Nat \ {0} /\ FeeUnit \in Nat \ {0}
BY AccumulatorAssumption

LEMMA BaseIs == IdBase \in Nat \ {0}
BY DEF IdBase

LEMMA UpdateIs ==
    ASSUME NEW up \in Update
    PROVE  /\ Len(up.transacts) \in 0..(IdBase - 1) /\ DOMAIN up.transacts = 1..Len(up.transacts)
           /\ \A i \in 1..Len(up.transacts) :
                 /\ up.transacts[i].count \in Nat /\ up.transacts[i].spends \in 0..(IdBase - 1)
                 /\ up.transacts[i].unshield \in UnshieldItem
           /\ Len(up.shields) \in 0..TreeSize /\ DOMAIN up.shields = 1..Len(up.shields)
           /\ \A i \in 1..Len(up.shields) : up.shields[i].token \in Token /\ up.shields[i].value \in Nat \ {0}
<1>1. up \in Call /\ Len(up.transacts) < IdBase /\ Len(up.shields) <= TreeSize
  BY UpdatesAreCalls DEF UpdateAssumption
<1>. DEFINE T == [count : Nat, spends : 0..(IdBase - 1), unshield : UnshieldItem]
            H == [token : Token, value : Nat \ {0}]
<1>2. up.transacts \in Seq(T) /\ up.shields \in Seq(H)
  BY <1>1 DEF Call
<1>3. /\ Len(up.transacts) \in Nat /\ DOMAIN up.transacts = 1..Len(up.transacts)
      /\ \A i \in 1..Len(up.transacts) : up.transacts[i] \in T
  <2>. HIDE DEF T
  <2>. QED
    BY <1>2, SequenceIs
<1>4. /\ Len(up.shields) \in Nat /\ DOMAIN up.shields = 1..Len(up.shields)
      /\ \A i \in 1..Len(up.shields) : up.shields[i] \in H
  <2>. HIDE DEF H
  <2>. QED
    BY <1>2, SequenceIs
<1>5. Len(up.transacts) \in 0..(IdBase - 1) /\ Len(up.shields) \in 0..TreeSize
  <2>. HIDE DEF T, H
  <2>1. Len(up.transacts) \in 0..(IdBase - 1)
    BY <1>1, <1>3, BaseIs
  <2>2. Len(up.shields) \in 0..TreeSize
    BY <1>1, <1>4, Sizes0
  <2>. QED
    BY <2>1, <2>2
<1>6. \A i \in 1..Len(up.transacts) :
         /\ up.transacts[i].count \in Nat /\ up.transacts[i].spends \in 0..(IdBase - 1)
         /\ up.transacts[i].unshield \in UnshieldItem
  BY <1>3
<1>7. \A i \in 1..Len(up.shields) : up.shields[i].token \in Token /\ up.shields[i].value \in Nat \ {0}
  BY <1>4
<1>. HIDE DEF T, H
<1>. QED
  BY <1>3, <1>4, <1>5, <1>6, <1>7

\* The leaves before each transaction of a call.
LEMMA CountsAre ==
    ASSUME NEW up \in Update
    PROVE  /\ Len(Counts(up)) = Len(up.transacts)
           /\ \A i \in 1..Len(up.transacts) : Counts(up)[i] = up.transacts[i].count /\ Counts(up)[i] \in Nat
           /\ Sums(Counts(up))[0] = 0
           /\ \A i \in 0..Len(up.transacts) : Sums(Counts(up))[i] \in Nat
           /\ \A i \in 1..Len(up.transacts) : Sums(Counts(up))[i] = Sums(Counts(up))[i - 1] + up.transacts[i].count
           /\ \A i, j \in 0..Len(up.transacts) : i <= j => Sums(Counts(up))[i] <= Sums(Counts(up))[j]
           /\ SumOf(Counts(up)) = Sums(Counts(up))[Len(up.transacts)]
           /\ SumOf(Counts(up)) \in 0..TreeSize
<1>. DEFINE L == Len(up.transacts)
            x == Counts(up)
<1>1. L \in Nat /\ DOMAIN up.transacts = 1..L /\ \A i \in 1..L : up.transacts[i].count \in Nat
  BY UpdateIs
<1>2. DOMAIN x = 1..L /\ \A i \in 1..L : x[i] = up.transacts[i].count
  BY <1>1 DEF Counts
<1>3. Len(x) = L
  <2>. HIDE DEF L, x
  <2>. QED
    BY <1>1, <1>2, LenIs
<1>4. \A i \in 1..L : x[i] \in Nat
  BY <1>1, <1>2
<1>5. SumOf(x) <= TreeSize
  BY UpdatesAreCalls DEF UpdateAssumption
<1>. HIDE DEF x, L
<1>6. /\ Sums(x)[0] = 0
      /\ \A i \in 1..L : Sums(x)[i] = Sums(x)[i - 1] + x[i]
  BY <1>1, <1>3, SumsStep
<1>7. /\ \A i \in 0..L : Sums(x)[i] \in Nat
      /\ \A i, j \in 0..L : i <= j => Sums(x)[i] <= Sums(x)[j]
  BY <1>1, <1>3, <1>4, SumsUp
<1>8. SumOf(x) = Sums(x)[L]
  BY <1>3 DEF SumOf
<1>9. SumOf(x) \in 0..TreeSize
  <2>1. L \in 0..L
    BY <1>1
  <2>. QED
    BY <1>5, <1>7, <1>8, <2>1, Sizes0
<1>. QED
  BY <1>2, <1>3, <1>4, <1>6, <1>7, <1>8, <1>9 DEF x, L

-----------------------------------------------------------------------------
(* Where a contract puts the leaves of a call.                             *)

\* What begins with a tree and is no longer stays in it.
LEMMA NextTreeIs ==
    ASSUME NEW p \in Nat
    PROVE  /\ NextTree(p) \in Nat /\ p <= NextTree(p)
           /\ \A s, n \in Nat : s + n <= TreeSize => InOneTree(NextTree(p) + s, n)
<1>. DEFINE q == p \div TreeSize
            b == TreeSize
<1>1. b \in Nat \ {0}
  BY Sizes0
<1>2. q \in Nat /\ p % b \in 0..(b - 1) /\ q * b + (p % b) = p
  BY <1>1, Divide
<1>3. q + 1 \in Nat /\ NextTree(p) = (q + 1) * b
  BY <1>2 DEF NextTree
<1>. HIDE DEF q, b
<1>4. (q + 1) * b \in Nat /\ (q + 1) * b = q * b + b /\ q * b \in Nat
  BY <1>1, <1>2
<1>5. p <= (q + 1) * b
  BY <1>1, <1>2, <1>4
<1>6. ASSUME NEW s \in Nat, NEW n \in Nat, s + n <= b, n # 0
      PROVE  ((q + 1) * b + s) \div b = ((q + 1) * b + s + n - 1) \div b
  <2>1. s \in 0..(b - 1) /\ s + n - 1 \in 0..(b - 1)
    BY <1>1, <1>6
  <2>2. ((q + 1) * b + s) \div b = q + 1
    BY <1>1, <1>3, <2>1, Quotient
  <2>3. ((q + 1) * b + (s + n - 1)) \div b = q + 1
    BY <1>1, <1>3, <2>1, Quotient
  <2>4. (q + 1) * b + (s + n - 1) = (q + 1) * b + s + n - 1
    <3>. DEFINE z == (q + 1) * b
    <3>1. z \in Nat
      BY <1>4
    <3>2. z + (s + n - 1) = z + s + n - 1
      <4>. HIDE DEF z
      <4>. QED
        BY <3>1
    <3>. QED
      BY <3>2
  <2>. QED
    BY <2>2, <2>3, <2>4
<1>. QED
  BY <1>3, <1>4, <1>5, <1>6 DEF b, InOneTree

LEMMA V2PositionsAre ==
    ASSUME NEW up \in Update, next \in Nat
    PROVE  LET p == V2Positions(Counts(up), Len(up.shields))
               n == SumOf(Counts(up))
               m == Len(up.shields)
           IN  /\ p.transact \in Nat /\ next <= p.transact /\ InOneTree(p.transact, n)
               /\ p.shield \in Nat /\ p.transact + n <= p.shield /\ InOneTree(p.shield, m)
               /\ p.next = p.shield + m /\ p.next \in Nat
<1>. DEFINE n == SumOf(Counts(up))
            m == Len(up.shields)
            first == IF InOneTree(next, n) THEN next ELSE NextTree(next)
            shield == IF InOneTree(first + n, m) THEN first + n ELSE NextTree(first + n)
<1>1. n \in 0..TreeSize /\ m \in 0..TreeSize
  BY CountsAre, UpdateIs
<1>2. V2Positions(Counts(up), m) = [transact |-> first, shield |-> shield, next |-> shield + m]
  BY DEF V2Positions
<1>. HIDE DEF n, m
<1>3. first \in Nat /\ next <= first /\ InOneTree(first, n)
  <2>1. NextTree(next) \in Nat /\ next <= NextTree(next) /\ InOneTree(NextTree(next) + 0, n)
    BY <1>1, NextTreeIs, Sizes0
  <2>2. NextTree(next) + 0 = NextTree(next)
    BY <2>1
  <2>. QED
    BY <2>1, <2>2
<1>. HIDE DEF first
<1>4. shield \in Nat /\ first + n <= shield /\ InOneTree(shield, m)
  <2>0. first + n \in Nat
    BY <1>1, <1>3, Sizes0
  <2>1. NextTree(first + n) \in Nat /\ first + n <= NextTree(first + n) /\ InOneTree(NextTree(first + n) + 0, m)
    BY <1>1, <2>0, NextTreeIs, Sizes0
  <2>2. NextTree(first + n) + 0 = NextTree(first + n)
    BY <2>1
  <2>. QED
    BY <2>0, <2>1, <2>2
<1>. HIDE DEF shield
<1>5. shield + m \in Nat
  BY <1>1, <1>4, Sizes0
<1>. QED
  BY <1>2, <1>3, <1>4, <1>5 DEF n, m

LEMMA V3PositionsAre ==
    ASSUME NEW up \in Update, next \in Nat
    PROVE  LET p == V3Positions(Counts(up), Len(up.shields))
               n == SumOf(Counts(up))
               m == Len(up.shields)
           IN  /\ p.transact \in Nat /\ next <= p.transact
               /\ p.shield = p.transact + n /\ p.shield \in Nat
               /\ \A i \in 1..Len(up.transacts) :
                     InOneTree(p.transact + Sums(Counts(up))[i - 1], up.transacts[i].count)
               /\ p.next = p.shield + m /\ p.next \in Nat
<1>. DEFINE n == SumOf(Counts(up))
            m == Len(up.shields)
            x == Counts(up)
            L == Len(up.transacts)
            Fits(position) == \A i \in DOMAIN x : InOneTree(position + Sums(x)[i - 1], x[i])
            first == IF Fits(next) THEN next ELSE NextTree(next)
<1>1. n \in 0..TreeSize /\ m \in 0..TreeSize /\ L \in Nat
  BY CountsAre, UpdateIs
<1>2. V3Positions(x, m) = [transact |-> first, shield |-> first + n, next |-> first + n + m]
  BY DEF V3Positions
<1>3. DOMAIN x = 1..L
  BY UpdateIs DEF Counts
<1>4. \A i \in 1..L : /\ x[i] \in Nat /\ x[i] = up.transacts[i].count
                      /\ Sums(x)[i - 1] \in Nat
                      /\ Sums(x)[i - 1] + x[i] <= TreeSize
  <2>. SUFFICES ASSUME NEW i \in 1..L
                PROVE  /\ x[i] \in Nat /\ x[i] = up.transacts[i].count
                       /\ Sums(x)[i - 1] \in Nat /\ Sums(x)[i - 1] + x[i] <= TreeSize
    OBVIOUS
  <2>1. i \in 0..L /\ i - 1 \in 0..L /\ L \in 0..L /\ i <= L
    BY <1>1
  <2>2. /\ x[i] \in Nat /\ x[i] = up.transacts[i].count
        /\ Sums(x)[i] \in Nat /\ Sums(x)[L] \in Nat /\ Sums(x)[i - 1] \in Nat
        /\ Sums(x)[i] = Sums(x)[i - 1] + up.transacts[i].count
    BY <2>1, CountsAre
  <2>3. Sums(x)[i] <= Sums(x)[L]
    BY <2>1, CountsAre
  <2>4. Sums(x)[L] \in 0..TreeSize
    BY CountsAre
  <2>. QED
    BY <2>2, <2>3, <2>4, Sizes0
<1>. HIDE DEF n, m, x, L
<1>5. first \in Nat /\ next <= first /\ Fits(first)
  <2>1. NextTree(next) \in Nat /\ next <= NextTree(next)
    BY NextTreeIs
  <2>2. Fits(NextTree(next))
    BY <1>3, <1>4, NextTreeIs
  <2>. QED
    BY <2>1, <2>2
<1>6. \A i \in 1..L : InOneTree(first + Sums(x)[i - 1], up.transacts[i].count)
  BY <1>3, <1>4, <1>5
<1>. HIDE DEF first, Fits
<1>7. first + n \in Nat /\ first + n + m \in Nat
  BY <1>1, <1>5, Sizes0
<1>. QED
  BY <1>2, <1>5, <1>6, <1>7 DEF n, m, x, L

\* The leaves of a group that stays in its tree.
LEMMA InTree ==
    ASSUME NEW p \in Nat, NEW n \in Nat, InOneTree(p, n), NEW k \in 0..(n - 1)
    PROVE  (p + k) \div TreeSize = p \div TreeSize /\ (p + k) % TreeSize = (p % TreeSize) + k
<1>. DEFINE b == TreeSize
            q == p \div b
            r == p % b
            e == p + n - 1
<1>1. b \in Nat \ {0} /\ e \in Nat
  BY Sizes0
<1>2. q \in Nat /\ r \in 0..(b - 1) /\ q * b + r = p
  BY <1>1, Divide
<1>3. e \div b = q /\ (e % b) \in 0..(b - 1) /\ q * b + (e % b) = e
  <2>1. e \div b = q
    BY DEF InOneTree
  <2>2. (e \div b) * b + (e % b) = e /\ (e % b) \in 0..(b - 1)
    <3>. HIDE DEF e, b
    <3>. QED
      BY <1>1, Divide
  <2>. QED
    BY <2>1, <2>2
<1>4. q * b \in Nat
  BY <1>1, <1>2
<1>5. r + k \in 0..(b - 1) /\ q * b + (r + k) = p + k
  <2>. DEFINE z == q * b
              w == e % b
  <2>1. z \in Nat /\ w \in 0..(b - 1) /\ z + w = e /\ z + r = p /\ e = p + n - 1 /\ r \in 0..(b - 1)
    BY <1>2, <1>3, <1>4
  <2>2. r + k \in 0..(b - 1) /\ z + (r + k) = p + k
    <3>. HIDE DEF z, w, b, q, r, e
    <3>. QED
      BY <1>1, <2>1
  <2>. QED
    BY <2>2
<1>6. (q * b + (r + k)) \div b = q /\ (q * b + (r + k)) % b = r + k
  <2>. DEFINE t == r + k
  <2>1. q \in Nat /\ b \in Nat \ {0} /\ t \in 0..(b - 1)
    BY <1>1, <1>2, <1>5
  <2>. HIDE DEF q, b, t
  <2>2. (q * b + t) \div b = q /\ (q * b + t) % b = t
    BY ONLY <2>1, Quotient
  <2>. QED
    BY <2>2 DEF t
<1>. QED
  <2>. HIDE DEF q, r, b
  <2>1. (p + k) \div b = q /\ (p + k) % b = r + k
    BY <1>5, <1>6
  <2>. QED
    BY <2>1 DEF q, r, b

-----------------------------------------------------------------------------
(* The calls that are mined.                                                *)

\* The n-th call u of the contract does what up says.
Does(n, u, up) ==
    /\ u.n = n /\ u.txid \in Nat /\ u.block \in Nat \ {0}
    /\ u.transacts = Transacts(n, up) /\ u.shields = Shields(n, up)

\* Its leaves are in their trees.
PlacedAs(v, u, up) ==
    /\ u.transact \in Nat /\ u.shield \in Nat
    /\ u.transact + SumOf(Counts(up)) <= u.shield
    /\ v = "V2" => InOneTree(u.transact, SumOf(Counts(up))) /\ InOneTree(u.shield, Len(up.shields))
    /\ v = "V3" =>
          /\ u.shield = u.transact + SumOf(Counts(up))
          /\ \A i \in 1..Len(up.transacts) : InOneTree(u.transact + Sums(Counts(up))[i - 1], up.transacts[i].count)

End(u) == u.shield + Len(u.shields)

\* The shape of a call.
LEMMA DoesShape ==
    ASSUME NEW n \in Nat, NEW u, NEW up \in Update, Does(n, u, up)
    PROVE  /\ Len(u.transacts) = Len(up.transacts) /\ DOMAIN u.transacts = 1..Len(up.transacts)
           /\ Len(u.shields) = Len(up.shields) /\ DOMAIN u.shields = 1..Len(up.shields)
<1>1. /\ Len(up.transacts) \in Nat /\ DOMAIN up.transacts = 1..Len(up.transacts)
      /\ Len(up.shields) \in Nat /\ DOMAIN up.shields = 1..Len(up.shields)
  <2>1. Len(up.transacts) \in 0..(IdBase - 1) /\ Len(up.shields) \in 0..TreeSize
    BY UpdateIs
  <2>. QED
    BY <2>1, UpdateIs, BaseIs, Sizes0
<1>2. DOMAIN u.transacts = 1..Len(up.transacts) /\ DOMAIN u.shields = 1..Len(up.shields)
  BY <1>1 DEF Does, Transacts, Shields
<1>3. Len(u.transacts) = Len(up.transacts) /\ Len(u.shields) = Len(up.shields)
  BY <1>1, <1>2, LenIs
<1>. QED
  BY <1>2, <1>3 DEF Does

LEMMA TransactIs ==
    ASSUME NEW n \in Nat, NEW u, NEW up \in Update, Does(n, u, up), NEW i \in 1..Len(up.transacts)
    PROVE  u.transacts[i] = Transact(n, up, i)
<1>1. i \in DOMAIN up.transacts
  BY UpdateIs
<1>. QED
  BY <1>1 DEF Does, Transacts

\* The identifiers of a call.
LEMMA IdsAre ==
    ASSUME NEW n \in Nat, NEW u, NEW up \in Update, Does(n, u, up), NEW i \in 1..Len(up.transacts)
    PROVE  /\ u.transacts[i].id = IdBase * n + i
           /\ u.transacts[i].unshield = up.transacts[i].unshield
           /\ u.transacts[i].nullifiers = {IdBase * (IdBase * n + i) + k : k \in 1..up.transacts[i].spends}
<1>. DEFINE ns == {IdBase * (IdBase * n + i) + k : k \in 1..up.transacts[i].spends}
            id == IdBase * n + i
            notes == [j \in 1..up.transacts[i].count |-> <<n, "transact", Sums(Counts(up))[i - 1] + j>>]
            item == up.transacts[i].unshield
<1>1. Transact(n, up, i) = [id |-> id, unshield |-> item, nullifiers |-> ns, notes |-> notes]
  BY DEF Transact
<1>2. u.transacts[i].id = id /\ u.transacts[i].unshield = item /\ u.transacts[i].nullifiers = ns
  <2>. HIDE DEF ns, id, notes, item
  <2>. QED
    BY <1>1, TransactIs
<1>. QED
  BY <1>2, Zenon

LEMMA NotesFunction ==
    ASSUME NEW n \in Nat, NEW u, NEW up \in Update, Does(n, u, up), NEW i \in 1..Len(up.transacts)
    PROVE  u.transacts[i].notes
              = [j \in 1..up.transacts[i].count |-> <<n, "transact", Sums(Counts(up))[i - 1] + j>>]
<1>. DEFINE ns == {IdBase * (IdBase * n + i) + k : k \in 1..up.transacts[i].spends}
            id == IdBase * n + i
            item == up.transacts[i].unshield
            all == [j \in 1..up.transacts[i].count |-> <<n, "transact", Sums(Counts(up))[i - 1] + j>>]
<1>1. Transact(n, up, i) = [id |-> id, unshield |-> item, nullifiers |-> ns, notes |-> all]
  BY DEF Transact
<1>2. u.transacts[i].notes = all
  <2>. HIDE DEF ns, id, all, item
  <2>. QED
    BY <1>1, TransactIs
<1>. QED
  BY <1>2, Zenon

\* How many notes each transaction has, and which.
LEMMA NoteCount ==
    ASSUME NEW n \in Nat, NEW u, NEW up \in Update, Does(n, u, up), NEW i \in 1..Len(up.transacts)
    PROVE  DOMAIN u.transacts[i].notes = 1..up.transacts[i].count
<1>. DEFINE notes == u.transacts[i].notes
            m == up.transacts[i].count
<1>1. notes = [j \in 1..m |-> <<n, "transact", Sums(Counts(up))[i - 1] + j>>]
  BY NotesFunction
<1>. HIDE DEF notes
<1>2. DOMAIN notes = 1..m
  BY <1>1
<1>. QED
  BY <1>2 DEF notes

LEMMA NotesAre ==
    ASSUME NEW n \in Nat, NEW u, NEW up \in Update, Does(n, u, up), NEW i \in 1..Len(up.transacts)
    PROVE  /\ Len(u.transacts[i].notes) = up.transacts[i].count
           /\ \A j \in 1..up.transacts[i].count :
                 u.transacts[i].notes[j] = <<n, "transact", Sums(Counts(up))[i - 1] + j>>
<1>. DEFINE notes == u.transacts[i].notes
            m == up.transacts[i].count
<1>1. notes = [j \in 1..m |-> <<n, "transact", Sums(Counts(up))[i - 1] + j>>] /\ DOMAIN notes = 1..m
  BY NotesFunction, NoteCount
<1>2. m \in Nat
  BY UpdateIs
<1>. HIDE DEF notes, m
<1>3. \A j \in 1..m : notes[j] = <<n, "transact", Sums(Counts(up))[i - 1] + j>>
  BY <1>1
<1>4. Len(notes) = m
  BY <1>1, <1>2, LenIs
<1>. QED
  BY <1>3, <1>4 DEF notes, m

LEMMA ShieldsAre ==
    ASSUME NEW n \in Nat, NEW u, NEW up \in Update, Does(n, u, up), NEW i \in 1..Len(up.shields)
    PROVE  /\ u.shields[i].token = up.shields[i].token /\ u.shields[i].value = up.shields[i].value
           /\ u.shields[i].note = <<n, "shield", i>>
<1>1. i \in DOMAIN up.shields
  BY UpdateIs
<1>2. u.shields[i] = [token |-> up.shields[i].token, value |-> up.shields[i].value, note |-> <<n, "shield", i>>]
  BY <1>1, Zenon DEF Does, Shields
<1>. QED
  BY <1>2

\* The notes of the transactions of a call, and where the call has them.
LEMMA NoteIs ==
    ASSUME NEW n \in Nat, NEW u, NEW up \in Update, Does(n, u, up), PlacedAs(version, u, up),
           NEW i \in 1..Len(up.transacts), NEW j \in 1..up.transacts[i].count
    PROVE  LET note == u.transacts[i].notes[j]
               k == Sums(Counts(up))[i - 1] + j
           IN  /\ note = <<n, "transact", k>> /\ k \in 1..SumOf(Counts(up))
               /\ k <= Sums(Counts(up))[i]
               /\ PositionIn(u, note) = u.transact + k - 1
               /\ PositionIn(u, note) \in u.transact..(u.shield - 1)
<1>. DEFINE L == Len(up.transacts)
            x == Counts(up)
            note == u.transacts[i].notes[j]
            k == Sums(x)[i - 1] + j
            N == SumOf(x)
<1>1. note = <<n, "transact", k>>
  <2>1. u.transacts[i].notes[j] = <<n, "transact", Sums(Counts(up))[i - 1] + j>>
    BY NotesAre, Zenon
  <2>. QED
    BY <2>1
<1>2. L \in Nat /\ i \in Nat /\ i - 1 \in 0..L /\ i \in 0..L /\ L \in 0..L /\ i <= L
  BY UpdateIs, BaseIs
<1>3. up.transacts[i].count \in Nat
  BY UpdateIs
<1>4. Sums(x)[i] = Sums(x)[i - 1] + up.transacts[i].count
  BY CountsAre
<1>5. Sums(x)[i - 1] \in Nat /\ Sums(x)[i] \in Nat
  BY <1>2, CountsAre
<1>6. Sums(x)[i] <= Sums(x)[L] /\ N = Sums(x)[L] /\ N \in Nat
  <2>1. N \in 0..TreeSize /\ N = Sums(x)[L] /\ Sums(x)[i] <= Sums(x)[L]
    BY <1>2, CountsAre
  <2>. QED
    BY <2>1, Sizes0
<1>. HIDE DEF L, x, N
<1>7. k \in 1..N /\ k <= Sums(x)[i]
  <2>. DEFINE a == Sums(x)[i - 1]
              b == Sums(x)[i]
              c == Sums(x)[L]
              m == up.transacts[i].count
  <2>1. m \in Nat /\ j \in 1..m /\ a \in Nat /\ b \in Nat /\ b = a + m /\ b <= N /\ N \in Nat
    BY <1>3, <1>4, <1>5, <1>6
  <2>. HIDE DEF a, b, m
  <2>2. a + j \in 1..N /\ a + j <= b
    BY <2>1
  <2>. QED
    BY <2>2 DEF a, b
<1>. HIDE DEF k
<1>8. u.transact \in Nat /\ u.shield \in Nat /\ u.transact + N <= u.shield
  BY DEF PlacedAs, N, x
<1>9. PositionIn(u, note) = u.transact + k - 1
  <2>1. note[2] = "transact" /\ note[3] = k
    BY <1>1
  <2>. QED
    BY <2>1 DEF PositionIn
<1>10. u.transact + k - 1 \in u.transact..(u.shield - 1)
  <2>. DEFINE a == u.transact
              b == u.shield
  <2>1. a \in Nat /\ b \in Nat /\ a + N <= b /\ k \in 1..N /\ N \in Nat
    BY <1>6, <1>7, <1>8
  <2>. HIDE DEF a, b
  <2>2. a + k - 1 \in a..(b - 1)
    BY ONLY <2>1
  <2>. QED
    BY <2>2 DEF a, b
<1>. QED
  BY <1>1, <1>7, <1>9, <1>10 DEF k, N, x

LEMMA ShieldIs ==
    ASSUME NEW n \in Nat, NEW u, NEW up \in Update, Does(n, u, up), PlacedAs(version, u, up), NEW i \in 1..Len(up.shields)
    PROVE  /\ u.shields[i].note = <<n, "shield", i>>
           /\ PositionIn(u, u.shields[i].note) = u.shield + i - 1
           /\ PositionIn(u, u.shields[i].note) \in u.shield..(End(u) - 1)
<1>1. /\ u.shields[i].note = <<n, "shield", i>>
      /\ Len(u.shields) = Len(up.shields)
  BY ShieldsAre, DoesShape
<1>2. PositionIn(u, u.shields[i].note) = u.shield + i - 1
  BY <1>1 DEF PositionIn
<1>3. Len(up.shields) \in Nat /\ u.shield \in Nat
  BY UpdateIs, Sizes0 DEF PlacedAs
<1>4. u.shield + i - 1 \in u.shield..(End(u) - 1)
  <2>1. End(u) = u.shield + Len(up.shields)
    BY <1>1 DEF End
  <2>. QED
    BY <1>3, <2>1
<1>. QED
  BY <1>1, <1>2, <1>4

\* A leaf of a call is a note of one of its transactions or of its shields.
LEMMA LeafIs ==
    ASSUME NEW n \in Nat, NEW u, NEW up \in Update, Does(n, u, up), PlacedAs(version, u, up), NEW leaf \in Leaves(u)
    PROVE  /\ leaf = <<leaf[1], leaf[2]>> /\ leaf[2] = PositionIn(u, leaf[1])
           /\ \/ \E i \in 1..Len(up.transacts) : \E j \in 1..up.transacts[i].count : leaf[1] = u.transacts[i].notes[j]
              \/ \E i \in 1..Len(up.shields) : leaf[1] = u.shields[i].note
<1>0. \A h \in 1..Len(up.transacts) : DOMAIN u.transacts[h].notes = 1..up.transacts[h].count
  BY NoteCount
<1>1. PICK note \in Notes(u) \cup {u.shields[i].note : i \in DOMAIN u.shields} : leaf = <<note, PositionIn(u, note)>>
  BY DEF Leaves
<1>2. CASE note \in Notes(u)
  <2>1. PICK i \in DOMAIN u.transacts : \E j \in DOMAIN u.transacts[i].notes : note = u.transacts[i].notes[j]
    BY <1>2 DEF Notes
  <2>0. i \in 1..Len(up.transacts)
    BY DoesShape
  <2>2. i \in 1..Len(up.transacts) /\ DOMAIN u.transacts[i].notes = 1..up.transacts[i].count
    BY <1>0, <2>0
  <2>. QED
    BY <1>1, <2>1, <2>2
<1>3. CASE note \in {u.shields[i].note : i \in DOMAIN u.shields}
  <2>1. DOMAIN u.shields = 1..Len(up.shields)
    BY DoesShape
  <2>. QED
    BY <1>1, <1>3, <2>1
<1>. QED
  BY <1>1, <1>2, <1>3

\* The leaves of a call.
LEMMA LeavesAre ==
    ASSUME NEW n \in Nat, NEW u, NEW up \in Update, Does(n, u, up), PlacedAs(version, u, up)
    PROVE  /\ \A i \in 1..Len(up.transacts) : \A j \in 1..up.transacts[i].count :
                 LET note == u.transacts[i].notes[j] IN <<note, PositionIn(u, note)>> \in Leaves(u)
           /\ \A i \in 1..Len(up.shields) :
                 LET note == u.shields[i].note IN <<note, PositionIn(u, note)>> \in Leaves(u)
<1>1. /\ DOMAIN u.transacts = 1..Len(up.transacts) /\ DOMAIN u.shields = 1..Len(up.shields)
      /\ \A i \in 1..Len(up.transacts) : DOMAIN u.transacts[i].notes = 1..up.transacts[i].count
  BY DoesShape, NoteCount
<1>2. ASSUME NEW i \in 1..Len(up.transacts), NEW j \in 1..up.transacts[i].count
      PROVE  u.transacts[i].notes[j] \in Notes(u)
  <2>. DEFINE S(h) == {u.transacts[h].notes[k] : k \in DOMAIN u.transacts[h].notes}
  <2>1. u.transacts[i].notes[j] \in S(i)
    BY <1>1
  <2>2. S(i) \in {S(h) : h \in DOMAIN u.transacts}
    BY <1>1
  <2>. QED
    BY <2>1, <2>2 DEF Notes
<1>. QED
  BY <1>1, <1>2 DEF Leaves

-----------------------------------------------------------------------------
(* The order of the leaves of all calls.                                    *)

\* The calls are mined one after the other, and so are their leaves.
ChainInv ==
    /\ version \in {"V2", "V3"}
    /\ next \in Nat
    /\ \E S : mined \in Seq(S)
    /\ \A n \in 1..Len(mined) :
          /\ \E up \in Update : Does(n, mined[n], up) /\ PlacedAs(version, mined[n], up)
          /\ End(mined[n]) <= next
    /\ \A m, n \in 1..Len(mined) :
          m < n => mined[m].block <= mined[n].block /\ End(mined[m]) <= mined[n].transact

\* What is served and what is imported is mined.
CursorInv ==
    /\ indexed \in 0..HeadBlock
    /\ scanned \in 0..HeadBlock

LEMMA MinedIs ==
    ASSUME ChainInv
    PROVE  /\ Len(mined) \in Nat /\ DOMAIN mined = 1..Len(mined)
           /\ \A n \in 1..Len(mined) :
                 /\ mined[n].n = n /\ mined[n].block \in Nat \ {0} /\ mined[n].txid \in Nat
                 /\ mined[n].block <= HeadBlock
           /\ mined = <<>> <=> Len(mined) = 0
           /\ HeadBlock \in Nat
<1>1. PICK S : mined \in Seq(S)
  BY DEF ChainInv
<1>2. Len(mined) \in Nat /\ DOMAIN mined = 1..Len(mined) /\ (mined = <<>> <=> Len(mined) = 0)
  BY <1>1
<1>3. \A n \in 1..Len(mined) : mined[n].n = n /\ mined[n].block \in Nat \ {0} /\ mined[n].txid \in Nat
  BY DEF ChainInv, Does
<1>4. Len(mined) # 0 => HeadBlock = mined[Len(mined)].block /\ Len(mined) \in 1..Len(mined)
  BY <1>2 DEF HeadBlock
<1>5. Len(mined) = 0 => HeadBlock = 0
  BY <1>2 DEF HeadBlock
<1>6. HeadBlock \in Nat
  BY <1>2, <1>3, <1>4, <1>5
<1>7. ASSUME NEW n \in 1..Len(mined) PROVE mined[n].block <= HeadBlock
  <2>0. Len(mined) \in Nat
    BY <1>2
  <2>1. Len(mined) # 0 /\ (n = Len(mined) \/ n < Len(mined))
    BY ONLY <2>0, n \in 1..Len(mined)
  <2>2. n < Len(mined) => mined[n].block <= mined[Len(mined)].block
    BY <1>4, <2>1 DEF ChainInv
  <2>. QED
    BY <1>3, <1>4, <2>1, <2>2
<1>. QED
  BY <1>2, <1>3, <1>6, <1>7

\* The calls of a range of blocks.
LEMMA MinedFrom ==
    ASSUME ChainInv, NEW from, NEW to, NEW u \in Mined(from, to)
    PROVE  \E n \in 1..Len(mined) : u = mined[n] /\ u.block \in from..to
BY MinedIs DEF Mined

\* Both kinds of notes: the name, the place, the bounds.
LEMMA PlacesOfNotes ==
    ASSUME NEW n \in Nat, NEW u, NEW up \in Update, Does(n, u, up), PlacedAs(version, u, up), NEW note, NEW place,
           place = PositionIn(u, note),
           \/ \E i \in 1..Len(up.transacts) : \E j \in 1..up.transacts[i].count : note = u.transacts[i].notes[j]
           \/ \E i \in 1..Len(up.shields) : note = u.shields[i].note
    PROVE  \/ /\ \E k \in Nat : note = <<n, "transact", k>> /\ place = u.transact + k - 1
              /\ place \in u.transact..(u.shield - 1)
           \/ /\ \E k \in Nat : note = <<n, "shield", k>> /\ place = u.shield + k - 1
              /\ place \in u.shield..(End(u) - 1)
<1>1. ASSUME NEW i \in 1..Len(up.transacts), NEW j \in 1..up.transacts[i].count, note = u.transacts[i].notes[j]
      PROVE  /\ \E k \in Nat : note = <<n, "transact", k>> /\ place = u.transact + k - 1
             /\ place \in u.transact..(u.shield - 1)
  <2>. DEFINE k == Sums(Counts(up))[i - 1] + j
  <2>1. /\ note = <<n, "transact", k>> /\ k \in 1..SumOf(Counts(up))
        /\ PositionIn(u, note) = u.transact + k - 1
        /\ PositionIn(u, note) \in u.transact..(u.shield - 1)
    BY <1>1, NoteIs, Zenon
  <2>2. k \in Nat
    <3>. HIDE DEF k
    <3>. QED
      BY <2>1
  <2>. HIDE DEF k
  <2>. QED
    BY <2>1, <2>2
<1>2. ASSUME NEW i \in 1..Len(up.shields), note = u.shields[i].note
      PROVE  /\ \E k \in Nat : note = <<n, "shield", k>> /\ place = u.shield + k - 1
             /\ place \in u.shield..(End(u) - 1)
  <2>1. /\ note = <<n, "shield", i>>
        /\ PositionIn(u, note) = u.shield + i - 1
        /\ PositionIn(u, note) \in u.shield..(End(u) - 1)
    BY <1>2, ShieldIs, Zenon
  <2>2. i \in Nat
    OBVIOUS
  <2>. QED
    BY <2>1, <2>2
<1>. QED
  BY <1>1, <1>2

LEMMA EndIs ==
    ASSUME NEW n \in Nat, NEW u, NEW up \in Update, Does(n, u, up), PlacedAs(version, u, up)
    PROVE  u.transact \in Nat /\ u.shield \in Nat /\ u.transact <= u.shield /\ u.shield <= End(u) /\ End(u) \in Nat
<1>1. u.transact \in Nat /\ u.shield \in Nat /\ u.transact + SumOf(Counts(up)) <= u.shield
  BY DEF PlacedAs
<1>2. SumOf(Counts(up)) \in Nat
  BY CountsAre, Sizes0
<1>3. Len(u.shields) \in Nat
  BY DoesShape, UpdateIs, Sizes0
<1>. HIDE DEF PlacedAs
<1>. QED
  BY <1>1, <1>2, <1>3 DEF End

\* What the place of a leaf tells of its note.
HasPlace(n, u, note, place) ==
    \/ /\ \E k \in Nat : note = <<n, "transact", k>> /\ place = u.transact + k - 1
       /\ place \in u.transact..(u.shield - 1)
    \/ /\ \E k \in Nat : note = <<n, "shield", k>> /\ place = u.shield + k - 1
       /\ place \in u.shield..(End(u) - 1)

LEMMA LeafPlace ==
    ASSUME NEW n \in Nat, NEW u, NEW up \in Update, Does(n, u, up), PlacedAs(version, u, up), NEW leaf \in Leaves(u)
    PROVE  /\ leaf = <<leaf[1], leaf[2]>> /\ leaf[2] = PositionIn(u, leaf[1])
           /\ HasPlace(n, u, leaf[1], leaf[2])
           /\ leaf[2] \in u.transact..(End(u) - 1)
<1>. DEFINE note == leaf[1]
            p == leaf[2]
            a == u.transact
            b == u.shield
            e == End(u)
<1>1. /\ leaf = <<note, p>> /\ p = PositionIn(u, note)
      /\ \/ \E i \in 1..Len(up.transacts) : \E j \in 1..up.transacts[i].count : note = u.transacts[i].notes[j]
         \/ \E i \in 1..Len(up.shields) : note = u.shields[i].note
  BY LeafIs
<1>2. a \in Nat /\ b \in Nat /\ e \in Nat /\ a <= b /\ b <= e
  BY EndIs, Zenon
<1>. HIDE DEF note, p
<1>3. \/ /\ \E k \in Nat : note = <<n, "transact", k>> /\ p = u.transact + k - 1
         /\ p \in u.transact..(u.shield - 1)
      \/ /\ \E k \in Nat : note = <<n, "shield", k>> /\ p = u.shield + k - 1
         /\ p \in u.shield..(End(u) - 1)
  BY <1>1, PlacesOfNotes
<1>4. HasPlace(n, u, note, p)
  BY ONLY <1>3 DEF HasPlace
<1>5. p \in a..(b - 1) \/ p \in b..(e - 1)
  BY ONLY <1>3, Zenon DEF a, b, e
<1>. HIDE DEF a, b, e
<1>6. p \in a..(e - 1)
  BY ONLY <1>2, <1>5
<1>. QED
  BY ONLY <1>1, <1>4, <1>6, Zenon DEF a, e, note, p

\* A place in the trees is one commitment's.
LEMMA LeavesDiffer ==
    ASSUME ChainInv,
           NEW m \in 1..Len(mined), NEW n \in 1..Len(mined),
           NEW x \in Leaves(mined[m]), NEW y \in Leaves(mined[n]), x[2] = y[2]
    PROVE  m = n /\ x = y
<1>. DEFINE u == mined[m]
            w == mined[n]
<1>1. PICK up \in Update : Does(m, u, up) /\ PlacedAs(version, u, up)
  BY DEF ChainInv
<1>2. PICK wp \in Update : Does(n, w, wp) /\ PlacedAs(version, w, wp)
  BY DEF ChainInv
<1>3. m \in Nat /\ n \in Nat /\ (m < n \/ n < m \/ m = n)
  BY MinedIs
<1>4. /\ m < n => End(u) <= w.transact
      /\ n < m => End(w) <= u.transact
  BY DEF ChainInv
<1>. HIDE DEF u, w
<1>5. x = <<x[1], x[2]>> /\ HasPlace(m, u, x[1], x[2]) /\ x[2] \in u.transact..(End(u) - 1)
  BY <1>1, <1>3, LeafPlace, Zenon DEF u
<1>6. y = <<y[1], y[2]>> /\ HasPlace(n, w, y[1], y[2]) /\ y[2] \in w.transact..(End(w) - 1)
  BY <1>2, <1>3, LeafPlace, Zenon DEF w
<1>9. /\ u.transact \in Nat /\ u.shield \in Nat /\ u.transact <= u.shield /\ u.shield <= End(u) /\ End(u) \in Nat
      /\ w.transact \in Nat /\ w.shield \in Nat /\ w.transact <= w.shield /\ w.shield <= End(w) /\ End(w) \in Nat
  BY <1>1, <1>2, <1>3, EndIs
<1>10. x[2] \in u.transact..(End(u) - 1) /\ y[2] \in w.transact..(End(w) - 1)
  BY ONLY <1>5, <1>6
<1>11. m = n
  BY ONLY <1>3, <1>4, <1>9, <1>10, x[2] = y[2]
<1>12. u = w
  BY <1>11 DEF u, w
<1>13. x[1] = y[1]
  <2>. DEFINE p == x[2]
              s == u.transact
              t == u.shield
              e == End(u)
              v == x[1]
              z == y[1]
  <2>1. s \in Nat /\ t \in Nat /\ e \in Nat
    BY <1>9
  <2>2. HasPlace(m, u, v, p) /\ HasPlace(m, u, z, p)
    BY <1>5, <1>6, <1>11, <1>12
  <2>. HIDE DEF p, v, z
  <2>3. /\ \/ (\E k \in Nat : v = <<m, "transact", k>> /\ p = s + k - 1) /\ p \in s..(t - 1)
           \/ (\E k \in Nat : v = <<m, "shield", k>> /\ p = t + k - 1) /\ p \in t..(e - 1)
        /\ \/ (\E k \in Nat : z = <<m, "transact", k>> /\ p = s + k - 1) /\ p \in s..(t - 1)
           \/ (\E k \in Nat : z = <<m, "shield", k>> /\ p = t + k - 1) /\ p \in t..(e - 1)
    BY ONLY <2>2 DEF HasPlace
  <2>. HIDE DEF s, t, e
  <2>4. CASE p < t
    <3>1. PICK k \in Nat : v = <<m, "transact", k>> /\ p = s + k - 1
      BY ONLY <2>1, <2>3, <2>4
    <3>2. PICK l \in Nat : z = <<m, "transact", l>> /\ p = s + l - 1
      BY ONLY <2>1, <2>3, <2>4
    <3>3. k = l
      BY ONLY <2>1, <3>1, <3>2, k \in Nat, l \in Nat
    <3>4. v = z
      BY ONLY <3>1, <3>2, <3>3
    <3>. QED
      BY <3>4 DEF v, z
  <2>5. CASE ~ (p < t)
    <3>1. PICK k \in Nat : v = <<m, "shield", k>> /\ p = t + k - 1
      BY ONLY <2>1, <2>3, <2>5
    <3>2. PICK l \in Nat : z = <<m, "shield", l>> /\ p = t + l - 1
      BY ONLY <2>1, <2>3, <2>5
    <3>3. k = l
      BY ONLY <2>1, <3>1, <3>2, k \in Nat, l \in Nat
    <3>4. v = z
      BY ONLY <3>1, <3>2, <3>3
    <3>. QED
      BY <3>4 DEF v, z
  <2>. QED
    BY <2>4, <2>5
<1>. QED
  BY <1>5, <1>6, <1>11, <1>13

-----------------------------------------------------------------------------
(* A call is mined.                                                         *)

LEMMA AppendIs ==
    ASSUME NEW S, NEW s \in Seq(S), NEW e
    PROVE  /\ Append(s, e) \in Seq(S \cup {e})
           /\ Len(Append(s, e)) = Len(s) + 1
           /\ \A n \in 1..Len(s) : Append(s, e)[n] = s[n]
           /\ Append(s, e)[Len(s) + 1] = e
<1>1. s \in Seq(S \cup {e}) /\ e \in S \cup {e}
  OBVIOUS
<1>. QED
  BY <1>1

\* The call, and where it goes.
LEMMA MineIs ==
    ASSUME ChainInv, NEW up \in Update, NEW place, Mine(up, place)
    PROVE  LET n == Len(mined) + 1
               u == mined'[n]
           IN  /\ Len(mined') = n /\ n \in Nat \ {0} /\ \A m \in 1..Len(mined) : mined'[m] = mined[m]
               /\ Does(n, u, up) /\ PlacedAs(version, u, up)
               /\ next <= u.transact /\ End(u) = next' /\ next' \in Nat
               /\ HeadBlock <= u.block /\ HeadBlock' = u.block
               /\ u.block = HeadBlock => indexed < HeadBlock /\ scanned < HeadBlock
               /\ \E S : mined' \in Seq(S)
<1>. DEFINE n == Len(mined) + 1
            p == IF version = "V2" THEN V2Positions(Counts(up), Len(up.shields))
                 ELSE V3Positions(Counts(up), Len(up.shields))
            u == [n |-> n, block |-> IF place = "block" THEN HeadBlock + 1 ELSE HeadBlock,
                  txid |-> IF place = "transaction" THEN mined[n - 1].txid ELSE n,
                  transact |-> p.transact, shield |-> p.shield,
                  transacts |-> Transacts(n, up), shields |-> Shields(n, up)]
<1>1. mined' = Append(mined, u) /\ next' = p.next
  BY DEF Mine
<1>2. PICK S : mined \in Seq(S)
  BY DEF ChainInv
<1>3. Len(mined) \in Nat /\ n \in Nat \ {0} /\ HeadBlock \in Nat
  BY MinedIs
<1>4. /\ Len(mined') = n /\ \A m \in 1..Len(mined) : mined'[m] = mined[m]
      /\ mined'[n] = u /\ \E T : mined' \in Seq(T)
  <2>. HIDE DEF u
  <2>. QED
    <3>1. /\ Append(mined, u) \in Seq(S \cup {u}) /\ Len(Append(mined, u)) = n
          /\ \A m \in 1..Len(mined) : Append(mined, u)[m] = mined[m]
          /\ Append(mined, u)[n] = u
      BY <1>2, AppendIs
    <3>2. \E T : mined' \in Seq(T)
      BY <1>1, <3>1
    <3>. QED
      BY <1>1, <3>1, <3>2
<1>5. place # "block" => Len(mined) # 0 /\ indexed < HeadBlock /\ scanned < HeadBlock
  BY MinedIs DEF Mine
<1>6. Len(mined) # 0 => HeadBlock \in Nat \ {0} /\ mined[n - 1].txid \in Nat
  <2>1. Len(mined) # 0 => n - 1 \in 1..Len(mined) /\ n - 1 = Len(mined)
    BY <1>3
  <2>2. Len(mined) # 0 => HeadBlock = mined[Len(mined)].block
    BY MinedIs DEF HeadBlock
  <2>. QED
    BY <2>1, <2>2, MinedIs
<1>7. u.block \in Nat \ {0} /\ HeadBlock <= u.block /\ (u.block = HeadBlock => place # "block")
  <2>1. u.block = IF place = "block" THEN HeadBlock + 1 ELSE HeadBlock
    BY Zenon
  <2>. HIDE DEF u
  <2>. QED
    BY <1>3, <1>5, <1>6, <2>1
<1>8. u.txid \in Nat
  <2>1. u.txid = IF place = "transaction" THEN mined[n - 1].txid ELSE n
    BY Zenon
  <2>. HIDE DEF u
  <2>. QED
    BY <1>3, <1>5, <1>6, <2>1
<1>9. u.n = n /\ u.transacts = Transacts(n, up) /\ u.shields = Shields(n, up)
      /\ u.transact = p.transact /\ u.shield = p.shield
  BY Zenon
<1>. HIDE DEF u
<1>10. HeadBlock' = u.block
  BY <1>3, <1>4 DEF HeadBlock
<1>11. Does(n, u, up)
  BY <1>7, <1>8, <1>9 DEF Does
<1>12. Len(u.shields) = Len(up.shields)
  BY <1>3, <1>11, DoesShape
<1>13. version \in {"V2", "V3"} /\ next \in Nat
  BY DEF ChainInv
<1>. DEFINE x == Counts(up)
            N == SumOf(x)
            m == Len(up.shields)
<1>14. PlacedAs(version, u, up) /\ next <= u.transact /\ End(u) = next' /\ next' \in Nat
  <2>1. CASE version = "V2"
    <3>1. p = V2Positions(x, m)
      BY <2>1
    <3>2. /\ p.transact \in Nat /\ next <= p.transact /\ InOneTree(p.transact, N)
          /\ p.shield \in Nat /\ p.transact + N <= p.shield /\ InOneTree(p.shield, m)
          /\ p.next = p.shield + m /\ p.next \in Nat
      BY <1>13, <3>1, V2PositionsAre
    <3>. HIDE DEF p, x, m, N
    <3>. QED
      BY <1>1, <1>9, <1>12, <2>1, <3>2 DEF PlacedAs, End, x, m, N
  <2>2. CASE version = "V3"
    <3>1. p = V3Positions(x, m)
      BY <2>2
    <3>2. /\ p.transact \in Nat /\ next <= p.transact
          /\ p.shield = p.transact + N /\ p.shield \in Nat
          /\ \A i \in 1..Len(up.transacts) :
                InOneTree(p.transact + Sums(x)[i - 1], up.transacts[i].count)
          /\ p.next = p.shield + m /\ p.next \in Nat
      BY <1>13, <3>1, V3PositionsAre
    <3>. HIDE DEF p, x, m, N
    <3>. QED
      BY <1>1, <1>9, <1>12, <2>2, <3>2 DEF PlacedAs, End, x, m, N
  <2>. QED
    BY <1>13, <2>1, <2>2
<1>. QED
  BY <1>3, <1>4, <1>5, <1>7, <1>10, <1>11, <1>14

LEMMA MineChain ==
    ASSUME ChainInv, CursorInv, NEW up \in Update, NEW place, Mine(up, place)
    PROVE  ChainInv' /\ CursorInv'
<1>. DEFINE L == Len(mined)
            u == mined'[L + 1]
<1>1. /\ Len(mined') = L + 1 /\ \A m \in 1..L : mined'[m] = mined[m]
      /\ Does(L + 1, u, up) /\ PlacedAs(version, u, up)
      /\ next <= u.transact /\ End(u) = next' /\ next' \in Nat
      /\ HeadBlock <= u.block /\ HeadBlock' = u.block
      /\ \E S : mined' \in Seq(S)
  BY MineIs
<1>2. L \in Nat /\ HeadBlock \in Nat /\ \A n \in 1..L : mined[n].block \in Nat /\ mined[n].block <= HeadBlock
  BY MinedIs
<1>3. UNCHANGED <<version, indexed, scanned>>
  BY DEF Mine
<1>4. version' = version
  BY <1>3
<1>5. u.transact \in Nat /\ u.shield \in Nat /\ u.transact <= u.shield /\ u.shield <= End(u) /\ End(u) \in Nat
  BY <1>1, <1>2, EndIs
<1>6. u.block \in Nat
  BY <1>1 DEF Does
<1>7. \A n \in 1..L : End(mined[n]) \in Nat /\ End(mined[n]) <= next
  <2>. TAKE n \in 1..L
  <2>1. PICK wp \in Update : Does(n, mined[n], wp) /\ PlacedAs(version, mined[n], wp)
    BY DEF ChainInv
  <2>2. n \in Nat
    BY <1>2
  <2>3. End(mined[n]) \in Nat
    BY <2>1, <2>2, EndIs
  <2>. QED
    BY <2>3 DEF ChainInv
<1>8. next \in Nat /\ version \in {"V2", "V3"}
  BY DEF ChainInv
<1>9. \A n \in 1..(L + 1) : n = L + 1 \/ (n \in 1..L /\ n < L + 1)
  BY <1>2
<1>. HIDE DEF L
<1>10. ASSUME NEW n \in 1..(L + 1)
       PROVE  /\ \E wp \in Update : Does(n, mined'[n], wp) /\ PlacedAs(version, mined'[n], wp)
              /\ End(mined'[n]) <= next'
  <2>1. CASE n = L + 1
    BY <1>1, <1>5, <2>1
  <2>2. CASE n \in 1..L
    <3>1. mined'[n] = mined[n]
      BY <1>1, <2>2
    <3>2. PICK wp \in Update : Does(n, mined[n], wp) /\ PlacedAs(version, mined[n], wp)
      BY <2>2 DEF ChainInv, L
    <3>3. End(mined[n]) <= next'
      BY <1>1, <1>5, <1>7, <1>8, <2>2
    <3>. QED
      BY <3>1, <3>2, <3>3
  <2>. QED
    BY <1>9, <2>1, <2>2
<1>11. ASSUME NEW m \in 1..(L + 1), NEW n \in 1..(L + 1), m < n
       PROVE  mined'[m].block <= mined'[n].block /\ End(mined'[m]) <= mined'[n].transact
  <2>0. m \in 1..L
    BY <1>2, <1>11
  <2>1. CASE n = L + 1
    <3>1. End(mined[m]) <= u.transact
      BY <1>1, <1>5, <1>7, <1>8, <2>0
    <3>2. mined[m].block <= u.block
      BY <1>1, <1>2, <1>6, <2>0
    <3>. QED
      BY <1>1, <2>0, <2>1, <3>1, <3>2
  <2>2. CASE n \in 1..L
    <3>1. mined[m].block <= mined[n].block /\ End(mined[m]) <= mined[n].transact
      BY <1>11, <2>0, <2>2 DEF ChainInv, L
    <3>. QED
      BY <1>1, <2>0, <2>2, <3>1
  <2>. QED
    BY <1>9, <2>1, <2>2
<1>12. ChainInv'
  <2>1. \A n \in 1..Len(mined') :
          /\ \E wp \in Update : Does(n, mined'[n], wp) /\ PlacedAs(version, mined'[n], wp)
          /\ End(mined'[n]) <= next'
    BY <1>1, <1>10
  <2>2. \A m, n \in 1..Len(mined') :
          m < n => mined'[m].block <= mined'[n].block /\ End(mined'[m]) <= mined'[n].transact
    BY <1>1, <1>11
  <2>3. version' \in {"V2", "V3"} /\ next' \in Nat /\ \E S : mined' \in Seq(S)
    BY <1>1, <1>3, <1>8
  <2>. QED
    BY <1>4, <2>1, <2>2, <2>3 DEF ChainInv, Does, End, PlacedAs
<1>13. CursorInv'
  BY <1>1, <1>2, <1>3, <1>6 DEF CursorInv
<1>. QED
  BY <1>12, <1>13

-----------------------------------------------------------------------------
(* What is read out of the logs of V2 and out of the items of the indexer.  *)

\* A note as it is imported: at its place, in its transaction and its block.
Row(u, note, fee, batch) ==
    [tree |-> PositionIn(u, note) \div TreeSize, index |-> PositionIn(u, note) % TreeSize, note |-> note,
     fee |-> fee, batchIndex |-> batch, txid |-> u.txid, block |-> u.block]

RowOf(v, u, c) ==
    \/ \E i \in DOMAIN u.transacts : \E j \in DOMAIN u.transacts[i].notes :
          c = Row(u, u.transacts[i].notes[j], NoFee, IF v = "V2" THEN NoIndex ELSE i + j - 2)
    \/ \E i \in DOMAIN u.shields : \E fee :
          /\ v = "V2" => fee \in {FeeOf(u.shields[i].value), feeString(FeeOf(u.shields[i].value))}
          /\ c = Row(u, u.shields[i].note, fee, NoIndex)

UnshieldOf(v, u, x) ==
    \E i \in HasUnshield(u) :
        \/ /\ v = "V2"
           /\ x = [txid |-> u.txid, logIndex |-> <<u.transacts[i].id>>, token |-> u.transacts[i].unshield.token,
                   fee |-> FeeOf(u.transacts[i].unshield.value),
                   amount |-> u.transacts[i].unshield.value - FeeOf(u.transacts[i].unshield.value),
                   railgunTxid |-> 0, block |-> u.block]
        \/ v = "V3" /\ x = FormatV3UnshieldEvent(V3Log(u), i)

TransactionOf(u, t) ==
    \E i \in DOMAIN u.transacts :
        /\ t.id = u.transacts[i].id
        /\ t.position # UnshieldOnly /\ u.transacts[i].notes # <<>> =>
              t.tree * TreeSize + t.position = PositionIn(u, u.transacts[i].notes[1])

\* The events are of calls that were mined.
Sound(events) ==
    /\ \A c \in events.commitments : \E n \in 1..Len(mined) : RowOf(version, mined[n], c)
    /\ \A x \in events.unshields : \E n \in 1..Len(mined) : UnshieldOf(version, mined[n], x)
    /\ \A t \in events.transactions : \E n \in 1..Len(mined) : TransactionOf(mined[n], t)

LEMMA NoEventsSound == Sound(NoEvents)
BY DEF Sound, NoEvents

LEMMA TogetherSound ==
    ASSUME NEW E, \A e \in E : Sound(e)
    PROVE  Sound(Together(E))
<1>1. /\ Together(E).commitments = UNION {e.commitments : e \in E}
      /\ Together(E).unshields = UNION {e.unshields : e \in E}
      /\ Together(E).transactions = UNION {e.transactions : e \in E}
  BY DEF Together
<1>2. ASSUME NEW c \in Together(E).commitments
      PROVE  \E n \in 1..Len(mined) : RowOf(version, mined[n], c)
  <2>1. PICK e \in E : c \in e.commitments
    BY <1>1
  <2>. QED
    BY <2>1 DEF Sound
<1>3. ASSUME NEW c \in Together(E).unshields
      PROVE  \E n \in 1..Len(mined) : UnshieldOf(version, mined[n], c)
  <2>1. PICK e \in E : c \in e.unshields
    BY <1>1
  <2>. QED
    BY <2>1 DEF Sound
<1>4. ASSUME NEW c \in Together(E).transactions
      PROVE  \E n \in 1..Len(mined) : TransactionOf(mined[n], c)
  <2>1. PICK e \in E : c \in e.transactions
    BY <1>1
  <2>. QED
    BY <2>1 DEF Sound
<1>. QED
  BY <1>2, <1>3, <1>4 DEF Sound

\* A group of leaves that stays in its tree, from its first one on.
LEMMA V2NotePlace ==
    ASSUME NEW n \in Nat, NEW u, NEW up \in Update, version = "V2", Does(n, u, up), PlacedAs(version, u, up),
           NEW i \in 1..Len(up.transacts), NEW j \in 1..up.transacts[i].count
    PROVE  LET note == u.transacts[i].notes[j]
           IN  /\ PositionIn(u, note) \div TreeSize = u.transact \div TreeSize
               /\ PositionIn(u, note) % TreeSize = (u.transact % TreeSize) + note[3] - 1
<1>. DEFINE note == u.transacts[i].notes[j]
            k == Sums(Counts(up))[i - 1] + j
            N == SumOf(Counts(up))
            p == u.transact
<1>1. note = <<n, "transact", k>> /\ k \in 1..N /\ PositionIn(u, note) = p + k - 1
  BY NoteIs
<1>2. p \in Nat /\ InOneTree(p, N)
  BY DEF PlacedAs
<1>3. N \in Nat
  BY CountsAre, Sizes0
<1>4. p % TreeSize \in Nat
  <2>. HIDE DEF p
  <2>1. p % TreeSize \in 0..(TreeSize - 1)
    BY <1>2, Sizes0, Divide
  <2>. QED
    BY <2>1, Sizes0
<1>. HIDE DEF k, N, p
<1>5. k \in Nat /\ k - 1 \in 0..(N - 1) /\ p + k - 1 = p + (k - 1)
  BY <1>1, <1>2, <1>3
<1>6. (p + (k - 1)) \div TreeSize = p \div TreeSize /\ (p + (k - 1)) % TreeSize = (p % TreeSize) + (k - 1)
  BY <1>2, <1>3, <1>5, InTree
<1>7. (p % TreeSize) + (k - 1) = (p % TreeSize) + k - 1
  <2>. DEFINE r == p % TreeSize
  <2>. HIDE DEF r
  <2>1. r \in Nat
    BY <1>4 DEF r
  <2>2. r + (k - 1) = r + k - 1
    BY <1>5, <2>1
  <2>. QED
    BY <2>2 DEF r
<1>8. note[3] = k
  BY <1>1
<1>. QED
  BY <1>1, <1>5, <1>6, <1>7, <1>8 DEF p

LEMMA V2ShieldPlace ==
    ASSUME NEW n \in Nat, NEW u, NEW up \in Update, version = "V2", Does(n, u, up), PlacedAs(version, u, up), NEW i \in 1..Len(up.shields)
    PROVE  LET note == u.shields[i].note
           IN  /\ PositionIn(u, note) \div TreeSize = u.shield \div TreeSize
               /\ PositionIn(u, note) % TreeSize = (u.shield % TreeSize) + i - 1
<1>. DEFINE note == u.shields[i].note
            N == Len(up.shields)
            p == u.shield
<1>1. PositionIn(u, note) = p + i - 1
  BY ShieldIs
<1>2. p \in Nat /\ InOneTree(p, N)
  BY DEF PlacedAs
<1>3. N \in Nat
  BY UpdateIs, Sizes0
<1>4. p % TreeSize \in Nat
  <2>. HIDE DEF p
  <2>1. p % TreeSize \in 0..(TreeSize - 1)
    BY <1>2, Sizes0, Divide
  <2>. QED
    BY <2>1, Sizes0
<1>. HIDE DEF N, p
<1>5. i \in Nat /\ i - 1 \in 0..(N - 1) /\ p + i - 1 = p + (i - 1)
  BY <1>2, <1>3 DEF N
<1>6. (p + (i - 1)) \div TreeSize = p \div TreeSize /\ (p + (i - 1)) % TreeSize = (p % TreeSize) + (i - 1)
  BY <1>2, <1>3, <1>5, InTree
<1>7. (p % TreeSize) + (i - 1) = (p % TreeSize) + i - 1
  <2>. DEFINE r == p % TreeSize
  <2>. HIDE DEF r
  <2>1. r \in Nat
    BY <1>4 DEF r
  <2>2. r + (i - 1) = r + i - 1
    BY <1>5, <2>1
  <2>. QED
    BY <2>2 DEF r
<1>. QED
  BY <1>1, <1>5, <1>6, <1>7 DEF p

LEMMA V2LogSound ==
    ASSUME ChainInv, version = "V2", NEW n \in 1..Len(mined), NEW log \in V2Logs(mined[n])
    PROVE  Sound(ParseV2Log(log))
<1>. DEFINE u == mined[n]
<1>1. PICK up \in Update : Does(n, u, up) /\ PlacedAs(version, u, up)
  BY DEF ChainInv
<1>2. n \in Nat
  BY MinedIs
<1>0. log \in V2Logs(u)
  OBVIOUS
<1>. HIDE DEF u
<1>3. CASE log.topic = "Nullified"
  <2>1. ParseV2Log(log) = FormatV2NullifiedEvents(log)
    BY <1>3 DEF ParseV2Log
  <2>. QED
    BY <2>1 DEF FormatV2NullifiedEvents, NoEvents, Sound
<1>4. CASE log.topic = "Unshield"
  <2>1. ParseV2Log(log) = FormatV2UnshieldEvent(log)
    BY <1>4 DEF ParseV2Log
  <2>2. PICK i \in HasUnshield(u) :
           log = [topic |-> "Unshield", txid |-> u.txid, block |-> u.block, index |-> u.transacts[i].id,
                  token |-> u.transacts[i].unshield.token, fee |-> FeeOf(u.transacts[i].unshield.value),
                  amount |-> u.transacts[i].unshield.value - FeeOf(u.transacts[i].unshield.value)]
    <3>1. CASE \E i \in HasUnshield(u) :
                 log = [topic |-> "Unshield", txid |-> u.txid, block |-> u.block, index |-> u.transacts[i].id,
                        token |-> u.transacts[i].unshield.token, fee |-> FeeOf(u.transacts[i].unshield.value),
                        amount |-> u.transacts[i].unshield.value - FeeOf(u.transacts[i].unshield.value)]
      BY ONLY <3>1, Zenon
    <3>2. CASE \E i : log = [topic |-> "Nullified", txid |-> u.txid, block |-> u.block, nullifiers |-> u.transacts[i].nullifiers]
      BY ONLY <1>4, <3>2
    <3>3. CASE log = [topic |-> "Transact", txid |-> u.txid, block |-> u.block, tree |-> u.transact \div TreeSize,
                      start |-> u.transact % TreeSize, hash |-> Notes(u)]
      BY ONLY <1>4, <3>3
    <3>4. CASE log = [topic |-> "Shield", txid |-> u.txid, block |-> u.block, tree |-> u.shield \div TreeSize,
                      start |-> u.shield % TreeSize, commitments |-> u.shields,
                      fees |-> [i \in DOMAIN u.shields |-> FeeOf(u.shields[i].value)]]
      BY ONLY <1>4, <3>4
    <3>. QED
      BY ONLY <1>0, <3>1, <3>2, <3>3, <3>4, Zenon DEF V2Logs
  <2>. DEFINE x == [txid |-> log.txid, logIndex |-> <<log.index>>, token |-> log.token, fee |-> log.fee,
                    amount |-> log.amount, railgunTxid |-> 0, block |-> log.block]
  <2>3. UnshieldOf("V2", u, x)
    BY <2>2 DEF UnshieldOf
  <2>. HIDE DEF x
  <2>4. FormatV2UnshieldEvent(log) = [NoEvents EXCEPT !.unshields = {x}]
    BY DEF FormatV2UnshieldEvent, x
  <2>. QED
    BY <2>1, <2>3, <2>4 DEF NoEvents, Sound, u
<1>5. CASE log.topic = "Transact"
  <2>1. ParseV2Log(log) = FormatV2TransactEvent(log)
    BY <1>5 DEF ParseV2Log
  <2>2. log = [topic |-> "Transact", txid |-> u.txid, block |-> u.block, tree |-> u.transact \div TreeSize,
               start |-> u.transact % TreeSize, hash |-> Notes(u)]
    BY <1>5 DEF V2Logs, u
  <2>3. ASSUME NEW c \in formatV2TransactCommitments(log)
        PROVE  RowOf("V2", u, c)
    <3>1. PICK note \in Notes(u) :
             c = [tree |-> log.tree, index |-> log.start + note[3] - 1, note |-> note, fee |-> NoFee,
                  batchIndex |-> NoIndex, txid |-> log.txid, block |-> log.block]
      BY <2>2 DEF formatV2TransactCommitments
    <3>2. PICK i \in DOMAIN u.transacts : \E j \in DOMAIN u.transacts[i].notes : note = u.transacts[i].notes[j]
      BY DEF Notes
    <3>3. PICK j \in DOMAIN u.transacts[i].notes : note = u.transacts[i].notes[j]
      BY <3>2
    <3>4. i \in 1..Len(up.transacts)
      BY <1>1, <1>2, DoesShape
    <3>5. j \in 1..up.transacts[i].count
      BY <1>1, <1>2, <3>4, NoteCount
    <3>6. /\ PositionIn(u, note) \div TreeSize = u.transact \div TreeSize
          /\ PositionIn(u, note) % TreeSize = (u.transact % TreeSize) + note[3] - 1
      BY <1>1, <1>2, <3>3, <3>4, <3>5, version = "V2", V2NotePlace, Zenon
    <3>7. c = Row(u, note, NoFee, NoIndex)
      BY <2>2, <3>1, <3>6 DEF Row
    <3>. QED
      BY <3>3, <3>7 DEF RowOf
  <2>4. FormatV2TransactEvent(log) = [NoEvents EXCEPT !.commitments = formatV2TransactCommitments(log)]
    BY DEF FormatV2TransactEvent
  <2>. QED
    BY <2>1, <2>3, <2>4 DEF NoEvents, Sound, u
<1>6. CASE log.topic = "Shield"
  <2>1. ParseV2Log(log) = FormatV2ShieldEvent(log)
    BY <1>6 DEF ParseV2Log
  <2>2. log = [topic |-> "Shield", txid |-> u.txid, block |-> u.block, tree |-> u.shield \div TreeSize,
               start |-> u.shield % TreeSize, commitments |-> u.shields,
               fees |-> [i \in DOMAIN u.shields |-> FeeOf(u.shields[i].value)]]
    BY <1>6 DEF V2Logs, u
  <2>3. ASSUME NEW c \in formatV2ShieldCommitments(log)
        PROVE  RowOf("V2", u, c)
    <3>1. PICK i \in DOMAIN u.shields :
             c = [tree |-> log.tree, index |-> log.start + i - 1, note |-> u.shields[i].note,
                  fee |-> feeString(log.fees[i]), batchIndex |-> NoIndex, txid |-> log.txid, block |-> log.block]
      BY <2>2 DEF formatV2ShieldCommitments
    <3>2. i \in 1..Len(up.shields)
      BY <1>1, <1>2, DoesShape
    <3>3. /\ PositionIn(u, u.shields[i].note) \div TreeSize = u.shield \div TreeSize
          /\ PositionIn(u, u.shields[i].note) % TreeSize = (u.shield % TreeSize) + i - 1
      BY <1>1, <1>2, <3>2, version = "V2", V2ShieldPlace, Zenon
    <3>4. log.fees[i] = FeeOf(u.shields[i].value)
      BY <2>2
    <3>5. c = Row(u, u.shields[i].note, feeString(FeeOf(u.shields[i].value)), NoIndex)
      BY <2>2, <3>1, <3>3, <3>4 DEF Row
    <3>. QED
      BY <3>5 DEF RowOf
  <2>4. FormatV2ShieldEvent(log) = [NoEvents EXCEPT !.commitments = formatV2ShieldCommitments(log)]
    BY DEF FormatV2ShieldEvent
  <2>. QED
    BY <2>1, <2>3, <2>4 DEF NoEvents, Sound, u
<1>7. log.topic \in {"Nullified", "Unshield", "Transact", "Shield"}
  BY DEF V2Logs, u
<1>. QED
  BY <1>3, <1>4, <1>5, <1>6, <1>7

LEMMA V2Sound ==
    ASSUME ChainInv, version = "V2", NEW from, NEW to
    PROVE  Sound(AccumulateV2Logs(from, to))
<1>1. ASSUME NEW log \in UNION {V2Logs(u) : u \in Mined(from, to)}
      PROVE  Sound(ParseV2Log(log))
  <2>1. PICK u \in Mined(from, to) : log \in V2Logs(u)
    OBVIOUS
  <2>2. PICK n \in 1..Len(mined) : u = mined[n]
    BY MinedFrom
  <2>. QED
    BY <2>1, <2>2, V2LogSound
<1>2. \A e \in {ParseV2Log(log) : log \in UNION {V2Logs(u) : u \in Mined(from, to)}} : Sound(e)
  BY <1>1
<1>. QED
  BY <1>2, TogetherSound DEF AccumulateV2Logs

\* The items of the indexer.
LEMMA UnshieldItems ==
    ASSUME ChainInv, NEW x \in Items("unshields")
    PROVE  \E n \in 1..Len(mined) : \E i \in HasUnshield(mined[n]) :
              LET u == mined[n]
              IN  x = [id |-> u.transacts[i].id, block |-> u.block, txid |-> u.txid, logIndex |-> u.transacts[i].id,
                       token |-> u.transacts[i].unshield.token, fee |-> FeeOf(u.transacts[i].unshield.value),
                       amount |-> u.transacts[i].unshield.value - FeeOf(u.transacts[i].unshield.value)]
<1>1. PICK u \in Mined(1, indexed) : x \in GraphItems("unshields", u)
  BY DEF Items
<1>2. PICK n \in 1..Len(mined) : u = mined[n]
  BY MinedFrom
<1>. QED
  BY <1>1, <1>2 DEF GraphItems

LEMMA CommitmentItems ==
    ASSUME ChainInv, NEW x \in Items("commitments")
    PROVE  \E n \in 1..Len(mined) : \E leaf \in Leaves(mined[n]) :
              LET u == mined[n]
              IN  x = [id |-> (LastTree + 1) * TreeSize - leaf[2], block |-> u.block, txid |-> u.txid, note |-> leaf[1],
                       tree |-> leaf[2] \div TreeSize, position |-> leaf[2] % TreeSize,
                       batchStart |-> (IF leaf[1][2] = "shield" THEN u.shield ELSE u.transact) % TreeSize,
                       fee |-> IF leaf[1][2] = "shield" THEN FeeOf(u.shields[leaf[1][3]].value) ELSE NoFee]
<1>1. PICK u \in Mined(1, indexed) : x \in GraphItems("commitments", u)
  BY DEF Items
<1>2. PICK n \in 1..Len(mined) : u = mined[n]
  BY MinedFrom
<1>. QED
  BY <1>1, <1>2 DEF GraphItems

LEMMA GraphCommitment ==
    ASSUME ChainInv, version = "V2", NEW x \in Items("commitments"), NEW batch
    PROVE  \E n \in 1..Len(mined) : RowOf("V2", mined[n], formatGraphCommitmentV2(batch, x))
<1>1. PICK n \in 1..Len(mined) : \E leaf \in Leaves(mined[n]) :
              LET u == mined[n]
              IN  x = [id |-> (LastTree + 1) * TreeSize - leaf[2], block |-> u.block, txid |-> u.txid, note |-> leaf[1],
                       tree |-> leaf[2] \div TreeSize, position |-> leaf[2] % TreeSize,
                       batchStart |-> (IF leaf[1][2] = "shield" THEN u.shield ELSE u.transact) % TreeSize,
                       fee |-> IF leaf[1][2] = "shield" THEN FeeOf(u.shields[leaf[1][3]].value) ELSE NoFee]
  BY CommitmentItems
<1>. DEFINE u == mined[n]
<1>2. PICK leaf \in Leaves(u) :
         /\ x.block = u.block /\ x.txid = u.txid /\ x.note = leaf[1]
         /\ x.tree = leaf[2] \div TreeSize /\ x.position = leaf[2] % TreeSize
         /\ x.fee = IF leaf[1][2] = "shield" THEN FeeOf(u.shields[leaf[1][3]].value) ELSE NoFee
  BY <1>1
<1>3. PICK up \in Update : Does(n, u, up) /\ PlacedAs(version, u, up)
  BY DEF ChainInv
<1>4. n \in Nat
  BY MinedIs
<1>. HIDE DEF u
<1>. DEFINE note == leaf[1]
            c == formatGraphCommitmentV2(batch, x)
<1>5. /\ leaf[2] = PositionIn(u, note)
      /\ \/ \E i \in 1..Len(up.transacts) : \E j \in 1..up.transacts[i].count : note = u.transacts[i].notes[j]
         \/ \E i \in 1..Len(up.shields) : note = u.shields[i].note
  BY <1>3, <1>4, LeafIs
<1>. HIDE DEF note
<1>6. c = Row(u, note, x.fee, NoIndex)
  BY <1>2, <1>5 DEF formatGraphCommitmentV2, Position, Row, note
<1>. HIDE DEF c
<1>7. ASSUME NEW i \in 1..Len(up.transacts), NEW j \in 1..up.transacts[i].count, note = u.transacts[i].notes[j]
      PROVE  RowOf("V2", u, c)
  <2>1. note[2] = "transact"
    BY <1>3, <1>4, <1>7, NoteIs
  <2>2. x.fee = NoFee
    BY <1>2, <2>1 DEF note
  <2>3. i \in DOMAIN u.transacts
    BY <1>3, <1>4, DoesShape
  <2>4. DOMAIN u.transacts[i].notes = 1..up.transacts[i].count
    BY <1>3, <1>4, NoteCount, Zenon
  <2>. QED
    BY <1>6, <1>7, <2>2, <2>3, <2>4 DEF RowOf
<1>8. ASSUME NEW i \in 1..Len(up.shields), note = u.shields[i].note
      PROVE  RowOf("V2", u, c)
  <2>0. note = <<n, "shield", i>>
    BY <1>3, <1>4, <1>8, ShieldsAre, Zenon
  <2>1. note[2] = "shield" /\ note[3] = i
    BY <2>0
  <2>2. x.fee = FeeOf(u.shields[i].value)
    BY <1>2, <2>1 DEF note
  <2>3. i \in DOMAIN u.shields
    BY <1>3, <1>4, DoesShape
  <2>. QED
    BY <1>6, <1>8, <2>2, <2>3 DEF RowOf
<1>. QED
  BY <1>5, <1>7, <1>8 DEF u, c

LEMMA GraphSound ==
    ASSUME ChainInv, version = "V2", NEW answers,
           answers[2] \subseteq Items("unshields"), answers[3] \subseteq Items("commitments")
    PROVE  Sound(formatV2GraphEvents(answers))
<1>. DEFINE E == formatV2GraphEvents(answers)
            Unshield(x) == [txid |-> x.txid, logIndex |-> <<x.logIndex>>, token |-> x.token, fee |-> x.fee,
                            amount |-> x.amount, railgunTxid |-> 0, block |-> x.block]
<1>1. /\ E.unshields = {Unshield(x) : x \in answers[2]}
      /\ E.commitments = UNION {{formatGraphCommitmentV2(batch, c) : c \in batch.commitments} : batch \in Batches(answers[3])}
      /\ E.transactions = {}
  BY DEF formatV2GraphEvents, NoEvents
<1>. HIDE DEF E
<1>2. ASSUME NEW c \in E.commitments
      PROVE  \E n \in 1..Len(mined) : RowOf("V2", mined[n], c)
  <2>1. PICK batch \in Batches(answers[3]) : \E x \in batch.commitments : c = formatGraphCommitmentV2(batch, x)
    BY <1>1
  <2>2. PICK x \in batch.commitments : c = formatGraphCommitmentV2(batch, x)
    BY <2>1
  <2>3. x \in Items("commitments")
    BY <2>2 DEF Batches
  <2>. QED
    BY <2>2, <2>3, GraphCommitment
<1>3. ASSUME NEW y \in E.unshields
      PROVE  \E n \in 1..Len(mined) : UnshieldOf("V2", mined[n], y)
  <2>1. PICK x \in answers[2] : y = Unshield(x)
    BY <1>1
  <2>2. PICK n \in 1..Len(mined) : \E i \in HasUnshield(mined[n]) :
              LET u == mined[n]
              IN  x = [id |-> u.transacts[i].id, block |-> u.block, txid |-> u.txid, logIndex |-> u.transacts[i].id,
                       token |-> u.transacts[i].unshield.token, fee |-> FeeOf(u.transacts[i].unshield.value),
                       amount |-> u.transacts[i].unshield.value - FeeOf(u.transacts[i].unshield.value)]
    BY UnshieldItems
  <2>. DEFINE u == mined[n]
  <2>3. PICK i \in HasUnshield(u) :
           /\ x.block = u.block /\ x.txid = u.txid /\ x.logIndex = u.transacts[i].id
           /\ x.token = u.transacts[i].unshield.token /\ x.fee = FeeOf(u.transacts[i].unshield.value)
           /\ x.amount = u.transacts[i].unshield.value - FeeOf(u.transacts[i].unshield.value)
    BY <2>2
  <2>. HIDE DEF u
  <2>4. UnshieldOf("V2", u, y)
    BY <2>1, <2>3 DEF UnshieldOf
  <2>. QED
    BY <2>4 DEF u
<1>. QED
  BY <1>1, <1>2, <1>3 DEF Sound, E

-----------------------------------------------------------------------------
(* What is read out of the log of a V3 accumulator.                         *)

PlaceOf(p) == [tree |-> p \div TreeSize, index |-> p % TreeSize]

LEMMA AdvanceIs ==
    ASSUME NEW p \in Nat, NEW n \in Nat, InOneTree(p, n)
    PROVE  Advance(PlaceOf(p), n) = PlaceOf(p + n)
<1>. DEFINE b == TreeSize
            q == p \div b
            r == p % b
<1>1. b \in Nat \ {0}
  BY Sizes0
<1>2. q \in Nat /\ r \in 0..(b - 1) /\ q * b + r = p
  BY <1>1, Divide
<1>3. PlaceOf(p) = [tree |-> q, index |-> r]
  BY DEF PlaceOf
<1>4. n # 0 => r + (n - 1) \in 0..(b - 1)
  <2>. SUFFICES ASSUME n # 0 PROVE r + (n - 1) \in 0..(b - 1)
    OBVIOUS
  <2>1. n - 1 \in 0..(n - 1) /\ p + (n - 1) \in Nat
    OBVIOUS
  <2>2. (p + (n - 1)) % b = r + (n - 1)
    BY <2>1, InTree
  <2>3. (p + (n - 1)) % b \in 0..(b - 1)
    BY <1>1, <2>1, Divide
  <2>. QED
    BY <2>2, <2>3
<1>5. q * b \in Nat /\ (q + 1) * b = q * b + b
  BY <1>1, <1>2
<1>. DEFINE z == q * b
<1>6. z \in Nat /\ z + r = p /\ (q + 1) * b = z + b
  BY <1>2, <1>5
<1>. HIDE DEF q, r, b, z
<1>7. CASE r + n >= b
  <2>1. r + n = b
    BY <1>1, <1>2, <1>4, <1>7
  <2>2. p + n = (q + 1) * b + 0
    <3>1. p + n = z + b
      BY <1>1, <1>2, <1>6, <2>1
    <3>. QED
      BY <1>1, <1>6, <3>1
  <2>3. ((q + 1) * b + 0) \div b = q + 1 /\ ((q + 1) * b + 0) % b = 0
    BY <1>1, <1>2, Quotient
  <2>4. (p + n) \div b = q + 1 /\ (p + n) % b = 0
    BY <2>2, <2>3
  <2>. QED
    BY <1>3, <1>7, <2>4 DEF Advance, PlaceOf, b
<1>8. CASE ~(r + n >= b)
  <2>1. r + n \in 0..(b - 1)
    BY <1>1, <1>2, <1>8
  <2>2. p + n = q * b + (r + n)
    <3>1. p + n = z + (r + n)
      BY <1>1, <1>2, <1>6
    <3>. QED
      BY <3>1 DEF z
  <2>3. (q * b + (r + n)) \div b = q /\ (q * b + (r + n)) % b = r + n
    BY <1>1, <1>2, <2>1, Quotient
  <2>4. (p + n) \div b = q /\ (p + n) % b = r + n
    BY <2>2, <2>3
  <2>. QED
    BY <1>3, <1>8, <2>4 DEF Advance, PlaceOf, b
<1>. QED
  BY <1>7, <1>8

LEMMA LengthsAre ==
    ASSUME NEW up \in Update
    PROVE  Len(up.transacts) \in Nat /\ Len(up.shields) \in Nat
<1>1. Len(up.transacts) \in 0..(IdBase - 1)
  BY UpdateIs
<1>2. Len(up.shields) \in 0..TreeSize
  BY UpdateIs
<1>. QED
  BY <1>1, <1>2, BaseIs, Sizes0

LEMMA SeqIs ==
    ASSUME NEW N \in Nat, NEW f, f = [i \in 1..N |-> f[i]], NEW S, \A i \in 1..N : f[i] \in S
    PROVE  f \in Seq(S) /\ Len(f) = N
<1>1. f \in [1..N -> S]
  OBVIOUS
<1>. QED
  BY <1>1

LEMMA ConcatIs ==
    ASSUME NEW S, NEW s \in Seq(S), NEW t \in Seq(S)
    PROVE  /\ Len(s \o t) = Len(s) + Len(t) /\ DOMAIN (s \o t) = 1..(Len(s) + Len(t))
           /\ \A i \in 1..Len(s) : (s \o t)[i] = s[i]
           /\ \A i \in 1..Len(t) : (s \o t)[Len(s) + i] = t[i]
OBVIOUS

\* The groups of leaves of a log.
LEMMA SizesAre ==
    ASSUME NEW n \in Nat, NEW u, NEW up \in Update, Does(n, u, up)
    PROVE  LET x == Sizes(V3Log(u))
               L == Len(up.transacts)
               M == Len(up.shields)
           IN  /\ Len(x) = L + M /\ DOMAIN x = 1..(L + M)
               /\ \A i \in 1..L : x[i] = up.transacts[i].count
               /\ \A i \in 1..M : x[L + i] = 1
<1>. DEFINE L == Len(up.transacts)
            M == Len(up.shields)
            log == V3Log(u)
            s == [i \in DOMAIN log.transacts |-> Len(log.transacts[i].notes)]
            t == [i \in DOMAIN log.shields |-> 1]
<1>1. L \in Nat /\ M \in Nat /\ \A i \in 1..L : up.transacts[i].count \in Nat
  BY LengthsAre, UpdateIs
<1>2. log.transacts = u.transacts /\ log.shields = u.shields
  BY DEF V3Log
<1>. HIDE DEF log
<1>3. DOMAIN log.transacts = 1..L /\ DOMAIN log.shields = 1..M
  BY <1>2, DoesShape
<1>4. \A i \in 1..L : Len(log.transacts[i].notes) = up.transacts[i].count
  <2>. TAKE i \in 1..L
  <2>1. Len(u.transacts[i].notes) = up.transacts[i].count
    BY NotesAre, Zenon
  <2>. QED
    BY <1>2, <2>1
<1>5. /\ DOMAIN s = 1..L /\ \A i \in 1..L : s[i] = up.transacts[i].count
      /\ DOMAIN t = 1..M /\ \A i \in 1..M : t[i] = 1
  BY <1>3, <1>4
<1>6. s = [i \in 1..L |-> s[i]] /\ t = [i \in 1..M |-> t[i]]
  BY <1>3
<1>. HIDE DEF s, t, L, M
<1>7. (\A i \in 1..L : s[i] \in Nat) /\ (\A i \in 1..M : t[i] \in Nat)
  BY <1>1, <1>5
<1>8. s \in Seq(Nat) /\ t \in Seq(Nat) /\ Len(s) = L /\ Len(t) = M
  BY <1>1, <1>6, <1>7, SeqIs
<1>9. /\ Len(s \o t) = L + M /\ DOMAIN (s \o t) = 1..(L + M)
      /\ \A i \in 1..L : (s \o t)[i] = s[i]
      /\ \A i \in 1..M : (s \o t)[L + i] = t[i]
  <2>1. /\ Len(s \o t) = Len(s) + Len(t) /\ DOMAIN (s \o t) = 1..(Len(s) + Len(t))
        /\ \A i \in 1..Len(s) : (s \o t)[i] = s[i]
        /\ \A i \in 1..Len(t) : (s \o t)[Len(s) + i] = t[i]
    <3>1. s \in Seq(Nat) /\ t \in Seq(Nat)
      BY <1>8
    <3>. QED
      BY ONLY <3>1, ConcatIs
  <2>. QED
    BY <1>8, <2>1, Zenon
<1>10. Sizes(log) = s \o t
  BY DEF Sizes, s, t
<1>. QED
  BY <1>5, <1>9, <1>10 DEF L, M, log

\* As the loops go over the log, they stay where the contract is.
LEMMA PlacesAre ==
    ASSUME NEW n \in Nat, NEW u, NEW up \in Update, Does(n, u, up), version = "V3", PlacedAs(version, u, up)
    PROVE  /\ \A i \in 1..Len(up.transacts) :
                 Places(V3Log(u))[i] = PlaceOf(u.transact + Sums(Counts(up))[i - 1])
           /\ \A i \in 1..Len(up.shields) :
                 Places(V3Log(u))[Len(up.transacts) + i] = PlaceOf(u.shield + (i - 1))
<1>. DEFINE L == Len(up.transacts)
            M == Len(up.shields)
            log == V3Log(u)
            sizes == Sizes(log)
            x == Counts(up)
            P(i) == IF i <= L THEN u.transact + Sums(x)[i] ELSE u.shield + (i - L)
<1>1. L \in Nat /\ M \in Nat /\ L + M \in Nat
  <2>1. L \in Nat /\ M \in Nat
    BY LengthsAre
  <2>. HIDE DEF L, M
  <2>. QED
    BY <2>1
<1>2. /\ Len(sizes) = L + M /\ DOMAIN sizes = 1..(L + M)
      /\ \A i \in 1..L : sizes[i] = up.transacts[i].count
      /\ \A i \in 1..M : sizes[L + i] = 1
  BY SizesAre
<1>3. u.transact \in Nat /\ u.shield \in Nat /\ u.shield = u.transact + Sums(x)[L]
      /\ \A i \in 1..L : InOneTree(u.transact + Sums(x)[i - 1], up.transacts[i].count)
  BY CountsAre DEF PlacedAs
<1>4. /\ Sums(x)[0] = 0 /\ \A i \in 0..L : Sums(x)[i] \in Nat
      /\ \A i \in 1..L : Sums(x)[i] = Sums(x)[i - 1] + up.transacts[i].count /\ up.transacts[i].count \in Nat
  BY CountsAre, UpdateIs
<1>5. log.tree = u.transact \div TreeSize /\ log.start = u.transact % TreeSize
  BY DEF V3Log
<1>. HIDE DEF L, M, log, sizes, x
<1>6. P(0) = u.transact
  BY <1>1, <1>3, <1>4
<1>7. ASSUME NEW i \in 1..(L + M)
      PROVE  /\ P(i - 1) \in Nat /\ sizes[i] \in Nat /\ InOneTree(P(i - 1), sizes[i])
             /\ P(i) = P(i - 1) + sizes[i]
  <2>1. CASE i \in 1..L
    <3>1. i \in 0..L /\ i - 1 \in 0..L /\ i <= L /\ i - 1 <= L
      BY <1>1, <2>1
    <3>2. P(i) = u.transact + Sums(x)[i] /\ P(i - 1) = u.transact + Sums(x)[i - 1]
      BY <3>1
    <3>3. sizes[i] = up.transacts[i].count /\ Sums(x)[i] = Sums(x)[i - 1] + up.transacts[i].count
          /\ up.transacts[i].count \in Nat /\ Sums(x)[i - 1] \in Nat
      BY <1>2, <1>4, <2>1, <3>1
    <3>4. InOneTree(P(i - 1), sizes[i])
      BY <1>3, <2>1, <3>2, <3>3
    <3>. HIDE DEF P
    <3>. QED
      BY <1>3, <3>2, <3>3, <3>4
  <2>2. CASE i \in (L + 1)..(L + M)
    <3>1. i - L \in 1..M /\ L + (i - L) = i /\ ~(i <= L) /\ (i - 1 = L \/ ~(i - 1 <= L))
      BY <1>1, <2>2
    <3>2. P(i) = u.shield + (i - L)
      BY <3>1
    <3>3. P(i - 1) = u.shield + (i - 1 - L)
      <4>1. CASE i - 1 = L
        <5>1. P(i - 1) = u.transact + Sums(x)[L]
          BY <1>1, <4>1
        <5>2. i - 1 - L = 0
          BY <1>1, <4>1
        <5>. HIDE DEF P
        <5>. QED
          BY <1>3, <5>1, <5>2
      <4>2. CASE ~(i - 1 <= L)
        BY <4>2
      <4>. QED
        BY <3>1, <4>1, <4>2
    <3>4. sizes[i] = 1
      <4>1. sizes[L + (i - L)] = 1
        BY <1>2, <3>1
      <4>. QED
        BY <3>1, <4>1
    <3>5. i - 1 - L \in Nat /\ i \in Nat
      BY <1>1, <2>2
    <3>. HIDE DEF P
    <3>6. P(i - 1) \in Nat /\ P(i) = P(i - 1) + 1
      BY <1>1, <1>3, <3>2, <3>3, <3>5
    <3>7. InOneTree(P(i - 1), 1)
      <4>1. P(i - 1) + 1 - 1 = P(i - 1)
        BY <3>6
      <4>. QED
        BY <4>1 DEF InOneTree
    <3>. QED
      BY <3>4, <3>6, <3>7
  <2>3. i \in 1..L \/ i \in (L + 1)..(L + M)
    BY <1>1
  <2>. QED
    BY <2>1, <2>2, <2>3
<1>8. \A i \in 1..(L + M) : Advance(PlaceOf(P(i - 1)), sizes[i]) = PlaceOf(P(i))
  <2>. TAKE i \in 1..(L + M)
  <2>1. /\ P(i - 1) \in Nat /\ sizes[i] \in Nat /\ InOneTree(P(i - 1), sizes[i])
        /\ P(i) = P(i - 1) + sizes[i]
    BY <1>7
  <2>. HIDE DEF P
  <2>. QED
    BY <2>1, AdvanceIs
<1>9. PlaceOf(P(0)) = [tree |-> log.tree, index |-> log.start]
  <2>. HIDE DEF P
  <2>. QED
    BY <1>5, <1>6 DEF PlaceOf
<1>. HIDE DEF P
<1>. DEFINE Is(g) == g = [i \in 0..Len(sizes) |->
                             IF i = 0 THEN [tree |-> log.tree, index |-> log.start] ELSE Advance(g[i - 1], sizes[i])]
            place == CHOOSE g : Is(g)
            f == [i \in 0..(L + M) |-> PlaceOf(P(i))]
<1>10. Is(f)
  <2>1. f = [i \in 0..(L + M) |-> f[i]]
    OBVIOUS
  <2>2. ASSUME NEW i \in 0..(L + M)
        PROVE  f[i] = IF i = 0 THEN [tree |-> log.tree, index |-> log.start] ELSE Advance(f[i - 1], sizes[i])
    <3>1. f[i] = PlaceOf(P(i))
      OBVIOUS
    <3>2. i # 0 => i - 1 \in 0..(L + M) /\ i \in 1..(L + M)
      BY <1>1
    <3>3. i # 0 => f[i - 1] = PlaceOf(P(i - 1))
      BY <3>2
    <3>. HIDE DEF f
    <3>. QED
      BY <1>8, <1>9, <3>1, <3>2, <3>3
  <2>. HIDE DEF f
  <2>. QED
    BY <1>2, <2>1, <2>2
<1>11. Is(place)
  BY <1>10
<1>. HIDE DEF place, f
<1>12. \A i \in 0..(L + M) : place[i] = IF i = 0 THEN [tree |-> log.tree, index |-> log.start]
                                        ELSE Advance(place[i - 1], sizes[i])
  BY <1>2, <1>11
<1>. DEFINE Good == {i \in 0..(L + M) : place[i] = PlaceOf(P(i))}
<1>13. 0 \in Good
  BY <1>1, <1>9, <1>12
<1>14. ASSUME NEW i \in 0..((L + M) - 1), i \in Good PROVE i + 1 \in Good
  <2>1. i + 1 \in 1..(L + M) /\ i + 1 \in 0..(L + M) /\ (i + 1) - 1 = i /\ i + 1 # 0
    BY <1>1
  <2>2. place[i + 1] = Advance(place[i], sizes[i + 1])
    BY <1>12, <2>1
  <2>3. Advance(PlaceOf(P(i)), sizes[i + 1]) = PlaceOf(P(i + 1))
    BY <1>8, <2>1
  <2>. QED
    BY <1>14, <2>1, <2>2, <2>3
<1>15. \A i \in 0..(L + M) : place[i] = PlaceOf(P(i))
  <2>1. \A i \in 0..((L + M) - 1) : i \in Good => i + 1 \in Good
    BY <1>14
  <2>. HIDE DEF Good
  <2>2. \A i \in 0..(L + M) : i \in Good
    BY <1>1, <1>13, <2>1, Climb
  <2>. QED
    BY <2>2 DEF Good
<1>16. Places(log) = [i \in DOMAIN sizes |-> place[i - 1]]
  BY DEF Places, place, sizes
<1>17. \A i \in 1..(L + M) : Places(log)[i] = PlaceOf(P(i - 1))
  <2>. TAKE i \in 1..(L + M)
  <2>1. i - 1 \in 0..(L + M)
    BY <1>1
  <2>. QED
    BY <1>2, <1>15, <1>16, <2>1
<1>18. ASSUME NEW i \in 1..L PROVE Places(log)[i] = PlaceOf(u.transact + Sums(x)[i - 1])
  <2>1. i \in 1..(L + M) /\ i - 1 <= L
    BY <1>1
  <2>. QED
    BY <1>17, <2>1 DEF P
<1>19. ASSUME NEW i \in 1..M PROVE Places(log)[L + i] = PlaceOf(u.shield + (i - 1))
  <2>1. L + i \in 1..(L + M)
    BY <1>1
  <2>2. P((L + i) - 1) = u.shield + (i - 1)
    <3>1. CASE i = 1
      <4>1. (L + i) - 1 = L /\ L <= L /\ i - 1 = 0
        BY <1>1, <3>1
      <4>2. P(L) = u.shield
        BY <1>1, <1>3, <4>1 DEF P
      <4>. QED
        BY <1>3, <4>1, <4>2
    <3>2. CASE i # 1
      <4>1. ~((L + i) - 1 <= L) /\ ((L + i) - 1) - L = i - 1
        BY <1>1, <3>2
      <4>. QED
        BY <4>1 DEF P
    <3>. QED
      BY <3>1, <3>2
  <2>. QED
    BY <1>17, <2>1, <2>2
<1>. QED
  BY <1>18, <1>19 DEF L, M, x, log

\* The place of the leaves of a transaction.
LEMMA V3NotePlace ==
    ASSUME NEW n \in Nat, NEW u, NEW up \in Update, Does(n, u, up), version = "V3", PlacedAs(version, u, up),
           NEW i \in 1..Len(up.transacts), NEW j \in 1..up.transacts[i].count
    PROVE  LET note == u.transacts[i].notes[j]
               place == Places(V3Log(u))[i]
           IN  /\ place.tree = PositionIn(u, note) \div TreeSize
               /\ place.index + j - 1 = PositionIn(u, note) % TreeSize
<1>. DEFINE note == u.transacts[i].notes[j]
            place == Places(V3Log(u))[i]
            a == Sums(Counts(up))[i - 1]
            t == u.transact
            m == up.transacts[i].count
            p == t + a
<1>1. PositionIn(u, note) = t + (a + j) - 1
  BY NoteIs, Zenon
<1>2. t \in Nat /\ InOneTree(p, m) /\ m \in Nat
  BY UpdateIs DEF PlacedAs
<1>3. a \in Nat
  <2>1. i - 1 \in 0..Len(up.transacts)
    BY LengthsAre
  <2>. QED
    BY <2>1, CountsAre
<1>4. place = PlaceOf(p)
  BY PlacesAre, Zenon
<1>. HIDE DEF place, a, t, m, note
<1>5. p \in Nat /\ t + (a + j) - 1 = p + (j - 1) /\ j - 1 \in 0..(m - 1)
  BY <1>2, <1>3 DEF m
<1>6. (p + (j - 1)) \div TreeSize = p \div TreeSize /\ (p + (j - 1)) % TreeSize = (p % TreeSize) + (j - 1)
  BY <1>2, <1>5, InTree
<1>7. place.tree = p \div TreeSize /\ place.index = p % TreeSize
  BY <1>4 DEF PlaceOf
<1>8. (p % TreeSize) + (j - 1) = (p % TreeSize) + j - 1
  <2>. DEFINE r == p % TreeSize
  <2>1. r \in Nat
    <3>. HIDE DEF p
    <3>1. p % TreeSize \in 0..(TreeSize - 1)
      BY <1>5, Sizes0, Divide
    <3>. QED
      BY <3>1, Sizes0
  <2>2. j \in Nat
    BY <1>2 DEF m
  <2>. HIDE DEF r
  <2>3. r + (j - 1) = r + j - 1
    BY <2>1, <2>2
  <2>. QED
    BY <2>3 DEF r
<1>. QED
  BY <1>1, <1>5, <1>6, <1>7, <1>8 DEF note, place

LEMMA V3TransactSound ==
    ASSUME NEW n \in Nat, NEW u, NEW up \in Update, Does(n, u, up), version = "V3", PlacedAs(version, u, up),
           NEW i \in DOMAIN u.transacts, NEW c \in TransactCommitments(V3Log(u), i)
    PROVE  RowOf("V3", u, c)
<1>. DEFINE log == V3Log(u)
            place == Places(log)[i]
<1>1. log.transacts = u.transacts /\ log.txid = u.txid /\ log.block = u.block
  BY DEF V3Log
<1>2. PICK j \in DOMAIN u.transacts[i].notes :
         c = [tree |-> place.tree, index |-> place.index + j - 1, note |-> u.transacts[i].notes[j], fee |-> NoFee,
              batchIndex |-> BatchIndex(i - 1, j - 1), txid |-> u.txid, block |-> u.block]
  BY <1>1 DEF TransactCommitments
<1>3. i \in 1..Len(up.transacts)
  BY DoesShape
<1>4. j \in 1..up.transacts[i].count
  BY <1>3, NoteCount
<1>5. /\ place.tree = PositionIn(u, u.transacts[i].notes[j]) \div TreeSize
      /\ place.index + j - 1 = PositionIn(u, u.transacts[i].notes[j]) % TreeSize
  BY <1>3, <1>4, V3NotePlace, Zenon
<1>6. BatchIndex(i - 1, j - 1) = i + j - 2
  <2>1. i \in Int /\ j \in Int
    BY <1>3, <1>4, UpdateIs
  <2>. QED
    BY <2>1 DEF BatchIndex
<1>. HIDE DEF place, log
<1>7. c = Row(u, u.transacts[i].notes[j], NoFee, i + j - 2)
  BY <1>2, <1>5, <1>6 DEF Row
<1>. QED
  BY <1>7 DEF RowOf

LEMMA V3ShieldSound ==
    ASSUME NEW n \in Nat, NEW u, NEW up \in Update, Does(n, u, up), version = "V3", PlacedAs(version, u, up),
           NEW i \in DOMAIN u.shields
    PROVE  RowOf("V3", u, ShieldCommitment(V3Log(u), i))
<1>. DEFINE log == V3Log(u)
            place == Places(log)[Len(u.transacts) + i]
            fee == ShieldFee(log, i)
            c == ShieldCommitment(log, i)
<1>1. log.transacts = u.transacts /\ log.shields = u.shields /\ log.txid = u.txid /\ log.block = u.block
  BY DEF V3Log
<1>2. c = [tree |-> place.tree, index |-> place.index, note |-> u.shields[i].note, fee |-> fee,
           batchIndex |-> NoIndex, txid |-> u.txid, block |-> u.block]
  BY <1>1 DEF ShieldCommitment
<1>3. i \in 1..Len(up.shields) /\ Len(u.transacts) = Len(up.transacts)
  BY DoesShape
<1>4. place = PlaceOf(u.shield + (i - 1))
  BY <1>3, PlacesAre
<1>5. PositionIn(u, u.shields[i].note) = u.shield + i - 1
  BY <1>3, ShieldIs
<1>6. u.shield + (i - 1) = u.shield + i - 1
  <2>1. u.shield \in Nat /\ i \in Nat
    BY <1>3, LengthsAre DEF PlacedAs
  <2>. QED
    BY <2>1
<1>. HIDE DEF place, log, fee, c
<1>7. c = Row(u, u.shields[i].note, fee, NoIndex)
  BY <1>2, <1>4, <1>5, <1>6 DEF Row, PlaceOf
<1>8. RowOf("V3", u, c)
  BY <1>7 DEF RowOf
<1>. QED
  BY <1>8 DEF c, log

LEMMA V3TransactionSound ==
    ASSUME NEW n \in Nat, NEW u, NEW up \in Update, Does(n, u, up), version = "V3", PlacedAs(version, u, up),
           NEW i \in DOMAIN u.transacts
    PROVE  TransactionOf(u, FormatV3RailgunTransactionEvent(V3Log(u), i))
<1>. DEFINE log == V3Log(u)
            place == Places(log)[i]
            notes == u.transacts[i].notes
            only == notes = <<>> /\ u.transacts[i].unshield.value > 0
            t == FormatV3RailgunTransactionEvent(log, i)
<1>1. log.transacts = u.transacts
  BY DEF V3Log
<1>2. t.id = u.transacts[i].id /\ (~only => t.tree = place.tree /\ t.position = place.index)
  BY <1>1 DEF FormatV3RailgunTransactionEvent
<1>3. i \in 1..Len(up.transacts)
  BY DoesShape
<1>4. ASSUME notes # <<>> PROVE t.tree * TreeSize + t.position = PositionIn(u, notes[1])
  <2>1. ~only
    BY <1>4
  <2>2. notes = [j \in 1..up.transacts[i].count |-> <<n, "transact", Sums(Counts(up))[i - 1] + j>>]
    BY <1>3, NotesFunction
  <2>3. up.transacts[i].count \in Nat
    BY <1>3, UpdateIs
  <2>. HIDE DEF notes, only, t, place, log
  <2>4. up.transacts[i].count # 0
    BY <1>4, <2>2
  <2>5. 1 \in 1..up.transacts[i].count
    BY <2>3, <2>4
  <2>. DEFINE p == PositionIn(u, notes[1])
  <2>6. place.tree = p \div TreeSize /\ place.index + 1 - 1 = p % TreeSize
    BY <1>3, <2>5, V3NotePlace, Zenon DEF notes, place, log
  <2>7. place = PlaceOf(u.transact + Sums(Counts(up))[i - 1])
    BY <1>3, PlacesAre, Zenon DEF place, log
  <2>8. p \in Nat
    <3>1. p \in u.transact..(u.shield - 1)
      BY <1>3, <2>5, NoteIs, Zenon DEF notes
    <3>2. u.transact \in Nat /\ u.shield \in Nat
      BY DEF PlacedAs
    <3>. QED
      BY <3>1, <3>2
  <2>9. place.index \in Int
    <3>1. i - 1 \in 0..Len(up.transacts)
      BY <1>3, LengthsAre
    <3>2. u.transact + Sums(Counts(up))[i - 1] \in Nat
      BY <3>1, CountsAre DEF PlacedAs
    <3>3. (u.transact + Sums(Counts(up))[i - 1]) % TreeSize \in 0..(TreeSize - 1)
      BY <3>2, Sizes0, Divide
    <3>. QED
      BY <2>7, <3>3, Sizes0 DEF PlaceOf
  <2>. HIDE DEF p
  <2>10. place.index = p % TreeSize
    BY <2>6, <2>9
  <2>11. (p \div TreeSize) * TreeSize + (p % TreeSize) = p
    BY <2>8, Sizes0, Divide
  <2>12. t.tree * TreeSize + t.position = p
    BY <1>2, <2>1, <2>6, <2>10, <2>11
  <2>. QED
    BY <2>12 DEF p
<1>. HIDE DEF t
<1>. QED
  BY <1>2, <1>4 DEF TransactionOf, t

\* The events of a log.
LEMMA ProcessIs ==
    ASSUME NEW log
    PROVE  LET e == ProcessV3AccumulatorStateUpdate(log)
           IN  /\ \A c \in e.commitments :
                     \/ \E i \in DOMAIN log.transacts : c \in TransactCommitments(log, i)
                     \/ \E i \in DOMAIN log.shields : c = ShieldCommitment(log, i)
               /\ \A i \in DOMAIN log.transacts : TransactCommitments(log, i) \subseteq e.commitments
               /\ \A i \in DOMAIN log.shields : ShieldCommitment(log, i) \in e.commitments
               /\ \A x \in e.unshields : \E i \in HasUnshield(log) : x = FormatV3UnshieldEvent(log, i)
               /\ \A t \in e.transactions : \E i \in DOMAIN log.transacts : t = FormatV3RailgunTransactionEvent(log, i)
<1>. DEFINE A == UNION {TransactCommitments(log, i) : i \in DOMAIN log.transacts}
            B == {ShieldCommitment(log, i) : i \in DOMAIN log.shields}
            C == {FormatV3UnshieldEvent(log, i) : i \in HasUnshield(log)}
            D == {FormatV3RailgunTransactionEvent(log, i) : i \in DOMAIN log.transacts}
            K == UNION {FormatV3NullifiedEvents(log, i) : i \in DOMAIN log.transacts}
            e == ProcessV3AccumulatorStateUpdate(log)
<1>0. e = [commitments |-> A \cup B, nullifiers |-> K, unshields |-> C, transactions |-> D]
  BY DEF ProcessV3AccumulatorStateUpdate
<1>1. e.commitments = A \cup B /\ e.unshields = C /\ e.transactions = D
  <2>. HIDE DEF A, B, C, D, K, e
  <2>. QED
    BY <1>0
<1>2. /\ \A c \in A : \E i \in DOMAIN log.transacts : c \in TransactCommitments(log, i)
      /\ \A i \in DOMAIN log.transacts : TransactCommitments(log, i) \subseteq A
  OBVIOUS
<1>3. /\ \A c \in B : \E i \in DOMAIN log.shields : c = ShieldCommitment(log, i)
      /\ \A i \in DOMAIN log.shields : ShieldCommitment(log, i) \in B
  OBVIOUS
<1>4. /\ \A x \in C : \E i \in HasUnshield(log) : x = FormatV3UnshieldEvent(log, i)
      /\ \A t \in D : \E i \in DOMAIN log.transacts : t = FormatV3RailgunTransactionEvent(log, i)
  OBVIOUS
<1>. HIDE DEF A, B, C, D, e
<1>5. \A c \in e.commitments :
         \/ \E i \in DOMAIN log.transacts : c \in TransactCommitments(log, i)
         \/ \E i \in DOMAIN log.shields : c = ShieldCommitment(log, i)
  BY <1>1, <1>2, <1>3
<1>6. /\ \A i \in DOMAIN log.transacts : TransactCommitments(log, i) \subseteq e.commitments
      /\ \A i \in DOMAIN log.shields : ShieldCommitment(log, i) \in e.commitments
  BY <1>1, <1>2, <1>3
<1>. QED
  BY <1>1, <1>4, <1>5, <1>6 DEF e

LEMMA V3LogSound ==
    ASSUME ChainInv, version = "V3", NEW n \in 1..Len(mined)
    PROVE  Sound(ProcessV3AccumulatorStateUpdate(V3Log(mined[n])))
<1>. DEFINE u == mined[n]
            log == V3Log(u)
            E == ProcessV3AccumulatorStateUpdate(log)
<1>1. PICK up \in Update : Does(n, u, up) /\ PlacedAs(version, u, up)
  BY DEF ChainInv
<1>2. n \in Nat
  BY MinedIs
<1>. HIDE DEF u
<1>3. log.transacts = u.transacts /\ log.shields = u.shields
  BY DEF V3Log
<1>4. HasUnshield(log) = HasUnshield(u)
  BY <1>3 DEF HasUnshield
<1>. HIDE DEF log
<1>5. /\ \A c \in E.commitments :
            \/ \E i \in DOMAIN u.transacts : c \in TransactCommitments(log, i)
            \/ \E i \in DOMAIN u.shields : c = ShieldCommitment(log, i)
      /\ \A x \in E.unshields : \E i \in HasUnshield(u) : x = FormatV3UnshieldEvent(log, i)
      /\ \A t \in E.transactions : \E i \in DOMAIN u.transacts : t = FormatV3RailgunTransactionEvent(log, i)
  BY <1>3, <1>4, ProcessIs
<1>. HIDE DEF E
<1>6. ASSUME NEW c \in E.commitments PROVE RowOf("V3", u, c)
  <2>1. ASSUME NEW i \in DOMAIN u.transacts, c \in TransactCommitments(log, i) PROVE RowOf("V3", u, c)
    BY <1>1, <1>2, <2>1, V3TransactSound DEF log
  <2>2. ASSUME NEW i \in DOMAIN u.shields, c = ShieldCommitment(log, i) PROVE RowOf("V3", u, c)
    <3>1. RowOf("V3", u, ShieldCommitment(V3Log(u), i))
      BY <1>1, <1>2, V3ShieldSound
    <3>. QED
      BY <2>2, <3>1 DEF log
  <2>. QED
    BY <1>5, <2>1, <2>2
<1>7. ASSUME NEW x \in E.unshields PROVE UnshieldOf("V3", u, x)
  BY <1>5 DEF UnshieldOf, log
<1>8. ASSUME NEW t \in E.transactions PROVE TransactionOf(u, t)
  <2>1. PICK i \in DOMAIN u.transacts : t = FormatV3RailgunTransactionEvent(log, i)
    BY <1>5
  <2>2. TransactionOf(u, FormatV3RailgunTransactionEvent(V3Log(u), i))
    BY <1>1, <1>2, V3TransactionSound
  <2>. QED
    BY <2>1, <2>2 DEF log
<1>9. Sound(E)
  BY <1>6, <1>7, <1>8 DEF Sound, u
<1>. QED
  BY <1>9 DEF E, log, u

LEMMA V3Sound ==
    ASSUME ChainInv, version = "V3", NEW from, NEW to, NEW e \in AccumulateV3Logs(from, to)
    PROVE  Sound(e)
<1>1. e = Together({ProcessV3AccumulatorStateUpdate(V3Log(u)) : u \in Mined(from, to)})
  BY DEF AccumulateV3Logs
<1>2. ASSUME NEW u \in Mined(from, to)
      PROVE  Sound(ProcessV3AccumulatorStateUpdate(V3Log(u)))
  <2>1. PICK n \in 1..Len(mined) : u = mined[n]
    BY MinedFrom
  <2>. QED
    BY <2>1, V3LogSound
<1>3. \A x \in {ProcessV3AccumulatorStateUpdate(V3Log(u)) : u \in Mined(from, to)} : Sound(x)
  BY <1>2
<1>. QED
  BY <1>1, <1>3, TogetherSound

-----------------------------------------------------------------------------
(* The pages of a query: finite sets of items, in the order of the indexer. *)

LEMMA ImageIsFinite ==
    ASSUME NEW S, IsFiniteSet(S), NEW f
    PROVE  IsFiniteSet({f[x] : x \in S})
<1>. DEFINE T == {f[x] : x \in S}
            g == [x \in S |-> f[x]]
<1>1. g \in [S -> T] /\ \A y \in T : \E x \in S : g[x] = y
  OBVIOUS
<1>2. g \in Surjection(S, T)
  <2>. HIDE DEF g, T
  <2>. QED
    BY <1>1 DEF Surjection
<1>. HIDE DEF g
<1>3. IsFiniteSet(T)
  BY <1>2, FS_Surjection
<1>. QED
  BY <1>3

\* A finite set has an item that nothing comes before.
LEMMA Minimal ==
    ASSUME NEW S, IsFiniteSet(S), S # {}, NEW R,
           \A x \in S : <<x, x>> \notin R,
           \A x, y, z \in S : <<x, y>> \in R /\ <<y, z>> \in R => <<x, z>> \in R
    PROVE  \E x \in S : \A y \in S : <<y, x>> \notin R
<1>. DEFINE Before(x) == {y \in S : <<y, x>> \in R}
            C == {Cardinality(Before(x)) : x \in S}
<1>1. ASSUME NEW x \in S
      PROVE  IsFiniteSet(Before(x)) /\ Cardinality(Before(x)) \in Nat
  BY FS_Subset, FS_CardinalityType
<1>2. C \in SUBSET Nat /\ C # {}
  <2>1. \A x \in S : Cardinality(Before(x)) \in Nat
    BY <1>1
  <2>. HIDE DEF Before
  <2>. QED
    BY <2>1
<1>3. PICK c \in C : \A d \in C : c <= d
  BY <1>2, LeastNat, Zenon
<1>4. PICK x \in S : c = Cardinality(Before(x))
  OBVIOUS
<1>5. ASSUME NEW y \in S, <<y, x>> \in R
      PROVE  FALSE
  <2>1. Before(y) \subseteq Before(x) /\ y \in Before(x) /\ y \notin Before(y)
    BY <1>5
  <2>2. Cardinality(Before(x)) <= Cardinality(Before(y))
    <3>. HIDE DEF Before
    <3>1. Cardinality(Before(y)) \in C
      OBVIOUS
    <3>. QED
      BY <1>3, <1>4, <3>1
  <2>3. /\ Cardinality(Before(y)) <= Cardinality(Before(x))
        /\ Cardinality(Before(x)) = Cardinality(Before(y)) => Before(x) = Before(y)
    <3>1. Before(y) \in SUBSET Before(x) /\ IsFiniteSet(Before(x))
      BY <1>1, <2>1
    <3>. HIDE DEF Before
    <3>. QED
      BY <3>1, FS_Subset
  <2>4. Cardinality(Before(x)) \in Nat /\ Cardinality(Before(y)) \in Nat
    BY <1>1
  <2>. HIDE DEF Before
  <2>. QED
    BY <2>1, <2>2, <2>3, <2>4
<1>. QED
  BY <1>5

\* Items have a block and an identifier, no two of them the same.
Ordered(S) ==
    /\ \A x \in S : x.block \in Int /\ x.id \in Int
    /\ \A x, y \in S : x.block = y.block /\ x.id = y.id => x = y

LEMMA PrecedesIs ==
    ASSUME NEW S, Ordered(S)
    PROVE  /\ \A x \in S : ~ Precedes(x, x)
           /\ \A x, y \in S : Precedes(x, y) \/ Precedes(y, x) \/ x = y
           /\ \A x, y, z \in S : Precedes(x, y) /\ Precedes(y, z) => Precedes(x, z)
<1>1. \A x, y \in S : x.block = y.block /\ x.id = y.id => x = y
  BY DEF Ordered
<1>2. \A x \in S : x.block \in Int /\ x.id \in Int
  BY DEF Ordered
<1>3. ASSUME NEW x \in S, NEW y \in S PROVE Precedes(x, y) \/ Precedes(y, x) \/ x = y
  BY <1>1, <1>2 DEF Precedes
<1>4. ASSUME NEW x \in S, NEW y \in S, NEW z \in S, Precedes(x, y), Precedes(y, z) PROVE Precedes(x, z)
  BY <1>2, <1>4 DEF Precedes
<1>5. ASSUME NEW x \in S PROVE ~ Precedes(x, x)
  BY <1>2 DEF Precedes
<1>. QED
  BY <1>3, <1>4, <1>5

LEMMA FirstItem ==
    ASSUME NEW S, IsFiniteSet(S), S # {}, Ordered(S)
    PROVE  \E x \in S : \A y \in S : ~ Precedes(y, x)
<1>. DEFINE R == {p \in S \X S : Precedes(p[1], p[2])}
<1>1. \A x, y \in S : <<x, y>> \in R <=> Precedes(x, y)
  OBVIOUS
<1>. HIDE DEF R
<1>2. /\ \A x \in S : <<x, x>> \notin R
      /\ \A x, y, z \in S : <<x, y>> \in R /\ <<y, z>> \in R => <<x, z>> \in R
  BY <1>1, PrecedesIs
<1>3. \E x \in S : \A y \in S : <<y, x>> \notin R
  BY <1>2, Minimal
<1>. QED
  BY <1>1, <1>3

LEMMA LastItem ==
    ASSUME NEW S, IsFiniteSet(S), S # {}, Ordered(S)
    PROVE  \E x \in S : \A y \in S : ~ Precedes(x, y)
<1>. DEFINE R == {p \in S \X S : Precedes(p[2], p[1])}
<1>1. \A x, y \in S : <<x, y>> \in R <=> Precedes(y, x)
  OBVIOUS
<1>. HIDE DEF R
<1>2. /\ \A x \in S : <<x, x>> \notin R
      /\ \A x, y, z \in S : <<x, y>> \in R /\ <<y, z>> \in R => <<x, z>> \in R
  BY <1>1, PrecedesIs
<1>3. \E x \in S : \A y \in S : <<y, x>> \notin R
  BY <1>2, Minimal
<1>. QED
  BY <1>1, <1>3

\* What a page leaves out comes after all that it has, and then it is full.
LEMMA FirstItemsAre ==
    ASSUME NEW S, IsFiniteSet(S), Ordered(S), NEW n \in Nat
    PROVE  /\ FirstItems(S, n) \subseteq S
           /\ Cardinality(FirstItems(S, n)) <= n
           /\ \A x \in S \ FirstItems(S, n) :
                 /\ \A y \in FirstItems(S, n) : Precedes(y, x)
                 /\ Cardinality(FirstItems(S, n)) = n
<1>. DEFINE Before(x) == {y \in S : Precedes(y, x)}
            F == FirstItems(S, n)
<1>1. F = {x \in S : Cardinality(Before(x)) < n}
  BY DEF FirstItems
<1>2. ASSUME NEW x \in S PROVE IsFiniteSet(Before(x)) /\ Cardinality(Before(x)) \in Nat
  BY FS_Subset, FS_CardinalityType
<1>3. /\ \A x \in S : ~ Precedes(x, x)
      /\ \A x, y \in S : Precedes(x, y) \/ Precedes(y, x) \/ x = y
      /\ \A x, y, z \in S : Precedes(x, y) /\ Precedes(y, z) => Precedes(x, z)
  BY PrecedesIs
<1>4. F \subseteq S /\ IsFiniteSet(F) /\ Cardinality(F) \in Nat
  BY <1>1, FS_Subset, FS_CardinalityType
<1>. HIDE DEF F
<1>5. ASSUME NEW x \in S, NEW y \in S, Precedes(x, y)
      PROVE  Cardinality(Before(x)) < Cardinality(Before(y))
  <2>1. Before(x) \subseteq Before(y) /\ x \in Before(y) /\ x \notin Before(x)
    BY <1>3, <1>5
  <2>2. /\ Cardinality(Before(x)) <= Cardinality(Before(y))
        /\ Cardinality(Before(y)) = Cardinality(Before(x)) => Before(x) = Before(y)
    <3>1. Before(x) \in SUBSET Before(y) /\ IsFiniteSet(Before(y))
      BY <1>2, <2>1
    <3>. HIDE DEF Before
    <3>. QED
      BY <3>1, FS_Subset
  <2>3. Cardinality(Before(x)) \in Nat /\ Cardinality(Before(y)) \in Nat
    BY <1>2
  <2>. HIDE DEF Before
  <2>. QED
    BY <2>1, <2>2, <2>3
<1>6. ASSUME NEW x \in S \ F, NEW y \in F PROVE Precedes(y, x)
  <2>1. Cardinality(Before(y)) < n /\ ~ (Cardinality(Before(x)) < n) /\ x \in S /\ y \in S /\ x # y
    BY <1>1, <1>6
  <2>2. Cardinality(Before(y)) \in Nat /\ Cardinality(Before(x)) \in Nat
    BY <1>2, <2>1
  <2>3. ~ Precedes(x, y)
    <3>1. Precedes(x, y) => Cardinality(Before(x)) < Cardinality(Before(y))
      BY <1>5, <2>1
    <3>. HIDE DEF Before
    <3>. QED
      BY <2>1, <2>2, <3>1
  <2>. QED
    BY <1>3, <2>1, <2>3
<1>7. Cardinality(F) <= n
  <2>1. CASE F = {}
    BY <2>1, FS_EmptySet
  <2>2. CASE F # {}
    <3>1. Ordered(F)
      BY <1>4 DEF Ordered
    <3>2. PICK x \in F : \A y \in F : ~ Precedes(x, y)
      BY <1>4, <2>2, <3>1, LastItem
    <3>3. F \ {x} \subseteq Before(x) /\ x \in S
      BY <1>3, <1>4, <3>2
    <3>4. Cardinality(F \ {x}) <= Cardinality(Before(x)) /\ Cardinality(Before(x)) \in Nat
      <4>1. F \ {x} \in SUBSET Before(x) /\ IsFiniteSet(Before(x)) /\ Cardinality(Before(x)) \in Nat
        BY <1>2, <3>3
      <4>. HIDE DEF Before
      <4>. QED
        BY <4>1, FS_Subset
    <3>5. Cardinality(F \ {x}) = Cardinality(F) - 1
      BY <1>4, FS_RemoveElement
    <3>6. Cardinality(Before(x)) < n
      BY <1>1
    <3>. HIDE DEF Before
    <3>. QED
      BY <1>4, <3>4, <3>5, <3>6
  <2>. QED
    BY <2>1, <2>2
<1>8. ASSUME NEW z \in S \ F PROVE Cardinality(F) = n
  <2>1. IsFiniteSet(S \ F) /\ Ordered(S \ F) /\ S \ F # {}
    BY FS_Subset DEF Ordered
  <2>2. PICK x \in S \ F : \A y \in S \ F : ~ Precedes(y, x)
    BY <2>1, FirstItem
  <2>3. Before(x) \subseteq F /\ x \in S
    BY <2>2
  <2>4. ~ (Cardinality(Before(x)) < n)
    BY <1>1
  <2>5. Cardinality(Before(x)) <= Cardinality(F) /\ Cardinality(Before(x)) \in Nat
    <3>1. Before(x) \in SUBSET F /\ Cardinality(Before(x)) \in Nat
      BY <1>2, <2>3
    <3>. HIDE DEF Before
    <3>. QED
      BY <1>4, <3>1, FS_Subset
  <2>. HIDE DEF Before
  <2>. QED
    BY <1>4, <1>7, <2>4, <2>5
<1>. QED
  BY <1>4, <1>6, <1>7, <1>8 DEF F

-----------------------------------------------------------------------------
(* The items of the indexer are finite, and in order.                       *)

\* The trees hold the leaves.
BoundInv == next <= (LastTree + 1) * TreeSize

LEMMA CapIs == (LastTree + 1) * TreeSize \in Nat
<1>1. LastTree + 1 \in Nat /\ TreeSize \in Nat
  BY SourcesAssumption, Sizes0
<1>. QED
  BY <1>1

\* Quotient and remainder are determined by the number.
LEMMA Digits ==
    ASSUME NEW b \in Nat \ {0}, NEW q \in Nat, NEW r \in 0..(b - 1), NEW p \in Nat, NEW s \in 0..(b - 1),
           b * q + r = b * p + s
    PROVE  q = p /\ r = s
<1>1. (q * b + r) \div b = q /\ (q * b + r) % b = r
  BY Quotient
<1>2. (p * b + s) \div b = p /\ (p * b + s) % b = s
  BY Quotient
<1>3. b * q = q * b /\ b * p = p * b
  OBVIOUS
<1>. QED
  BY <1>1, <1>2, <1>3

LEMMA MinedIsFinite ==
    ASSUME ChainInv, NEW from, NEW to
    PROVE  IsFiniteSet(Mined(from, to))
<1>. DEFINE D == {n \in DOMAIN mined : mined[n].block \in from..to}
<1>1. IsFiniteSet(DOMAIN mined)
  BY MinedIs, FS_Interval
<1>2. IsFiniteSet(D)
  BY <1>1, FS_Subset
<1>3. IsFiniteSet({mined[n] : n \in D})
  <2>. HIDE DEF D
  <2>. QED
    BY <1>2, ImageIsFinite
<1>. QED
  BY <1>3 DEF Mined

LEMMA LeavesFinite ==
    ASSUME NEW n \in Nat, NEW u, NEW up \in Update, Does(n, u, up)
    PROVE  IsFiniteSet(DOMAIN u.transacts) /\ IsFiniteSet(Leaves(u))
<1>1. /\ DOMAIN u.transacts = 1..Len(up.transacts) /\ DOMAIN u.shields = 1..Len(up.shields)
      /\ Len(up.transacts) \in Nat /\ Len(up.shields) \in Nat
  BY DoesShape, UpdateIs, BaseIs, Sizes0
<1>2. IsFiniteSet(DOMAIN u.transacts) /\ IsFiniteSet(DOMAIN u.shields)
  <2>1. IsFiniteSet(1..Len(up.transacts)) /\ IsFiniteSet(1..Len(up.shields))
    <3>1. 1 \in Int /\ Len(up.transacts) \in Int /\ Len(up.shields) \in Int
      BY <1>1
    <3>2. IsFiniteSet(1..Len(up.transacts))
      BY <3>1, FS_Interval, Zenon
    <3>3. IsFiniteSet(1..Len(up.shields))
      BY <3>1, FS_Interval, Zenon
    <3>. QED
      BY <3>2, <3>3
  <2>. QED
    BY <1>1, <2>1
<1>. DEFINE Of(i) == {u.transacts[i].notes[j] : j \in DOMAIN u.transacts[i].notes}
<1>3. ASSUME NEW i \in DOMAIN u.transacts PROVE IsFiniteSet(Of(i))
  <2>1. DOMAIN u.transacts[i].notes = 1..up.transacts[i].count /\ up.transacts[i].count \in Nat
    BY <1>1, NoteCount, UpdateIs
  <2>2. IsFiniteSet(DOMAIN u.transacts[i].notes)
    <3>1. 1 \in Int /\ up.transacts[i].count \in Int
      BY <2>1
    <3>2. IsFiniteSet(1..up.transacts[i].count)
      BY <3>1, FS_Interval, Zenon
    <3>. QED
      BY <2>1, <3>2
  <2>. QED
    BY <2>2, ImageIsFinite
<1>4. IsFiniteSet(Notes(u))
  <2>. DEFINE f == [i \in DOMAIN u.transacts |-> Of(i)]
  <2>1. IsFiniteSet({f[i] : i \in DOMAIN u.transacts})
    <3>. HIDE DEF f
    <3>. QED
      BY <1>2, ImageIsFinite
  <2>2. {f[i] : i \in DOMAIN u.transacts} = {Of(i) : i \in DOMAIN u.transacts}
    OBVIOUS
  <2>3. IsFiniteSet(UNION {Of(i) : i \in DOMAIN u.transacts})
    <3>1. IsFiniteSet({Of(i) : i \in DOMAIN u.transacts})
      BY <2>1, <2>2, Zenon
    <3>2. \A T \in {Of(i) : i \in DOMAIN u.transacts} : IsFiniteSet(T)
      BY <1>3
    <3>. QED
      BY <3>1, <3>2, FS_UNION, Zenon
  <2>. QED
    BY <2>3 DEF Notes
<1>5. IsFiniteSet({u.shields[i].note : i \in DOMAIN u.shields})
  <2>. DEFINE f == [i \in DOMAIN u.shields |-> u.shields[i].note]
  <2>1. IsFiniteSet({f[i] : i \in DOMAIN u.shields})
    <3>. HIDE DEF f
    <3>. QED
      BY <1>2, ImageIsFinite
  <2>2. {f[i] : i \in DOMAIN u.shields} = {u.shields[i].note : i \in DOMAIN u.shields}
    OBVIOUS
  <2>. QED
    BY <2>1, <2>2, Zenon
<1>. DEFINE All == Notes(u) \cup {u.shields[i].note : i \in DOMAIN u.shields}
            g == [note \in All |-> <<note, PositionIn(u, note)>>]
<1>6. IsFiniteSet(All)
  BY <1>4, <1>5, FS_Union
<1>7. IsFiniteSet({g[note] : note \in All})
  <2>. HIDE DEF g, All
  <2>. QED
    BY <1>6, ImageIsFinite
<1>8. {g[note] : note \in All} = Leaves(u)
  BY DEF Leaves
<1>. QED
  BY <1>2, <1>7, <1>8, Zenon

LEMMA NullifiersFinite ==
    ASSUME NEW n \in Nat, NEW u, NEW up \in Update, Does(n, u, up)
    PROVE  IsFiniteSet(UNION {u.transacts[i].nullifiers : i \in DOMAIN u.transacts})
<1>1. DOMAIN u.transacts = 1..Len(up.transacts) /\ IsFiniteSet(DOMAIN u.transacts)
  BY DoesShape, LeavesFinite
<1>. DEFINE Of(i) == u.transacts[i].nullifiers
<1>2. ASSUME NEW i \in DOMAIN u.transacts PROVE IsFiniteSet(Of(i))
  <2>. DEFINE K == 1..up.transacts[i].spends
              f == [k \in K |-> IdBase * (IdBase * n + i) + k]
  <2>1. Of(i) = {IdBase * (IdBase * n + i) + k : k \in 1..up.transacts[i].spends}
    <3>1. i \in 1..Len(up.transacts)
      BY <1>1
    <3>2. u.transacts[i].nullifiers = {IdBase * (IdBase * n + i) + k : k \in 1..up.transacts[i].spends}
      BY <3>1, IdsAre
    <3>. QED
      BY <3>2, Zenon
  <2>2. up.transacts[i].spends \in Int
    BY <1>1, UpdateIs
  <2>3. IsFiniteSet(K)
    BY <2>2, FS_Interval
  <2>4. IsFiniteSet({f[k] : k \in K})
    <3>. HIDE DEF f, K
    <3>. QED
      BY <2>3, ImageIsFinite
  <2>5. {f[k] : k \in K} = {IdBase * (IdBase * n + i) + k : k \in K}
    <3>1. \A k \in K : f[k] = IdBase * (IdBase * n + i) + k
      OBVIOUS
    <3>. HIDE DEF f
    <3>. QED
      BY <3>1, Zenon
  <2>. QED
    BY <2>1, <2>4, <2>5, Zenon
<1>. DEFINE g == [i \in DOMAIN u.transacts |-> Of(i)]
<1>3. IsFiniteSet({g[i] : i \in DOMAIN u.transacts})
  <2>. HIDE DEF g
  <2>. QED
    BY <1>1, ImageIsFinite
<1>4. {g[i] : i \in DOMAIN u.transacts} = {Of(i) : i \in DOMAIN u.transacts}
  OBVIOUS
<1>5. IsFiniteSet({Of(i) : i \in DOMAIN u.transacts})
  BY <1>3, <1>4, Zenon
<1>6. \A T \in {Of(i) : i \in DOMAIN u.transacts} : IsFiniteSet(T)
  BY <1>2
<1>. QED
  BY <1>5, <1>6, FS_UNION, Zenon

\* What the indexer calls an item, and its block.
LEMMA NullifierItem ==
    ASSUME ChainInv, NEW n \in 1..Len(mined), NEW x \in GraphItems("nullifiers", mined[n])
    PROVE  /\ x = [id |-> x.id, block |-> mined[n].block, txid |-> mined[n].txid, nullifier |-> x.id]
           /\ \E i \in 0..(IdBase - 1) : \E k \in 0..(IdBase - 1) : x.id = IdBase * (IdBase * n + i) + k
<1>. DEFINE u == mined[n]
<1>1. PICK up \in Update : Does(n, u, up)
  BY DEF ChainInv
<1>2. n \in Nat
  BY MinedIs
<1>. HIDE DEF u
<1>3. PICK id \in UNION {u.transacts[i].nullifiers : i \in DOMAIN u.transacts} :
         x = [id |-> id, block |-> u.block, txid |-> u.txid, nullifier |-> id]
  BY DEF GraphItems, u
<1>4. PICK i \in DOMAIN u.transacts : id \in u.transacts[i].nullifiers
  OBVIOUS
<1>5. i \in 1..Len(up.transacts)
  BY <1>1, <1>2, DoesShape
<1>6. u.transacts[i].nullifiers = {IdBase * (IdBase * n + i) + k : k \in 1..up.transacts[i].spends}
  BY <1>1, <1>2, <1>5, IdsAre
<1>7. PICK k \in 1..up.transacts[i].spends : id = IdBase * (IdBase * n + i) + k
  BY <1>4, <1>6, Zenon
<1>8. i \in 0..(IdBase - 1) /\ k \in 0..(IdBase - 1)
  <2>1. Len(up.transacts) \in 0..(IdBase - 1) /\ up.transacts[i].spends \in 0..(IdBase - 1) /\ IdBase \in Nat
    BY <1>5, UpdateIs, BaseIs
  <2>. QED
    BY ONLY <1>5, <2>1, k \in 1..up.transacts[i].spends
<1>9. x.id = id
  BY <1>3
<1>. QED
  BY <1>3, <1>7, <1>8, <1>9 DEF u

LEMMA UnshieldItemIs ==
    ASSUME ChainInv, NEW n \in 1..Len(mined), NEW x \in GraphItems("unshields", mined[n])
    PROVE  LET u == mined[n]
           IN  \E i \in 0..(IdBase - 1) :
                  /\ x.id = IdBase * n + i
                  /\ x = [id |-> u.transacts[i].id, block |-> u.block, txid |-> u.txid, logIndex |-> u.transacts[i].id,
                          token |-> u.transacts[i].unshield.token, fee |-> FeeOf(u.transacts[i].unshield.value),
                          amount |-> u.transacts[i].unshield.value - FeeOf(u.transacts[i].unshield.value)]
<1>. DEFINE u == mined[n]
<1>1. PICK up \in Update : Does(n, u, up)
  BY DEF ChainInv
<1>2. n \in Nat
  BY MinedIs
<1>. HIDE DEF u
<1>3. PICK i \in HasUnshield(u) :
         x = [id |-> u.transacts[i].id, block |-> u.block, txid |-> u.txid, logIndex |-> u.transacts[i].id,
              token |-> u.transacts[i].unshield.token, fee |-> FeeOf(u.transacts[i].unshield.value),
              amount |-> u.transacts[i].unshield.value - FeeOf(u.transacts[i].unshield.value)]
  BY DEF GraphItems, u
<1>4. i \in 1..Len(up.transacts)
  BY <1>1, <1>2, DoesShape DEF HasUnshield
<1>5. u.transacts[i].id = IdBase * n + i
  BY <1>1, <1>2, <1>4, IdsAre
<1>6. i \in 0..(IdBase - 1)
  <2>1. Len(up.transacts) \in 0..(IdBase - 1) /\ IdBase \in Nat
    BY UpdateIs, BaseIs
  <2>. QED
    BY ONLY <1>4, <2>1
<1>7. x.id = u.transacts[i].id
  BY <1>3
<1>8. x.id = IdBase * n + i
  BY <1>5, <1>7
<1>. QED
  BY <1>3, <1>6, <1>8 DEF u

LEMMA CommitmentItemIs ==
    ASSUME ChainInv, BoundInv, NEW n \in 1..Len(mined), NEW x \in GraphItems("commitments", mined[n])
    PROVE  LET u == mined[n]
           IN  \E leaf \in Leaves(u) :
                 /\ leaf[2] \in Nat /\ leaf[2] < (LastTree + 1) * TreeSize
                 /\ x.id = (LastTree + 1) * TreeSize - leaf[2]
                 /\ x = [id |-> (LastTree + 1) * TreeSize - leaf[2], block |-> u.block, txid |-> u.txid,
                         note |-> leaf[1], tree |-> leaf[2] \div TreeSize, position |-> leaf[2] % TreeSize,
                         batchStart |-> (IF leaf[1][2] = "shield" THEN u.shield ELSE u.transact) % TreeSize,
                         fee |-> IF leaf[1][2] = "shield" THEN FeeOf(u.shields[leaf[1][3]].value) ELSE NoFee]
<1>. DEFINE u == mined[n]
            Item(leaf) == [id |-> (LastTree + 1) * TreeSize - leaf[2], block |-> u.block, txid |-> u.txid,
                         note |-> leaf[1], tree |-> leaf[2] \div TreeSize, position |-> leaf[2] % TreeSize,
                         batchStart |-> (IF leaf[1][2] = "shield" THEN u.shield ELSE u.transact) % TreeSize,
                         fee |-> IF leaf[1][2] = "shield" THEN FeeOf(u.shields[leaf[1][3]].value) ELSE NoFee]
<1>1. PICK up \in Update : Does(n, u, up) /\ PlacedAs(version, u, up)
  BY DEF ChainInv
<1>2. n \in Nat /\ End(u) <= next /\ next \in Nat
  BY MinedIs DEF ChainInv
<1>. HIDE DEF u
<1>3. PICK leaf \in Leaves(u) : x = Item(leaf)
  BY DEF GraphItems, u
<1>6. u.transact \in Nat /\ u.shield \in Nat /\ u.transact <= u.shield /\ u.shield <= End(u) /\ End(u) \in Nat
  BY <1>1, <1>2, EndIs
<1>7. leaf[2] \in u.transact..(End(u) - 1)
  BY <1>1, <1>2, LeafPlace, Zenon
<1>8. leaf[2] \in Nat /\ leaf[2] < next
  BY ONLY <1>2, <1>6, <1>7
<1>9. leaf[2] < (LastTree + 1) * TreeSize
  <2>. DEFINE cap == (LastTree + 1) * TreeSize
  <2>1. cap \in Nat /\ next <= cap
    BY CapIs DEF BoundInv
  <2>. HIDE DEF cap
  <2>2. leaf[2] < cap
    BY <1>2, <1>8, <2>1
  <2>. QED
    BY <2>2 DEF cap
<1>10. Item(leaf).id = (LastTree + 1) * TreeSize - leaf[2]
  BY Zenon
<1>. QED
  BY <1>3, <1>8, <1>9, <1>10, Zenon DEF u

LEMMA NullifierItems ==
    ASSUME ChainInv
    PROVE  Ordered(Items("nullifiers")) /\ \A x \in Items("nullifiers") : x.id \in Nat /\ x.block \in 1..indexed
<1>. DEFINE Is(x, n) == /\ n \in 1..Len(mined) /\ mined[n].block \in 1..indexed
                        /\ x = [id |-> x.id, block |-> mined[n].block, txid |-> mined[n].txid, nullifier |-> x.id]
                        /\ x.block = mined[n].block
                        /\ \E i \in 0..(IdBase - 1) : \E k \in 0..(IdBase - 1) : x.id = IdBase * (IdBase * n + i) + k
<1>1. ASSUME NEW x \in Items("nullifiers") PROVE \E n \in 1..Len(mined) : Is(x, n)
  <2>1. PICK u \in Mined(1, indexed) : x \in GraphItems("nullifiers", u)
    BY DEF Items
  <2>2. PICK n \in 1..Len(mined) : u = mined[n] /\ u.block \in 1..indexed
    BY MinedFrom
  <2>3. /\ x = [id |-> x.id, block |-> mined[n].block, txid |-> mined[n].txid, nullifier |-> x.id]
        /\ \E i \in 0..(IdBase - 1) : \E k \in 0..(IdBase - 1) : x.id = IdBase * (IdBase * n + i) + k
    BY <2>1, <2>2, NullifierItem
  <2>4. x.block = mined[n].block
    BY <2>3
  <2>. QED
    BY <2>2, <2>3, <2>4
<1>2. \A n \in 1..Len(mined), i \in 0..(IdBase - 1), k \in 0..(IdBase - 1) :
         n \in Nat /\ IdBase * n + i \in Nat /\ IdBase * (IdBase * n + i) + k \in Nat
  <2>. TAKE n \in 1..Len(mined), i \in 0..(IdBase - 1), k \in 0..(IdBase - 1)
  <2>1. n \in Nat /\ i \in Nat /\ k \in Nat /\ IdBase \in Nat
    BY MinedIs, BaseIs
  <2>2. IdBase * n + i \in Nat
    BY ONLY <2>1
  <2>3. IdBase * (IdBase * n + i) + k \in Nat
    <3>. DEFINE a == IdBase * n + i
    <3>1. a \in Nat
      BY <2>2
    <3>. HIDE DEF a
    <3>2. IdBase * a + k \in Nat
      BY <2>1, <3>1
    <3>. QED
      BY <3>2 DEF a
  <2>. QED
    BY <2>1, <2>2, <2>3
<1>3. ASSUME NEW x, NEW n \in 1..Len(mined), Is(x, n)
      PROVE  x.id \in Nat /\ x.block \in 1..indexed
  BY <1>2, <1>3
<1>4. ASSUME NEW x, NEW y, NEW n \in 1..Len(mined), NEW m \in 1..Len(mined), Is(x, n), Is(y, m), x.id = y.id
      PROVE  x = y
  <2>1. PICK i \in 0..(IdBase - 1), k \in 0..(IdBase - 1) : x.id = IdBase * (IdBase * n + i) + k
    BY <1>4
  <2>2. PICK j \in 0..(IdBase - 1), l \in 0..(IdBase - 1) : y.id = IdBase * (IdBase * m + j) + l
    BY <1>4
  <2>3. IdBase * n + i = IdBase * m + j
    <3>1. IdBase * n + i \in Nat /\ IdBase * m + j \in Nat
      BY <1>2
    <3>2. IdBase * (IdBase * n + i) + k = IdBase * (IdBase * m + j) + l
      BY <1>4, <2>1, <2>2
    <3>. QED
      BY ONLY <3>1, <3>2, BaseIs, Digits
  <2>4. n = m
    <3>1. n \in Nat /\ m \in Nat
      BY MinedIs
    <3>. QED
      BY ONLY <2>3, <3>1, BaseIs, Digits
  <2>. QED
    BY <1>4, <2>4, Zenon
<1>. HIDE DEF Is
<1>. QED
  BY <1>1, <1>3, <1>4 DEF Ordered

LEMMA UnshieldItemsOrder ==
    ASSUME ChainInv
    PROVE  Ordered(Items("unshields")) /\ \A x \in Items("unshields") : x.id \in Nat /\ x.block \in 1..indexed
<1>. DEFINE Item(u, i) == [id |-> u.transacts[i].id, block |-> u.block, txid |-> u.txid, logIndex |-> u.transacts[i].id,
                           token |-> u.transacts[i].unshield.token, fee |-> FeeOf(u.transacts[i].unshield.value),
                           amount |-> u.transacts[i].unshield.value - FeeOf(u.transacts[i].unshield.value)]
            Is(x, n) == /\ n \in 1..Len(mined) /\ mined[n].block \in 1..indexed /\ x.block = mined[n].block
                        /\ \E i \in 0..(IdBase - 1) : x.id = IdBase * n + i /\ x = Item(mined[n], i)
<1>1. ASSUME NEW x \in Items("unshields") PROVE \E n \in 1..Len(mined) : Is(x, n)
  <2>1. PICK u \in Mined(1, indexed) : x \in GraphItems("unshields", u)
    BY DEF Items
  <2>2. PICK n \in 1..Len(mined) : u = mined[n] /\ u.block \in 1..indexed
    BY MinedFrom
  <2>3. PICK i \in 0..(IdBase - 1) : x.id = IdBase * n + i /\ x = Item(mined[n], i)
    BY <2>1, <2>2, UnshieldItemIs
  <2>4. x.block = mined[n].block
    BY <2>3
  <2>. HIDE DEF Item
  <2>. QED
    BY <2>2, <2>3, <2>4
<1>. HIDE DEF Item
<1>2. \A n \in 1..Len(mined), i \in 0..(IdBase - 1) : n \in Nat /\ IdBase * n + i \in Nat
  <2>. TAKE n \in 1..Len(mined), i \in 0..(IdBase - 1)
  <2>1. n \in Nat /\ i \in Nat /\ IdBase \in Nat
    BY MinedIs, BaseIs
  <2>2. IdBase * n + i \in Nat
    BY ONLY <2>1
  <2>. QED
    BY <2>1, <2>2
<1>3. ASSUME NEW x, NEW n \in 1..Len(mined), Is(x, n)
      PROVE  x.id \in Nat /\ x.block \in 1..indexed
  BY <1>2, <1>3
<1>4. ASSUME NEW x, NEW y, NEW n \in 1..Len(mined), NEW m \in 1..Len(mined), Is(x, n), Is(y, m), x.id = y.id
      PROVE  x = y
  <2>1. PICK i \in 0..(IdBase - 1) : x.id = IdBase * n + i /\ x = Item(mined[n], i)
    BY <1>4
  <2>2. PICK j \in 0..(IdBase - 1) : y.id = IdBase * m + j /\ y = Item(mined[m], j)
    BY <1>4
  <2>3. n = m /\ i = j
    <3>1. n \in Nat /\ m \in Nat
      BY MinedIs
    <3>2. IdBase * n + i = IdBase * m + j
      BY <1>4, <2>1, <2>2
    <3>. QED
      BY ONLY <3>1, <3>2, BaseIs, Digits
  <2>. QED
    BY <2>1, <2>2, <2>3, Zenon
<1>. HIDE DEF Is
<1>. QED
  BY <1>1, <1>3, <1>4 DEF Ordered

LEMMA CommitmentItemsOrder ==
    ASSUME ChainInv, BoundInv
    PROVE  Ordered(Items("commitments")) /\ \A x \in Items("commitments") : x.id \in Nat /\ x.block \in 1..indexed
<1>. DEFINE cap == (LastTree + 1) * TreeSize
            Item(u, leaf) == [id |-> (LastTree + 1) * TreeSize - leaf[2], block |-> u.block, txid |-> u.txid,
                         note |-> leaf[1], tree |-> leaf[2] \div TreeSize, position |-> leaf[2] % TreeSize,
                         batchStart |-> (IF leaf[1][2] = "shield" THEN u.shield ELSE u.transact) % TreeSize,
                         fee |-> IF leaf[1][2] = "shield" THEN FeeOf(u.shields[leaf[1][3]].value) ELSE NoFee]
            Is(x, n) == /\ n \in 1..Len(mined) /\ mined[n].block \in 1..indexed /\ x.block = mined[n].block
                        /\ \E leaf \in Leaves(mined[n]) :
                              leaf[2] \in Nat /\ leaf[2] < cap /\ x.id = cap - leaf[2] /\ x = Item(mined[n], leaf)
<1>1. ASSUME NEW x \in Items("commitments") PROVE \E n \in 1..Len(mined) : Is(x, n)
  <2>1. PICK u \in Mined(1, indexed) : x \in GraphItems("commitments", u)
    BY DEF Items
  <2>2. PICK n \in 1..Len(mined) : u = mined[n] /\ u.block \in 1..indexed
    BY MinedFrom
  <2>3. PICK leaf \in Leaves(mined[n]) :
           leaf[2] \in Nat /\ leaf[2] < cap /\ x.id = cap - leaf[2] /\ x = Item(mined[n], leaf)
    BY <2>1, <2>2, CommitmentItemIs, Zenon
  <2>4. x.block = mined[n].block
    <3>1. Item(mined[n], leaf).block = mined[n].block
      BY Zenon
    <3>. QED
      BY <2>3, <3>1, Zenon
  <2>. HIDE DEF Item, cap
  <2>. QED
    BY <2>2, <2>3, <2>4
<1>2. cap \in Nat
  BY CapIs
<1>. HIDE DEF Item, cap
<1>3. ASSUME NEW x, NEW n \in 1..Len(mined), Is(x, n)
      PROVE  x.id \in Nat /\ x.block \in 1..indexed
  BY <1>2, <1>3
<1>4. ASSUME NEW x, NEW y, NEW n \in 1..Len(mined), NEW m \in 1..Len(mined), Is(x, n), Is(y, m), x.id = y.id
      PROVE  x = y
  <2>1. PICK a \in Leaves(mined[n]) : a[2] \in Nat /\ a[2] < cap /\ x.id = cap - a[2] /\ x = Item(mined[n], a)
    BY <1>4
  <2>2. PICK b \in Leaves(mined[m]) : b[2] \in Nat /\ b[2] < cap /\ y.id = cap - b[2] /\ y = Item(mined[m], b)
    BY <1>4
  <2>3. a[2] = b[2]
    BY <1>2, <1>4, <2>1, <2>2
  <2>4. n = m /\ a = b
    BY <2>3, LeavesDiffer
  <2>. QED
    BY <2>1, <2>2, <2>4, Zenon
<1>. HIDE DEF Is
<1>. QED
  BY <1>1, <1>3, <1>4 DEF Ordered

LEMMA ItemsFinite ==
    ASSUME ChainInv, NEW field \in {"nullifiers", "unshields", "commitments"}
    PROVE  IsFiniteSet(Items(field))
<1>1. ASSUME NEW u \in Mined(1, indexed) PROVE IsFiniteSet(GraphItems(field, u))
  <2>1. PICK n \in 1..Len(mined) : u = mined[n]
    BY MinedFrom
  <2>2. PICK up \in Update : Does(n, u, up)
    BY <2>1 DEF ChainInv
  <2>3. n \in Nat
    BY MinedIs
  <2>4. CASE field = "nullifiers"
    <3>. DEFINE S == UNION {u.transacts[i].nullifiers : i \in DOMAIN u.transacts}
                f == [k \in S |-> [id |-> k, block |-> u.block, txid |-> u.txid, nullifier |-> k]]
    <3>1. IsFiniteSet(S)
      BY <2>2, <2>3, NullifiersFinite
    <3>2. IsFiniteSet({f[k] : k \in S})
      <4>. HIDE DEF f, S
      <4>. QED
        BY <3>1, ImageIsFinite
    <3>3. GraphItems(field, u) = {f[k] : k \in S}
      BY <2>4 DEF GraphItems
    <3>. QED
      BY <3>2, <3>3, Zenon
  <2>5. CASE field = "unshields"
    <3>. DEFINE S == HasUnshield(u)
                e(i) == [id |-> u.transacts[i].id, block |-> u.block, txid |-> u.txid, logIndex |-> u.transacts[i].id,
                         token |-> u.transacts[i].unshield.token, fee |-> FeeOf(u.transacts[i].unshield.value),
                         amount |-> u.transacts[i].unshield.value - FeeOf(u.transacts[i].unshield.value)]
                f == [i \in S |-> e(i)]
    <3>1. IsFiniteSet(S)
      BY <2>2, <2>3, LeavesFinite, FS_Subset DEF HasUnshield
    <3>2. IsFiniteSet({f[k] : k \in S})
      <4>. HIDE DEF f, S
      <4>. QED
        BY <3>1, ImageIsFinite
    <3>3. GraphItems(field, u) = {e(i) : i \in S}
      BY <2>5 DEF GraphItems
    <3>4. {e(i) : i \in S} = {f[i] : i \in S}
      <4>. HIDE DEF e, S
      <4>. QED
        OBVIOUS
    <3>. QED
      BY <3>2, <3>3, <3>4, Zenon
  <2>6. CASE field = "commitments"
    <3>. DEFINE S == Leaves(u)
                e(leaf) == [id |-> (LastTree + 1) * TreeSize - leaf[2], block |-> u.block, txid |-> u.txid,
                         note |-> leaf[1], tree |-> leaf[2] \div TreeSize, position |-> leaf[2] % TreeSize,
                         batchStart |-> (IF leaf[1][2] = "shield" THEN u.shield ELSE u.transact) % TreeSize,
                         fee |-> IF leaf[1][2] = "shield" THEN FeeOf(u.shields[leaf[1][3]].value) ELSE NoFee]
                f == [i \in S |-> e(i)]
    <3>1. IsFiniteSet(S)
      BY <2>2, <2>3, LeavesFinite
    <3>2. IsFiniteSet({f[k] : k \in S})
      <4>. HIDE DEF f, S
      <4>. QED
        BY <3>1, ImageIsFinite
    <3>3. GraphItems(field, u) = {e(i) : i \in S}
      BY <2>6 DEF GraphItems
    <3>4. {e(i) : i \in S} = {f[i] : i \in S}
      <4>. HIDE DEF e, S
      <4>. QED
        OBVIOUS
    <3>. QED
      BY <3>2, <3>3, <3>4, Zenon
  <2>. QED
    BY <2>4, <2>5, <2>6
<1>. DEFINE M == Mined(1, indexed)
            g == [u \in M |-> GraphItems(field, u)]
<1>2. IsFiniteSet(M)
  BY MinedIsFinite
<1>3. IsFiniteSet({g[u] : u \in M})
  <2>. HIDE DEF g, M
  <2>. QED
    BY <1>2, ImageIsFinite
<1>4. {g[u] : u \in M} = {GraphItems(field, u) : u \in M}
  <2>. HIDE DEF M
  <2>. QED
    OBVIOUS
<1>5. \A T \in {GraphItems(field, u) : u \in M} : IsFiniteSet(T)
  BY <1>1
<1>. QED
  BY <1>3, <1>4, <1>5, FS_UNION, Zenon DEF Items

\* What the pages of a query rest on.
LEMMA ItemsAre ==
    ASSUME ChainInv, BoundInv, NEW f \in 1..3
    PROVE  /\ IsFiniteSet(Items(Fields[f])) /\ Ordered(Items(Fields[f]))
           /\ \A x \in Items(Fields[f]) : x.id \in Nat /\ x.block \in 1..indexed
<1>1. /\ f = 1 => Fields[f] = "nullifiers"
      /\ f = 2 => Fields[f] = "unshields"
      /\ f = 3 => Fields[f] = "commitments"
  BY DEF Fields
<1>2. f = 1 \/ f = 2 \/ f = 3
  OBVIOUS
<1>3. CASE f = 1
  BY <1>1, <1>3, NullifierItems, ItemsFinite
<1>4. CASE f = 2
  BY <1>1, <1>4, UnshieldItemsOrder, ItemsFinite
<1>5. CASE f = 3
  BY <1>1, <1>5, CommitmentItemsOrder, ItemsFinite
<1>. QED
  BY <1>2, <1>3, <1>4, <1>5

-----------------------------------------------------------------------------
(* A query goes over the items page by page.                                *)

\* What is kept of a field leaves out nothing before its last item.
Complete(all, start, seen, kept) ==
    /\ kept \subseteq all
    /\ \A x \in {z \in all : z.block \in start..seen} \ kept :
          /\ \A y \in kept : Precedes(y, x)
          /\ Cardinality(kept) = MaxItems

\* What is fetched is all that is not behind the cursor.
Fetched(all, items, cursor, start, seen) ==
    /\ items \subseteq all /\ Cardinality(items) < MaxItems
    /\ cursor.block \in Int /\ cursor.id \in Int
    /\ \A y \in items : ~ Precedes(cursor, y)
    /\ \A x \in all : x.block \in start..seen /\ ~ Precedes(cursor, x) => x \in items

LEMMA LimitsAre == GraphLimit \in Nat \ {0} /\ MaxItems \in Nat \ {0}
BY SourcesAssumption

LEMMA NothingFetched ==
    ASSUME NEW all, NEW start \in Nat, NEW seen, \A x \in all : x.id \in Nat /\ x.block \in Nat
    PROVE  Fetched(all, {}, StartCursor(start), start, seen)
<1>1. StartCursor(start).block = start /\ StartCursor(start).id = -1
  BY DEF StartCursor
<1>2. Cardinality({}) = 0
  BY FS_EmptySet
<1>3. \A x \in all : x.block \in start..seen => Precedes(StartCursor(start), x)
  <2>. TAKE x \in all
  <2>1. x.id \in Nat /\ x.block \in Nat
    OBVIOUS
  <2>. HAVE x.block \in start..seen
  <2>2. start < x.block \/ start = x.block
    BY <2>1
  <2>3. -1 < x.id
    BY <2>1
  <2>. QED
    BY <1>1, <2>2, <2>3 DEF Precedes
<1>. QED
  BY <1>1, <1>2, <1>3, LimitsAre DEF Fetched

\* With one more page, what is left out is behind all that is fetched, and the
\* page is full.
LEMMA PageIs ==
    ASSUME NEW all, IsFiniteSet(all), Ordered(all), NEW items, NEW cursor, NEW start, NEW seen,
           Fetched(all, items, cursor, start, seen),
           NEW page, page = FirstItems(Rest(all, cursor), GraphLimit)
    PROVE  /\ items \cup page \subseteq all /\ IsFiniteSet(items \cup page) /\ Ordered(items \cup page)
           /\ page \subseteq all
           /\ \A x \in {z \in all : z.block \in start..seen} \ (items \cup page) :
                 /\ \A y \in items \cup page : Precedes(y, x)
                 /\ Cardinality(page) = GraphLimit
<1>. DEFINE rest == Rest(all, cursor)
<1>1. rest = {x \in all : Precedes(cursor, x)}
  BY DEF Rest
<1>2. IsFiniteSet(rest) /\ Ordered(rest)
  BY <1>1, FS_Subset DEF Ordered
<1>3. /\ page \subseteq rest
      /\ \A x \in rest \ page :
            /\ \A y \in page : Precedes(y, x)
            /\ Cardinality(page) = GraphLimit
  <2>1. GraphLimit \in Nat
    BY LimitsAre
  <2>. HIDE DEF rest
  <2>2. page = FirstItems(rest, GraphLimit)
    BY DEF rest
  <2>. QED
    BY <1>2, <2>1, <2>2, FirstItemsAre
<1>. HIDE DEF rest
<1>4. items \subseteq all
  BY DEF Fetched
<1>5. items \cup page \subseteq all /\ page \subseteq all
  BY <1>1, <1>3, <1>4
<1>6. IsFiniteSet(items \cup page) /\ Ordered(items \cup page)
  BY <1>5, FS_Subset DEF Ordered
<1>7. ASSUME NEW x \in {z \in all : z.block \in start..seen} \ (items \cup page)
      PROVE  /\ \A y \in items \cup page : Precedes(y, x)
             /\ Cardinality(page) = GraphLimit
  <2>1. x \in all /\ x.block \in start..seen /\ x \notin items /\ x \notin page
    BY <1>7
  <2>2. Precedes(cursor, x)
    BY <2>1 DEF Fetched
  <2>3. x \in rest \ page
    BY <1>1, <2>1, <2>2
  <2>4. ASSUME NEW y \in items PROVE Precedes(y, x)
    <3>1. ~ Precedes(cursor, y) /\ cursor.block \in Int /\ cursor.id \in Int
      BY DEF Fetched
    <3>2. y.block \in Int /\ y.id \in Int /\ x.block \in Int /\ x.id \in Int
      BY <1>4, <2>1 DEF Ordered
    <3>. QED
      BY ONLY <2>2, <3>1, <3>2 DEF Precedes
  <2>. QED
    BY <1>3, <2>3, <2>4
<1>. QED
  BY <1>5, <1>6, <1>7

\* The last page of a field.
LEMMA PageEnds ==
    ASSUME NEW all, IsFiniteSet(all), Ordered(all), NEW items, NEW cursor, NEW start, NEW seen,
           Fetched(all, items, cursor, start, seen),
           NEW page, page = FirstItems(Rest(all, cursor), GraphLimit),
           Cardinality(items \cup page) >= MaxItems \/ Cardinality(page) < GraphLimit
    PROVE  Complete(all, start, seen, FirstItems(items \cup page, MaxItems))
<1>. DEFINE S == items \cup page
            F == FirstItems(S, MaxItems)
<1>1. /\ S \subseteq all /\ IsFiniteSet(S) /\ Ordered(S)
      /\ \A x \in {z \in all : z.block \in start..seen} \ S :
            (\A y \in S : Precedes(y, x)) /\ Cardinality(page) = GraphLimit
  BY PageIs
<1>2. MaxItems \in Nat \ {0} /\ GraphLimit \in Nat \ {0}
  BY LimitsAre
<1>3. Cardinality(S) \in Nat /\ (Cardinality(S) >= MaxItems \/ Cardinality(page) < GraphLimit)
  BY <1>1, FS_CardinalityType
<1>. HIDE DEF S
<1>4. /\ F \subseteq S /\ Cardinality(F) <= MaxItems
      /\ \A x \in S \ F : (\A y \in F : Precedes(y, x)) /\ Cardinality(F) = MaxItems
  BY <1>1, <1>2, FirstItemsAre
<1>5. Cardinality(F) \in Nat
  BY <1>1, <1>4, FS_Subset, FS_CardinalityType
<1>. HIDE DEF F
<1>6. ASSUME NEW x \in {z \in all : z.block \in start..seen} \ F
      PROVE  (\A y \in F : Precedes(y, x)) /\ Cardinality(F) = MaxItems
  <2>1. CASE x \in S
    BY <1>4, <1>6, <2>1
  <2>2. CASE x \notin S
    <3>1. (\A y \in S : Precedes(y, x)) /\ Cardinality(page) = GraphLimit
      BY <1>1, <1>6, <2>2
    <3>2. Cardinality(S) >= MaxItems
      BY <1>2, <1>3, <3>1
    <3>3. Cardinality(F) = MaxItems
      <4>1. CASE F = S
        BY <1>2, <1>4, <1>5, <3>2, <4>1
      <4>2. CASE F # S
        BY <1>4, <4>2
      <4>. QED
        BY <4>1, <4>2
    <3>. QED
      BY <1>4, <3>1, <3>3
  <2>. QED
    BY <2>1, <2>2
<1>. QED
  BY <1>1, <1>4, <1>6 DEF Complete, F, S

\* A page with another one behind it.
LEMMA PageGoesOn ==
    ASSUME NEW all, IsFiniteSet(all), Ordered(all), NEW items, NEW cursor, NEW start, NEW seen,
           Fetched(all, items, cursor, start, seen),
           NEW page, page = FirstItems(Rest(all, cursor), GraphLimit),
           ~ (Cardinality(items \cup page) >= MaxItems \/ Cardinality(page) < GraphLimit),
           NEW last, last = CHOOSE x \in items \cup page : \A y \in items \cup page : ~ Precedes(x, y)
    PROVE  Fetched(all, items \cup page, [block |-> last.block, id |-> last.id], start, seen)
<1>. DEFINE S == items \cup page
            c == [block |-> last.block, id |-> last.id]
<1>1. /\ S \subseteq all /\ IsFiniteSet(S) /\ Ordered(S) /\ page \subseteq all
      /\ \A x \in {z \in all : z.block \in start..seen} \ S : \A y \in S : Precedes(y, x)
  BY PageIs
<1>2. MaxItems \in Nat \ {0} /\ GraphLimit \in Nat \ {0}
  BY LimitsAre
<1>3. Cardinality(S) \in Nat /\ IsFiniteSet(page) /\ Cardinality(page) \in Nat
  BY <1>1, FS_CardinalityType, FS_Subset
<1>4. S # {}
  <2>1. page # {}
    BY <1>2, <1>3, FS_EmptySet
  <2>. QED
    BY <2>1
<1>5. Cardinality(S) < MaxItems
  <2>1. ~ (Cardinality(S) >= MaxItems)
    OBVIOUS
  <2>. HIDE DEF S
  <2>. QED
    BY <1>2, <1>3, <2>1
<1>. HIDE DEF S
<1>6. last \in S /\ \A y \in S : ~ Precedes(last, y)
  <2>1. \E x \in S : \A y \in S : ~ Precedes(x, y)
    BY <1>1, <1>4, LastItem
  <2>2. last = CHOOSE x \in S : \A y \in S : ~ Precedes(x, y)
    BY DEF S
  <2>. QED
    BY <2>1, <2>2
<1>7. c.block = last.block /\ c.id = last.id /\ last.block \in Int /\ last.id \in Int
  BY <1>1, <1>6 DEF Ordered
<1>8. \A y : Precedes(c, y) <=> Precedes(last, y)
  BY <1>7 DEF Precedes
<1>. HIDE DEF c
<1>9. \A x \in all : x.block \in start..seen /\ ~ Precedes(c, x) => x \in S
  BY <1>1, <1>6, <1>8
<1>10. Fetched(all, S, c, start, seen)
  BY <1>1, <1>5, <1>6, <1>7, <1>8, <1>9 DEF Fetched
<1>. QED
  BY <1>10 DEF S, c

-----------------------------------------------------------------------------
(* The inductive invariant.                                                 *)

\* The query that is under way: the answers that are there, and the one that is not.
QueryInv ==
    /\ query = [field |-> query.field, start |-> query.start, cursor |-> query.cursor,
                items |-> query.items, seen |-> query.seen, answers |-> query.answers]
    /\ query.field \in 0..4
    /\ query.field = 0 => query = NoQuery
    /\ query.field # 0 =>
          /\ version = "V2"
          /\ query.start \in Nat /\ query.seen \in Nat /\ query.seen <= indexed
          /\ \E S : query.answers \in Seq(S)
          /\ Len(query.answers) = query.field - 1
          /\ \A f \in 1..3 : f < query.field =>
                Complete(Items(Fields[f]), query.start, query.seen, query.answers[f])
          /\ query.field # 4 =>
                Fetched(Items(Fields[query.field]), query.items, query.cursor, query.start, query.seen)

\* What is imported is of calls that were mined, and of a V3 contract it is all.
ImportedInv ==
    /\ Sound(imported)
    /\ version = "V3" =>
          \A u \in Mined(1, scanned) : \A leaf \in Leaves(u) : \E c \in imported.commitments : c.note = leaf[1]

\* A scan stops at a log that cannot be read.
BlockedInv == blocked => version = "V3" /\ \E n \in 1..Len(mined) : ~ Processed(V3Log(mined[n]))

IInv ==
    /\ ChainInv
    /\ BoundInv
    /\ CursorInv
    /\ QueryInv
    /\ ImportedInv
    /\ BlockedInv

\* A call goes into a block that is not yet served and not yet imported.
LEMMA MineKeepsBlocks ==
    ASSUME ChainInv, CursorInv, NEW up \in Update, NEW place, Mine(up, place)
    PROVE  Mined(1, indexed)' = Mined(1, indexed) /\ Mined(1, scanned)' = Mined(1, scanned) /\ BoundInv'
<1>. DEFINE L == Len(mined)
            u == mined'[L + 1]
<1>1. /\ Len(mined') = L + 1 /\ \A m \in 1..L : mined'[m] = mined[m]
      /\ Does(L + 1, u, up)
      /\ HeadBlock <= u.block
      /\ u.block = HeadBlock => indexed < HeadBlock /\ scanned < HeadBlock
      /\ \E S : mined' \in Seq(S)
  BY MineIs
<1>2. L \in Nat /\ HeadBlock \in Nat /\ DOMAIN mined = 1..L
  BY MinedIs
<1>3. DOMAIN mined' = 1..(L + 1)
  BY <1>1
<1>4. u.block \in Nat /\ indexed \in Nat /\ scanned \in Nat /\ indexed <= HeadBlock /\ scanned <= HeadBlock
  BY <1>1, <1>2 DEF Does, CursorInv
<1>5. indexed < u.block /\ scanned < u.block
  <2>. HIDE DEF u
  <2>. QED
    BY <1>1, <1>2, <1>4
<1>6. indexed' = indexed /\ scanned' = scanned
  BY DEF Mine
<1>7. ASSUME NEW b \in Nat, b < u.block
      PROVE  {mined'[n] : n \in {n \in DOMAIN mined' : mined'[n].block \in 1..b}}
             = {mined[n] : n \in {n \in DOMAIN mined : mined[n].block \in 1..b}}
  <2>. DEFINE D == {n \in DOMAIN mined' : mined'[n].block \in 1..b}
              E == {n \in DOMAIN mined : mined[n].block \in 1..b}
  <2>1. \A n \in 1..(L + 1) : n \in 1..L \/ n = L + 1
    BY <1>2
  <2>2. 1..L \subseteq 1..(L + 1)
    BY <1>2
  <2>3. ~ (u.block \in 1..b)
    <3>. HIDE DEF u
    <3>. QED
      BY <1>4, <1>7
  <2>4. D = E
    <3>. HIDE DEF L
    <3>1. \A n : n \in D => n \in E
      BY <1>1, <1>2, <1>3, <2>1, <2>3
    <3>2. \A n : n \in E => n \in D
      BY <1>1, <1>2, <1>3, <2>2
    <3>. HIDE DEF D, E
    <3>. QED
      BY <3>1, <3>2
  <2>5. \A n \in E : mined'[n] = mined[n]
    BY <1>1, <1>2
  <2>. HIDE DEF D, E
  <2>6. {mined'[n] : n \in D} = {mined[n] : n \in E}
    BY <2>4, <2>5
  <2>. QED
    BY <2>6 DEF D, E
<1>8. Mined(1, indexed)' = Mined(1, indexed)
  BY <1>4, <1>5, <1>6, <1>7 DEF Mined
<1>9. Mined(1, scanned)' = Mined(1, scanned)
  BY <1>4, <1>5, <1>6, <1>7 DEF Mined
<1>10. BoundInv'
  <2>. DEFINE p == IF version = "V2" THEN V2Positions(Counts(up), Len(up.shields))
                   ELSE V3Positions(Counts(up), Len(up.shields))
  <2>1. p.next <= (LastTree + 1) * TreeSize /\ next' = p.next
    BY DEF Mine
  <2>. HIDE DEF p
  <2>. QED
    BY <2>1 DEF BoundInv
<1>. QED
  BY <1>8, <1>9, <1>10

\* A step that leaves the query alone, and adds only items that are newer.
LEMMA QueryKept ==
    ASSUME QueryInv, UNCHANGED <<query, version>>, indexed \in Nat, indexed' \in Nat, indexed <= indexed',
           \A f \in 1..3 : /\ Items(Fields[f]) \subseteq Items(Fields[f])'
                           /\ \A x \in Items(Fields[f])' \ Items(Fields[f]) : x.block \in Nat /\ indexed < x.block
    PROVE  QueryInv'
<1>1. query' = query /\ version' = version
  OBVIOUS
<1>2. CASE query.field = 0
  <2>1. QueryInv' <=> (/\ query = [field |-> query.field, start |-> query.start, cursor |-> query.cursor,
                                   items |-> query.items, seen |-> query.seen, answers |-> query.answers]
                       /\ query.field \in 0..4 /\ query = NoQuery)
    BY <1>1, <1>2 DEF QueryInv, NoQuery, StartCursor
  <2>. QED
    BY <1>2, <2>1 DEF QueryInv
<1>3. CASE query.field # 0
  <2>1. /\ query.field \in 1..4 /\ query.start \in Nat /\ query.seen \in Nat /\ query.seen <= indexed
        /\ version = "V2" /\ Len(query.answers) = query.field - 1 /\ \E S : query.answers \in Seq(S)
        /\ query = [field |-> query.field, start |-> query.start, cursor |-> query.cursor,
                    items |-> query.items, seen |-> query.seen, answers |-> query.answers]
    BY <1>3 DEF QueryInv
  <2>2. ASSUME NEW f \in 1..3, NEW x \in Items(Fields[f])', x.block \in query.start..query.seen
        PROVE  x \in Items(Fields[f])
    <3>1. x \in Items(Fields[f])' \ Items(Fields[f]) => x.block \in Nat /\ indexed < x.block
      OBVIOUS
    <3>2. x.block <= query.seen /\ x.block \in Int
      BY <2>1, <2>2
    <3>3. ~ (x.block \in Nat /\ indexed < x.block)
      BY <2>1, <3>2
    <3>. QED
      BY <3>1, <3>3
  <2>3. ASSUME NEW f \in 1..3, f < query.field
        PROVE  Complete(Items(Fields[f])', query.start, query.seen, query.answers[f])
    <3>1. Complete(Items(Fields[f]), query.start, query.seen, query.answers[f])
      BY <1>3, <2>3 DEF QueryInv
    <3>2. Items(Fields[f]) \subseteq Items(Fields[f])'
      OBVIOUS
    <3>. QED
      BY <2>2, <3>1, <3>2 DEF Complete
  <2>4. ASSUME query.field # 4
        PROVE  Fetched(Items(Fields[query.field])', query.items, query.cursor, query.start, query.seen)
    <3>1. Fetched(Items(Fields[query.field]), query.items, query.cursor, query.start, query.seen)
      BY <1>3, <2>4 DEF QueryInv
    <3>2. query.field \in 1..3
      BY <2>1, <2>4
    <3>3. Items(Fields[query.field]) \subseteq Items(Fields[query.field])'
      BY <1>1, <3>2
    <3>4. \A x \in Items(Fields[query.field])' : x.block \in query.start..query.seen => x \in Items(Fields[query.field])
      BY <1>1, <2>2, <3>2
    <3>. QED
      BY <3>1, <3>3, <3>4 DEF Fetched
  <2>5. query.seen <= indexed'
    BY <2>1
  <2>. QED
    BY <1>1, <1>3, <2>1, <2>3, <2>4, <2>5 DEF QueryInv, Complete, Fetched
<1>. QED
  BY <1>2, <1>3

\* What was imported stays sound when calls are added.
LEMMA SoundKept ==
    ASSUME Sound(imported), UNCHANGED <<imported, version>>,
           \A n \in 1..Len(mined) : n \in 1..Len(mined') /\ mined'[n] = mined[n]
    PROVE  Sound(imported)'
<1>1. imported' = imported /\ version' = version
  OBVIOUS
<1>2. ASSUME NEW c \in imported.commitments PROVE \E n \in 1..Len(mined') : RowOf(version, mined'[n], c)
  BY DEF Sound
<1>3. ASSUME NEW x \in imported.unshields PROVE \E n \in 1..Len(mined') : UnshieldOf(version, mined'[n], x)
  BY DEF Sound
<1>4. ASSUME NEW t \in imported.transactions PROVE \E n \in 1..Len(mined') : TransactionOf(mined'[n], t)
  BY DEF Sound
<1>5. /\ \A c \in imported'.commitments : \E n \in 1..Len(mined') : RowOf(version', mined'[n], c)
      /\ \A x \in imported'.unshields : \E n \in 1..Len(mined') : UnshieldOf(version', mined'[n], x)
      /\ \A t \in imported'.transactions : \E n \in 1..Len(mined') : TransactionOf(mined'[n], t)
  BY <1>1, <1>2, <1>3, <1>4
<1>. QED
  BY <1>5 DEF Sound, RowOf, UnshieldOf, TransactionOf, Row, PositionIn

LEMMA InitIs ==
    ASSUME Init
    PROVE  IInv
<1>1. Len(mined) = 0 /\ mined = <<>> /\ DOMAIN mined = {} /\ mined \in Seq({})
  BY DEF Init
<1>2. 1..0 = {}
  OBVIOUS
<1>3. HeadBlock = 0
  BY <1>1 DEF HeadBlock
<1>4. ChainInv
  BY <1>1, <1>2 DEF Init, ChainInv
<1>5. BoundInv
  BY CapIs DEF Init, BoundInv
<1>6. CursorInv
  BY <1>3 DEF Init, CursorInv
<1>7. QueryInv
  BY DEF Init, QueryInv, NoQuery
<1>8. Sound(imported)
  BY NoEventsSound DEF Init
<1>9. Mined(1, scanned) = {}
  BY <1>1 DEF Mined
<1>10. ImportedInv /\ BlockedInv
  BY <1>8, <1>9 DEF ImportedInv, BlockedInv, Init
<1>. QED
  BY <1>4, <1>5, <1>6, <1>7, <1>10 DEF IInv

LEMMA MineStep ==
    ASSUME IInv, NEW up \in Update, NEW place, Mine(up, place)
    PROVE  IInv'
<1>1. ChainInv /\ CursorInv /\ QueryInv /\ ImportedInv /\ BlockedInv
  BY DEF IInv
<1>2. ChainInv' /\ CursorInv'
  BY <1>1, MineChain
<1>3. Mined(1, indexed)' = Mined(1, indexed) /\ Mined(1, scanned)' = Mined(1, scanned) /\ BoundInv'
  BY <1>1, MineKeepsBlocks
<1>4. Len(mined) \in Nat /\ Len(mined') = Len(mined) + 1 /\ \A m \in 1..Len(mined) : mined'[m] = mined[m]
  BY <1>1, MineIs
<1>5. \A m \in 1..Len(mined) : m \in 1..Len(mined')
  BY <1>4
<1>6. version' = version /\ query' = query /\ imported' = imported /\ blocked' = blocked /\ indexed' = indexed
  BY DEF Mine
<1>7. QueryInv'
  <2>1. \A f \in 1..3 : Items(Fields[f])' = Items(Fields[f])
    BY <1>3 DEF Items
  <2>2. indexed \in Nat
    BY <1>1, MinedIs DEF CursorInv
  <2>3. indexed' \in Nat /\ indexed <= indexed'
    BY <1>6, <2>2
  <2>. QED
    BY <1>1, <1>6, <2>1, <2>2, <2>3, QueryKept
<1>8. ImportedInv'
  <2>1. Sound(imported)'
    BY <1>1, <1>4, <1>5, <1>6, SoundKept DEF ImportedInv
  <2>2. version' = "V3" =>
           \A u \in Mined(1, scanned)' : \A leaf \in Leaves(u) : \E c \in imported'.commitments : c.note = leaf[1]
    BY <1>1, <1>3, <1>6 DEF ImportedInv
  <2>. QED
    BY <2>1, <2>2 DEF ImportedInv, Leaves, PositionIn, Notes
<1>9. BlockedInv'
  <2>1. blocked' => version' = "V3" /\ \E n \in 1..Len(mined') : ~ Processed(V3Log(mined'[n]))
    BY <1>1, <1>4, <1>5, <1>6 DEF BlockedInv
  <2>. QED
    BY <2>1 DEF BlockedInv
<1>. QED
  BY <1>2, <1>3, <1>7, <1>8, <1>9 DEF IInv

\* A step that leaves the chain, the imported events and the scan alone.
LEMMA OnlyQuery ==
    ASSUME IInv, UNCHANGED <<version, next, mined, scanned, imported, blocked>>, QueryInv', CursorInv'
    PROVE  IInv'
<1>1. ChainInv'
  BY DEF IInv, ChainInv, Does, PlacedAs, End
<1>2. BoundInv'
  BY DEF IInv, BoundInv
<1>3. ImportedInv'
  <2>1. ImportedInv
    BY DEF IInv
  <2>2. Sound(imported)'
    BY <2>1, SoundKept DEF ImportedInv
  <2>3. Mined(1, scanned)' = Mined(1, scanned)
    BY DEF Mined
  <2>4. version' = "V3" =>
           \A u \in Mined(1, scanned)' : \A leaf \in Leaves(u) : \E c \in imported'.commitments : c.note = leaf[1]
    BY <2>1, <2>3 DEF ImportedInv
  <2>. QED
    BY <2>2, <2>4 DEF ImportedInv, Leaves, PositionIn, Notes
<1>4. BlockedInv'
  BY DEF IInv, BlockedInv
<1>. QED
  BY <1>1, <1>2, <1>3, <1>4 DEF IInv

LEMMA IndexStep ==
    ASSUME IInv, Index
    PROVE  IInv'
<1>1. ChainInv /\ CursorInv /\ QueryInv
  BY DEF IInv
<1>2. indexed \in Nat /\ HeadBlock \in Nat /\ indexed < HeadBlock /\ indexed' = indexed + 1
  BY <1>1, MinedIs DEF CursorInv, Index
<1>3. UNCHANGED <<version, next, mined, scanned, query, imported, blocked>>
  BY DEF Index
<1>4. HeadBlock' = HeadBlock
  BY <1>3 DEF HeadBlock
<1>5. CursorInv'
  BY <1>1, <1>2, <1>3, <1>4 DEF CursorInv
<1>6. /\ Mined(1, indexed) \subseteq Mined(1, indexed)'
      /\ \A u \in Mined(1, indexed)' : u \notin Mined(1, indexed) => u.block = indexed + 1
  <2>1. Mined(1, indexed)' = {mined[n] : n \in {n \in DOMAIN mined : mined[n].block \in 1..(indexed + 1)}}
    BY <1>2, <1>3 DEF Mined
  <2>2. Mined(1, indexed) = {mined[n] : n \in {n \in DOMAIN mined : mined[n].block \in 1..indexed}}
    BY DEF Mined
  <2>3. \A b : b \in 1..(indexed + 1) <=> b \in 1..indexed \/ b = indexed + 1
    BY <1>2
  <2>4. 1..indexed \subseteq 1..(indexed + 1)
    BY <1>2
  <2>. QED
    BY <2>1, <2>2, <2>3, <2>4
<1>7. ASSUME NEW f \in 1..3
      PROVE  /\ Items(Fields[f]) \subseteq Items(Fields[f])'
             /\ \A x \in Items(Fields[f])' \ Items(Fields[f]) : x.block \in Nat /\ indexed < x.block
  <2>1. Items(Fields[f])' = UNION {GraphItems(Fields[f], u) : u \in Mined(1, indexed)'}
    BY DEF Items
  <2>2. Items(Fields[f]) = UNION {GraphItems(Fields[f], u) : u \in Mined(1, indexed)}
    BY DEF Items
  <2>3. Items(Fields[f]) \subseteq Items(Fields[f])'
    BY <1>6, <2>1, <2>2
  <2>4. ASSUME NEW x \in Items(Fields[f])', x \notin Items(Fields[f])
        PROVE  x.block \in Nat /\ indexed < x.block
    <3>1. PICK u \in Mined(1, indexed)' : x \in GraphItems(Fields[f], u)
      BY <2>1
    <3>2. u \notin Mined(1, indexed)
      BY <2>2, <2>4, <3>1
    <3>3. u.block = indexed + 1
      BY <1>6, <3>2
    <3>4. x.block = u.block
      BY <3>1 DEF Fields, GraphItems
    <3>. QED
      BY <1>2, <3>3, <3>4
  <2>. QED
    BY <2>3, <2>4
<1>8. QueryInv'
  <2>1. indexed' \in Nat /\ indexed <= indexed'
    BY <1>2
  <2>. QED
    BY <1>1, <1>2, <1>3, <1>7, <2>1, QueryKept
<1>. QED
  BY <1>3, <1>5, <1>8, OnlyQuery

LEMMA FailStep ==
    ASSUME IInv, QueryFails
    PROVE  IInv'
<1>1. QueryInv'
  BY DEF QueryFails, QueryInv, NoQuery
<1>2. CursorInv'
  BY DEF QueryFails, CursorInv, IInv, HeadBlock
<1>. QED
  BY <1>1, <1>2, OnlyQuery DEF QueryFails

LEMMA FetchStep ==
    ASSUME IInv, FetchV2Graph
    PROVE  IInv'
<1>1. CursorInv'
  BY DEF FetchV2Graph, CursorInv, IInv, HeadBlock
<1>2. ChainInv /\ BoundInv /\ CursorInv /\ version = "V2"
  BY DEF IInv, FetchV2Graph
<1>3. scanned \in Nat /\ indexed \in Nat /\ scanned + 1 \in Nat
  BY <1>2, MinedIs DEF CursorInv
<1>4. query' = [field |-> 1, start |-> scanned + 1, cursor |-> StartCursor(scanned + 1), items |-> {},
                seen |-> indexed, answers |-> <<>>]
  BY DEF FetchV2Graph, NoQuery
<1>5. /\ query'.field = 1 /\ query'.start = scanned + 1 /\ query'.cursor = StartCursor(scanned + 1)
      /\ query'.items = {} /\ query'.seen = indexed /\ query'.answers = <<>>
  BY <1>4
<1>6. UNCHANGED <<version, mined, indexed>>
  BY DEF FetchV2Graph
<1>7. Items(Fields[1])' = Items(Fields[1])
  BY <1>6 DEF Items, Mined
<1>8. \A x \in Items(Fields[1]) : x.id \in Nat /\ x.block \in Nat
  <2>1. \A x \in Items(Fields[1]) : x.id \in Nat /\ x.block \in 1..indexed
    BY <1>2, ItemsAre
  <2>. QED
    BY <1>3, <2>1
<1>9. Fetched(Items(Fields[1]), {}, StartCursor(scanned + 1), scanned + 1, indexed)
  BY <1>3, <1>8, NothingFetched
<1>10. QueryInv'
  <2>1. <<>> \in Seq({}) /\ Len(<<>>) = 0
    OBVIOUS
  <2>2. Items(Fields[query.field])' = Items(Fields[1])
    BY <1>5, <1>6 DEF Items, Mined
  <2>3. query'.field - 1 = 0 /\ 1 \in 0..4 /\ 1 # 0 /\ \A f \in 1..3 : ~ (f < 1)
    BY <1>5
  <2>. QED
    BY <1>2, <1>3, <1>4, <1>5, <1>6, <1>9, <2>1, <2>2, <2>3 DEF QueryInv, Fetched
<1>. QED
  BY <1>1, <1>10, OnlyQuery DEF FetchV2Graph

-----------------------------------------------------------------------------
(* A page arrives, or a range of logs is scanned.                           *)

LEMMA MaxIs ==
    ASSUME NEW b \in Nat, NEW S \in SUBSET (0..b), S # {}
    PROVE  Max(S) \in S /\ \A x \in S : x <= Max(S)
<1>. DEFINE D == {b - x : x \in S}
<1>1. D \in SUBSET Nat /\ D # {}
  OBVIOUS
<1>2. PICK d \in D : \A e \in D : d <= e
  BY <1>1, LeastNat, Zenon
<1>3. PICK m \in S : d = b - m
  OBVIOUS
<1>4. \A x \in S : m >= x
  <2>. TAKE x \in S
  <2>1. b - x \in D
    OBVIOUS
  <2>2. b - m <= b - x
    BY <1>2, <1>3, <2>1
  <2>3. m \in Int /\ x \in Int
    OBVIOUS
  <2>. HIDE DEF D
  <2>. QED
    BY ONLY <2>2, <2>3, b \in Nat
<1>5. Max(S) = CHOOSE x \in S : \A y \in S : x >= y
  BY DEF Max
<1>. HIDE DEF D
<1>6. Max(S) \in S /\ \A x \in S : Max(S) >= x
  BY <1>4, <1>5
<1>7. \A x \in S : x \in Int
  OBVIOUS
<1>. QED
  BY <1>6, <1>7

\* An answer has blocks of the chain.
LEMMA LastBlockIs ==
    ASSUME NEW answers, NEW b \in Nat,
           \A i \in DOMAIN answers : \A x \in answers[i] : x.block \in 1..b
    PROVE  LastBlock(answers) \in 0..b
<1>. DEFINE S == {x.block : x \in UNION {answers[i] : i \in DOMAIN answers}} \cup {0}
<1>1. S \in SUBSET (0..b)
  <2>1. \A x \in UNION {answers[i] : i \in DOMAIN answers} : x.block \in 0..b
    <3>. TAKE x \in UNION {answers[i] : i \in DOMAIN answers}
    <3>1. PICK i \in DOMAIN answers : x \in answers[i]
      OBVIOUS
    <3>. QED
      BY <3>1
  <2>. QED
    BY <2>1
<1>2. S # {}
  OBVIOUS
<1>3. LastBlock(answers) = Max(S)
  BY DEF LastBlock
<1>. HIDE DEF S
<1>. QED
  BY <1>1, <1>2, <1>3, MaxIs

\* The answers so far, and one more.
LEMMA AnswersAre ==
    ASSUME NEW S, NEW answers \in Seq(S), NEW f \in 1..3, Len(answers) = f - 1, NEW kept
    PROVE  /\ Append(answers, kept) \in Seq(S \cup {kept}) /\ Len(Append(answers, kept)) = f
           /\ DOMAIN Append(answers, kept) = 1..f
           /\ Append(answers, kept)[f] = kept
           /\ \A i \in 1..3 : i < f => Append(answers, kept)[i] = answers[i]
<1>1. /\ Append(answers, kept) \in Seq(S \cup {kept})
      /\ Len(Append(answers, kept)) = Len(answers) + 1
      /\ \A n \in 1..Len(answers) : Append(answers, kept)[n] = answers[n]
      /\ Append(answers, kept)[Len(answers) + 1] = kept
  BY AppendIs
<1>2. Len(answers) + 1 = f /\ \A i \in 1..3 : i < f => i \in 1..Len(answers)
  OBVIOUS
<1>3. DOMAIN Append(answers, kept) = 1..f
  BY <1>1, <1>2
<1>. QED
  BY <1>1, <1>2, <1>3

\* The events are imported, and the calls are the same.
LEMMA SoundNow ==
    ASSUME NEW e, Sound(e), imported' = e, UNCHANGED <<mined, version>>
    PROVE  Sound(imported)'
<1>1. mined' = mined /\ version' = version
  OBVIOUS
<1>2. /\ \A c \in e.commitments : \E n \in 1..Len(mined) : RowOf(version, mined[n], c)
      /\ \A x \in e.unshields : \E n \in 1..Len(mined) : UnshieldOf(version, mined[n], x)
      /\ \A t \in e.transactions : \E n \in 1..Len(mined) : TransactionOf(mined[n], t)
  BY DEF Sound
<1>3. /\ \A c \in imported'.commitments : \E n \in 1..Len(mined') : RowOf(version', mined'[n], c)
      /\ \A x \in imported'.unshields : \E n \in 1..Len(mined') : UnshieldOf(version', mined'[n], x)
      /\ \A t \in imported'.transactions : \E n \in 1..Len(mined') : TransactionOf(mined'[n], t)
  BY <1>1, <1>2
<1>. QED
  BY <1>3 DEF Sound, RowOf, UnshieldOf, TransactionOf, Row, PositionIn

LEMMA PageStep ==
    ASSUME IInv, fetchGraphPage
    PROVE  IInv'
<1>. DEFINE f == query.field
            all == Items(Fields[f])
            page == FirstItems(Rest(all, query.cursor), GraphLimit)
            items == query.items \cup page
            kept == FirstItems(items, MaxItems)
            answers == Append(query.answers, kept)
            last == CHOOSE x \in items : \A y \in items : ~ Precedes(x, y)
            ends == Cardinality(items) >= MaxItems \/ Cardinality(page) < GraphLimit
<1>1. /\ f \in DOMAIN Fields
      /\ query' = IF ~ends THEN [query EXCEPT !.items = items, !.cursor = [block |-> last.block, id |-> last.id]]
                  ELSE [query EXCEPT !.field = @ + 1, !.items = {}, !.cursor = StartCursor(query.start),
                                     !.answers = answers]
      /\ UNCHANGED <<version, next, mined, indexed, scanned, imported, blocked>>
  BY DEF fetchGraphPage
<1>2. f \in 1..3 /\ f # 0 /\ f # 4
  BY <1>1 DEF Fields
<1>3. ChainInv /\ BoundInv /\ CursorInv /\ QueryInv
  BY DEF IInv
<1>4. /\ f \in 1..3 /\ query.start \in Nat /\ query.seen \in Nat /\ query.seen <= indexed /\ version = "V2"
      /\ Len(query.answers) = f - 1 /\ \E S : query.answers \in Seq(S)
      /\ query = [field |-> query.field, start |-> query.start, cursor |-> query.cursor,
                  items |-> query.items, seen |-> query.seen, answers |-> query.answers]
      /\ \A i \in 1..3 : i < f => Complete(Items(Fields[i]), query.start, query.seen, query.answers[i])
      /\ Fetched(all, query.items, query.cursor, query.start, query.seen)
  BY <1>2, <1>3 DEF QueryInv
<1>5. IsFiniteSet(all) /\ Ordered(all)
  BY <1>3, <1>4, ItemsAre
<1>6. \A i \in 1..3 : Items(Fields[i])' = Items(Fields[i])
  BY <1>1 DEF Items, Mined
<1>7. HeadBlock' = HeadBlock /\ HeadBlock \in Nat /\ indexed \in 0..HeadBlock /\ scanned \in 0..HeadBlock
  BY <1>1, <1>3, MinedIs DEF HeadBlock, CursorInv
<1>8. ends => Complete(all, query.start, query.seen, kept)
  BY <1>4, <1>5, PageEnds
<1>9. CursorInv'
  BY <1>1, <1>7 DEF CursorInv
<1>. HIDE DEF all
<1>10. CASE ~ ends
  <2>1. Fetched(all, items, [block |-> last.block, id |-> last.id], query.start, query.seen)
    BY <1>4, <1>5, <1>10, PageGoesOn
  <2>. DEFINE c == [block |-> last.block, id |-> last.id]
  <2>2. query' = [query EXCEPT !.items = items, !.cursor = c]
    BY <1>1, <1>10
  <2>. HIDE DEF items, c, f
  <2>4. query' = [field |-> f, start |-> query.start, cursor |-> c,
                  items |-> items, seen |-> query.seen, answers |-> query.answers]
    BY <1>4, <2>2 DEF f
  <2>5. query'.field = f /\ query'.start = query.start /\ query'.cursor = c /\ query'.items = items
        /\ query'.seen = query.seen /\ query'.answers = query.answers
    BY <2>4
  <2>6. /\ \A i \in 1..3 : i < f => Complete(Items(Fields[i])', query.start, query.seen, query.answers[i])
        /\ Items(Fields[query.field])' = all
        /\ Fetched(all, items, c, query.start, query.seen)
    <3>1. Items(Fields[query.field])' = Items(Fields[f])
      BY <1>1, <2>5 DEF Items, Mined
    <3>. QED
      BY <1>4, <1>6, <2>1, <3>1 DEF all, c
  <2>7. QueryInv'
    <3>1. f \in 0..4 /\ f # 0
      BY <1>4
    <3>2. /\ query.start \in Nat /\ query.seen \in Nat /\ query.seen <= indexed /\ version = "V2"
          /\ Len(query.answers) = f - 1 /\ \E S : query.answers \in Seq(S)
      BY <1>4
    <3>. QED
      BY <1>1, <2>4, <2>5, <2>6, <3>1, <3>2 DEF QueryInv, Complete, Fetched
  <2>. QED
    BY <1>1, <1>9, <2>7, OnlyQuery
<1>11. CASE ends
  <2>1. query' = [query EXCEPT !.field = @ + 1, !.items = {}, !.cursor = StartCursor(query.start), !.answers = answers]
    BY <1>1, <1>11
  <2>3. /\ \E S : answers \in Seq(S)
        /\ Len(answers) = f /\ answers[f] = kept
        /\ \A i \in 1..3 : i < f => answers[i] = query.answers[i]
    <3>1. PICK S : query.answers \in Seq(S)
      BY <1>4
    <3>2. /\ answers \in Seq(S \cup {kept}) /\ Len(answers) = f /\ answers[f] = kept
          /\ \A i \in 1..3 : i < f => answers[i] = query.answers[i]
      <4>. HIDE DEF kept, f
      <4>. QED
        BY <1>4, <3>1, AnswersAre
    <3>. HIDE DEF answers, kept, f
    <3>. QED
      BY <3>2
  <2>. HIDE DEF answers, kept, f
  <2>4. query' = [field |-> f + 1, start |-> query.start, cursor |-> StartCursor(query.start),
                  items |-> {}, seen |-> query.seen, answers |-> answers]
    BY <1>4, <2>1 DEF f
  <2>5. query'.field = f + 1 /\ query'.start = query.start /\ query'.cursor = StartCursor(query.start)
        /\ query'.items = {} /\ query'.seen = query.seen /\ query'.answers = answers
    BY <2>4
  <2>6. f + 1 \in 0..4 /\ f + 1 # 0 /\ (f + 1) - 1 = f /\ (f + 1 # 4 => f + 1 \in 1..3)
        /\ \A i \in 1..3 : i < f + 1 => i < f \/ i = f
    BY <1>4
  <2>7. \A i \in 1..3 : i < f + 1 => Complete(Items(Fields[i])', query.start, query.seen, answers[i])
    BY <1>4, <1>6, <1>8, <1>11, <2>3, <2>6 DEF all
  <2>8. Items(Fields[query.field])' = Items(Fields[f + 1])
    BY <1>1, <2>5 DEF Items, Mined
  <2>9. ASSUME f + 1 # 4
        PROVE  Fetched(Items(Fields[f + 1]), {}, StartCursor(query.start), query.start, query.seen)
    <3>1. \A x \in Items(Fields[f + 1]) : x.id \in Nat /\ x.block \in Nat
      <4>1. \A x \in Items(Fields[f + 1]) : x.id \in Nat /\ x.block \in 1..indexed
        BY <1>3, <2>6, <2>9, ItemsAre
      <4>. QED
        BY <1>7, <4>1
    <3>. QED
      BY <1>4, <3>1, NothingFetched
  <2>10. QueryInv'
    <3>1. query'.field # 4 => Fetched(Items(Fields[query.field]), query.items, query.cursor, query.start, query.seen)'
      BY <2>5, <2>8, <2>9 DEF Fetched
    <3>2. \A i \in 1..3 : i < query'.field =>
             Complete(Items(Fields[i])', query'.start, query'.seen, query'.answers[i])
      BY <2>5, <2>7
    <3>3. (\A i \in 1..3 : i < query.field => Complete(Items(Fields[i]), query.start, query.seen, query.answers[i]))'
      BY <3>2
    <3>4. query' = [field |-> query'.field, start |-> query'.start, cursor |-> query'.cursor,
                    items |-> query'.items, seen |-> query'.seen, answers |-> query'.answers]
      BY <2>4, <2>5
    <3>5. /\ query'.field \in 0..4 /\ query'.field # 0
          /\ version' = "V2" /\ query'.start \in Nat /\ query'.seen \in Nat /\ query'.seen <= indexed'
          /\ \E S : query'.answers \in Seq(S)
          /\ Len(query'.answers) = query'.field - 1
      BY <1>1, <1>4, <2>3, <2>5, <2>6
    <3>. QED
      BY ONLY <3>1, <3>3, <3>4, <3>5 DEF QueryInv
  <2>. QED
    BY <1>1, <1>9, <2>10, OnlyQuery
<1>. QED
  BY <1>10, <1>11

LEMMA ReturnStep ==
    ASSUME IInv, FetchReturns
    PROVE  IInv'
<1>. DEFINE answers == query.answers
<1>1. /\ query.field = Len(Fields) + 1
      /\ imported' = Together({imported, formatV2GraphEvents(answers)})
      /\ scanned' = Max({scanned, LastBlock(answers)})
      /\ query' = NoQuery
      /\ UNCHANGED <<version, next, mined, indexed, blocked>>
  BY DEF FetchReturns
<1>2. query.field = 4
  BY <1>1 DEF Fields
<1>3. ChainInv /\ BoundInv /\ CursorInv /\ QueryInv /\ ImportedInv /\ BlockedInv
  BY DEF IInv
<1>4. /\ version = "V2" /\ Len(answers) = 3 /\ \E S : answers \in Seq(S)
      /\ \A i \in 1..3 : Complete(Items(Fields[i]), query.start, query.seen, answers[i])
  BY <1>2, <1>3 DEF QueryInv
<1>5. HeadBlock' = HeadBlock /\ HeadBlock \in Nat /\ indexed \in 0..HeadBlock /\ scanned \in 0..HeadBlock
  BY <1>1, <1>3, MinedIs DEF HeadBlock, CursorInv
<1>6. DOMAIN answers = 1..3
  BY <1>4
<1>7. \A i \in 1..3 : answers[i] \subseteq Items(Fields[i])
  BY <1>4 DEF Complete
<1>. HIDE DEF answers
<1>8. Fields[2] = "unshields" /\ Fields[3] = "commitments" /\ 2 \in 1..3 /\ 3 \in 1..3
  BY DEF Fields
<1>9. Sound(formatV2GraphEvents(answers))
  BY <1>3, <1>4, <1>7, <1>8, GraphSound
<1>10. Sound(Together({imported, formatV2GraphEvents(answers)}))
  <2>1. \A e \in {imported, formatV2GraphEvents(answers)} : Sound(e)
    BY <1>3, <1>9 DEF ImportedInv
  <2>. QED
    BY <2>1, TogetherSound
<1>11. \A i \in 1..3 : \A x \in answers[i] : x.block \in 1..indexed
  BY <1>3, <1>7, ItemsAre
<1>12. LastBlock(answers) \in 0..HeadBlock
  <2>1. \A i \in DOMAIN answers : \A x \in answers[i] : x.block \in 1..HeadBlock
    BY <1>5, <1>6, <1>11
  <2>. QED
    BY <1>5, <2>1, LastBlockIs
<1>13. scanned' \in 0..HeadBlock
  <2>1. {scanned, LastBlock(answers)} \in SUBSET (0..HeadBlock) /\ {scanned, LastBlock(answers)} # {}
    BY <1>5, <1>12
  <2>2. Max({scanned, LastBlock(answers)}) \in {scanned, LastBlock(answers)}
    BY <1>5, <2>1, MaxIs
  <2>. QED
    BY <1>1, <1>5, <1>12, <2>2
<1>14. ChainInv' /\ BoundInv' /\ BlockedInv'
  BY <1>1, <1>3 DEF ChainInv, Does, PlacedAs, End, BoundInv, BlockedInv
<1>15. CursorInv'
  BY <1>1, <1>5, <1>13 DEF CursorInv
<1>16. QueryInv'
  BY <1>1 DEF QueryInv, NoQuery
<1>17. ImportedInv'
  <2>1. Sound(imported)'
    BY <1>1, <1>10, SoundNow
  <2>2. version' # "V3"
    BY <1>1, <1>4
  <2>. QED
    BY <2>1, <2>2 DEF ImportedInv
<1>. QED
  BY <1>14, <1>15, <1>16, <1>17 DEF IInv

\* A V3 log that is read gives all the leaves of its call.
LEMMA V3LogComplete ==
    ASSUME ChainInv, NEW n \in 1..Len(mined), NEW leaf \in Leaves(mined[n])
    PROVE  \E c \in ProcessV3AccumulatorStateUpdate(V3Log(mined[n])).commitments : c.note = leaf[1]
<1>. DEFINE u == mined[n]
            log == V3Log(u)
            E == ProcessV3AccumulatorStateUpdate(log)
<1>1. PICK up \in Update : Does(n, u, up) /\ PlacedAs(version, u, up)
  BY DEF ChainInv
<1>2. n \in Nat
  BY MinedIs
<1>3. /\ DOMAIN u.transacts = 1..Len(up.transacts) /\ DOMAIN u.shields = 1..Len(up.shields)
      /\ \A i \in 1..Len(up.transacts) : DOMAIN u.transacts[i].notes = 1..up.transacts[i].count
  BY <1>1, <1>2, DoesShape, NoteCount
<1>4. \/ \E i \in 1..Len(up.transacts) : \E j \in 1..up.transacts[i].count : leaf[1] = u.transacts[i].notes[j]
      \/ \E i \in 1..Len(up.shields) : leaf[1] = u.shields[i].note
  BY <1>1, <1>2, LeafIs
<1>. HIDE DEF u
<1>5. log.transacts = u.transacts /\ log.shields = u.shields
  BY DEF V3Log
<1>. HIDE DEF log
<1>6. /\ \A i \in DOMAIN log.transacts : TransactCommitments(log, i) \subseteq E.commitments
      /\ \A i \in DOMAIN log.shields : ShieldCommitment(log, i) \in E.commitments
  BY ProcessIs
<1>. HIDE DEF E
<1>7. ASSUME NEW i \in 1..Len(up.transacts), NEW j \in 1..up.transacts[i].count, leaf[1] = u.transacts[i].notes[j]
      PROVE  \E c \in E.commitments : c.note = leaf[1]
  <2>. DEFINE c == [tree |-> Places(log)[i].tree, index |-> Places(log)[i].index + j - 1,
                    note |-> log.transacts[i].notes[j], fee |-> NoFee,
                    batchIndex |-> BatchIndex(i - 1, j - 1), txid |-> log.txid, block |-> log.block]
  <2>1. i \in DOMAIN log.transacts /\ j \in DOMAIN log.transacts[i].notes
    BY <1>3, <1>5
  <2>2. c \in TransactCommitments(log, i)
    BY <2>1 DEF TransactCommitments
  <2>3. c.note = log.transacts[i].notes[j]
    BY Zenon
  <2>. HIDE DEF c
  <2>. QED
    BY <1>5, <1>6, <1>7, <2>1, <2>2, <2>3
<1>8. ASSUME NEW i \in 1..Len(up.shields), leaf[1] = u.shields[i].note
      PROVE  \E c \in E.commitments : c.note = leaf[1]
  <2>1. i \in DOMAIN log.shields
    BY <1>3, <1>5
  <2>2. ShieldCommitment(log, i).note = log.shields[i].note
    BY DEF ShieldCommitment
  <2>. QED
    BY <1>5, <1>6, <1>8, <2>1, <2>2
<1>9. \E c \in E.commitments : c.note = leaf[1]
  BY <1>4, <1>7, <1>8
<1>. QED
  BY <1>9 DEF E, log, u

\* What a scan finds of a V3 contract is all of its range.
LEMMA V3Complete ==
    ASSUME ChainInv, NEW from, NEW to, NEW e \in AccumulateV3Logs(from, to),
           NEW u \in Mined(from, to), NEW leaf \in Leaves(u)
    PROVE  \E c \in e.commitments : c.note = leaf[1]
<1>1. e = Together({ProcessV3AccumulatorStateUpdate(V3Log(w)) : w \in Mined(from, to)})
  BY DEF AccumulateV3Logs
<1>2. PICK n \in 1..Len(mined) : u = mined[n]
  BY MinedFrom
<1>3. PICK c \in ProcessV3AccumulatorStateUpdate(V3Log(u)).commitments : c.note = leaf[1]
  BY <1>2, V3LogComplete
<1>. DEFINE all == {ProcessV3AccumulatorStateUpdate(V3Log(w)) : w \in Mined(from, to)}
<1>4. ProcessV3AccumulatorStateUpdate(V3Log(u)) \in all
  OBVIOUS
<1>. HIDE DEF all
<1>5. e.commitments = UNION {x.commitments : x \in all}
  BY <1>1 DEF Together, all
<1>. QED
  BY <1>3, <1>4, <1>5

LEMMA ScanStep ==
    ASSUME IInv, NEW from \in 1..MaxUpdates, NEW to \in 1..MaxUpdates, ScanLogs(from, to)
    PROVE  IInv'
<1>. DEFINE found == IF version = "V2" THEN {AccumulateV2Logs(from, to)} ELSE AccumulateV3Logs(from, to)
<1>1. /\ from <= scanned + 1 /\ from <= to /\ to <= HeadBlock
      /\ imported' = Together({imported} \cup found)
      /\ scanned' = IF found = {} THEN scanned ELSE Max({scanned, to})
      /\ blocked' = (blocked \/ found = {})
      /\ UNCHANGED <<version, next, mined, indexed, query>>
  BY DEF ScanLogs
<1>2. ChainInv /\ BoundInv /\ CursorInv /\ QueryInv /\ ImportedInv /\ BlockedInv
  BY DEF IInv
<1>3. from \in Nat /\ to \in Nat
  BY SourcesAssumption
<1>4. HeadBlock' = HeadBlock /\ HeadBlock \in Nat /\ indexed \in 0..HeadBlock /\ scanned \in 0..HeadBlock
  BY <1>1, <1>2, MinedIs DEF HeadBlock, CursorInv
<1>5. version \in {"V2", "V3"}
  BY <1>2 DEF ChainInv
<1>6. \A e \in found : Sound(e)
  BY <1>2, <1>5, V2Sound, V3Sound
<1>7. version = "V2" => found # {}
  OBVIOUS
<1>8. version = "V3" => found = AccumulateV3Logs(from, to)
  OBVIOUS
<1>. HIDE DEF found
<1>9. found # {} => /\ scanned' = Max({scanned, to}) /\ scanned' \in 0..HeadBlock
                    /\ scanned' = scanned \/ scanned' = to
  <2>1. {scanned, to} \in SUBSET (0..HeadBlock) /\ {scanned, to} # {}
    BY <1>1, <1>3, <1>4
  <2>2. Max({scanned, to}) \in {scanned, to}
    BY <1>4, <2>1, MaxIs
  <2>. QED
    BY <1>1, <2>1, <2>2
<1>10. CursorInv'
  BY <1>1, <1>4, <1>9 DEF CursorInv
<1>11. ChainInv' /\ BoundInv'
  BY <1>1, <1>2 DEF ChainInv, Does, PlacedAs, End, BoundInv
<1>12. QueryInv'
  <2>1. \A f \in 1..3 : Items(Fields[f])' = Items(Fields[f])
    BY <1>1 DEF Items, Mined
  <2>2. indexed \in Nat /\ indexed' \in Nat /\ indexed <= indexed'
    BY <1>1, <1>4
  <2>. QED
    BY <1>1, <1>2, <2>1, <2>2, QueryKept
<1>13. Sound(imported)'
  <2>1. \A e \in {imported} \cup found : Sound(e)
    BY <1>2, <1>6 DEF ImportedInv
  <2>2. Sound(Together({imported} \cup found))
    BY <2>1, TogetherSound
  <2>. QED
    BY <1>1, <2>2, SoundNow
<1>14. ASSUME version = "V3", NEW u \in Mined(1, scanned'), NEW leaf \in Leaves(u)
       PROVE  \E c \in imported'.commitments : c.note = leaf[1]
  <2>1. imported'.commitments = UNION {e.commitments : e \in {imported} \cup found}
    BY <1>1 DEF Together
  <2>2. \A e \in {imported} \cup found : e.commitments \subseteq imported'.commitments
    BY <2>1
  <2>3. CASE u \in Mined(1, scanned)
    <3>1. \E c \in imported.commitments : c.note = leaf[1]
      BY <1>2, <1>14, <2>3 DEF ImportedInv
    <3>. QED
      BY <2>2, <3>1
  <2>4. CASE u \notin Mined(1, scanned)
    <3>1. PICK n \in DOMAIN mined : u = mined[n] /\ u.block \in 1..scanned'
      BY DEF Mined
    <3>2. ~ (u.block \in 1..scanned)
      BY <2>4, <3>1 DEF Mined
    <3>3. scanned' # scanned
      BY <3>1, <3>2
    <3>4. found # {}
      BY <1>1, <3>3
    <3>5. scanned' = to
      BY <1>9, <3>3, <3>4
    <3>6. u.block \in from..to
      <4>1. u.block \in 1..to
        BY <3>1, <3>5
      <4>. QED
        BY ONLY <1>1, <1>3, <1>4, <3>2, <4>1
    <3>7. u \in Mined(from, to)
      BY <3>1, <3>6 DEF Mined
    <3>8. PICK e \in found : TRUE
      BY <3>4
    <3>9. \E c \in e.commitments : c.note = leaf[1]
      BY <1>2, <1>8, <1>14, <3>7, <3>8, V3Complete
    <3>. QED
      BY <2>2, <3>9
  <2>. QED
    BY <2>3, <2>4
<1>15. ImportedInv'
  <2>1. Mined(1, scanned)' = Mined(1, scanned')
    BY <1>1 DEF Mined
  <2>2. version' = "V3" =>
           \A u \in Mined(1, scanned)' : \A leaf \in Leaves(u) : \E c \in imported'.commitments : c.note = leaf[1]
    BY <1>1, <1>14, <2>1
  <2>. QED
    BY <1>13, <2>2 DEF ImportedInv, Leaves, PositionIn, Notes
<1>16. BlockedInv'
  <2>1. ASSUME found = {}
        PROVE  version = "V3" /\ \E n \in 1..Len(mined) : ~ Processed(V3Log(mined[n]))
    <3>1. version = "V3" /\ AccumulateV3Logs(from, to) = {}
      BY <1>5, <1>7, <1>8, <2>1
    <3>2. PICK u \in Mined(from, to) : ~ Processed(V3Log(u))
      BY <3>1 DEF AccumulateV3Logs
    <3>3. \E n \in 1..Len(mined) : u = mined[n]
      BY <1>2, MinedFrom
    <3>. QED
      BY <3>1, <3>2, <3>3
  <2>2. blocked' => version' = "V3" /\ \E n \in 1..Len(mined') : ~ Processed(V3Log(mined'[n]))
    BY <1>1, <1>2, <2>1 DEF BlockedInv
  <2>. QED
    BY <2>2 DEF BlockedInv
<1>. QED
  BY <1>10, <1>11, <1>12, <1>15, <1>16 DEF IInv

\* The inductive invariant holds in every state.
THEOREM Inductive == Spec => []IInv
<1>1. Init => IInv
  BY InitIs
<1>2. IInv /\ [Next]_vars => IInv'
  <2>. SUFFICES ASSUME IInv, [Next]_vars PROVE IInv'
    OBVIOUS
  <2>1. ASSUME NEW update \in Update, NEW place \in {"transaction", "sameblock", "block"}, Mine(update, place)
        PROVE  IInv'
    BY <2>1, MineStep
  <2>2. CASE Index
    BY <2>2, IndexStep
  <2>3. CASE FetchV2Graph
    BY <2>3, FetchStep
  <2>4. CASE fetchGraphPage
    BY <2>4, PageStep
  <2>8. CASE FetchReturns
    BY <2>8, ReturnStep
  <2>5. CASE QueryFails
    BY <2>5, FailStep
  <2>6. ASSUME NEW from \in 1..MaxUpdates, NEW to \in 1..MaxUpdates, ScanLogs(from, to)
        PROVE  IInv'
    BY <2>6, ScanStep
  <2>7. CASE UNCHANGED vars
    <3>1. UNCHANGED <<version, next, mined, scanned, imported, blocked, indexed, query>>
      BY <2>7 DEF vars
    <3>2. CursorInv'
      BY <3>1 DEF IInv, CursorInv, HeadBlock
    <3>3. QueryInv'
      <4>1. \A f \in 1..3 : Items(Fields[f])' = Items(Fields[f])
        BY <3>1 DEF Items, Mined
      <4>2. indexed \in Nat
        BY MinedIs DEF IInv, CursorInv
      <4>. QED
        BY <3>1, <4>1, <4>2, QueryKept DEF IInv
    <3>. QED
      BY <3>1, <3>2, <3>3, OnlyQuery
  <2>. QED
    BY <2>1, <2>2, <2>3, <2>4, <2>5, <2>6, <2>7, <2>8 DEF Next
<1>. QED
  BY <1>1, <1>2, PTL DEF Spec

\* fetchGraphPages: the pages of each of the three queries, the commitments' too,
\* leave out nothing that was indexed when the first began, up to the last item
\* that was kept.
THEOREM PagesCompleteHolds == Spec => []PagesComplete
<1>1. IInv => PagesComplete
  <2>. SUFFICES ASSUME IInv PROVE PagesComplete
    OBVIOUS
  <2>1. QueryInv
    BY DEF IInv
  <2>2. CASE query.field = 0
    BY <2>1, <2>2 DEF QueryInv, PagesComplete, NoQuery
  <2>3. CASE query.field # 0
    <3>1. /\ query.field \in 1..4 /\ Len(query.answers) = query.field - 1
          /\ \E S : query.answers \in Seq(S)
          /\ \A f \in 1..3 : f < query.field =>
                Complete(Items(Fields[f]), query.start, query.seen, query.answers[f])
      BY <2>1, <2>3 DEF QueryInv
    <3>2. DOMAIN query.answers = 1..(query.field - 1)
      BY <3>1
    <3>3. \A f \in DOMAIN query.answers : f \in 1..3 /\ f < query.field
      BY <3>1, <3>2
    <3>. QED
      BY <3>1, <3>3 DEF PagesComplete, Complete
  <2>. QED
    BY <2>2, <2>3
<1>. QED
  BY <1>1, Inductive, PTL

-----------------------------------------------------------------------------
(* The keys of the unshields.                                               *)

UnshieldEvent(v, u, i) ==
    IF v = "V2"
    THEN [txid |-> u.txid, logIndex |-> <<u.transacts[i].id>>, token |-> u.transacts[i].unshield.token,
          fee |-> FeeOf(u.transacts[i].unshield.value),
          amount |-> u.transacts[i].unshield.value - FeeOf(u.transacts[i].unshield.value),
          railgunTxid |-> 0, block |-> u.block]
    ELSE FormatV3UnshieldEvent(V3Log(u), i)

LEMMA UnshieldEventIs ==
    ASSUME ChainInv, NEW n \in 1..Len(mined), NEW x, UnshieldOf(version, mined[n], x)
    PROVE  \E i \in 0..(IdBase - 1) :
              /\ x = UnshieldEvent(version, mined[n], i)
              /\ version = "V2" => x.logIndex = <<IdBase * n + i>>
              /\ version = "V3" => x.logIndex = <<i - 1>> /\ x.railgunTxid = IdBase * n + i
<1>. DEFINE u == mined[n]
<1>1. PICK up \in Update : Does(n, u, up)
  BY DEF ChainInv
<1>2. n \in Nat
  BY MinedIs
<1>. HIDE DEF u
<1>3. version \in {"V2", "V3"}
  BY DEF ChainInv
<1>4. PICK i \in HasUnshield(u) : x = UnshieldEvent(version, u, i)
  BY <1>3 DEF UnshieldOf, UnshieldEvent, u
<1>5. i \in 1..Len(up.transacts)
  BY <1>1, <1>2, DoesShape DEF HasUnshield
<1>6. u.transacts[i].id = IdBase * n + i
  BY <1>1, <1>2, <1>5, IdsAre
<1>7. i \in 0..(IdBase - 1)
  <2>1. Len(up.transacts) \in 0..(IdBase - 1) /\ IdBase \in Nat
    BY UpdateIs, BaseIs
  <2>. QED
    BY ONLY <1>5, <2>1
<1>8. version = "V2" => x.logIndex = <<IdBase * n + i>>
  <2>1. version = "V2" => x.logIndex = <<u.transacts[i].id>>
    BY <1>4 DEF UnshieldEvent
  <2>. QED
    BY <1>6, <2>1
<1>9. version = "V3" => x.logIndex = <<i - 1>> /\ x.railgunTxid = IdBase * n + i
  <2>1. V3Log(u).transacts = u.transacts
    BY DEF V3Log
  <2>2. version = "V3" => x.logIndex = <<i - 1>> /\ x.railgunTxid = V3Log(u).transacts[i].id
    BY <1>4 DEF UnshieldEvent, FormatV3UnshieldEvent
  <2>. QED
    BY <1>6, <2>1, <2>2
<1>. QED
  BY <1>4, <1>7, <1>8, <1>9 DEF u

\* Two unshields under one key are of two V3 logs.
LEMMA UnshieldKeys ==
    ASSUME IInv, NEW x \in imported.unshields, NEW y \in imported.unshields, x # y, x.logIndex = y.logIndex
    PROVE  version = "V3" /\ x.railgunTxid \div IdBase # y.railgunTxid \div IdBase
<1>1. ChainInv /\ Sound(imported)
  BY DEF IInv, ImportedInv
<1>2. version \in {"V2", "V3"}
  BY <1>1 DEF ChainInv
<1>3. PICK n \in 1..Len(mined) : UnshieldOf(version, mined[n], x)
  BY <1>1 DEF Sound
<1>4. PICK m \in 1..Len(mined) : UnshieldOf(version, mined[m], y)
  BY <1>1 DEF Sound
<1>5. n \in Nat /\ m \in Nat
  BY <1>1, MinedIs
<1>6. PICK i \in 0..(IdBase - 1) :
         /\ x = UnshieldEvent(version, mined[n], i)
         /\ version = "V2" => x.logIndex = <<IdBase * n + i>>
         /\ version = "V3" => x.logIndex = <<i - 1>> /\ x.railgunTxid = IdBase * n + i
  BY <1>1, <1>3, UnshieldEventIs
<1>7. PICK j \in 0..(IdBase - 1) :
         /\ y = UnshieldEvent(version, mined[m], j)
         /\ version = "V2" => y.logIndex = <<IdBase * m + j>>
         /\ version = "V3" => y.logIndex = <<j - 1>> /\ y.railgunTxid = IdBase * m + j
  BY <1>1, <1>4, UnshieldEventIs
<1>8. ~ (n = m /\ i = j)
  BY <1>6, <1>7
<1>9. ASSUME version = "V2" PROVE FALSE
  <2>1. IdBase * n + i = IdBase * m + j
    BY <1>6, <1>7, <1>9
  <2>. QED
    BY ONLY <1>5, <1>8, <2>1, BaseIs, Digits
<1>10. version = "V3"
  BY <1>2, <1>9
<1>11. i = j
  <2>1. i - 1 = j - 1
    BY <1>6, <1>7, <1>10
  <2>2. i \in Int /\ j \in Int
    BY BaseIs
  <2>. QED
    BY ONLY <2>1, <2>2
<1>12. \A k \in Nat, l \in 0..(IdBase - 1) : (IdBase * k + l) \div IdBase = k
  <2>. TAKE k \in Nat, l \in 0..(IdBase - 1)
  <2>1. (k * IdBase + l) \div IdBase = k
    BY BaseIs, Quotient
  <2>2. k * IdBase = IdBase * k
    BY BaseIs
  <2>. QED
    BY <2>1, <2>2
<1>13. x.railgunTxid \div IdBase = n /\ y.railgunTxid \div IdBase = m
  BY <1>5, <1>6, <1>7, <1>10, <1>12
<1>. QED
  BY <1>8, <1>10, <1>11, <1>13

\* FormatV2UnshieldEvent, FormatV3UnshieldEvent: two unshields are stored under
\* one key only when they are of two V3 logs of one transaction.
THEOREM UnshieldKeysDifferHolds == Spec => []UnshieldKeysDiffer
<1>1. IInv => UnshieldKeysDiffer
  BY UnshieldKeys DEF UnshieldKeysDiffer
<1>. QED
  BY <1>1, Inductive, PTL

-----------------------------------------------------------------------------
(* The places of the commitments.                                           *)

\* A row is a leaf of its call.
LEMMA RowIs ==
    ASSUME ChainInv, NEW n \in 1..Len(mined), NEW c, RowOf(version, mined[n], c)
    PROVE  LET u == mined[n]
           IN  /\ c.txid = u.txid /\ c.block = u.block
               /\ <<c.note, c.tree * TreeSize + c.index>> \in Leaves(u)
               /\ c.tree * TreeSize + c.index = PositionIn(u, c.note)
               /\ u.block \in 1..HeadBlock
<1>. DEFINE u == mined[n]
<1>1. PICK up \in Update : Does(n, u, up) /\ PlacedAs(version, u, up)
  BY DEF ChainInv
<1>2. n \in Nat /\ u.block \in 1..HeadBlock
  BY MinedIs
<1>. HIDE DEF u
<1>3. /\ DOMAIN u.transacts = 1..Len(up.transacts) /\ DOMAIN u.shields = 1..Len(up.shields)
      /\ \A i \in 1..Len(up.transacts) : DOMAIN u.transacts[i].notes = 1..up.transacts[i].count
  BY <1>1, <1>2, DoesShape, NoteCount
<1>4. /\ \A i \in 1..Len(up.transacts) : \A j \in 1..up.transacts[i].count :
            LET note == u.transacts[i].notes[j] IN <<note, PositionIn(u, note)>> \in Leaves(u)
      /\ \A i \in 1..Len(up.shields) :
            LET note == u.shields[i].note IN <<note, PositionIn(u, note)>> \in Leaves(u)
  BY <1>1, <1>2, LeavesAre
<1>5. ASSUME NEW note, NEW fee, NEW batch, c = Row(u, note, fee, batch), <<note, PositionIn(u, note)>> \in Leaves(u),
             PositionIn(u, note) \in Nat
      PROVE  /\ c.txid = u.txid /\ c.block = u.block
             /\ <<c.note, c.tree * TreeSize + c.index>> \in Leaves(u)
             /\ c.tree * TreeSize + c.index = PositionIn(u, c.note)
  <2>. DEFINE p == PositionIn(u, note)
  <2>1. /\ c.tree = p \div TreeSize /\ c.index = p % TreeSize
        /\ c.note = note /\ c.txid = u.txid /\ c.block = u.block
    BY <1>5 DEF Row
  <2>2. (p \div TreeSize) * TreeSize + (p % TreeSize) = p
    <3>. HIDE DEF p
    <3>1. p \in Nat
      BY <1>5 DEF p
    <3>. QED
      BY <3>1, Sizes0, Divide
  <2>3. c.tree * TreeSize + c.index = p
    <3>. HIDE DEF p
    <3>. QED
      BY <2>1, <2>2
  <2>. QED
    BY <1>5, <2>1, <2>3
<1>6. ASSUME NEW i \in DOMAIN u.transacts, NEW j \in DOMAIN u.transacts[i].notes
      PROVE  LET note == u.transacts[i].notes[j]
             IN  <<note, PositionIn(u, note)>> \in Leaves(u) /\ PositionIn(u, note) \in Nat
  <2>0. i \in 1..Len(up.transacts)
    BY <1>3
  <2>1. i \in 1..Len(up.transacts) /\ j \in 1..up.transacts[i].count
    BY <1>3, <2>0
  <2>. DEFINE note == u.transacts[i].notes[j]
  <2>2. PositionIn(u, note) \in u.transact..(u.shield - 1)
    BY <1>1, <1>2, <2>1, NoteIs, Zenon
  <2>3. u.transact \in Nat /\ u.shield \in Nat
    BY <1>1 DEF PlacedAs
  <2>4. PositionIn(u, note) \in Nat
    <3>. HIDE DEF note
    <3>. QED
      BY ONLY <2>2, <2>3
  <2>. QED
    BY <1>4, <2>1, <2>4
<1>7. ASSUME NEW i \in DOMAIN u.shields
      PROVE  LET note == u.shields[i].note
             IN  <<note, PositionIn(u, note)>> \in Leaves(u) /\ PositionIn(u, note) \in Nat
  <2>1. i \in 1..Len(up.shields)
    BY <1>3
  <2>. DEFINE note == u.shields[i].note
  <2>2. PositionIn(u, note) \in u.shield..(End(u) - 1)
    BY <1>1, <1>2, <2>1, ShieldIs, Zenon
  <2>3. u.shield \in Nat /\ End(u) \in Nat
    BY <1>1, <1>2, EndIs
  <2>4. PositionIn(u, note) \in Nat
    <3>. HIDE DEF note
    <3>. QED
      BY ONLY <2>2, <2>3
  <2>. QED
    BY <1>4, <2>1, <2>4
<1>8. /\ c.txid = u.txid /\ c.block = u.block
      /\ <<c.note, c.tree * TreeSize + c.index>> \in Leaves(u)
      /\ c.tree * TreeSize + c.index = PositionIn(u, c.note)
  <2>1. ASSUME NEW i \in DOMAIN u.transacts, NEW j \in DOMAIN u.transacts[i].notes, NEW batch,
               c = Row(u, u.transacts[i].notes[j], NoFee, batch)
        PROVE  /\ c.txid = u.txid /\ c.block = u.block
               /\ <<c.note, c.tree * TreeSize + c.index>> \in Leaves(u)
               /\ c.tree * TreeSize + c.index = PositionIn(u, c.note)
    BY <1>5, <1>6, <2>1
  <2>2. ASSUME NEW i \in DOMAIN u.shields, NEW fee, c = Row(u, u.shields[i].note, fee, NoIndex)
        PROVE  /\ c.txid = u.txid /\ c.block = u.block
               /\ <<c.note, c.tree * TreeSize + c.index>> \in Leaves(u)
               /\ c.tree * TreeSize + c.index = PositionIn(u, c.note)
    BY <1>5, <1>7, <2>2
  <2>. QED
    BY <2>1, <2>2 DEF RowOf, u
<1>. QED
  BY <1>2, <1>8 DEF u

\* The two sources of V2 tell the same of a place.
LEMMA RowsAgree ==
    ASSUME ChainInv, version = "V2", NEW n \in 1..Len(mined), NEW m \in 1..Len(mined),
           NEW c, RowOf("V2", mined[n], c), NEW d, RowOf("V2", mined[m], d), c.tree = d.tree, c.index = d.index
    PROVE  {c.fee, d.fee} \subseteq {NoFee, 0} \/ c = d
<1>. DEFINE u == mined[n]
<1>1. PICK up \in Update : Does(n, u, up) /\ PlacedAs(version, u, up)
  BY DEF ChainInv
<1>2. n \in Nat
  BY MinedIs
<1>3. n = m /\ c.note = d.note
  <2>1. <<c.note, c.tree * TreeSize + c.index>> \in Leaves(mined[n])
    BY RowIs
  <2>2. <<d.note, d.tree * TreeSize + d.index>> \in Leaves(mined[m])
    BY RowIs
  <2>. DEFINE x == <<c.note, c.tree * TreeSize + c.index>>
              y == <<d.note, d.tree * TreeSize + d.index>>
  <2>3. x[2] = y[2]
    OBVIOUS
  <2>4. n = m /\ x = y
    <3>. HIDE DEF x, y
    <3>1. x \in Leaves(mined[n]) /\ y \in Leaves(mined[m])
      BY <2>1, <2>2 DEF x, y
    <3>. QED
      BY <2>3, <3>1, LeavesDiffer
  <2>. QED
    BY <2>4
<1>4. RowOf("V2", u, c) /\ RowOf("V2", u, d)
  BY <1>3
<1>. HIDE DEF u
<1>5. /\ DOMAIN u.transacts = 1..Len(up.transacts) /\ DOMAIN u.shields = 1..Len(up.shields)
      /\ \A i \in 1..Len(up.transacts) : DOMAIN u.transacts[i].notes = 1..up.transacts[i].count
  BY <1>1, <1>2, DoesShape, NoteCount
<1>. DEFINE ByTransact(e) == e.note[2] = "transact" /\ e = Row(u, e.note, NoFee, NoIndex)
            ByShield(e) == \E i \in DOMAIN u.shields :
                              /\ e.note = <<n, "shield", i>>
                              /\ e.fee \in {FeeOf(u.shields[i].value), feeString(FeeOf(u.shields[i].value))}
                              /\ e = Row(u, e.note, e.fee, NoIndex)
<1>6. ASSUME NEW e, RowOf("V2", u, e)
      PROVE  ByTransact(e) \/ ByShield(e)
  <2>1. ASSUME NEW i \in DOMAIN u.transacts, NEW j \in DOMAIN u.transacts[i].notes,
               e = Row(u, u.transacts[i].notes[j], NoFee, NoIndex)
        PROVE  ByTransact(e)
    <3>0. i \in 1..Len(up.transacts)
      BY <1>5
    <3>1. i \in 1..Len(up.transacts) /\ j \in 1..up.transacts[i].count
      BY <1>5, <3>0
    <3>2. u.transacts[i].notes[j][2] = "transact"
      <4>1. u.transacts[i].notes[j] = <<n, "transact", Sums(Counts(up))[i - 1] + j>>
        BY <1>1, <1>2, <3>1, NotesAre
      <4>. QED
        BY <4>1
    <3>3. e.note = u.transacts[i].notes[j]
      BY <2>1 DEF Row
    <3>. QED
      BY <2>1, <3>2, <3>3
  <2>2. ASSUME NEW i \in DOMAIN u.shields, NEW fee,
               fee \in {FeeOf(u.shields[i].value), feeString(FeeOf(u.shields[i].value))},
               e = Row(u, u.shields[i].note, fee, NoIndex)
        PROVE  ByShield(e)
    <3>1. u.shields[i].note = <<n, "shield", i>>
      BY <1>1, <1>2, <1>5, ShieldsAre
    <3>2. e.note = u.shields[i].note /\ e.fee = fee
      BY <2>2 DEF Row
    <3>. QED
      BY <2>2, <3>1, <3>2
  <2>. QED
    BY <1>6, <2>1, <2>2 DEF RowOf
<1>7. CASE ByTransact(c) /\ ByTransact(d)
  BY <1>3, <1>7
<1>8. ASSUME ByTransact(c) /\ ByShield(d) PROVE FALSE
  BY <1>3, <1>8
<1>9. ASSUME ByShield(c) /\ ByTransact(d) PROVE FALSE
  BY <1>3, <1>9
<1>10. CASE ByShield(c) /\ ByShield(d)
  <2>1. PICK i \in DOMAIN u.shields :
           /\ c.note = <<n, "shield", i>>
           /\ c.fee \in {FeeOf(u.shields[i].value), feeString(FeeOf(u.shields[i].value))}
           /\ c = Row(u, c.note, c.fee, NoIndex)
    BY <1>10
  <2>2. PICK j \in DOMAIN u.shields :
           /\ d.note = <<n, "shield", j>>
           /\ d.fee \in {FeeOf(u.shields[j].value), feeString(FeeOf(u.shields[j].value))}
           /\ d = Row(u, d.note, d.fee, NoIndex)
    BY <1>10
  <2>3. i = j
    <3>1. c.note[3] = i
      BY <2>1
    <3>2. d.note[3] = j
      BY <2>2
    <3>. QED
      BY <1>3, <3>1, <3>2
  <2>. DEFINE f == FeeOf(u.shields[i].value)
  <2>4. c.fee \in {f, feeString(f)} /\ d.fee \in {f, feeString(f)}
    BY <2>1, <2>2, <2>3
  <2>. HIDE DEF f
  <2>5. CASE f = 0
    BY <2>1, <2>2, <2>4, <2>5 DEF feeString
  <2>6. CASE f # 0
    <3>1. c.fee = d.fee
      BY <2>4, <2>6 DEF feeString
    <3>2. c = d
      BY <1>3, <2>1, <2>2, <3>1, Zenon
    <3>. QED
      BY <3>2
  <2>. QED
    BY <2>5, <2>6
<1>. QED
  BY <1>4, <1>6, <1>7, <1>8, <1>9, <1>10

\* The number that a V3 commitment is looked up by.
LEMMA BatchIs ==
    ASSUME ChainInv, version = "V3", NEW n \in 1..Len(mined), NEW c, RowOf("V3", mined[n], c), c.note[2] = "transact"
    PROVE  LET u == mined[c.note[1]]
               i == CHOOSE i \in DOMAIN u.transacts : \E j \in DOMAIN u.transacts[i].notes : u.transacts[i].notes[j] = c.note
           IN  c.batchIndex = c.note[3] - 1 \/ \E h \in 1..(i - 1) : Len(u.transacts[h].notes) # 1
<1>. DEFINE u == mined[n]
<1>1. PICK up \in Update : Does(n, u, up) /\ PlacedAs(version, u, up)
  BY DEF ChainInv
<1>2. n \in Nat
  BY MinedIs
<1>3. RowOf("V3", u, c)
  OBVIOUS
<1>. HIDE DEF u
<1>. DEFINE L == Len(up.transacts)
            s == Sums(Counts(up))
<1>4. /\ DOMAIN u.transacts = 1..L /\ DOMAIN u.shields = 1..Len(up.shields) /\ L \in Nat
      /\ \A h \in 1..L : DOMAIN u.transacts[h].notes = 1..up.transacts[h].count /\ up.transacts[h].count \in Nat
  <2>1. L \in 0..(IdBase - 1) /\ \A h \in 1..L : up.transacts[h].count \in Nat
    BY UpdateIs
  <2>. QED
    BY <1>1, <1>2, <2>1, DoesShape, NoteCount, BaseIs
<1>5. \A h \in 1..L : \A j \in 1..up.transacts[h].count : u.transacts[h].notes[j] = <<n, "transact", s[h - 1] + j>>
  BY <1>1, <1>2, NotesAre
<1>6. \A h \in 1..L : Len(u.transacts[h].notes) = up.transacts[h].count
  BY <1>1, <1>2, NotesAre
<1>7. /\ \A h \in 0..L : s[h] \in Nat
      /\ \A h \in 1..L : s[h] = s[h - 1] + up.transacts[h].count
      /\ \A h, k \in 0..L : h <= k => s[h] <= s[k]
      /\ Len(Counts(up)) = L /\ \A h \in 1..L : Counts(up)[h] = up.transacts[h].count
  BY CountsAre
<1>8. \E a \in 1..L : \E b \in 1..up.transacts[a].count :
         c.note = u.transacts[a].notes[b] /\ c.batchIndex = a + b - 2
  <2>1. ASSUME NEW i \in DOMAIN u.shields, NEW fee, c = Row(u, u.shields[i].note, fee, NoIndex)
        PROVE  FALSE
    <3>1. u.shields[i].note = <<n, "shield", i>>
      BY <1>1, <1>2, <1>4, ShieldsAre
    <3>2. c.note = u.shields[i].note
      BY <2>1 DEF Row
    <3>. QED
      BY <3>1, <3>2
  <2>2. PICK i \in DOMAIN u.transacts : \E j \in DOMAIN u.transacts[i].notes :
           c = Row(u, u.transacts[i].notes[j], NoFee, i + j - 2)
    BY <1>3, <2>1 DEF RowOf
  <2>3. i \in 1..L
    BY <1>4
  <2>4. PICK j \in 1..up.transacts[i].count : c = Row(u, u.transacts[i].notes[j], NoFee, i + j - 2)
    BY <1>4, <2>2, <2>3
  <2>5. c.note = u.transacts[i].notes[j] /\ c.batchIndex = i + j - 2
    BY <2>4 DEF Row
  <2>. QED
    BY <2>3, <2>5
<1>8a. PICK a \in 1..L : \E b \in 1..up.transacts[a].count :
         c.note = u.transacts[a].notes[b] /\ c.batchIndex = a + b - 2
  BY <1>8
<1>8b. PICK b \in 1..up.transacts[a].count : c.note = u.transacts[a].notes[b] /\ c.batchIndex = a + b - 2
  BY <1>8a
<1>9. c.note = <<n, "transact", s[a - 1] + b>>
  BY <1>5, <1>8b
<1>10. c.note[1] = n /\ c.note[3] = s[a - 1] + b
  BY <1>9
<1>. DEFINE i == CHOOSE i \in DOMAIN u.transacts : \E j \in DOMAIN u.transacts[i].notes : u.transacts[i].notes[j] = c.note
<1>11. i \in 1..L /\ \E j \in 1..up.transacts[i].count : u.transacts[i].notes[j] = c.note
  <2>1. a \in DOMAIN u.transacts /\ b \in DOMAIN u.transacts[a].notes
    BY <1>4
  <2>2. i \in DOMAIN u.transacts /\ \E j \in DOMAIN u.transacts[i].notes : u.transacts[i].notes[j] = c.note
    BY <1>8b, <2>1
  <2>. HIDE DEF i
  <2>. QED
    BY <1>4, <2>2
<1>. HIDE DEF i, L, s
<1>12. PICK j \in 1..up.transacts[i].count : u.transacts[i].notes[j] = c.note
  BY <1>11
<1>13. s[i - 1] + j = s[a - 1] + b
  <2>1. c.note = <<n, "transact", s[i - 1] + j>>
    BY <1>5, <1>11, <1>12
  <2>. QED
    BY <1>9, <2>1
<1>14. /\ a - 1 \in 0..L /\ a \in 0..L /\ i - 1 \in 0..L /\ i \in 0..L /\ a \in Nat /\ i \in Nat
  BY <1>4, <1>11
<1>15. i = a
  <2>1. s[a] = s[a - 1] + up.transacts[a].count /\ s[i] = s[i - 1] + up.transacts[i].count
    BY <1>7, <1>11
  <2>2. up.transacts[a].count \in Nat /\ up.transacts[i].count \in Nat
    BY <1>4, <1>11
  <2>3. s[a - 1] \in Nat /\ s[a] \in Nat /\ s[i - 1] \in Nat /\ s[i] \in Nat
    BY <1>7, <1>14
  <2>4. i < a => s[i] <= s[a - 1]
    <3>1. i < a => i <= a - 1
      BY <1>14
    <3>. QED
      BY <1>7, <1>14, <3>1
  <2>5. a < i => s[a] <= s[i - 1]
    <3>1. a < i => a <= i - 1
      BY <1>14
    <3>. QED
      BY <1>7, <1>14, <3>1
  <2>. DEFINE sa == s[a]
              sb == s[a - 1]
              si == s[i]
              sj == s[i - 1]
              ca == up.transacts[a].count
              ci == up.transacts[i].count
  <2>6. /\ sa = sb + ca /\ si = sj + ci /\ ca \in Nat /\ ci \in Nat /\ sa \in Nat /\ sb \in Nat /\ si \in Nat /\ sj \in Nat
        /\ (i < a => si <= sb) /\ (a < i => sa <= sj) /\ sj + j = sb + b /\ j \in 1..ci /\ b \in 1..ca
    BY <1>13, <2>1, <2>2, <2>3, <2>4, <2>5
  <2>. HIDE DEF sa, sb, si, sj, ca, ci
  <2>. QED
    BY <1>14, <2>6
<1>16. (\A h \in 1..(i - 1) : Len(u.transacts[h].notes) = 1) => c.batchIndex = c.note[3] - 1
  <2>. SUFFICES ASSUME \A h \in 1..(i - 1) : Len(u.transacts[h].notes) = 1
                PROVE  c.batchIndex = c.note[3] - 1
    OBVIOUS
  <2>1. \A h \in 1..(a - 1) : Counts(up)[h] = 1
    <3>. TAKE h \in 1..(a - 1)
    <3>1. h \in 1..L
      BY <1>4, <1>14
    <3>. QED
      BY <1>6, <1>7, <1>15, <3>1 DEF L
  <2>2. s[a - 1] = a - 1
    <3>1. Len(Counts(up)) \in Nat /\ a - 1 \in 0..Len(Counts(up))
      BY <1>4, <1>7, <1>14
    <3>. QED
      BY <2>1, <3>1, SumsOnes DEF s
  <2>3. b \in Int
    BY <1>4
  <2>. QED
    BY <1>10, <1>14, <1>8b, <2>2, <2>3
<1>17. mined[c.note[1]] = u
  BY <1>10 DEF u
<1>. QED
  BY <1>16, <1>17 DEF i

\* FormatV2TransactEvent, formatGraphCommitmentV2, ProcessV3AccumulatorStateUpdate:
\* every commitment is imported with the place, the transaction and the block that
\* the contract gave it, a V3 scan leaves none out, a V3 transaction points at the
\* first of its leaves, and the two sources of V2 tell the same.
THEOREM RowsMatchContractHolds == Spec => []RowsMatchContract
<1>1. IInv => RowsMatchContract
  <2>. SUFFICES ASSUME IInv PROVE RowsMatchContract
    OBVIOUS
  <2>1. ChainInv /\ Sound(imported) /\ ImportedInv
    BY DEF IInv, ImportedInv
  <2>2. \A n \in 1..Len(mined) : mined[n] \in Mined(1, HeadBlock)
    <3>. TAKE n \in 1..Len(mined)
    <3>1. n \in DOMAIN mined /\ mined[n].block \in 1..HeadBlock
      BY <2>1, MinedIs
    <3>. QED
      BY <3>1 DEF Mined
  <2>3. ASSUME NEW c \in imported.commitments
        PROVE  \E n \in 1..Len(mined) : RowOf(version, mined[n], c)
    BY <2>1 DEF Sound
  <2>4. ASSUME NEW c \in imported.commitments
        PROVE  \E u \in Mined(1, HeadBlock) :
                  c.txid = u.txid /\ c.block = u.block /\ <<c.note, c.tree * TreeSize + c.index>> \in Leaves(u)
    <3>1. PICK n \in 1..Len(mined) : RowOf(version, mined[n], c)
      BY <2>3
    <3>2. /\ c.txid = mined[n].txid /\ c.block = mined[n].block
          /\ <<c.note, c.tree * TreeSize + c.index>> \in Leaves(mined[n])
      BY <2>1, <3>1, RowIs
    <3>. QED
      BY <2>2, <3>2
  <2>5. version = "V3" =>
           \A u \in Mined(1, scanned) : \A leaf \in Leaves(u) : \E c \in imported.commitments : c.note = leaf[1]
    BY <2>1 DEF ImportedInv
  <2>6. ASSUME NEW t \in imported.transactions
        PROVE  \E u \in Mined(1, HeadBlock) : \E i \in DOMAIN u.transacts :
                  /\ t.id = u.transacts[i].id
                  /\ t.position # UnshieldOnly /\ u.transacts[i].notes # <<>> =>
                        t.tree * TreeSize + t.position = PositionIn(u, u.transacts[i].notes[1])
    <3>1. PICK n \in 1..Len(mined) : TransactionOf(mined[n], t)
      BY <2>1 DEF Sound
    <3>. QED
      BY <2>2, <3>1 DEF TransactionOf
  <2>7. ASSUME version = "V2", NEW c \in imported.commitments, NEW d \in imported.commitments,
               c.tree = d.tree, c.index = d.index
        PROVE  {c.fee, d.fee} \subseteq {NoFee, 0} \/ c = d
    <3>1. PICK n \in 1..Len(mined) : RowOf("V2", mined[n], c)
      BY <2>3, <2>7
    <3>2. PICK m \in 1..Len(mined) : RowOf("V2", mined[m], d)
      BY <2>3, <2>7
    <3>. QED
      BY <2>1, <2>7, <3>1, <3>2, RowsAgree
  <2>8. ASSUME version = "V2", NEW c \in imported.unshields, NEW d \in imported.unshields, c.logIndex = d.logIndex
        PROVE  c = d
    BY <2>8, UnshieldKeys
  <2>9. ASSUME version = "V3", NEW c \in imported.commitments, c.note[2] = "transact"
        PROVE  LET u == mined[c.note[1]]
                   i == CHOOSE i \in DOMAIN u.transacts :
                           \E j \in DOMAIN u.transacts[i].notes : u.transacts[i].notes[j] = c.note
               IN  c.batchIndex = c.note[3] - 1 \/ \E h \in 1..(i - 1) : Len(u.transacts[h].notes) # 1
    <3>1. PICK n \in 1..Len(mined) : RowOf("V3", mined[n], c)
      BY <2>3, <2>9
    <3>. QED
      BY <2>1, <2>9, <3>1, BatchIs
  <2>. QED
    BY <2>4, <2>5, <2>6, <2>7, <2>8, <2>9 DEF RowsMatchContract
<1>. QED
  BY <1>1, Inductive, PTL

\* ProcessV3AccumulatorStateUpdate: no commitment gets a place outside of a tree.
THEOREM EventSourcesTypeOKHolds == Spec => []TypeOK
<1>1. ASSUME IInv, NEW c \in imported.commitments
      PROVE  c.tree \in 0..LastTree /\ c.index \in 0..(TreeSize - 1)
  <2>1. ChainInv /\ Sound(imported) /\ BoundInv
    BY <1>1 DEF IInv, ImportedInv
  <2>2. PICK n \in 1..Len(mined) : RowOf(version, mined[n], c)
    BY <2>1 DEF Sound
  <2>. DEFINE u == mined[n]
              p == PositionIn(u, c.note)
  <2>3. <<c.note, c.tree * TreeSize + c.index>> \in Leaves(u) /\ c.tree * TreeSize + c.index = p
    BY <2>1, <2>2, RowIs
  <2>4. c.tree = p \div TreeSize /\ c.index = p % TreeSize
    <3>1. \E note, fee, batch : c = Row(u, note, fee, batch)
      BY <2>2 DEF RowOf
    <3>2. PICK note, fee, batch : c = Row(u, note, fee, batch)
      BY <3>1
    <3>3. /\ c.note = note /\ c.tree = PositionIn(u, note) \div TreeSize
          /\ c.index = PositionIn(u, note) % TreeSize
      BY <3>2 DEF Row
    <3>. QED
      BY <3>3
  <2>5. PICK up \in Update : Does(n, u, up) /\ PlacedAs(version, u, up)
    BY <2>1 DEF ChainInv
  <2>6. n \in Nat /\ End(u) <= next /\ next \in Nat
    BY <2>1, MinedIs DEF ChainInv
  <2>. DEFINE leaf == <<c.note, c.tree * TreeSize + c.index>>
  <2>7. leaf[2] = p /\ leaf[1] = c.note
    BY <2>3
  <2>. HIDE DEF u
  <2>10. u.transact \in Nat /\ u.shield \in Nat /\ u.transact <= u.shield /\ u.shield <= End(u) /\ End(u) \in Nat
    BY <2>5, <2>6, EndIs
  <2>11. p \in u.transact..(End(u) - 1)
    <3>. HIDE DEF leaf, p
    <3>1. leaf \in Leaves(u)
      BY <2>3 DEF leaf
    <3>2. leaf[2] \in u.transact..(End(u) - 1)
      BY <2>5, <2>6, <3>1, LeafPlace, Zenon
    <3>. QED
      BY <2>7, <3>2
  <2>. HIDE DEF p
  <2>12. p \in Nat /\ p < next
    BY ONLY <2>6, <2>10, <2>11
  <2>13. p \div TreeSize \in Nat /\ p % TreeSize \in 0..(TreeSize - 1) /\ (p \div TreeSize) * TreeSize + (p % TreeSize) = p
    BY <2>12, Sizes0, Divide
  <2>14. p \div TreeSize \in 0..LastTree
    <3>. DEFINE q == p \div TreeSize
                r == p % TreeSize
    <3>1. q \in Nat /\ r \in Nat /\ q * TreeSize + r = p /\ TreeSize \in Nat \ {0} /\ LastTree \in Nat
      BY <2>13, Sizes0, SourcesAssumption
    <3>2. p < (LastTree + 1) * TreeSize
      <4>. DEFINE cap == (LastTree + 1) * TreeSize
      <4>1. cap \in Nat /\ next <= cap
        BY <2>1, CapIs DEF BoundInv
      <4>. HIDE DEF cap
      <4>2. p < cap
        BY <2>6, <2>12, <4>1
      <4>. QED
        BY <4>2 DEF cap
    <3>. HIDE DEF q, r
    <3>3. ~ (q >= LastTree + 1)
      <4>. SUFFICES ASSUME q >= LastTree + 1 PROVE FALSE
        OBVIOUS
      <4>1. q * TreeSize >= (LastTree + 1) * TreeSize
        <5>1. q * TreeSize = (LastTree + 1) * TreeSize + (q - (LastTree + 1)) * TreeSize
          BY <3>1
        <5>2. (q - (LastTree + 1)) * TreeSize \in Nat
          BY <3>1
        <5>3. (LastTree + 1) * TreeSize \in Nat
          BY CapIs
        <5>. QED
          BY <5>1, <5>2, <5>3
      <4>. DEFINE a == q * TreeSize
                  b == (LastTree + 1) * TreeSize
      <4>2. a \in Nat /\ b \in Nat /\ a >= b /\ a + r = p /\ p < b
        BY <3>1, <3>2, <4>1, CapIs
      <4>. HIDE DEF a, b
      <4>. QED
        BY <3>1, <4>2
    <3>4. q \in 0..LastTree
      BY <3>1, <3>3
    <3>. QED
      BY <3>4 DEF q
  <2>. QED
    BY <2>4, <2>13, <2>14 DEF p
<1>2. IInv => TypeOK
  <2>. SUFFICES ASSUME IInv PROVE TypeOK
    OBVIOUS
  <2>1. ChainInv /\ BoundInv /\ CursorInv /\ QueryInv
    BY DEF IInv
  <2>2. next \in 0..((LastTree + 1) * TreeSize)
    BY <2>1, CapIs DEF ChainInv, BoundInv
  <2>3. query.field \in 0..(Len(Fields) + 1)
    BY <2>1 DEF QueryInv, Fields
  <2>. QED
    BY <1>1, <2>1, <2>2, <2>3 DEF TypeOK, ChainInv, CursorInv
<1>. QED
  BY <1>2, Inductive, PTL

-----------------------------------------------------------------------------
(* The fees of a log.                                                       *)

\* One item of a sum is never more than the sum.
LEMMA SumsHold ==
    ASSUME NEW x, Len(x) \in Nat, \A n \in 1..Len(x) : x[n] \in Nat, NEW i \in 1..Len(x)
    PROVE  x[i] <= SumOf(x) /\ SumOf(x) \in Nat
<1>. DEFINE L == Len(x)
            a == Sums(x)[i - 1]
            b == Sums(x)[i]
            c == Sums(x)[L]
<1>1. i - 1 \in 0..L /\ i \in 0..L /\ L \in 0..L /\ i <= L
  OBVIOUS
<1>2. a \in Nat /\ b \in Nat /\ c \in Nat /\ b <= c
  BY <1>1, SumsUp
<1>3. b = a + x[i]
  BY SumsStep
<1>4. SumOf(x) = c
  BY DEF SumOf
<1>. HIDE DEF a, b, c
<1>5. x[i] \in Nat
  OBVIOUS
<1>. QED
  BY <1>2, <1>3, <1>4, <1>5

\* When all items but one are zero, the sum is that one.
LEMMA SumsSingle ==
    ASSUME NEW x, Len(x) \in Nat, \A n \in 1..Len(x) : x[n] \in Nat, NEW i \in 1..Len(x),
           \A n \in 1..Len(x) : n # i => x[n] = 0
    PROVE  SumOf(x) = x[i]
<1>. DEFINE L == Len(x)
            Good == {n \in 0..L : Sums(x)[n] = IF n < i THEN 0 ELSE x[i]}
<1>1. 0 \in Good
  BY SumsStep
<1>2. ASSUME NEW n \in 0..(L - 1), n \in Good
      PROVE  n + 1 \in Good
  <2>1. n + 1 \in 1..L /\ (n + 1) - 1 = n
    OBVIOUS
  <2>2. Sums(x)[n + 1] = Sums(x)[n] + x[n + 1]
    BY <2>1, SumsStep
  <2>3. n + 1 # i => x[n + 1] = 0
    BY <2>1
  <2>4. x[i] \in Nat /\ Sums(x)[n] = IF n < i THEN 0 ELSE x[i]
    BY <1>2
  <2>5. Sums(x)[n + 1] = IF n + 1 < i THEN 0 ELSE x[i]
    <3>1. CASE n + 1 = i
      BY <2>2, <2>4, <3>1
    <3>2. CASE n + 1 < i
      BY <2>2, <2>3, <2>4, <3>2
    <3>3. CASE i < n + 1
      BY <2>2, <2>3, <2>4, <3>3
    <3>. QED
      BY <3>1, <3>2, <3>3
  <2>. QED
    BY <2>1, <2>5
<1>. HIDE DEF Good
<1>3. \A n \in 0..L : n \in Good
  BY <1>1, <1>2, Climb
<1>4. L \in 0..L /\ ~ (L < i)
  OBVIOUS
<1>5. Sums(x)[L] = x[i]
  BY <1>3, <1>4 DEF Good
<1>. QED
  BY <1>5 DEF SumOf

\* Portions rounded down, one by one, of the items of U.
RoundedDown(f, v, U, p, T) ==
    /\ Len(v) \in Nat /\ (\A i \in 1..Len(v) : v[i] \in Nat)
    /\ U \in SUBSET (1..Len(v)) /\ p \in Nat /\ T \in Nat \ {0}
    /\ Len(f) = Len(v) /\ \A i \in 1..Len(v) : f[i] = IF i \in U THEN (p * v[i]) \div T ELSE 0

\* How far their sum is from the whole.
LEMMA SharesBounds ==
    ASSUME NEW f, NEW v, NEW U, NEW p, NEW T, RoundedDown(f, v, U, p, T)
    PROVE  /\ SumOf(f) \in Nat /\ T * SumOf(f) <= p * SumOf(v)
           /\ IsFiniteSet(U)
           /\ (\A i \in (1..Len(v)) \ U : v[i] = 0) => p * SumOf(v) <= T * SumOf(f) + (T - 1) * Cardinality(U)
<1>. SUFFICES ASSUME Len(v) \in Nat, \A i \in 1..Len(v) : v[i] \in Nat,
                     U \in SUBSET (1..Len(v)), p \in Nat, T \in Nat \ {0},
                     Len(f) = Len(v), \A i \in 1..Len(v) : f[i] = IF i \in U THEN (p * v[i]) \div T ELSE 0
              PROVE  /\ SumOf(f) \in Nat /\ T * SumOf(f) <= p * SumOf(v)
                     /\ IsFiniteSet(U)
                     /\ (\A i \in (1..Len(v)) \ U : v[i] = 0)
                           => p * SumOf(v) <= T * SumOf(f) + (T - 1) * Cardinality(U)
  BY DEF RoundedDown
<1>. DEFINE L == Len(v)
            All == \A i \in (1..L) \ U : v[i] = 0
            K(n) == Cardinality(U \cap (1..n))
<1>1. \A i \in 1..L : p * v[i] \in Nat /\ (p * v[i]) \div T \in Nat /\ f[i] \in Nat
  <2>. TAKE i \in 1..L
  <2>1. p * v[i] \in Nat
    OBVIOUS
  <2>2. (p * v[i]) \div T \in Nat
    <3>. DEFINE a == p * v[i]
    <3>. HIDE DEF a
    <3>1. a \in Nat
      BY <2>1 DEF a
    <3>2. a \div T \in Nat
      BY <3>1, Divide
    <3>. QED
      BY <3>2 DEF a
  <2>3. f[i] = IF i \in U THEN (p * v[i]) \div T ELSE 0
    OBVIOUS
  <2>4. f[i] \in Nat
    BY ONLY <2>2, <2>3
  <2>. QED
    BY ONLY <2>1, <2>2, <2>4
<1>2. /\ \A n \in 0..L : Sums(v)[n] \in Nat /\ Sums(f)[n] \in Nat
      /\ Sums(v)[0] = 0 /\ Sums(f)[0] = 0
      /\ \A n \in 1..L : Sums(v)[n] = Sums(v)[n - 1] + v[n] /\ Sums(f)[n] = Sums(f)[n - 1] + f[n]
  BY <1>1, SumsUp, SumsStep
<1>3. \A n \in 0..L : IsFiniteSet(U \cap (1..n)) /\ K(n) \in Nat
  <2>. TAKE n \in 0..L
  <2>1. n \in Int /\ 1 \in Int
    OBVIOUS
  <2>2. IsFiniteSet(1..n)
    BY <2>1, FS_Interval, Zenon
  <2>. QED
    BY <2>2, FS_Subset, FS_CardinalityType
<1>4. U = U \cap (1..L) /\ L \in 0..L
  <2>1. \A n \in U : n \in 1..L
    OBVIOUS
  <2>2. L \in 0..L
    OBVIOUS
  <2>. HIDE DEF L
  <2>. QED
    BY <2>1, <2>2
<1>. DEFINE Good == {n \in 0..L : /\ T * Sums(f)[n] <= p * Sums(v)[n]
                                  /\ All => p * Sums(v)[n] <= T * Sums(f)[n] + (T - 1) * K(n)}
<1>. HIDE DEF L, All
<1>5. 0 \in Good
  <2>1. 0 \in 0..L
    BY <1>4 DEF L
  <2>2. K(0) \in Nat /\ (T - 1) * K(0) \in Nat
    <3>1. K(0) \in Nat
      BY <1>3, <2>1
    <3>. HIDE DEF K
    <3>. QED
      BY <3>1
  <2>3. T * 0 = 0 /\ p * 0 = 0
    OBVIOUS
  <2>. HIDE DEF K
  <2>. QED
    BY <1>2, <2>1, <2>2, <2>3
<1>6. ASSUME NEW n \in 0..(L - 1), n \in Good
      PROVE  n + 1 \in Good
  <2>1. n + 1 \in 1..L /\ n + 1 \in 0..L /\ (n + 1) - 1 = n /\ n \in 0..L /\ n \in Nat
    BY DEF L
  <2>. DEFINE A == Sums(f)[n]
              V == Sums(v)[n]
              d == f[n + 1]
              w == v[n + 1]
              k == K(n)
  <2>2. /\ Sums(f)[n + 1] = A + d /\ Sums(v)[n + 1] = V + w
        /\ A \in Nat /\ V \in Nat /\ d \in Nat /\ w \in Nat /\ k \in Nat
    BY <1>1, <1>2, <1>3, <2>1 DEF L
  <2>3. T * A <= p * V /\ (All => p * V <= T * A + (T - 1) * k)
    BY <1>6
  <2>4. CASE n + 1 \in U
    <3>1. d = (p * w) \div T
      BY <2>1, <2>4 DEF L
    <3>2. p * w \in Nat /\ T \in Nat \ {0}
      BY <2>2
    <3>3. d * T + ((p * w) % T) = p * w /\ (p * w) % T \in 0..(T - 1)
      <4>. DEFINE a == p * w
      <4>. HIDE DEF a
      <4>1. a \in Nat
        BY <3>2 DEF a
      <4>2. (a \div T) * T + (a % T) = a /\ a % T \in 0..(T - 1)
        BY <3>2, <4>1, Divide
      <4>. QED
        BY <3>1, <4>2 DEF a
    <3>4. K(n + 1) = k + 1
      <4>1. U \cap (1..(n + 1)) = (U \cap (1..n)) \cup {n + 1} /\ n + 1 \notin U \cap (1..n)
        <5>1. n \in Nat
          BY <2>1
        <5>2. 1..(n + 1) = (1..n) \cup {n + 1} /\ n + 1 \notin 1..n
          BY ONLY <5>1
        <5>. QED
          BY ONLY <2>4, <5>2
      <4>2. IsFiniteSet(U \cap (1..n))
        BY <1>3, <2>1
      <4>. QED
        BY <4>1, <4>2, FS_AddElement
    <3>. DEFINE r == (p * w) % T
                TA == T * A
                Td == T * d
                pV == p * V
                pw == p * w
                m == (T - 1) * k
    <3>5. Td + r = pw /\ r \in 0..(T - 1)
      <4>1. Td = d * T
        BY <2>2
      <4>. QED
        BY <3>3, <4>1
    <3>6. TA \in Nat /\ Td \in Nat /\ pV \in Nat /\ pw \in Nat /\ m \in Nat
      <4>1. T - 1 \in Nat
        OBVIOUS
      <4>. HIDE DEF A, V, d, w, k
      <4>. QED
        BY <2>2, <4>1
    <3>. HIDE DEF A, V, d, w, k, K
    <3>7. T * (A + d) = TA + Td /\ p * (V + w) = pV + pw /\ (T - 1) * (k + 1) = m + (T - 1)
      BY <2>2
    <3>8. TA <= pV /\ (All => pV <= TA + m)
      BY <2>3
    <3>. HIDE DEF r, TA, Td, pV, pw, m
    <3>9. TA + Td <= pV + pw /\ (All => pV + pw <= TA + Td + (m + (T - 1)))
      BY <3>5, <3>6, <3>8
    <3>10. T * Sums(f)[n + 1] <= p * Sums(v)[n + 1]
      BY <2>2, <3>7, <3>9
    <3>11. All => p * Sums(v)[n + 1] <= T * Sums(f)[n + 1] + (T - 1) * K(n + 1)
      BY <2>2, <3>4, <3>7, <3>9
    <3>. QED
      BY <2>1, <3>10, <3>11
  <2>5. CASE n + 1 \notin U
    <3>1. d = 0 /\ (All => w = 0)
      BY <2>1, <2>5 DEF L, All
    <3>2. K(n + 1) = k
      <4>1. U \cap (1..(n + 1)) = U \cap (1..n)
        BY <2>1, <2>5
      <4>. QED
        BY <4>1
    <3>. DEFINE TA == T * A
                pV == p * V
                pw == p * w
                m == (T - 1) * k
    <3>6. TA \in Nat /\ pV \in Nat /\ pw \in Nat /\ m \in Nat
      <4>1. T - 1 \in Nat
        OBVIOUS
      <4>. HIDE DEF A, V, d, w, k
      <4>. QED
        BY <2>2, <4>1
    <3>. HIDE DEF A, V, d, w, k, K
    <3>7. T * (A + d) = TA /\ p * (V + w) = pV + pw
      BY <2>2, <3>1
    <3>8. TA <= pV /\ (All => pV <= TA + m)
      BY <2>3
    <3>9. w = 0 => pw = 0
      OBVIOUS
    <3>. HIDE DEF TA, pV, pw
    <3>10. T * Sums(f)[n + 1] <= p * Sums(v)[n + 1]
      BY <2>2, <3>6, <3>7, <3>8
    <3>11. All => p * Sums(v)[n + 1] <= T * Sums(f)[n + 1] + (T - 1) * K(n + 1)
      BY <2>2, <3>1, <3>2, <3>6, <3>7, <3>8, <3>9
    <3>. QED
      BY <2>1, <3>10, <3>11
  <2>. QED
    BY <2>4, <2>5
<1>. HIDE DEF Good
<1>7. \A n \in 0..L : n \in Good
  <2>1. L \in Nat
    BY DEF L
  <2>. QED
    BY <1>5, <1>6, <2>1, Climb
<1>8. SumOf(f) = Sums(f)[L] /\ SumOf(v) = Sums(v)[L]
  BY DEF SumOf, L
<1>9. L \in 0..L /\ K(L) = Cardinality(U) /\ IsFiniteSet(U)
  BY <1>3, <1>4 DEF L
<1>10. SumOf(f) \in Nat /\ T * SumOf(f) <= p * SumOf(v)
       /\ (All => p * SumOf(v) <= T * SumOf(f) + (T - 1) * Cardinality(U))
  BY <1>2, <1>7, <1>8, <1>9 DEF Good
<1>. QED
  BY <1>9, <1>10 DEF All, L

\* The items of U are charged their shares of a portion.
Charged(f, x, U, p) ==
    /\ Len(x) \in Nat /\ DOMAIN x = 1..Len(x) /\ (\A i \in 1..Len(x) : x[i].value \in Nat)
    /\ U \in SUBSET (1..Len(x)) /\ (\A i \in U : x[i].value > 0) /\ p \in Nat
    /\ f = [i \in 1..Len(x) |-> IF i \in U THEN Share(p, x[i], x) ELSE 0]

LEMMA SharesAre ==
    ASSUME NEW f, NEW x, NEW U, NEW p, Charged(f, x, U, p)
    PROVE  /\ IsFiniteSet(U) /\ SumOf(f) \in Nat /\ SumOf(f) <= p
           /\ U = {} => SumOf(f) = 0
           /\ U # {} /\ (\A i \in (1..Len(x)) \ U : x[i].value = 0) => p - SumOf(f) < Cardinality(U)
<1>. SUFFICES ASSUME Len(x) \in Nat, DOMAIN x = 1..Len(x), \A i \in 1..Len(x) : x[i].value \in Nat,
                     U \in SUBSET (1..Len(x)), \A i \in U : x[i].value > 0, p \in Nat,
                     f = [i \in 1..Len(x) |-> IF i \in U THEN Share(p, x[i], x) ELSE 0]
              PROVE  /\ IsFiniteSet(U) /\ SumOf(f) \in Nat /\ SumOf(f) <= p
                     /\ U = {} => SumOf(f) = 0
                     /\ U # {} /\ (\A i \in (1..Len(x)) \ U : x[i].value = 0) => p - SumOf(f) < Cardinality(U)
  BY DEF Charged
<1>. DEFINE v == [i \in DOMAIN x |-> x[i].value]
            T == SumOf(v)
            S == SumOf(f)
            k == Cardinality(U)
<1>1. DOMAIN v = 1..Len(x) /\ \A i \in 1..Len(x) : v[i] = x[i].value /\ v[i] \in Nat
  OBVIOUS
<1>2. Total(x) = T
  BY DEF Total
<1>. HIDE DEF v
<1>3. Len(v) = Len(x)
  BY <1>1, LenIs
<1>4. DOMAIN f = 1..Len(x) /\ \A i \in 1..Len(x) : f[i] = IF i \in U THEN Share(p, x[i], x) ELSE 0
  OBVIOUS
<1>5. Len(f) = Len(v)
  BY <1>3, <1>4, LenIs
<1>8. Len(v) \in Nat /\ (\A j \in 1..Len(v) : v[j] \in Nat) /\ U \in SUBSET (1..Len(v))
  BY <1>1, <1>3
<1>9. ASSUME NEW q \in Nat, NEW t \in Nat \ {0},
             \A j \in 1..Len(v) : f[j] = IF j \in U THEN (q * v[j]) \div t ELSE 0
      PROVE  /\ SumOf(f) \in Nat /\ t * SumOf(f) <= q * SumOf(v) /\ IsFiniteSet(U)
             /\ (\A j \in (1..Len(v)) \ U : v[j] = 0) => q * SumOf(v) <= t * SumOf(f) + (t - 1) * Cardinality(U)
  <2>1. RoundedDown(f, v, U, q, t)
    BY <1>5, <1>8, <1>9 DEF RoundedDown
  <2>. HIDE DEF S, T, k
  <2>. QED
    BY ONLY <2>1, SharesBounds, Zenon
<1>6. CASE U = {}
  <2>1. \A i \in 1..Len(v) : f[i] = IF i \in U THEN (0 * v[i]) \div 1 ELSE 0
    BY <1>3, <1>4, <1>6
  <2>2. S \in Nat /\ 1 * S <= 0 * T /\ IsFiniteSet(U)
    <3>1. 0 \in Nat /\ 1 \in Nat \ {0}
      OBVIOUS
    <3>2. SumOf(f) \in Nat /\ 1 * SumOf(f) <= 0 * SumOf(v) /\ IsFiniteSet(U)
      BY ONLY <1>9, <2>1, <3>1, Zenon
    <3>. QED
      BY <3>2
  <2>3. T \in Nat
    BY <1>1, <1>3, SumsUp DEF SumOf
  <2>. HIDE DEF S, T
  <2>4. S = 0
    BY <2>2, <2>3
  <2>. QED
    BY <1>6, <2>2, <2>4 DEF S
<1>7. CASE U # {}
  <2>1. PICK i \in U : TRUE
    BY <1>7
  <2>2. T \in Nat \ {0}
    <3>1. i \in 1..Len(v) /\ v[i] \in Nat /\ v[i] > 0
      BY <1>1, <1>3, <2>1
    <3>2. v[i] <= T /\ T \in Nat
      BY <1>1, <1>3, <3>1, SumsHold
    <3>. HIDE DEF T
    <3>. QED
      BY <3>1, <3>2
  <2>3. \A j \in 1..Len(v) : f[j] = IF j \in U THEN (p * v[j]) \div T ELSE 0
    BY <1>1, <1>2, <1>3, <1>4, <2>2 DEF Share
  <2>4. /\ S \in Nat /\ T * S <= p * T /\ IsFiniteSet(U)
        /\ (\A j \in (1..Len(v)) \ U : v[j] = 0) => p * T <= T * S + (T - 1) * k
    BY <1>9, <2>2, <2>3, Zenon
  <2>5. k \in Nat /\ k # 0
    BY <1>7, <2>4, FS_CardinalityType, FS_EmptySet
  <2>6. (\A j \in (1..Len(x)) \ U : x[j].value = 0) => p * T <= T * S + (T - 1) * k
    BY <1>1, <1>3, <2>4
  <2>7. S <= p
    <3>. HIDE DEF S, T, k
    <3>. SUFFICES ASSUME S > p PROVE FALSE
      BY <2>4
    <3>. DEFINE e == S - p
    <3>1. e \in Nat \ {0} /\ S = p + e
      BY <2>4
    <3>. HIDE DEF e
    <3>2. T * S = p * T + T * e
      BY <2>2, <3>1
    <3>3. T * e \in Nat \ {0} /\ p * T \in Nat
      BY <2>2, <3>1
    <3>. QED
      BY <2>4, <3>2, <3>3
  <2>8. p * T <= T * S + (T - 1) * k => p - S < k
    <3>. HIDE DEF S, T, k
    <3>. SUFFICES ASSUME p * T <= T * S + (T - 1) * k, p - S >= k PROVE FALSE
      BY <2>4, <2>5
    <3>. DEFINE e == p - S - k
    <3>1. e \in Nat /\ p = S + k + e
      BY <2>4, <2>5
    <3>. HIDE DEF e
    <3>2. p * T = T * S + T * k + T * e
      BY <2>2, <2>4, <2>5, <3>1
    <3>3. (T - 1) * k = T * k - k
      BY <2>2, <2>5
    <3>4. T * S \in Nat /\ T * k \in Nat /\ T * e \in Nat
      BY <2>2, <2>4, <2>5, <3>1
    <3>. QED
      BY <2>5, <3>2, <3>3, <3>4
  <2>. HIDE DEF S, T, k
  <2>9. (\A j \in (1..Len(x)) \ U : x[j].value = 0) => p - S < k
    BY <2>6, <2>8
  <2>. QED
    BY <1>7, <2>4, <2>7, <2>9 DEF S, k
<1>. QED
  BY <1>6, <1>7

LEMMA MinIs ==
    ASSUME NEW S \in SUBSET Nat, S # {}
    PROVE  Min(S) \in S /\ \A x \in S : Min(S) <= x
<1>1. \E m \in S : \A x \in S : m <= x
  BY LeastNat
<1>2. Min(S) = CHOOSE m \in S : \A x \in S : m =< x
  BY DEF Min
<1>. QED
  BY <1>1, <1>2

LEMMA FirstValueIs ==
    ASSUME NEW x, Len(x) \in Nat, DOMAIN x = 1..Len(x), \A i \in 1..Len(x) : x[i].value \in Nat, NEW token
    PROVE  /\ FirstValue(x, token) \in Nat
           /\ (\A i \in 1..Len(x) : x[i].token # token) => FirstValue(x, token) = 0
           /\ (\A i \in 1..Len(x) : x[i].token = token => x[i].value > 0) /\ (\E i \in 1..Len(x) : x[i].token = token)
                 => FirstValue(x, token) > 0
<1>. DEFINE of == {i \in DOMAIN x : x[i].token = token}
<1>1. FirstValue(x, token) = IF of = {} THEN 0 ELSE x[Min(of)].value
  BY DEF FirstValue
<1>2. of \in SUBSET Nat /\ of \subseteq 1..Len(x)
  OBVIOUS
<1>3. of # {} => Min(of) \in of
  <2>. HIDE DEF of
  <2>. QED
    BY <1>2, MinIs
<1>4. of = {} => \A i \in 1..Len(x) : x[i].token # token
  OBVIOUS
<1>. QED
  BY <1>1, <1>2, <1>3, <1>4

\* The portions of a token's fee.
LEMMA PortionsAre ==
    ASSUME NEW log, NEW token \in DOMAIN log.fees, log.fees[token] \in Nat,
           FirstValue(Unshields(log), token) \in Nat, FirstValue(log.shields, token) \in Nat
    PROVE  LET portion == v3TreasuryFeeMap(log)[token]
               unshield == FirstValue(Unshields(log), token)
               shield == FirstValue(log.shields, token)
           IN  /\ portion.unshield \in Nat /\ portion.shield \in Nat
               /\ portion.unshield + portion.shield <= log.fees[token]
               /\ unshield + shield > 0 => portion.unshield + portion.shield = log.fees[token]
               /\ unshield = 0 => portion.unshield = 0
               /\ shield = 0 => portion.shield = 0
<1>. DEFINE unshield == FirstValue(Unshields(log), token)
            shield == FirstValue(log.shields, token)
            fee == log.fees[token]
            least == Min({unshield, shield})
            smaller == (least * fee) \div (unshield + shield)
            portion == v3TreasuryFeeMap(log)[token]
<1>1. portion = IF unshield + shield = 0 THEN [shield |-> 0, unshield |-> 0]
                ELSE IF unshield < shield THEN [shield |-> fee - smaller, unshield |-> smaller]
                ELSE [shield |-> smaller, unshield |-> fee - smaller]
  BY DEF v3TreasuryFeeMap
<1>2. unshield \in Nat /\ shield \in Nat /\ fee \in Nat
  OBVIOUS
<1>3. least \in Nat /\ least <= unshield /\ least <= shield /\ (least = unshield \/ least = shield)
  <2>. HIDE DEF unshield, shield
  <2>1. {unshield, shield} \in SUBSET Nat /\ {unshield, shield} # {}
    BY <1>2
  <2>2. least \in {unshield, shield} /\ \A x \in {unshield, shield} : least <= x
    BY <2>1, MinIs
  <2>. QED
    BY <1>2, <2>2
<1>. HIDE DEF unshield, shield, fee, least, portion
<1>4. CASE unshield + shield = 0
  BY <1>1, <1>2, <1>4 DEF portion, unshield, shield, fee
<1>5. CASE unshield + shield # 0
  <2>. DEFINE t == unshield + shield
              a == least * fee
  <2>1. t \in Nat \ {0} /\ a \in Nat
    BY <1>2, <1>3, <1>5
  <2>2. smaller \in Nat /\ a % t \in 0..(t - 1) /\ smaller * t + (a % t) = a
    <3>. HIDE DEF t, a
    <3>1. a \div t \in Nat /\ a % t \in 0..(t - 1) /\ (a \div t) * t + (a % t) = a
      BY <2>1, Divide
    <3>. QED
      BY <3>1 DEF t, a
  <2>3. smaller <= fee
    <3>. DEFINE s == smaller
                r == a % t
    <3>1. s \in Nat /\ r \in Nat /\ s * t + r = a
      BY <2>1, <2>2
    <3>2. t = least + (t - least) /\ t - least \in Nat
      BY <1>2, <1>3
    <3>. DEFINE d == t - least
    <3>3. d \in Nat /\ t = least + d
      BY <3>2
    <3>. HIDE DEF s, r, t, d
    <3>4. a <= t * fee
      <4>1. t * fee = least * fee + d * fee
        BY <1>2, <1>3, <3>3
      <4>2. d * fee \in Nat /\ least * fee \in Nat
        BY <1>2, <1>3, <3>3
      <4>. QED
        BY <4>1, <4>2
    <3>. HIDE DEF a
    <3>5. s <= fee
      <4>. SUFFICES ASSUME s > fee PROVE FALSE
        BY <1>2, <3>1
      <4>. DEFINE e == s - fee
      <4>1. e \in Nat \ {0} /\ s = fee + e
        BY <1>2, <3>1
      <4>. HIDE DEF e
      <4>2. s * t = t * fee + e * t /\ e * t \in Nat \ {0} /\ t * fee \in Nat
        BY <1>2, <2>1, <4>1
      <4>. DEFINE st == s * t
                  tf == t * fee
                  et == e * t
      <4>3. st = tf + et /\ et \in Nat \ {0} /\ tf \in Nat /\ r \in Nat /\ st + r = a /\ a <= tf
        BY <3>1, <3>4, <4>2
      <4>. HIDE DEF st, tf, et
      <4>. QED
        BY ONLY <4>3
    <3>. QED
      BY <3>5 DEF s
  <2>4. least = 0 => smaller = 0
    <3>1. least = 0 => a = 0
      BY <1>2
    <3>2. 0 \div t = 0
      <4>. HIDE DEF t
      <4>. QED
        BY <2>1
    <3>. QED
      BY <3>1, <3>2
  <2>. HIDE DEF smaller
  <2>5. /\ portion.unshield = IF unshield < shield THEN smaller ELSE fee - smaller
        /\ portion.shield = IF unshield < shield THEN fee - smaller ELSE smaller
    BY <1>1, <1>5
  <2>6. /\ portion.unshield \in Nat /\ portion.shield \in Nat
        /\ portion.unshield + portion.shield = fee
        /\ unshield = 0 => portion.unshield = 0
        /\ shield = 0 => portion.shield = 0
    BY <1>2, <1>3, <1>5, <2>2, <2>3, <2>4, <2>5
  <2>. QED
    BY <1>5, <2>6, <1>2 DEF portion, unshield, shield, fee
<1>. QED
  BY <1>4, <1>5

\* The items of a call: what they are, and that its log has the same.
LEMMA ItemsOf ==
    ASSUME NEW n \in Nat, NEW u, NEW up \in Update, Does(n, u, up)
    PROVE  /\ Len(Unshields(u)) \in Nat /\ DOMAIN Unshields(u) = 1..Len(Unshields(u))
           /\ DOMAIN u.transacts = 1..Len(Unshields(u))
           /\ \A i \in 1..Len(Unshields(u)) :
                 /\ Unshields(u)[i] = u.transacts[i].unshield
                 /\ Unshields(u)[i].value \in Nat
                 /\ Unshields(u)[i].value > 0 <=> Unshields(u)[i].token \in Token
                 /\ Unshields(u)[i].value = 0 => Unshields(u)[i].token = NoToken
           /\ Len(u.shields) \in Nat /\ DOMAIN u.shields = 1..Len(u.shields)
           /\ \A i \in 1..Len(u.shields) : u.shields[i].token \in Token /\ u.shields[i].value \in Nat \ {0}
<1>1. /\ Len(up.transacts) \in Nat /\ Len(up.shields) \in Nat
      /\ \A i \in 1..Len(up.transacts) : up.transacts[i].unshield \in UnshieldItem
      /\ \A i \in 1..Len(up.shields) : up.shields[i].token \in Token /\ up.shields[i].value \in Nat \ {0}
  <2>1. Len(up.transacts) \in 0..(IdBase - 1) /\ Len(up.shields) \in 0..TreeSize
    BY UpdateIs
  <2>. QED
    BY <2>1, UpdateIs
<1>2. DOMAIN u.transacts = 1..Len(up.transacts) /\ DOMAIN u.shields = 1..Len(up.shields) /\ Len(u.shields) = Len(up.shields)
  BY DoesShape
<1>3. DOMAIN Unshields(u) = 1..Len(up.transacts) /\ \A i \in 1..Len(up.transacts) : Unshields(u)[i] = u.transacts[i].unshield
  BY <1>2 DEF Unshields
<1>4. Len(Unshields(u)) = Len(up.transacts)
  BY <1>1, <1>3, LenIs
<1>5. ASSUME NEW i \in 1..Len(up.transacts)
      PROVE  u.transacts[i].unshield = up.transacts[i].unshield
  <2>1. i \in DOMAIN up.transacts
    BY UpdateIs
  <2>2. u.transacts[i] = Transact(n, up, i)
    BY <2>1 DEF Does, Transacts
  <2>3. Transact(n, up, i).unshield = up.transacts[i].unshield
    BY DEF Transact
  <2>. QED
    BY <2>2, <2>3
<1>6. ASSUME NEW i \in 1..Len(up.shields)
      PROVE  u.shields[i].token = up.shields[i].token /\ u.shields[i].value = up.shields[i].value
  <2>1. i \in DOMAIN up.shields
    BY UpdateIs
  <2>. QED
    BY <2>1 DEF Does, Shields
<1>7. NoToken \notin Token
  BY UpdatesAreCalls DEF UpdateAssumption
<1>8. \A y \in UnshieldItem : /\ y.value \in Nat /\ (y.value > 0 <=> y.token \in Token)
                              /\ y.value = 0 => y.token = NoToken
  BY <1>7 DEF UnshieldItem
<1>9. \A i \in 1..Len(up.transacts) :
         /\ Unshields(u)[i] = u.transacts[i].unshield
         /\ Unshields(u)[i].value \in Nat
         /\ Unshields(u)[i].value > 0 <=> Unshields(u)[i].token \in Token
         /\ Unshields(u)[i].value = 0 => Unshields(u)[i].token = NoToken
  BY <1>1, <1>3, <1>5, <1>8
<1>10. \A i \in 1..Len(up.shields) : u.shields[i].token \in Token /\ u.shields[i].value \in Nat \ {0}
  BY <1>1, <1>6
<1>. QED
  BY <1>1, <1>2, <1>3, <1>4, <1>9, <1>10

LEMMA LogIs ==
    ASSUME NEW u
    PROVE  /\ V3Log(u).transacts = u.transacts /\ V3Log(u).shields = u.shields
           /\ Unshields(V3Log(u)) = Unshields(u) /\ HasUnshield(V3Log(u)) = HasUnshield(u)
           /\ V3Log(u).fees = [token \in Tokens(u) |-> FeeTaken(u, token)]
<1>1. /\ V3Log(u).transacts = u.transacts /\ V3Log(u).shields = u.shields
      /\ V3Log(u).fees = [token \in Tokens(u) |-> FeeTaken(u, token)]
  BY DEF V3Log
<1>. QED
  BY <1>1 DEF Unshields, HasUnshield

\* What is due of the items of a token is at least what is due of each of them.
LEMMA FeesDueIs ==
    ASSUME NEW x, Len(x) \in Nat, DOMAIN x = 1..Len(x), \A i \in 1..Len(x) : x[i].value \in Nat, NEW token
    PROVE  /\ FeesDue(x, token) \in Nat
           /\ \A i \in 1..Len(x) : x[i].token = token => FeeOf(x[i].value) <= FeesDue(x, token)
<1>. DEFINE f == [i \in DOMAIN x |-> IF x[i].token = token THEN FeeOf(x[i].value) ELSE 0]
<1>1. FeesDue(x, token) = SumOf(f)
  BY DEF FeesDue
<1>2. DOMAIN f = 1..Len(x) /\ \A i \in 1..Len(x) : f[i] = IF x[i].token = token THEN FeeOf(x[i].value) ELSE 0
  OBVIOUS
<1>. HIDE DEF f
<1>3. Len(f) = Len(x)
  BY <1>2, LenIs
<1>4. \A i \in 1..Len(x) : FeeOf(x[i].value) \in Nat
  BY Sizes0, Divide DEF FeeOf
<1>5. Len(f) \in Nat /\ \A i \in 1..Len(f) : f[i] \in Nat
  BY <1>2, <1>3, <1>4
<1>6. SumOf(f) \in Nat
  <2>1. Len(f) \in 0..Len(f)
    BY <1>5
  <2>. QED
    BY <1>5, <2>1, SumsUp DEF SumOf
<1>7. ASSUME NEW i \in 1..Len(x), x[i].token = token
      PROVE  FeeOf(x[i].value) <= SumOf(f)
  <2>1. i \in 1..Len(f) /\ f[i] = FeeOf(x[i].value)
    BY <1>2, <1>3, <1>7
  <2>2. f[i] <= SumOf(f)
    BY <1>5, <2>1, SumsHold
  <2>. QED
    BY <2>1, <2>2
<1>. QED
  BY <1>1, <1>6, <1>7

\* What the items of a token are charged, and what the treasury took of it.
LEMMA FeesOfToken ==
    ASSUME NEW n \in Nat, NEW u, NEW up \in Update, Does(n, u, up), NEW token \in Tokens(u)
    PROVE  LET log == V3Log(u)
               unshields == {i \in HasUnshield(u) : u.transacts[i].unshield.token = token}
               shields == {i \in DOMAIN u.shields : u.shields[i].token = token}
               fees == SumOf([i \in DOMAIN u.transacts |-> IF i \in unshields THEN UnshieldFee(log, i) ELSE 0])
                       + SumOf([i \in DOMAIN u.shields |-> IF i \in shields THEN ShieldFee(log, i) ELSE 0])
               items == Cardinality(unshields) + Cardinality(shields)
           IN  /\ fees <= FeeTaken(u, token)
               /\ Tokens(u) = {token} => fees > FeeTaken(u, token) - items
               /\ Tokens(u) = {token} /\ Cardinality(unshields) <= 1 /\ Cardinality(shields) <= 1 =>
                     fees = FeeTaken(u, token)
<1>. DEFINE log == V3Log(u)
            us == Unshields(u)
            ss == u.shields
            U == {i \in HasUnshield(u) : u.transacts[i].unshield.token = token}
            S == {i \in DOMAIN ss : ss[i].token = token}
            first == [i \in DOMAIN u.transacts |-> IF i \in U THEN UnshieldFee(log, i) ELSE 0]
            second == [i \in DOMAIN ss |-> IF i \in S THEN ShieldFee(log, i) ELSE 0]
            fee == FeeTaken(u, token)
            p == v3TreasuryFeeMap(log)[token].unshield
            q == v3TreasuryFeeMap(log)[token].shield
<1>1. /\ Len(us) \in Nat /\ DOMAIN us = 1..Len(us) /\ DOMAIN u.transacts = 1..Len(us)
      /\ \A i \in 1..Len(us) :
            /\ us[i] = u.transacts[i].unshield
            /\ us[i].value \in Nat
            /\ us[i].value > 0 <=> us[i].token \in Token
            /\ us[i].value = 0 => us[i].token = NoToken
      /\ Len(ss) \in Nat /\ DOMAIN ss = 1..Len(ss)
      /\ \A i \in 1..Len(ss) : ss[i].token \in Token /\ ss[i].value \in Nat \ {0}
  BY ItemsOf
<1>2. HasUnshield(u) = {i \in 1..Len(us) : us[i].value > 0}
  BY <1>1 DEF HasUnshield
<1>3. /\ Unshields(log) = us /\ log.shields = ss
      /\ token \in DOMAIN log.fees /\ log.fees[token] = fee
  BY LogIs
<1>4. Tokens(u) = {us[i].token : i \in HasUnshield(u)} \cup {ss[i].token : i \in 1..Len(ss)}
  BY <1>1, <1>2 DEF Tokens
<1>5. /\ U \in SUBSET (1..Len(us)) /\ \A i \in 1..Len(us) : i \in U <=> us[i].token = token
      /\ S \in SUBSET (1..Len(ss)) /\ \A i \in 1..Len(ss) : i \in S <=> ss[i].token = token
      /\ token \in Token
      /\ U # {} \/ S # {}
  <2>1. token \in Token
    BY <1>1, <1>2, <1>4
  <2>2. U \in SUBSET (1..Len(us)) /\ \A i \in 1..Len(us) : i \in U <=> us[i].token = token
    BY <1>1, <1>2, <2>1
  <2>3. S \in SUBSET (1..Len(ss)) /\ \A i \in 1..Len(ss) : i \in S <=> ss[i].token = token
    BY <1>1
  <2>4. U # {} \/ S # {}
    BY <1>2, <1>4, <2>2, <2>3
  <2>. QED
    BY <2>1, <2>2, <2>3, <2>4
<1>6. \A i \in U : us[i].value > 0
  BY <1>1, <1>5
<1>7. \A i \in S : ss[i].value > 0
  BY <1>1, <1>5
<1>8. Tokens(u) = {token} => /\ \A i \in (1..Len(us)) \ U : us[i].value = 0
                             /\ \A i \in (1..Len(ss)) \ S : ss[i].value = 0
  <2>. HIDE DEF us, ss, U, S
  <2>1. ASSUME Tokens(u) = {token}, NEW i \in (1..Len(us)) \ U
        PROVE  us[i].value = 0
    <3>1. us[i].token # token
      BY <1>5
    <3>2. us[i].token \notin Tokens(u)
      BY <2>1, <3>1
    <3>3. i \notin HasUnshield(u)
      BY <1>4, <3>2
    <3>. QED
      BY <1>1, <1>2, <3>3
  <2>2. ASSUME Tokens(u) = {token}, NEW i \in (1..Len(ss)) \ S
        PROVE  ss[i].value = 0
    <3>1. ss[i].token # token
      BY <1>5
    <3>2. ss[i].token \in Tokens(u)
      BY <1>4
    <3>. QED
      BY <2>2, <3>1, <3>2
  <2>. QED
    BY <2>1, <2>2
<1>9. /\ FirstValue(us, token) \in Nat /\ (U = {} => FirstValue(us, token) = 0) /\ (U # {} => FirstValue(us, token) > 0)
      /\ FirstValue(ss, token) \in Nat /\ (S = {} => FirstValue(ss, token) = 0) /\ (S # {} => FirstValue(ss, token) > 0)
  <2>. HIDE DEF us, ss, U, S
  <2>1. /\ FirstValue(us, token) \in Nat
        /\ (\A i \in 1..Len(us) : us[i].token # token) => FirstValue(us, token) = 0
        /\ (\A i \in 1..Len(us) : us[i].token = token => us[i].value > 0) /\ (\E i \in 1..Len(us) : us[i].token = token)
              => FirstValue(us, token) > 0
    BY <1>1, FirstValueIs
  <2>2. /\ FirstValue(ss, token) \in Nat
        /\ (\A i \in 1..Len(ss) : ss[i].token # token) => FirstValue(ss, token) = 0
        /\ (\A i \in 1..Len(ss) : ss[i].token = token => ss[i].value > 0) /\ (\E i \in 1..Len(ss) : ss[i].token = token)
              => FirstValue(ss, token) > 0
    <3>1. \A i \in 1..Len(ss) : ss[i].value \in Nat
      BY <1>1
    <3>. QED
      BY <1>1, <3>1, FirstValueIs
  <2>. QED
    BY <1>5, <1>6, <1>7, <2>1, <2>2
<1>10. fee \in Nat
  <2>1. FeesDue(us, token) \in Nat
    BY <1>1, FeesDueIs
  <2>2. FeesDue(ss, token) \in Nat
    <3>1. \A i \in 1..Len(ss) : ss[i].value \in Nat
      BY <1>1
    <3>. QED
      BY <1>1, <3>1, FeesDueIs
  <2>. QED
    BY <2>1, <2>2 DEF FeeTaken
<1>11. /\ p \in Nat /\ q \in Nat /\ p + q = fee
       /\ U = {} => p = 0
       /\ S = {} => q = 0
  <2>. HIDE DEF U, S, us, ss, fee, log
  <2>1. FirstValue(Unshields(log), token) = FirstValue(us, token) /\ FirstValue(log.shields, token) = FirstValue(ss, token)
    BY <1>3
  <2>2. /\ p \in Nat /\ q \in Nat
        /\ FirstValue(us, token) + FirstValue(ss, token) > 0 => p + q = fee
        /\ FirstValue(us, token) = 0 => p = 0
        /\ FirstValue(ss, token) = 0 => q = 0
    BY <1>3, <1>9, <1>10, <2>1, PortionsAre
  <2>. HIDE DEF p, q
  <2>3. FirstValue(us, token) + FirstValue(ss, token) > 0
    BY <1>5, <1>9
  <2>. QED
    BY <1>9, <2>2, <2>3
<1>12. first = [i \in 1..Len(us) |-> IF i \in U THEN Share(p, us[i], us) ELSE 0]
  <2>1. \A i \in U : UnshieldFee(log, i) = Share(p, us[i], us)
    <3>. TAKE i \in U
    <3>1. us[i].token = token
      BY <1>5
    <3>. HIDE DEF us, log, U
    <3>. QED
      BY <1>3, <3>1 DEF UnshieldFee
  <2>. HIDE DEF U, log, p, us
  <2>. QED
    BY <1>1, <2>1
<1>13. second = [i \in 1..Len(ss) |-> IF i \in S THEN Share(q, ss[i], ss) ELSE 0]
  <2>1. \A i \in S : ShieldFee(log, i) = Share(q, ss[i], ss)
    <3>. TAKE i \in S
    <3>1. ss[i].token = token
      BY <1>5
    <3>. HIDE DEF ss, log, S
    <3>. QED
      BY <1>3, <3>1 DEF ShieldFee
  <2>. HIDE DEF S, log, q, ss
  <2>. QED
    BY <1>1, <2>1
<1>. HIDE DEF us, ss, U, S, log, p, q, fee, first, second
<1>14. /\ IsFiniteSet(U) /\ SumOf(first) \in Nat /\ SumOf(first) <= p
       /\ U = {} => SumOf(first) = 0
       /\ U # {} /\ (\A i \in (1..Len(us)) \ U : us[i].value = 0) => p - SumOf(first) < Cardinality(U)
  <2>1. Charged(first, us, U, p)
    BY <1>1, <1>5, <1>6, <1>11, <1>12 DEF Charged
  <2>. QED
    BY ONLY <2>1, SharesAre, Zenon
<1>15. /\ IsFiniteSet(S) /\ SumOf(second) \in Nat /\ SumOf(second) <= q
       /\ S = {} => SumOf(second) = 0
       /\ S # {} /\ (\A i \in (1..Len(ss)) \ S : ss[i].value = 0) => q - SumOf(second) < Cardinality(S)
  <2>1. \A i \in 1..Len(ss) : ss[i].value \in Nat
    BY <1>1
  <2>2. Charged(second, ss, S, q)
    BY <1>1, <1>5, <1>7, <1>11, <1>13, <2>1 DEF Charged
  <2>. QED
    BY ONLY <2>2, SharesAre, Zenon
<1>16. Cardinality(U) \in Nat /\ Cardinality(S) \in Nat /\ (U = {} => Cardinality(U) = 0) /\ (S = {} => Cardinality(S) = 0)
  BY <1>14, <1>15, FS_CardinalityType, FS_EmptySet
<1>. DEFINE k == Cardinality(U)
            l == Cardinality(S)
            a == SumOf(first)
            b == SumOf(second)
<1>17. Tokens(u) = {token} => (U # {} => p - a < k) /\ (S # {} => q - b < l)
  BY <1>8, <1>14, <1>15
<1>18. /\ k \in Nat /\ l \in Nat /\ a \in Nat /\ b \in Nat /\ a <= p /\ b <= q
       /\ U = {} => a = 0 /\ k = 0 /\ p = 0
       /\ S = {} => b = 0 /\ l = 0 /\ q = 0
  BY <1>11, <1>14, <1>15, <1>16
<1>. HIDE DEF a, b, k, l
<1>19. /\ a + b <= fee
       /\ Tokens(u) = {token} => a + b > fee - (k + l)
       /\ Tokens(u) = {token} /\ k <= 1 /\ l <= 1 => a + b = fee
  <2>1. a + b <= fee
    BY <1>11, <1>18
  <2>2. ASSUME Tokens(u) = {token} PROVE a + b > fee - (k + l)
    <3>1. CASE U = {}
      <4>1. q - b < l /\ a = 0 /\ k = 0 /\ p = 0
        BY <1>5, <1>17, <1>18, <2>2, <3>1
      <4>. QED
        BY <1>11, <1>18, <4>1
    <3>2. CASE S = {}
      <4>1. p - a < k /\ b = 0 /\ l = 0 /\ q = 0
        BY <1>5, <1>17, <1>18, <2>2, <3>2
      <4>. QED
        BY <1>11, <1>18, <4>1
    <3>3. CASE U # {} /\ S # {}
      <4>1. p - a < k /\ q - b < l
        BY <1>17, <2>2, <3>3
      <4>. QED
        BY <1>11, <1>18, <4>1
    <3>. QED
      BY <3>1, <3>2, <3>3
  <2>3. ASSUME Tokens(u) = {token}, k <= 1, l <= 1 PROVE a + b = fee
    <3>1. a = p
      BY <1>11, <1>17, <1>18, <2>3
    <3>2. b = q
      BY <1>11, <1>17, <1>18, <2>3
    <3>. QED
      BY <1>11, <3>1, <3>2
  <2>. QED
    BY <2>1, <2>2, <2>3
<1>. QED
  BY <1>19 DEF a, b, k, l, first, second, U, S, ss, fee, log

\* The only item is charged all of the portion.
LEMMA LoneShare ==
    ASSUME NEW x, Len(x) \in Nat, DOMAIN x = 1..Len(x), \A j \in 1..Len(x) : x[j].value \in Nat,
           NEW i \in 1..Len(x), x[i].value > 0, \A j \in 1..Len(x) : j # i => x[j].value = 0, NEW p \in Nat
    PROVE  Share(p, x[i], x) = p
<1>. DEFINE v == [j \in DOMAIN x |-> x[j].value]
            t == x[i].value
<1>1. DOMAIN v = 1..Len(x) /\ \A j \in 1..Len(x) : v[j] = x[j].value
  OBVIOUS
<1>2. Total(x) = SumOf(v)
  BY DEF Total
<1>. HIDE DEF v
<1>3. Len(v) = Len(x)
  BY <1>1, LenIs
<1>4. /\ Len(v) \in Nat /\ (\A j \in 1..Len(v) : v[j] \in Nat)
      /\ i \in 1..Len(v) /\ \A j \in 1..Len(v) : j # i => v[j] = 0
  BY <1>1, <1>3
<1>5. SumOf(v) = v[i]
  BY ONLY <1>4, SumsSingle
<1>6. Total(x) = t /\ t \in Nat \ {0}
  BY <1>1, <1>2, <1>5
<1>. HIDE DEF t
<1>7. (p * t) \div t = p
  <2>. DEFINE a == p * t
              q == a \div t
              r == a % t
  <2>1. a \in Nat
    BY <1>6
  <2>2. q \in Nat /\ r \in 0..(t - 1) /\ q * t + r = a
    <3>. HIDE DEF a
    <3>. QED
      BY <1>6, <2>1, Divide
  <2>. HIDE DEF q, r
  <2>3. CASE q > p
    <3>. DEFINE e == q - p
    <3>1. e \in Nat \ {0} /\ q = p + e
      BY <2>2, <2>3
    <3>. HIDE DEF e
    <3>2. q * t = a + e * t /\ e * t \in Nat \ {0}
      BY <1>6, <3>1
    <3>. QED
      BY <2>1, <2>2, <3>2
  <2>4. CASE q < p
    <3>. DEFINE e == p - q - 1
    <3>1. e \in Nat /\ p = q + 1 + e
      BY <2>2, <2>4
    <3>. HIDE DEF e
    <3>2. a = q * t + t + e * t /\ e * t \in Nat /\ q * t \in Nat
      BY <1>6, <2>2, <3>1
    <3>. HIDE DEF a
    <3>. QED
      BY <1>6, <2>1, <2>2, <3>2
  <2>5. CASE q = p
    BY <2>5 DEF q
  <2>. QED
    BY <2>2, <2>3, <2>4, <2>5
<1>. QED
  BY <1>6, <1>7 DEF Share, t

LEMMA LoneMember ==
    ASSUME NEW U, IsFiniteSet(U), Cardinality(U) <= 1, NEW i \in U
    PROVE  \A j \in U : j = i
<1>1. Cardinality(U) \in Nat /\ Cardinality(U) # 0
  BY FS_CardinalityType, FS_EmptySet
<1>2. Cardinality(U) = 1
  BY <1>1
<1>. QED
  BY <1>2, FS_Singleton

\* A fee is due of all but the smallest values.
LEMMA FeeIsDue ==
    ASSUME NEW value \in Nat
    PROVE  FeeOf(value) \in Nat /\ (value >= FeeUnit => FeeOf(value) # 0)
<1>. DEFINE q == value \div FeeUnit
            r == value % FeeUnit
<1>1. q \in Nat /\ r \in 0..(FeeUnit - 1) /\ q * FeeUnit + r = value /\ FeeUnit \in Nat \ {0}
  BY Sizes0, Divide
<1>. HIDE DEF q, r
<1>2. q = 0 => q * FeeUnit = 0
  BY <1>1
<1>3. q = 0 => value < FeeUnit
  BY <1>1, <1>2
<1>. QED
  BY <1>1, <1>3 DEF FeeOf, q

\* A log of one unshield and one shield at most, of tokens that differ, is read.
LEMMA FewAreRead ==
    ASSUME NEW n \in Nat, NEW u, NEW up \in Update, Does(n, u, up),
           IsFiniteSet(HasUnshield(u)), Cardinality(HasUnshield(u)) <= 1, Len(u.shields) <= 1,
           \A i \in HasUnshield(u), j \in DOMAIN u.shields : u.transacts[i].unshield.token # u.shields[j].token
    PROVE  Processed(V3Log(u))
<1>. DEFINE log == V3Log(u)
            us == Unshields(u)
            ss == u.shields
            portion(token) == v3TreasuryFeeMap(log)[token]
<1>1. /\ Len(us) \in Nat /\ DOMAIN us = 1..Len(us) /\ DOMAIN u.transacts = 1..Len(us)
      /\ \A i \in 1..Len(us) :
            /\ us[i] = u.transacts[i].unshield
            /\ us[i].value \in Nat
            /\ us[i].value > 0 <=> us[i].token \in Token
            /\ us[i].value = 0 => us[i].token = NoToken
      /\ Len(ss) \in Nat /\ DOMAIN ss = 1..Len(ss)
      /\ \A i \in 1..Len(ss) : ss[i].token \in Token /\ ss[i].value \in Nat \ {0}
  BY ItemsOf
<1>2. HasUnshield(u) = {i \in 1..Len(us) : us[i].value > 0}
  BY <1>1 DEF HasUnshield
<1>3. /\ log.transacts = u.transacts /\ log.shields = ss /\ Unshields(log) = us /\ HasUnshield(log) = HasUnshield(u)
      /\ DOMAIN log.fees = Tokens(u) /\ \A token \in Tokens(u) : log.fees[token] = FeeTaken(u, token)
  BY LogIs
<1>4. /\ \A i \in HasUnshield(u) : us[i].token \in Tokens(u)
      /\ \A j \in 1..Len(ss) : ss[j].token \in Tokens(u)
  BY <1>1, <1>2 DEF Tokens
<1>5. \A i \in HasUnshield(u), j \in 1..Len(ss) : us[i].token # ss[j].token
  BY <1>1, <1>2
<1>6. \A j \in 1..Len(ss) : ss[j].value \in Nat
  BY <1>1
<1>. HIDE DEF us, ss, log
<1>7. ASSUME NEW token
      PROVE  /\ FirstValue(us, token) \in Nat
             /\ (\A i \in 1..Len(us) : us[i].token # token) => FirstValue(us, token) = 0
             /\ (\A i \in 1..Len(us) : us[i].token = token => us[i].value > 0) /\ (\E i \in 1..Len(us) : us[i].token = token)
                   => FirstValue(us, token) > 0
  BY <1>1, FirstValueIs
<1>8. ASSUME NEW token
      PROVE  /\ FirstValue(ss, token) \in Nat
             /\ (\A i \in 1..Len(ss) : ss[i].token # token) => FirstValue(ss, token) = 0
             /\ (\A i \in 1..Len(ss) : ss[i].token = token => ss[i].value > 0) /\ (\E i \in 1..Len(ss) : ss[i].token = token)
                   => FirstValue(ss, token) > 0
  BY <1>1, <1>6, FirstValueIs
<1>9. ASSUME NEW token
      PROVE  /\ FeesDue(us, token) \in Nat /\ FeesDue(ss, token) \in Nat
             /\ FeeTaken(u, token) = FeesDue(us, token) + FeesDue(ss, token)
             /\ \A i \in 1..Len(us) : us[i].token = token => FeeOf(us[i].value) <= FeesDue(us, token)
             /\ \A i \in 1..Len(ss) : ss[i].token = token => FeeOf(ss[i].value) <= FeesDue(ss, token)
  <2>1. /\ FeesDue(us, token) \in Nat
        /\ \A i \in 1..Len(us) : us[i].token = token => FeeOf(us[i].value) <= FeesDue(us, token)
    BY <1>1, FeesDueIs
  <2>2. /\ FeesDue(ss, token) \in Nat
        /\ \A i \in 1..Len(ss) : ss[i].token = token => FeeOf(ss[i].value) <= FeesDue(ss, token)
    BY <1>1, <1>6, FeesDueIs
  <2>. QED
    BY <2>1, <2>2 DEF FeeTaken, us, ss
<1>10. ASSUME NEW token \in Tokens(u), FirstValue(us, token) + FirstValue(ss, token) > 0
       PROVE  /\ portion(token).unshield \in Nat /\ portion(token).shield \in Nat
              /\ portion(token).unshield + portion(token).shield = FeeTaken(u, token)
              /\ FirstValue(us, token) = 0 => portion(token).unshield = 0
              /\ FirstValue(ss, token) = 0 => portion(token).shield = 0
  <2>1. token \in DOMAIN log.fees /\ log.fees[token] \in Nat /\ log.fees[token] = FeeTaken(u, token)
    BY <1>3, <1>9
  <2>2. FirstValue(Unshields(log), token) = FirstValue(us, token) /\ FirstValue(log.shields, token) = FirstValue(ss, token)
    BY <1>3
  <2>3. FirstValue(us, token) \in Nat /\ FirstValue(ss, token) \in Nat
    BY <1>7, <1>8
  <2>. QED
    BY <1>10, <2>1, <2>2, <2>3, PortionsAre
<1>11. ASSUME NEW i \in HasUnshield(u)
       PROVE  ~ FeeMissing(us[i].value, UnshieldFee(log, i))
  <2>. DEFINE token == us[i].token
  <2>1. i \in 1..Len(us) /\ us[i].value > 0 /\ us[i].value \in Nat /\ token \in Tokens(u) /\ token \in Token
    BY <1>1, <1>2, <1>4
  <2>2. \A j \in 1..Len(us) : j # i => us[j].value = 0
    <3>1. \A j \in HasUnshield(u) : j = i
      BY LoneMember
    <3>2. \A j \in 1..Len(us) : us[j].value \in Nat /\ (us[j].value > 0 => j = i)
      BY <1>1, <1>2, <3>1
    <3>. QED
      BY ONLY <3>2
  <2>3. FirstValue(ss, token) = 0
    BY <1>5, <1>8
  <2>. HIDE DEF token
  <2>4. FirstValue(us, token) \in Nat /\ FirstValue(us, token) > 0
    <3>1. \A j \in 1..Len(us) : us[j].token = token => us[j].value > 0
      BY <1>1, <2>1
    <3>2. us[i].token = token
      BY DEF token
    <3>. QED
      BY <1>7, <2>1, <3>1, <3>2
  <2>5. portion(token).unshield \in Nat /\ portion(token).unshield = FeeTaken(u, token)
    <3>1. FirstValue(us, token) + FirstValue(ss, token) > 0
      BY <2>3, <2>4
    <3>2. /\ portion(token).unshield \in Nat /\ portion(token).shield = 0
          /\ portion(token).unshield + portion(token).shield = FeeTaken(u, token)
      BY <1>10, <2>1, <2>3, <3>1
    <3>. QED
      BY <3>2
  <2>6. Share(portion(token).unshield, us[i], us) = portion(token).unshield
    BY <1>1, <2>1, <2>2, <2>5, LoneShare
  <2>7. UnshieldFee(log, i) = FeeTaken(u, token)
    BY <1>3, <2>5, <2>6 DEF UnshieldFee, token
  <2>8. us[i].token = token
    BY DEF token
  <2>. DEFINE due == FeeOf(us[i].value)
              a == FeesDue(us, token)
              b == FeesDue(ss, token)
              fee == FeeTaken(u, token)
  <2>9. due \in Nat /\ (us[i].value >= FeeUnit => due # 0)
    <3>1. us[i].value \in Nat
      BY <2>1
    <3>. QED
      BY ONLY <3>1, FeeIsDue
  <2>10. a \in Nat /\ b \in Nat /\ fee = a + b
    BY <1>9
  <2>11. due <= a
    BY <1>9, <2>1, <2>8
  <2>. HIDE DEF due, a, b, fee
  <2>12. us[i].value >= FeeUnit => fee # 0
    BY <2>9, <2>10, <2>11
  <2>. QED
    BY <2>7, <2>12 DEF FeeMissing, fee
<1>12. ASSUME NEW i \in 1..Len(ss)
       PROVE  ~ FeeMissing(ss[i].value, ShieldFee(log, i))
  <2>. DEFINE token == ss[i].token
  <2>1. ss[i].value > 0 /\ ss[i].value \in Nat /\ token \in Tokens(u) /\ token \in Token
    BY <1>1, <1>4
  <2>2. \A j \in 1..Len(ss) : j # i => ss[j].value = 0
    <3>1. Len(ss) <= 1
      BY DEF ss
    <3>. QED
      BY <1>1, <3>1
  <2>3. FirstValue(us, token) = 0
    <3>1. \A j \in 1..Len(us) : us[j].token # token
      BY <1>1, <1>2, <1>5, <2>1
    <3>. QED
      BY <1>7, <3>1
  <2>. HIDE DEF token
  <2>4. FirstValue(ss, token) \in Nat /\ FirstValue(ss, token) > 0
    <3>1. \A j \in 1..Len(ss) : ss[j].value > 0
      BY <1>1
    <3>2. ss[i].token = token
      BY DEF token
    <3>. QED
      BY <1>8, <3>1, <3>2
  <2>5. portion(token).shield \in Nat /\ portion(token).shield = FeeTaken(u, token)
    <3>1. FirstValue(us, token) + FirstValue(ss, token) > 0
      BY <2>3, <2>4
    <3>2. /\ portion(token).shield \in Nat /\ portion(token).unshield = 0
          /\ portion(token).unshield + portion(token).shield = FeeTaken(u, token)
      BY <1>10, <2>1, <2>3, <3>1
    <3>. QED
      BY <3>2
  <2>6. Share(portion(token).shield, ss[i], ss) = portion(token).shield
    BY <1>1, <1>6, <2>1, <2>2, <2>5, LoneShare
  <2>7. ShieldFee(log, i) = FeeTaken(u, token)
    BY <1>3, <2>5, <2>6 DEF ShieldFee, token
  <2>8. ss[i].token = token
    BY DEF token
  <2>. DEFINE due == FeeOf(ss[i].value)
              a == FeesDue(us, token)
              b == FeesDue(ss, token)
              fee == FeeTaken(u, token)
  <2>9. due \in Nat /\ (ss[i].value >= FeeUnit => due # 0)
    <3>1. ss[i].value \in Nat
      BY <2>1
    <3>. QED
      BY ONLY <3>1, FeeIsDue
  <2>10. a \in Nat /\ b \in Nat /\ fee = a + b
    BY <1>9
  <2>11. due <= b
    BY <1>9, <2>1, <2>8
  <2>. HIDE DEF due, a, b, fee
  <2>12. ss[i].value >= FeeUnit => fee # 0
    BY <2>9, <2>10, <2>11
  <2>. QED
    BY <2>7, <2>12 DEF FeeMissing, fee
<1>13. \A i \in HasUnshield(log) :
          /\ log.transacts[i].unshield.token \in DOMAIN log.fees
          /\ ~ FeeMissing(log.transacts[i].unshield.value, UnshieldFee(log, i))
  <2>. TAKE i \in HasUnshield(log)
  <2>1. i \in HasUnshield(u) /\ i \in 1..Len(us)
    BY <1>2, <1>3
  <2>2. log.transacts[i].unshield = us[i]
    BY <1>1, <1>3, <2>1
  <2>3. us[i].token \in DOMAIN log.fees
    BY <1>3, <1>4, <2>1
  <2>. QED
    BY <1>11, <2>1, <2>2, <2>3
<1>14. \A i \in DOMAIN log.shields :
          /\ log.shields[i].token \in DOMAIN log.fees
          /\ ~ FeeMissing(log.shields[i].value, ShieldFee(log, i))
  BY <1>1, <1>3, <1>4, <1>12
<1>15. Processed(log)
  BY <1>13, <1>14 DEF Processed
<1>. QED
  BY <1>15 DEF log

\* v3TreasuryFeeMap, ProcessV3AccumulatorStateUpdate: the fees of a token's items are
\* never more than the treasury took; they are that, up to the rounding, when the log
\* is about one token; and they stop the scan only on two unshields, two shields, or
\* both of one token.
THEOREM FeesAddUpOrBlockHolds == Spec => []FeesAddUpOrBlock
<1>1. IInv => FeesAddUpOrBlock
  <2>. SUFFICES ASSUME IInv PROVE FeesAddUpOrBlock
    OBVIOUS
  <2>1. ChainInv /\ BlockedInv
    BY DEF IInv
  <2>2. ASSUME NEW u \in Mined(1, scanned), NEW token \in Tokens(u)
        PROVE  LET log == V3Log(u)
                   unshields == {i \in HasUnshield(u) : u.transacts[i].unshield.token = token}
                   shields == {i \in DOMAIN u.shields : u.shields[i].token = token}
                   fees == SumOf([i \in DOMAIN u.transacts |-> IF i \in unshields THEN UnshieldFee(log, i) ELSE 0])
                           + SumOf([i \in DOMAIN u.shields |-> IF i \in shields THEN ShieldFee(log, i) ELSE 0])
                   items == Cardinality(unshields) + Cardinality(shields)
               IN  /\ fees <= FeeTaken(u, token)
                   /\ Tokens(u) = {token} => fees > FeeTaken(u, token) - items
                   /\ Tokens(u) = {token} /\ Cardinality(unshields) <= 1 /\ Cardinality(shields) <= 1 =>
                         fees = FeeTaken(u, token)
    <3>1. PICK n \in 1..Len(mined) : u = mined[n]
      BY <2>1, MinedFrom
    <3>2. PICK up \in Update : Does(n, u, up)
      BY <2>1, <3>1 DEF ChainInv
    <3>3. n \in Nat
      BY <2>1, MinedIs
    <3>. QED
      BY ONLY <2>2, <3>2, <3>3, FeesOfToken, Zenon
  <2>3. ASSUME blocked
        PROVE  \E u \in Mined(1, HeadBlock) :
                  /\ version = "V3"
                  /\ \/ Cardinality(HasUnshield(u)) > 1
                     \/ Len(u.shields) > 1
                     \/ \E i \in HasUnshield(u), j \in DOMAIN u.shields :
                           u.transacts[i].unshield.token = u.shields[j].token
    <3>1. version = "V3"
      BY <2>1, <2>3 DEF BlockedInv
    <3>2. PICK n \in 1..Len(mined) : ~ Processed(V3Log(mined[n]))
      BY <2>1, <2>3 DEF BlockedInv
    <3>. DEFINE u == mined[n]
    <3>3. u \in Mined(1, HeadBlock)
      <4>1. n \in DOMAIN mined /\ mined[n].block \in 1..HeadBlock
        BY <2>1, MinedIs
      <4>. QED
        BY <4>1 DEF Mined
    <3>4. PICK up \in Update : Does(n, u, up)
      BY <2>1 DEF ChainInv
    <3>5. n \in Nat
      BY <2>1, MinedIs
    <3>. HIDE DEF u
    <3>6. IsFiniteSet(HasUnshield(u)) /\ Len(u.shields) \in Nat
      <4>1. /\ Len(Unshields(u)) \in Nat /\ DOMAIN u.transacts = 1..Len(Unshields(u)) /\ Len(u.shields) \in Nat
        BY <3>4, <3>5, ItemsOf
      <4>2. 1 \in Int /\ Len(Unshields(u)) \in Int
        BY <4>1
      <4>3. IsFiniteSet(1..Len(Unshields(u)))
        BY <4>2, FS_Interval, Zenon
      <4>4. HasUnshield(u) \subseteq 1..Len(Unshields(u))
        BY <4>1 DEF HasUnshield
      <4>. QED
        BY <4>1, <4>3, <4>4, FS_Subset
    <3>7. Cardinality(HasUnshield(u)) \in Nat
      BY <3>6, FS_CardinalityType
    <3>8. \/ ~ (Cardinality(HasUnshield(u)) <= 1) \/ ~ (Len(u.shields) <= 1)
          \/ \E i \in HasUnshield(u), j \in DOMAIN u.shields : u.transacts[i].unshield.token = u.shields[j].token
      BY <3>2, <3>4, <3>5, <3>6, FewAreRead DEF u
    <3>9. \/ Cardinality(HasUnshield(u)) > 1 \/ Len(u.shields) > 1
          \/ \E i \in HasUnshield(u), j \in DOMAIN u.shields : u.transacts[i].unshield.token = u.shields[j].token
      BY <3>6, <3>7, <3>8
    <3>. QED
      BY <3>1, <3>3, <3>9
  <2>. QED
    BY <2>2, <2>3 DEF FeesAddUpOrBlock
<1>. QED
  BY <1>1, Inductive, PTL

================================================================================
