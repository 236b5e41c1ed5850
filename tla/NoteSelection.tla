----------------------------- MODULE NoteSelection -----------------------------
(***************************************************************************)
(* Which notes a private transaction spends (transaction/solutions.go, and *)
(* selectSpendableUTXOs and buildUnshieldTokenBatchInputs of the sdk). All *)
(* the inputs of a transaction are of one tree. A note is identified by    *)
(* its global position; the notes of a tree are listed by position.        *)
(***************************************************************************)
EXTENDS Integers, FiniteSets, FiniteSetsExt

CONSTANTS
    TreeSize,   \* leaves of a tree (65536)
    MaxInputs   \* the largest number of nullifiers of a circuit (10)

ASSUME SelectionAssumption == {TreeSize, MaxInputs} \subseteq Nat \ {0}

\* GetGlobalTreePosition and its inverse.
Key(tree, position) == tree * TreeSize + position
TreeOf(k) == k \div TreeSize
PositionOf(k) == k % TreeSize

InTree(notes, t) == {k \in notes : TreeOf(k) = t}

CalculateTotalSpend(notes, value) == MapThenSumSet(LAMBDA k : value[k], notes)

\* sortUTXOsByAscendingValue is stable: notes of one value stay in their order.
Before(j, k, value) ==
    \/ value[j] < value[k]
    \/ value[j] = value[k] /\ j < k

\* The smallest notes first, until they cover what is required.
Ascending(notes, value, required) ==
    {k \in notes :
        CalculateTotalSpend({j \in notes : Before(j, k, value)}, value) < required}

\* The notes of one tree that FindExactSolutionsOverTargetValue returns: a set
\* of solutions, empty for nil. A tree that holds too little gives the empty
\* slice, which is a solution to its caller.
FindExactSolutionsOverTargetValue(notes, value, required) ==
    LET exact == {k \in notes : value[k] = required}
        selected == Ascending(notes, value, required)
    IN  IF CalculateTotalSpend(notes, value) < required THEN {{}}
        ELSE IF exact # {} THEN {{Min(exact)}}
        ELSE IF Cardinality(selected) <= MaxInputs THEN {selected}
        ELSE {}

\* Mutant of CreateSimpleSatisfyingUTXOGroup: the first tree with a solution.
FirstSatisfyingUTXOGroup(notes, value, required) ==
    LET solutions(t) == FindExactSolutionsOverTargetValue(InTree(notes, t), value, required)
        solved == {t \in 0..Max({TreeOf(k) : k \in notes} \cup {0}) : solutions(t) # {}}
    IN  IF notes = {} \/ solved = {} THEN {} ELSE solutions(Min(solved))

\* The last tree with a solution wins, also when its solution is empty.
CreateSimpleSatisfyingUTXOGroup(notes, value, required) ==
    LET solutions(t) == FindExactSolutionsOverTargetValue(InTree(notes, t), value, required)
        solved == {t \in 0..Max({TreeOf(k) : k \in notes} \cup {0}) : solutions(t) # {}}
    IN  IF notes = {} \/ solved = {} THEN {} ELSE solutions(Max(solved))

=============================================================================
