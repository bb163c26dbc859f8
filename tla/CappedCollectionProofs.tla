----------------------- MODULE CappedCollectionProofs -----------------------
(***************************************************************************)
(* The overshoot of a counted cap, for every limit and every number of     *)
(* concurrent creators.  SlotsBounded is inductive beside the types.       *)
(***************************************************************************)
EXTENDS CappedCollection, FiniteSetTheorems, TLAPS

\* What the instances give: a number, and some requests, finitely many.
Parameters == Limit \in Nat /\ IsFiniteSet(Creators) /\ Creators # {}

\* Sizes are numbers, and no more creators are admitted than run.
LEMMA Sizes ==
    ASSUME Parameters, TypeOK
    PROVE  /\ Cardinality(items) \in Nat
           /\ Cardinality(admitted) \in Nat
           /\ Cardinality(Creators) \in Nat
           /\ Cardinality(admitted) <= Cardinality(Creators)
           /\ IsFiniteSet(admitted)
<1>1. IsFiniteSet(Creators) /\ admitted \in SUBSET Creators
    BY DEF Parameters, TypeOK
<1>2. IsFiniteSet(admitted) /\ Cardinality(admitted) <= Cardinality(Creators)
    BY <1>1, FS_Subset
<1> QED
    BY <1>1, <1>2, FS_CardinalityType DEF TypeOK

\* Every step keeps the types.
LEMMA TypeStep ==
    ASSUME TypeOK, Step
    PROVE  TypeOK'
<1>1. CASE UNCHANGED cappedVars
    BY <1>1 DEF TypeOK, cappedVars
<1>2. ASSUME NEW r \in Creators, Admit(r) PROVE TypeOK'
    BY <1>2 DEF TypeOK, Admit
<1>3. ASSUME NEW r \in Creators, Insert(r) PROVE TypeOK'
    <2>1. PICK i \in Items \ items : items' = items \cup {i}
        BY <1>3 DEF Insert
    <2>2. IsFiniteSet(items')
        BY <2>1, FS_AddElement DEF TypeOK
    <2> QED
        BY <1>3, <2>1, <2>2 DEF TypeOK, Insert
<1>4. ASSUME NEW R \in SUBSET Creators, GiveUp(R) PROVE TypeOK'
    BY <1>4 DEF TypeOK, GiveUp
<1>5. ASSUME NEW S \in SUBSET items, Remove(S) PROVE TypeOK'
    <2>1. items \ S \in SUBSET items
        OBVIOUS
    <2>2. IsFiniteSet(items')
        BY <1>5, <2>1, FS_Subset DEF TypeOK, Remove
    <2> QED
        BY <1>5, <2>2 DEF TypeOK, Remove
<1> QED
    BY <1>1, <1>2, <1>3, <1>4, <1>5 DEF Step, Next

\* The two ways a sum of sizes stays within the bound.
LEMMA BelowLimit ==
    ASSUME Parameters
    PROVE  \A n, a, N \in Nat : n < Limit /\ a <= N => n + a <= Limit + N - 1
BY DEF Parameters

LEMMA NoMore ==
    ASSUME Parameters
    PROVE  \A n, a, m, b, N \in Nat :
              n + a <= Limit + N - 1 /\ m <= n /\ b <= a => m + b <= Limit + N - 1
BY DEF Parameters

\* Every step keeps the slots bounded: admission reads a count below the limit,
\* an insert trades an admission for a document, the rest only frees slots.
LEMMA SlotsStep ==
    ASSUME Parameters, TypeOK, SlotsBounded, Step
    PROVE  SlotsBounded'
<1> DEFINE n == Cardinality(items)
           a == Cardinality(admitted)
           N == Cardinality(Creators)
<1>1. n \in Nat /\ a \in Nat /\ N \in Nat /\ n + a <= Limit + N - 1 /\ Limit \in Nat
    BY Sizes DEF Parameters, SlotsBounded
<1>2. TypeOK' /\ n' \in Nat /\ a' \in Nat /\ a' <= N
    <2>1. TypeOK'
        BY TypeStep
    <2>2. \A S \in SUBSET Creators :
             Cardinality(S) \in Nat /\ Cardinality(S) <= Cardinality(Creators)
        BY FS_Subset, FS_CardinalityType DEF Parameters
    <2>3. a' \in Nat /\ a' <= N
        BY <2>1, <2>2 DEF TypeOK
    <2>4. n' \in Nat
        BY <2>1, FS_CardinalityType DEF TypeOK
    <2> QED
        BY <2>1, <2>3, <2>4
<1>3. CASE UNCHANGED cappedVars
    BY <1>3 DEF SlotsBounded, cappedVars
<1>4. ASSUME NEW r \in Creators, Admit(r) PROVE SlotsBounded'
    <2>1. n < Limit /\ n' = n
        BY <1>4 DEF Admit
    <2> HIDE DEF n, a, N
    <2>2. n' + a' <= Limit + N - 1
        <3>1. n \in Nat /\ a' \in Nat /\ N \in Nat /\ n < Limit /\ a' <= N
            BY <1>1, <1>2, <2>1
        <3>2. n + a' <= Limit + N - 1
            BY <3>1, BelowLimit, Zenon
        <3> QED
            BY <2>1, <3>2, Zenon
    <2> QED
        BY <2>2 DEF SlotsBounded, n, a, N
<1>5. ASSUME NEW r \in Creators, Insert(r) PROVE SlotsBounded'
    <2>1. PICK i \in Items \ items : items' = items \cup {i}
        BY <1>5 DEF Insert
    <2>2. n' = n + 1
        BY <2>1, FS_AddElement DEF TypeOK
    <2>3. a' = a - 1
        BY <1>5, Sizes, FS_RemoveElement DEF Insert
    <2> HIDE DEF n, a, N
    <2>4. n' + a' <= Limit + N - 1
        BY <1>1, <2>2, <2>3
    <2> QED
        BY <2>4 DEF SlotsBounded, n, a, N
<1>6. ASSUME NEW R \in SUBSET Creators, GiveUp(R) PROVE SlotsBounded'
    <2>1. n' = n
        BY <1>6 DEF GiveUp
    <2>2. admitted' \in SUBSET admitted
        BY <1>6 DEF GiveUp
    <2>3. a' <= a
        BY <2>2, Sizes, FS_Subset
    <2> HIDE DEF n, a, N
    <2>4. n' + a' <= Limit + N - 1
        <3>1. n' <= n /\ a' <= a
            BY <1>1, <2>1, <2>3, SMT
        <3> QED
            BY <1>1, <1>2, <3>1, NoMore, Zenon
    <2> QED
        BY <2>4 DEF SlotsBounded, n, a, N
<1>7. ASSUME NEW S \in SUBSET items, Remove(S) PROVE SlotsBounded'
    <2>1. a' = a
        BY <1>7 DEF Remove
    <2>2. items' \in SUBSET items
        BY <1>7 DEF Remove
    <2>3. n' <= n
        BY <2>2, FS_Subset DEF TypeOK
    <2> HIDE DEF n, a, N
    <2>4. n' + a' <= Limit + N - 1
        <3>1. n' <= n /\ a' <= a
            BY <1>1, <2>1, <2>3, SMT
        <3> QED
            BY <1>1, <1>2, <3>1, NoMore, Zenon
    <2> QED
        BY <2>4 DEF SlotsBounded, n, a, N
<1> QED
    BY <1>3, <1>4, <1>5, <1>6, <1>7 DEF Step, Next

\* An empty collection with no request running is within the bound.
LEMMA SlotsInit ==
    ASSUME Parameters, Init
    PROVE  TypeOK /\ SlotsBounded
<1>1. Cardinality(items) = 0 /\ Cardinality(admitted) = 0 /\ TypeOK
    BY FS_EmptySet DEF Init, TypeOK
<1>2. Cardinality(Creators) \in Nat /\ Cardinality(Creators) # 0
    BY FS_CardinalityType, FS_EmptySet DEF Parameters
<1> QED
    BY <1>1, <1>2 DEF Parameters, SlotsBounded

\* The variables keep their types, and the collection stays finite.
THEOREM TypeCorrect ==
    ASSUME Parameters
    PROVE  Spec => []TypeOK
<1>1. Init => TypeOK
    BY SlotsInit
<1>2. TypeOK /\ [Step]_cappedVars => TypeOK'
    BY TypeStep DEF Step
<1> QED
    BY <1>1, <1>2, PTL DEF Spec

\* Documents and admitted requests together never exceed the limit by more than
\* the other creators (demo-limits.ts:50-64 and its callers).
THEOREM SlotsBoundedHolds ==
    ASSUME Parameters
    PROVE  Spec => []SlotsBounded
<1>1. Init => SlotsBounded
    BY SlotsInit
<1>2. TypeOK /\ SlotsBounded /\ [Step]_cappedVars => SlotsBounded'
    BY SlotsStep DEF Step
<1> QED
    BY <1>1, <1>2, TypeCorrect, PTL DEF Spec

\* user.ts:42-44: a cap overshoots by at most the concurrency level, whatever the
\* limit and however many requests race.
THEOREM OvershootBoundedHolds ==
    ASSUME Parameters
    PROVE  Spec => []OvershootBounded
<1>1. TypeOK /\ SlotsBounded => OvershootBounded
    <2> SUFFICES ASSUME TypeOK, SlotsBounded PROVE OvershootBounded
        OBVIOUS
    <2> QED
        BY Sizes DEF Parameters, SlotsBounded, OvershootBounded
<1> QED
    BY <1>1, TypeCorrect, SlotsBoundedHolds, PTL
=============================================================================
