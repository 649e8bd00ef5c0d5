--------------------------- MODULE Knockout_proofs ---------------------------
(***************************************************************************)
(* Proofs about Knockout, for fields of any size, any requests in flight   *)
(* and any number of upsets, and about the draws of Computations: brackets,*)
(* rotating and ranked nights, king of the court and round robins with     *)
(* their tables, for fields and courts up to any bound, nights of any      *)
(* length and any results, and about the point log of matches of any       *)
(* length.                                                                 *)
(***************************************************************************)
EXTENDS Knockout, Computations, FiniteSetTheorems, WellFoundedInduction, TLAPS

-----------------------------------------------------------------------------
(* Counting *)

LEMMA OneMore ==
    ASSUME NEW S, IsFiniteSet(S), NEW n \in Nat, Cardinality(S) = n, NEW x, x \notin S
    PROVE  IsFiniteSet(S \cup {x}) /\ Cardinality(S \cup {x}) = n + 1
<1>1. IsFiniteSet(S \cup {x}) /\ Cardinality(S \cup {x}) = Cardinality(S) + 1
    BY FS_AddElement, Zenon
<1> QED BY <1>1, Zenon

LEMMA PairCount ==
    ASSUME NEW a, NEW b, a # b
    PROVE  IsFiniteSet({a, b}) /\ Cardinality({a, b}) = 2
<1>1. IsFiniteSet({a}) /\ Cardinality({a}) = 1 /\ b \notin {a}
    BY FS_Singleton
<1>2. IsFiniteSet({a} \cup {b}) /\ Cardinality({a} \cup {b}) = 1 + 1
    BY <1>1, OneMore
<1>3. {a} \cup {b} = {a, b} /\ 1 + 1 = 2
    OBVIOUS
<1> QED BY <1>2, <1>3

LEMMA FourCount ==
    ASSUME NEW a, NEW b, NEW c, NEW d, a # b, a # c, a # d, b # c, b # d, c # d
    PROVE  IsFiniteSet({a, b, c, d}) /\ Cardinality({a, b, c, d}) = 4
<1>1. IsFiniteSet({a, b}) /\ Cardinality({a, b}) = 2
    BY PairCount
<1>2. c \notin {a, b} /\ d \notin {a, b} \cup {c}
    OBVIOUS
<1>3. IsFiniteSet({a, b} \cup {c}) /\ Cardinality({a, b} \cup {c}) = 2 + 1
    BY <1>1, <1>2, OneMore
<1>4. IsFiniteSet({a, b} \cup {c}) /\ Cardinality({a, b} \cup {c}) = 3
    BY <1>3
<1>5. /\ IsFiniteSet(({a, b} \cup {c}) \cup {d})
      /\ Cardinality(({a, b} \cup {c}) \cup {d}) = 3 + 1
    BY <1>2, <1>4, OneMore
<1>6. ({a, b} \cup {c}) \cup {d} = {a, b, c, d} /\ 3 + 1 = 4
    OBVIOUS
<1> QED BY <1>5, <1>6

-----------------------------------------------------------------------------
(* Numbers *)

\* A nonempty set of numbers has a least one.
LEMMA Least ==
    ASSUME NEW S, S \subseteq Nat, S # {}
    PROVE  \E n \in S : \A m \in S : n <= m
<1>0. PICK x \in S : x \in Nat
    OBVIOUS
<1> DEFINE T == {m \in S : m <= x}
           Below(t) == {m \in T : m < t}
           All == {Below(t) : t \in T}
<1>1. x \in T /\ T \subseteq 0 .. x /\ T \subseteq Nat /\ x \in Nat
    <2>1. \A m \in S : m \in Nat
        OBVIOUS
    <2>2. \A m \in T : m \in 0 .. x /\ m \in Nat
        BY <1>0, <2>1
    <2>3. x \in T
        BY <1>0
    <2> HIDE DEF T
    <2> QED BY <1>0, <2>2, <2>3
<1>2. IsFiniteSet(T)
    <2>1. IsFiniteSet(0 .. x)
        BY FS_Interval
    <2> QED BY <1>1, <2>1, FS_Subset
<1>3. All \subseteq FiniteSubsetsOf(T)
    <2>1. \A t \in T : Below(t) \subseteq T
        OBVIOUS
    <2>2. \A U \in SUBSET T : IsFiniteSet(U)
        BY <1>2, FS_Subset
    <2> QED BY <2>1, <2>2 DEF FiniteSubsetsOf
<1>4. All # {}
    BY <1>1
<1>5. IsWellFoundedOn(StrictSubsetOrdering(T), FiniteSubsetsOf(T))
    BY FS_StrictSubsetOrderingWellFounded
<1>6. IsWellFoundedOn(StrictSubsetOrdering(T), All)
    BY <1>3, <1>5, IsWellFoundedOnSubset
<1> HIDE DEF All
<1>7. PICK U \in All : \A V \in All : ~(<<V, U>> \in StrictSubsetOrdering(T))
    BY <1>4, <1>6, WFMin
<1>8. PICK n \in T : U = Below(n)
    BY DEF All
<1>9. \A m \in T : n <= m
    <2> SUFFICES ASSUME NEW m \in T, m < n PROVE FALSE
        BY <1>1
    <2>1. Below(m) \in All /\ Below(m) \subseteq T /\ Below(n) \subseteq T
        BY DEF All
    <2>2. Below(m) \subseteq Below(n) /\ m \in Below(n) /\ m \notin Below(m)
        BY <1>1
    <2>3. <<Below(m), Below(n)>> \in StrictSubsetOrdering(T)
        BY <2>1, <2>2 DEF StrictSubsetOrdering
    <2> QED BY <1>7, <1>8, <2>1, <2>3
<1>10. \A m \in S : n <= m
    <2> TAKE m \in S
    <2>1. CASE m <= x
        BY <1>9, <2>1
    <2>2. CASE ~(m <= x)
        BY <1>1, <2>2
    <2> QED BY <2>1, <2>2
<1> QED BY <1>10

\* The powers of two count subsets, which tells how they grow.
LEMMA PowCounts ==
    ASSUME NEW n \in Nat
    PROVE  /\ IsFiniteSet(SUBSET (1 .. n))
           /\ Cardinality(SUBSET (1 .. n)) = 2 ^ n
           /\ 2 ^ n \in Nat
<1>1. IsFiniteSet(1 .. n) /\ Cardinality(1 .. n) = n
    <2>1. IsFiniteSet(1 .. n) /\ Cardinality(1 .. n) = IF 1 > n THEN 0 ELSE n - 1 + 1
        BY FS_Interval
    <2> QED BY <2>1
<1>2. IsFiniteSet(SUBSET (1 .. n)) /\ Cardinality(SUBSET (1 .. n)) = 2 ^ Cardinality(1 .. n)
    BY <1>1, FS_SUBSET
<1> QED BY <1>1, <1>2, FS_CardinalityType

LEMMA PowStep ==
    ASSUME NEW n \in Nat
    PROVE  2 ^ (n + 1) = 2 * 2 ^ n
<1> DEFINE Without == SUBSET (1 .. n)
           With == [X \in Without |-> X \cup {n + 1}]
           Within == {With[X] : X \in Without}
<1>1. IsFiniteSet(Without) /\ Cardinality(Without) = 2 ^ n /\ 2 ^ n \in Nat
    BY PowCounts
<1>2. Cardinality(SUBSET (1 .. n + 1)) = 2 ^ (n + 1)
    BY PowCounts
<1>3. SUBSET (1 .. n + 1) = Without \cup Within
    <2>1. \A i \in 1 .. n + 1 : i \in 1 .. n \/ i = n + 1
        OBVIOUS
    <2>2. \A i \in 1 .. n : i \in 1 .. n + 1
        OBVIOUS
    <2>3. n + 1 \in 1 .. n + 1
        OBVIOUS
    <2>4. ASSUME NEW X \in SUBSET (1 .. n + 1)
          PROVE  X \in Without \cup Within
        <3>1. CASE n + 1 \notin X
            BY <2>1, <3>1
        <3>2. CASE n + 1 \in X
            <4>1. X \ {n + 1} \in Without
                BY <2>1
            <4>2. With[X \ {n + 1}] = X
                BY <3>2, <4>1
            <4> QED BY <4>1, <4>2
        <3> QED BY <3>1, <3>2
    <2>5. ASSUME NEW X \in Without
          PROVE  X \in SUBSET (1 .. n + 1) /\ With[X] \in SUBSET (1 .. n + 1)
        BY <2>2, <2>3
    <2>6. SUBSET (1 .. n + 1) \subseteq Without \cup Within
        BY <2>4
    <2>7. Without \subseteq SUBSET (1 .. n + 1) /\ Within \subseteq SUBSET (1 .. n + 1)
        <3> HIDE DEF Without, With
        <3> QED BY <2>5
    <2> HIDE DEF Without, Within
    <2> QED BY <2>6, <2>7
<1>4. n + 1 \notin 1 .. n
    OBVIOUS
<1>5. Without \cap Within = {}
    <2>1. \A X \in Without : n + 1 \notin X /\ n + 1 \in With[X]
        BY <1>4
    <2> QED BY <2>1
<1>6. With \in Bijection(Without, Within)
    <2>1. With \in [Without -> Within]
        OBVIOUS
    <2>2. \A X, Y \in Without : With[X] = With[Y] => X = Y
        <3> SUFFICES ASSUME NEW X \in Without, NEW Y \in Without, With[X] = With[Y] PROVE X = Y
            OBVIOUS
        <3>1. X = With[X] \ {n + 1} /\ Y = With[Y] \ {n + 1}
            BY <1>4
        <3> QED BY <3>1
    <2>3. \A Z \in Within : \E X \in Without : With[X] = Z
        OBVIOUS
    <2> QED BY <2>1, <2>2, <2>3 DEF Bijection, Injection, Surjection, IsInjective
<1>7. IsFiniteSet(Within) /\ Cardinality(Within) = Cardinality(Without)
    <2>1. ExistsBijection(Without, Within)
        BY <1>6 DEF ExistsBijection
    <2> QED BY <1>1, <2>1, FS_Bijection
<1> HIDE DEF Without, Within
<1>8. Cardinality(Without \cup Within) = Cardinality(Without) + Cardinality(Within) - Cardinality(Without \cap Within)
    BY <1>1, <1>7, FS_Union
<1>9. Cardinality(Without \cap Within) = 0
    BY <1>5, FS_EmptySet
<1> DEFINE x == 2 ^ n
<1>10. x \in Nat /\ 2 ^ (n + 1) = x + x - 0
    BY <1>1, <1>2, <1>3, <1>7, <1>8, <1>9
<1> HIDE DEF x
<1>11. 2 ^ (n + 1) = 2 * x
    BY <1>10
<1> QED BY <1>11 DEF x

LEMMA PowAbove ==
    ASSUME NEW n \in Nat
    PROVE  2 ^ n \in Nat /\ n < 2 ^ n
<1> DEFINE S == {k \in Nat : ~(k < 2 ^ k)}
<1>1. ASSUME S # {} PROVE FALSE
    <2>0. S \subseteq Nat
        OBVIOUS
    <2> HIDE DEF S
    <2>1. PICK k \in S : \A m \in S : k <= m
        BY <1>1, <2>0, Least
    <2> USE DEF S
    <2>2. 2 ^ 0 = 1
        OBVIOUS
    <2>3. k \in Nat /\ k # 0
        <3>1. ASSUME k = 0 PROVE FALSE
            <4>1. ~(0 < 2 ^ 0)
                BY <3>1
            <4> QED BY <2>2, <4>1
        <3> QED BY <3>1
    <2>4. k \in Nat /\ k - 1 \in Nat /\ ~(k < 2 ^ k) /\ 2 ^ k \in Nat /\ 2 ^ (k - 1) \in Nat
        <3>1. k - 1 \in Nat
            BY <2>3
        <3> QED BY <2>3, <3>1, PowCounts
    <2>5. k - 1 < 2 ^ (k - 1)
        BY <2>1, <2>4
    <2>6. 2 ^ k = 2 * 2 ^ (k - 1)
        <3>1. (k - 1) + 1 = k
            BY <2>4
        <3>2. 2 ^ ((k - 1) + 1) = 2 * 2 ^ (k - 1)
            BY <2>4, PowStep
        <3> QED BY <3>1, <3>2
    <2> HIDE DEF S
    <2> DEFINE x == 2 ^ (k - 1)
               y == 2 ^ k
    <2>7. x \in Nat /\ y \in Nat /\ k - 1 < x /\ y = 2 * x /\ ~(k < y)
        BY <2>4, <2>5, <2>6
    <2> HIDE DEF x, y
    <2> QED BY <2>4, <2>7
<1> QED BY <1>1, PowCounts

\* Adding the exponents, for one of them at a time
LEMMA PowSplit ==
    ASSUME NEW n \in Nat, NEW r \in 0 .. n
    PROVE  2 ^ n = 2 ^ r * 2 ^ (n - r)
<1> DEFINE S == {k \in 0 .. n : 2 ^ n # 2 ^ k * 2 ^ (n - k)}
<1>1. ASSUME S # {} PROVE FALSE
    <2>0. S \subseteq Nat
        OBVIOUS
    <2> HIDE DEF S
    <2>1. PICK k \in S : \A m \in S : k <= m
        BY <1>1, <2>0, Least
    <2> USE DEF S
    <2>2. k # 0
        <3>1. 2 ^ 0 = 1 /\ n - 0 = n
            OBVIOUS
        <3>2. 2 ^ n \in Nat
            BY PowCounts
        <3>3. 2 ^ n = 2 ^ 0 * 2 ^ (n - 0)
            BY <3>1, <3>2
        <3>4. 0 \notin S
            BY <3>3
        <3> QED BY <3>4
    <2>3. k - 1 \in 0 .. n /\ n - k \in Nat /\ k - 1 \in Nat /\ k \in Nat
        BY <2>2
    <2>4. 2 ^ n = 2 ^ (k - 1) * 2 ^ (n - (k - 1))
        BY <2>1, <2>3
    <2>5. 2 ^ k = 2 * 2 ^ (k - 1)
        <3>1. (k - 1) + 1 = k
            BY <2>3
        <3>2. 2 ^ ((k - 1) + 1) = 2 * 2 ^ (k - 1)
            BY <2>3, PowStep
        <3> QED BY <3>1, <3>2
    <2>6. 2 ^ (n - (k - 1)) = 2 * 2 ^ (n - k)
        <3>1. (n - k) + 1 = n - (k - 1)
            BY <2>3
        <3>2. 2 ^ ((n - k) + 1) = 2 * 2 ^ (n - k)
            BY <2>3, PowStep
        <3> QED BY <3>1, <3>2
    <2> DEFINE x == 2 ^ (k - 1)
               y == 2 ^ (n - k)
    <2>7. x \in Nat /\ y \in Nat
        BY <2>3, PowCounts
    <2>8. 2 ^ n = x * (2 * y) /\ 2 ^ k = 2 * x
        BY <2>4, <2>5, <2>6
    <2>9. 2 ^ n # 2 ^ k * y
        BY <2>1
    <2> HIDE DEF x, y
    <2>10. x * (2 * y) = (2 * x) * y
        BY <2>7
    <2> QED BY <2>8, <2>9, <2>10
<1> QED BY <1>1

LEMMA PowDivides ==
    ASSUME NEW n \in Nat, NEW r \in 0 .. n
    PROVE  2 ^ n \div 2 ^ r = 2 ^ (n - r)
<1> DEFINE x == 2 ^ r
           y == 2 ^ (n - r)
<1>1. n - r \in Nat /\ r \in Nat
    OBVIOUS
<1>2. x \in Nat /\ x > 0 /\ y \in Nat
    BY <1>1, PowAbove
<1>3. 2 ^ n = x * y
    BY PowSplit
<1> HIDE DEF x, y
<1>4. (x * y) \div x = y
    BY <1>2
<1> QED BY <1>3, <1>4 DEF x, y

-----------------------------------------------------------------------------
(* The tree of matches *)

LEMMA RoundsFit ==
    ASSUME NEW n \in Nat, n >= 2
    PROVE  /\ Rounds(n) \in Nat /\ Rounds(n) >= 1
           /\ 2 ^ Rounds(n) >= n
           /\ 2 ^ (Rounds(n) - 1) < n
<1> DEFINE S == {k \in 0 .. n : 2 ^ k >= n}
           Fits(k) == 2 ^ k >= n /\ \A j \in 0 .. k - 1 : 2 ^ j < n
<1>1. \E k \in 0 .. n : Fits(k)
    <2>1. n \in S
        <3>1. 2 ^ n \in Nat /\ n < 2 ^ n
            BY PowAbove
        <3>2. 2 ^ n >= n
            BY <3>1
        <3> QED BY <3>2
    <2>2. S \subseteq Nat
        OBVIOUS
    <2> HIDE DEF S
    <2>3. PICK k \in S : \A m \in S : k <= m
        BY <2>1, <2>2, Least
    <2> USE DEF S
    <2>4. ASSUME NEW j \in 0 .. k - 1
          PROVE  2 ^ j < n
        <3>1. j \in 0 .. n /\ j \in Nat /\ ~(k <= j)
            OBVIOUS
        <3>2. ~(2 ^ j >= n)
            BY <2>3, <3>1
        <3>3. 2 ^ j \in Nat
            BY <3>1, PowCounts
        <3> QED BY <3>2, <3>3
    <2> QED BY <2>4
<1>2. Rounds(n) = CHOOSE k \in 0 .. n : Fits(k)
    BY DEF Rounds
<1>3. Rounds(n) \in 0 .. n /\ Fits(Rounds(n))
    <2> HIDE DEF Fits
    <2> QED BY <1>1, <1>2
<1>4. Rounds(n) # 0
    <2>1. ASSUME Rounds(n) = 0 PROVE FALSE
        <3>1. 2 ^ 0 >= n
            BY <1>3, <2>1
        <3>2. 2 ^ 0 = 1
            OBVIOUS
        <3> QED BY <3>1, <3>2
    <2> QED BY <2>1
<1>5. Rounds(n) - 1 \in 0 .. Rounds(n) - 1 /\ Rounds(n) \in Nat /\ Rounds(n) >= 1
    BY <1>3, <1>4
<1> QED BY <1>3, <1>5

\* The number of matches of a round
Width(n, r) == Size(n) \div 2 ^ r

\* Rounds halve, down to one match.
LEMMA Widths ==
    ASSUME NEW n \in Nat, n >= 2, NEW r \in 0 .. Rounds(n)
    PROVE  /\ Width(n, r) \in Nat /\ Width(n, r) >= 1
           /\ r = Rounds(n) => Width(n, r) = 1
           /\ r < Rounds(n) => Width(n, r) = 2 * Width(n, r + 1)
<1>1. Rounds(n) \in Nat
    BY RoundsFit
<1>2. \A k \in 0 .. Rounds(n) : Width(n, k) = 2 ^ (Rounds(n) - k)
    BY <1>1, PowDivides DEF Width, Size
<1>3. Rounds(n) - r \in Nat
    BY <1>1
<1>4. Width(n, r) \in Nat /\ Width(n, r) >= 1
    <2>1. 2 ^ (Rounds(n) - r) \in Nat /\ Rounds(n) - r < 2 ^ (Rounds(n) - r)
        BY <1>3, PowAbove
    <2> QED BY <1>2, <1>3, <2>1
<1>5. ASSUME r = Rounds(n)
      PROVE  Width(n, r) = 1
    <2>1. Rounds(n) - r = 0
        BY <1>1, <1>5
    <2>2. 2 ^ 0 = 1
        OBVIOUS
    <2> QED BY <1>2, <2>1, <2>2
<1>6. ASSUME r < Rounds(n)
      PROVE  Width(n, r) = 2 * Width(n, r + 1)
    <2>1. r + 1 \in 0 .. Rounds(n) /\ Rounds(n) - (r + 1) \in Nat
          /\ (Rounds(n) - (r + 1)) + 1 = Rounds(n) - r
        BY <1>1, <1>6
    <2>2. 2 ^ ((Rounds(n) - (r + 1)) + 1) = 2 * 2 ^ (Rounds(n) - (r + 1))
        BY <2>1, PowStep
    <2> QED BY <1>2, <2>1, <2>2
<1> QED BY <1>4, <1>5, <1>6

\* Half of the first round fits into the field, the whole of it does not.
LEMMA FieldFits ==
    ASSUME NEW n \in Nat, n >= 2
    PROVE  /\ Size(n) \div 2 = Width(n, 1)
           /\ Width(n, 1) \in Nat /\ Width(n, 1) >= 1
           /\ Width(n, 1) < n /\ n <= 2 * Width(n, 1)
<1>1. 1 \in 0 .. Rounds(n) /\ 0 \in 0 .. Rounds(n) /\ 0 < Rounds(n)
    BY RoundsFit
<1>2. 2 ^ 1 = 2 /\ 2 ^ 0 = 1 /\ 0 + 1 = 1
    OBVIOUS
<1>3. Size(n) \div 2 = Width(n, 1)
    BY <1>2 DEF Width
<1>4. Width(n, 1) = 2 ^ (Rounds(n) - 1)
    BY <1>1, RoundsFit, PowDivides DEF Width, Size
<1>5. Width(n, 0) = 2 * Width(n, 1)
    BY <1>1, <1>2, Widths
<1>6. Width(n, 0) = 2 ^ Rounds(n)
    <2>1. 2 ^ Rounds(n) \div 2 ^ 0 = 2 ^ (Rounds(n) - 0)
        BY <1>1, RoundsFit, PowDivides
    <2>2. Rounds(n) - 0 = Rounds(n)
        BY RoundsFit
    <2> QED BY <2>1, <2>2 DEF Width, Size
<1>7. Width(n, 1) \in Nat /\ Width(n, 1) >= 1
    BY <1>1, Widths
<1> QED BY <1>3, <1>4, <1>5, <1>6, <1>7, RoundsFit

LEMMA NodesAre ==
    ASSUME NEW n
    PROVE  /\ \A m \in Nodes(n) : /\ m = <<m[1], m[2]>>
                                  /\ m[1] \in 1 .. Rounds(n)
                                  /\ m[2] \in 0 .. Width(n, m[1]) - 1
           /\ \A r \in 1 .. Rounds(n) : \A p \in 0 .. Width(n, r) - 1 : <<r, p>> \in Nodes(n)
<1> DEFINE Round(r) == {<<r, p>> : p \in 0 .. Width(n, r) - 1}
<1>1. Nodes(n) = UNION {Round(r) : r \in 1 .. Rounds(n)}
    BY DEF Nodes, Width
<1>2. ASSUME NEW m \in Nodes(n)
      PROVE  /\ m = <<m[1], m[2]>>
             /\ m[1] \in 1 .. Rounds(n)
             /\ m[2] \in 0 .. Width(n, m[1]) - 1
    <2>1. PICK r \in 1 .. Rounds(n) : m \in Round(r)
        BY <1>1, <1>2
    <2>2. PICK p \in 0 .. Width(n, r) - 1 : m = <<r, p>>
        BY <2>1
    <2> QED BY <2>2
<1>3. ASSUME NEW r \in 1 .. Rounds(n), NEW p \in 0 .. Width(n, r) - 1
      PROVE  <<r, p>> \in Nodes(n)
    BY <1>1
<1> QED BY <1>2, <1>3

LEMMA NextInTree ==
    ASSUME NEW n \in Nat, n >= 2, NEW m \in Nodes(n)
    PROVE  /\ m[1] \in Nat /\ m[2] \in Nat
           /\ NextOf(n, m) = None <=> m[1] = Rounds(n)
           /\ NextOf(n, m) # None =>
                 /\ NextOf(n, m) = <<m[1] + 1, m[2] \div 2>>
                 /\ NextOf(n, m) \in Nodes(n)
<1>1. /\ m[1] \in 1 .. Rounds(n) /\ m[2] \in 0 .. Width(n, m[1]) - 1
      /\ Rounds(n) \in Nat
    BY NodesAre, RoundsFit
<1>2. m[1] \in 0 .. Rounds(n) /\ m[1] \in Nat
    BY <1>1
<1>3. Width(n, m[1]) \in Nat /\ m[2] \in Nat
    BY <1>1, <1>2, Widths
<1>4. CASE m[1] = Rounds(n)
    BY <1>1, <1>2, <1>3, <1>4 DEF NextOf
<1>5. CASE m[1] # Rounds(n)
    <2> DEFINE q == m[2] \div 2
    <2>1. m[1] < Rounds(n) /\ m[1] + 1 \in 1 .. Rounds(n) /\ m[1] + 1 \in 0 .. Rounds(n)
        BY <1>1, <1>2, <1>5
    <2>2. Width(n, m[1]) = 2 * Width(n, m[1] + 1) /\ Width(n, m[1] + 1) \in Nat
        BY <1>2, <2>1, Widths
    <2>3. q \in 0 .. Width(n, m[1] + 1) - 1
        BY <1>1, <1>3, <2>2
    <2>4. <<m[1] + 1, q>> \in Nodes(n)
        BY <2>1, <2>3, NodesAre
    <2>5. NextOf(n, m) = <<m[1] + 1, q>>
        BY <2>1 DEF NextOf
    <2>6. <<m[1] + 1, q>> \in Nat \X Nat
        BY <1>2, <2>2, <2>3
    <2>7. NextOf(n, m) # None
        BY <2>5, <2>6, FieldsAssumption
    <2> QED BY <1>2, <1>3, <1>5, <2>4, <2>5, <2>7
<1> QED BY <1>4, <1>5

\* The two matches whose winners meet in m
First(m) == <<m[1] - 1, 2 * m[2]>>
Latter(m) == <<m[1] - 1, 2 * m[2] + 1>>

LEMMA FeedersAre ==
    ASSUME NEW n \in Nat, n >= 2, NEW m \in Nodes(n), m[1] > 1
    PROVE  /\ First(m) \in Nodes(n) /\ Latter(m) \in Nodes(n) /\ First(m) # Latter(m)
           /\ \A k \in Nodes(n) : NextOf(n, k) = m <=> k \in {First(m), Latter(m)}
<1>1. /\ m = <<m[1], m[2]>>
      /\ m[1] \in 1 .. Rounds(n) /\ m[2] \in 0 .. Width(n, m[1]) - 1
      /\ Rounds(n) \in Nat
    BY NodesAre, RoundsFit
<1>2. m[1] - 1 \in 1 .. Rounds(n) /\ m[1] - 1 \in 0 .. Rounds(n) /\ m[1] - 1 < Rounds(n)
      /\ (m[1] - 1) + 1 = m[1] /\ m[1] \in 0 .. Rounds(n)
    BY <1>1
<1>3. Width(n, m[1] - 1) = 2 * Width(n, m[1]) /\ Width(n, m[1]) \in Nat
    BY <1>2, Widths
<1>4. /\ m[2] \in Nat
      /\ 2 * m[2] \in 0 .. Width(n, m[1] - 1) - 1
      /\ 2 * m[2] + 1 \in 0 .. Width(n, m[1] - 1) - 1
      /\ 2 * m[2] # 2 * m[2] + 1
    BY <1>1, <1>3
<1>5. First(m) \in Nodes(n) /\ Latter(m) \in Nodes(n) /\ First(m) # Latter(m)
    BY <1>2, <1>4, NodesAre DEF First, Latter
<1>6. ASSUME NEW k \in Nodes(n), NextOf(n, k) = m
      PROVE  k \in {First(m), Latter(m)}
    <2>1. k = <<k[1], k[2]>> /\ k[1] \in Nat /\ k[2] \in Nat
        BY NodesAre, NextInTree
    <2>2. NextOf(n, k) # None
        <3>1. m \in Nat \X Nat
            BY <1>1, <1>4
        <3> QED BY <1>6, <3>1, FieldsAssumption
    <2>3. m = <<k[1] + 1, k[2] \div 2>>
        BY <1>6, <2>2, NextInTree
    <2>4. m[1] = k[1] + 1 /\ m[2] = k[2] \div 2
        BY <2>3
    <2>5. k[1] = m[1] - 1 /\ (k[2] = 2 * m[2] \/ k[2] = 2 * m[2] + 1)
        BY <2>1, <2>4
    <2> QED BY <2>1, <2>5 DEF First, Latter
<1>7. ASSUME NEW k \in {First(m), Latter(m)}
      PROVE  NextOf(n, k) = m
    <2>1. k \in Nodes(n) /\ k[1] = m[1] - 1 /\ (k[2] = 2 * m[2] \/ k[2] = 2 * m[2] + 1)
        BY <1>5 DEF First, Latter
    <2>2. k[1] < Rounds(n)
        BY <1>2, <2>1
    <2>3. k[1] + 1 = m[1] /\ k[2] \div 2 = m[2]
        <3>1. \A x \in Nat : (2 * x) \div 2 = x /\ (2 * x + 1) \div 2 = x
            OBVIOUS
        <3>2. m[2] \in Nat /\ (m[1] - 1) + 1 = m[1]
            BY <1>2, <1>4
        <3> QED BY <2>1, <3>1, <3>2
    <2> QED BY <1>1, <2>2, <2>3 DEF NextOf
<1> QED BY <1>5, <1>6, <1>7

LEMMA OneFinal ==
    ASSUME NEW n \in Nat, n >= 2
    PROVE  /\ \E m \in Nodes(n) : NextOf(n, m) = None
           /\ \A m, k \in Nodes(n) : NextOf(n, m) = None /\ NextOf(n, k) = None => m = k
<1>1. Rounds(n) \in 1 .. Rounds(n) /\ Rounds(n) \in 0 .. Rounds(n)
    BY RoundsFit
<1>2. Width(n, Rounds(n)) = 1
    BY <1>1, Widths
<1>3. 0 \in 0 .. Width(n, Rounds(n)) - 1
    BY <1>2
<1>4. <<Rounds(n), 0>> \in Nodes(n)
    BY <1>1, <1>3, NodesAre
<1>5. NextOf(n, <<Rounds(n), 0>>) = None
    BY <1>4, NextInTree
<1>6. ASSUME NEW m \in Nodes(n), NextOf(n, m) = None
      PROVE  m = <<Rounds(n), 0>>
    <2>1. m[1] = Rounds(n) /\ m = <<m[1], m[2]>> /\ m[2] \in 0 .. Width(n, m[1]) - 1
        BY <1>6, NextInTree, NodesAre
    <2>2. m[2] = 0
        BY <1>2, <2>1
    <2> QED BY <2>1, <2>2
<1> QED BY <1>4, <1>5, <1>6

-----------------------------------------------------------------------------
(* The inductive invariant *)

Undrawn == {"PENDING", "BYE"}

\* A row by itself: its winner, its status and where its players come from
RowFits(m, x) ==
    /\ x.winner # None => x.winner \in SlotsOf(x)
    /\ x.winner # None <=> x.status \in {"PENDING_CONFIRMATION", "COMPLETED", "BYE"}
    /\ x.status \notin Undrawn => x.a # None /\ x.b # None
    /\ IF m[1] = 1
       THEN /\ x.status # "PENDING"
            /\ x.a = Opening(field, m[2]).a
            /\ x.b = Opening(field, m[2]).b
       ELSE /\ x.status # "BYE"
            /\ SlotsOf(x) \subseteq SlotsOf(fixture[First(m)]) \cup SlotsOf(fixture[Latter(m)])

RowSound(m) == RowFits(m, fixture[m])

RowsSound == \A m \in Match : RowSound(m)

ChampionSound ==
    champion # None => \E m \in Match : NextMatch(m) = None /\ champion \in SlotsOf(fixture[m])

\* What a request still knows of the match it read
Knows(r) ==
    LET q == req[r] IN
    /\ q.pc = "idle" => q = Idle
    /\ q.pc # "idle" => q.match \in Match /\ fixture[q.match].status \notin Undrawn
    /\ q.pc \in {"report", "complete", "place", "ready", "crown"} =>
          q.winner # None /\ q.winner \in SlotsOf(fixture[q.match])
    /\ q.pc = "report" => q.by \in Player
    /\ q.pc \in {"place", "ready"} => NextMatch(q.match) # None
    /\ q.pc = "crown" => NextMatch(q.match) = None

RequestsSound == \A r \in Req : Knows(r)

\* In a calm run, no two requests work on one match,
Alone ==
    \A r, s \in Req : r # s /\ req[r].pc # "idle" /\ req[s].pc # "idle" =>
        req[r].match # req[s].match

\* and a request finds the match as it expects it.
Holds(r) ==
    LET x == fixture[req[r].match] IN
    /\ req[r].pc \in {"report", "complete", "reread", "clear"} =>
          x.status \in {"READY", "PENDING_CONFIRMATION"}
    /\ req[r].pc \in {"place", "ready", "crown"} =>
          x.status = "COMPLETED" /\ x.winner = req[r].winner

\* The winner of k who sits in the next match, None until he does
Came(k) ==
    IF \E r \in Req : req[r].pc = "place" /\ req[r].match = k
    THEN None ELSE Decided(fixture[k])

\* In the slots of a later match sit the winners of the two matches before it.
Filled(m) ==
    \/ fixture[m].a = Came(First(m)) /\ fixture[m].b = Came(Latter(m))
    \/ fixture[m].a = Came(Latter(m)) /\ fixture[m].b = Came(First(m))

\* A match that could be played is about to be opened.
Awaited(m) ==
    fixture[m].status = "PENDING" /\ fixture[m].a # None /\ fixture[m].b # None =>
        \E r \in Req : req[r].pc = "ready" /\ NextMatch(req[r].match) = m

Crowning == \E r \in Req : req[r].pc = "crown"

FinalSound(m) ==
    NextMatch(m) = None =>
        /\ Decided(fixture[m]) # None /\ status = "ONGOING" => Crowning
        /\ champion # None => fixture[m].status = "COMPLETED"

CalmSound ==
    calm =>
        /\ Alone
        /\ \A r \in Req : Holds(r)
        /\ \A m \in Match : /\ m[1] # 1 => Filled(m)
                            /\ Awaited(m)
                            /\ FinalSound(m)
        /\ Crowning => champion = None

IInv ==
    /\ TypeOK
    /\ RowsSound
    /\ ChampionSound
    /\ RequestsSound
    /\ CalmSound

-----------------------------------------------------------------------------
(* The draw *)

LEMMA FieldIs ==
    ASSUME field \in Fields
    PROVE  /\ Len(field) \in Nat /\ Len(field) >= 2
           /\ \A i \in 1 .. Len(field) : field[i] \in Player
           /\ None \notin Player
<1>1. field \in Seq({field[i] : i \in DOMAIN field}) /\ Len(field) >= 2
      /\ None \notin {field[i] : i \in DOMAIN field}
    BY FieldsAssumption
<1>2. Len(field) \in Nat /\ DOMAIN field = 1 .. Len(field)
    BY <1>1
<1> QED BY <1>1, <1>2 DEF Player

\* What the tree lemmas say of the matches of the field
LEMMA TreeIs ==
    ASSUME field \in Fields
    PROVE  /\ None \notin Match
           /\ \A m \in Match :
                /\ m[1] \in Nat /\ m[2] \in Nat /\ m[1] >= 1
                /\ m[2] \in 0 .. Width(Len(field), m[1]) - 1
                /\ NextMatch(m) # None =>
                      /\ NextMatch(m) \in Match
                      /\ NextMatch(m)[1] = m[1] + 1
                      /\ m \in {First(NextMatch(m)), Latter(NextMatch(m))}
                /\ m[1] # 1 =>
                      /\ First(m) \in Match /\ Latter(m) \in Match /\ First(m) # Latter(m)
                      /\ First(m)[1] = m[1] - 1 /\ Latter(m)[1] = m[1] - 1
                      /\ \A k \in Match : NextMatch(k) = m <=> k \in {First(m), Latter(m)}
           /\ \E m \in Match : NextMatch(m) = None
           /\ \A m, k \in Match : NextMatch(m) = None /\ NextMatch(k) = None => m = k
<1> DEFINE n == Len(field)
<1>1. n \in Nat /\ n >= 2
    BY FieldIs
<1>2. Match = Nodes(n) /\ \A m : NextMatch(m) = NextOf(n, m)
    BY DEF Match, NextMatch
<1> HIDE DEF n
<1>3. ASSUME NEW m \in Nodes(n)
      PROVE  /\ m[1] \in Nat /\ m[2] \in Nat /\ m[1] >= 1 /\ m \in Nat \X Nat
             /\ m[2] \in 0 .. Width(n, m[1]) - 1
    <2>1. /\ m = <<m[1], m[2]>>
          /\ m[1] \in 1 .. Rounds(n)
          /\ m[2] \in 0 .. Width(n, m[1]) - 1
        BY NodesAre
    <2>2. m[1] \in Nat /\ m[2] \in Nat
        BY <1>1, NextInTree
    <2> QED BY <1>1, <2>1, <2>2, RoundsFit
<1>4. None \notin Nodes(n)
    BY <1>3, FieldsAssumption
<1>5. ASSUME NEW m \in Nodes(n), m[1] # 1
      PROVE  /\ First(m) \in Nodes(n) /\ Latter(m) \in Nodes(n) /\ First(m) # Latter(m)
             /\ First(m)[1] = m[1] - 1 /\ Latter(m)[1] = m[1] - 1
             /\ \A k \in Nodes(n) : NextOf(n, k) = m <=> k \in {First(m), Latter(m)}
    <2>1. m[1] > 1
        BY <1>3, <1>5
    <2> QED BY <1>1, <2>1, FeedersAre DEF First, Latter
<1>6. ASSUME NEW m \in Nodes(n), NextOf(n, m) # None
      PROVE  /\ NextOf(n, m) \in Nodes(n)
             /\ NextOf(n, m)[1] = m[1] + 1
             /\ m \in {First(NextOf(n, m)), Latter(NextOf(n, m))}
    <2>1. NextOf(n, m) \in Nodes(n) /\ NextOf(n, m)[1] = m[1] + 1
        BY <1>1, <1>6, NextInTree
    <2>2. NextOf(n, m)[1] # 1
        BY <1>3, <2>1
    <2> QED BY <1>5, <2>1, <2>2
<1>7. /\ \E m \in Nodes(n) : NextOf(n, m) = None
      /\ \A m, k \in Nodes(n) : NextOf(n, m) = None /\ NextOf(n, k) = None => m = k
    BY <1>1, OneFinal
<1> QED BY <1>2, <1>3, <1>4, <1>5, <1>6, <1>7 DEF n

\* A first match has two players, or one who has a bye.
LEMMA OpeningIs ==
    ASSUME field \in Fields, NEW p \in 0 .. Width(Len(field), 1) - 1
    PROVE  \/ \E a, b \in Player : Opening(field, p) = Node(a, b, None, "READY")
           \/ \E a \in Player : Opening(field, p) = Node(a, None, a, "BYE")
<1> DEFINE n == Len(field)
           half == Width(n, 1)
           real == n - half
<1>1. /\ n \in Nat /\ half \in Nat /\ Size(n) \div 2 = half
      /\ half < n /\ n <= 2 * half
    BY FieldIs, FieldFits
<1>2. real \in Nat /\ p \in Nat /\ p < half
    BY <1>1
<1>3. Opening(field, p) = IF p < real
                          THEN Node(field[2 * p + 1], field[2 * p + 2], None, "READY")
                          ELSE Node(field[real + p + 1], None, field[real + p + 1], "BYE")
    BY <1>1 DEF Opening
<1> HIDE DEF half
<1>4. CASE p < real
    <2>1. 2 * p + 1 \in 1 .. n /\ 2 * p + 2 \in 1 .. n
        BY <1>1, <1>2, <1>4
    <2>2. field[2 * p + 1] \in Player /\ field[2 * p + 2] \in Player
        BY <2>1, FieldIs
    <2> QED BY <1>3, <1>4, <2>2
<1>5. CASE ~(p < real)
    <2>1. real + p + 1 \in 1 .. n
        BY <1>1, <1>2, <1>5
    <2>2. field[real + p + 1] \in Player
        BY <2>1, FieldIs
    <2> QED BY <1>3, <1>5, <2>2
<1> QED BY <1>4, <1>5

LEMMA InitIInv == Init => IInv
<1> SUFFICES ASSUME Init PROVE IInv
    OBVIOUS
<1>1. /\ field \in Fields /\ status = "ONGOING" /\ champion = None
      /\ req = [r \in Req |-> Idle] /\ upsets = 0 /\ calm = TRUE
      /\ fixture = [m \in Match |-> Stored(BuildSingleElim(field)[m])]
    BY DEF Init, Match
<1>2. Idle.pc = "idle" /\ \A r \in Req : req[r] = Idle /\ req[r].pc = "idle"
    BY <1>1 DEF Idle
<1>3. ASSUME NEW m \in Match
      PROVE  fixture[m] = Stored(CASE m[1] = 1 -> Opening(field, m[2])
                                   [] m[1] = 2 -> Second(field, m[2])
                                   [] OTHER    -> Node(None, None, None, "PENDING"))
    <2>1. fixture[m] = Stored(BuildSingleElim(field)[m])
        BY <1>1
    <2> QED BY <2>1 DEF BuildSingleElim, Match
<1>4. ASSUME NEW m \in Match, m[1] = 1
      PROVE  /\ fixture[m] = Stored(Opening(field, m[2]))
             /\ \/ \E a, b \in Player : Opening(field, m[2]) = Node(a, b, None, "READY")
                \/ \E a \in Player : Opening(field, m[2]) = Node(a, None, a, "BYE")
    <2>1. fixture[m] = Stored(Opening(field, m[2]))
        BY <1>3, <1>4
    <2>2. m[2] \in 0 .. Width(Len(field), 1) - 1
        BY <1>1, <1>4, TreeIs
    <2> QED BY <1>1, <2>1, <2>2, OpeningIs
<1>5. None \notin Player
    BY <1>1, FieldIs
<1>6. ASSUME NEW m \in Match, m[1] = 1
      PROVE  /\ fixture[m] \in Fixture /\ RowSound(m)
             /\ Decided(fixture[m]) = Opening(field, m[2]).winner
             /\ Decided(fixture[m]) # None => Decided(fixture[m]) \in SlotsOf(fixture[m])
             /\ fixture[m].status # "PENDING"
    <2>1. CASE \E a, b \in Player : Opening(field, m[2]) = Node(a, b, None, "READY")
        <3>1. PICK a \in Player, b \in Player : Opening(field, m[2]) = Node(a, b, None, "READY")
            BY <2>1
        <3>2. fixture[m] = [a |-> a, b |-> b, winner |-> None, status |-> "READY",
                            reportedBy |-> None]
            BY <1>4, <1>6, <3>1 DEF Stored, Node
        <3>3. Opening(field, m[2]).a = a /\ Opening(field, m[2]).b = b
              /\ Opening(field, m[2]).winner = None
            BY <3>1 DEF Node
        <3> QED BY <1>5, <1>6, <3>2, <3>3 DEF Fixture, RowSound, RowFits, Decided, Undrawn
    <2>2. CASE \E a \in Player : Opening(field, m[2]) = Node(a, None, a, "BYE")
        <3>1. PICK a \in Player : Opening(field, m[2]) = Node(a, None, a, "BYE")
            BY <2>2
        <3>2. fixture[m] = [a |-> a, b |-> None, winner |-> a, status |-> "BYE",
                            reportedBy |-> None]
            BY <1>4, <1>6, <3>1 DEF Stored, Node
        <3>3. Opening(field, m[2]).a = a /\ Opening(field, m[2]).b = None
              /\ Opening(field, m[2]).winner = a
            BY <3>1 DEF Node
        <3> QED BY <1>5, <1>6, <3>2, <3>3 DEF Fixture, RowSound, RowFits, Decided, Undrawn, SlotsOf
    <2> QED BY <1>4, <1>6, <2>1, <2>2
<1>7. \A k : Came(k) = Decided(fixture[k])
    BY <1>2 DEF Came
<1>8. ASSUME NEW m \in Match, m[1] # 1
      PROVE  /\ First(m) \in Match /\ Latter(m) \in Match
             /\ fixture[m] \in Fixture /\ RowSound(m)
             /\ Decided(fixture[m]) = None
             /\ Filled(m) /\ Awaited(m)
    <2>1. /\ First(m) \in Match /\ Latter(m) \in Match
          /\ First(m)[1] = m[1] - 1 /\ Latter(m)[1] = m[1] - 1
          /\ m[1] \in Nat
        BY <1>1, <1>8, TreeIs
    <2>2. CASE m[1] = 2
        <3> DEFINE a == Opening(field, 2 * m[2]).winner
                   b == Opening(field, 2 * m[2] + 1).winner
        <3>1. First(m)[1] = 1 /\ First(m)[2] = 2 * m[2] /\ Latter(m)[1] = 1 /\ Latter(m)[2] = 2 * m[2] + 1
            BY <2>2 DEF First, Latter
        <3>2. /\ Decided(fixture[First(m)]) = a /\ (a # None => a \in SlotsOf(fixture[First(m)]))
              /\ Decided(fixture[Latter(m)]) = b /\ (b # None => b \in SlotsOf(fixture[Latter(m)]))
              /\ fixture[First(m)] \in Fixture /\ fixture[Latter(m)] \in Fixture
            BY <1>6, <2>1, <3>1
        <3>3. a \in Player \cup {None} /\ b \in Player \cup {None}
            BY <3>2 DEF Fixture, SlotsOf
        <3>4. fixture[m] = Stored(Second(field, m[2]))
            BY <1>3, <2>2
        <3> DEFINE st == IF a # None /\ b # None THEN "READY" ELSE "PENDING"
        <3>5. fixture[m] = [a |-> a, b |-> b, winner |-> None, status |-> st, reportedBy |-> None]
            BY <3>4 DEF Stored, Second, Node
        <3> HIDE DEF a, b
        <3>6. fixture[m] \in Fixture
            BY <3>3, <3>5 DEF Fixture
        <3>7. fixture[m].winner = None /\ fixture[m].status = st
              /\ fixture[m].a = a /\ fixture[m].b = b
            BY <3>5
        <3>8. Decided(fixture[m]) = None
            BY <3>7 DEF Decided
        <3>9. RowSound(m)
            BY <1>8, <3>2, <3>7 DEF RowSound, RowFits, Undrawn, SlotsOf
        <3>10. Filled(m) /\ Awaited(m)
            BY <1>7, <3>2, <3>7 DEF Filled, Awaited
        <3> QED BY <2>1, <3>6, <3>8, <3>9, <3>10
    <2>3. CASE m[1] # 2
        <3>1. fixture[m] = Stored(Node(None, None, None, "PENDING"))
            BY <1>3, <1>8, <2>3
        <3>2. fixture[m] = [a |-> None, b |-> None, winner |-> None, status |-> "PENDING",
                            reportedBy |-> None]
            BY <3>1 DEF Stored, Node
        <3>3. fixture[m] \in Fixture
            BY <3>2 DEF Fixture
        <3>4. ASSUME NEW k \in {First(m), Latter(m)}
              PROVE  Decided(fixture[k]) = None
            <4>1. k \in Match /\ k[1] # 1
                BY <1>8, <2>1, <2>3
            <4>2. CASE k[1] = 2
                <5>1. fixture[k] = Stored(Second(field, k[2]))
                    BY <1>3, <4>1, <4>2
                <5> QED BY <5>1 DEF Stored, Second, Node, Decided
            <4>3. CASE k[1] # 2
                <5>1. fixture[k] = Stored(Node(None, None, None, "PENDING"))
                    BY <1>3, <4>1, <4>3
                <5> QED BY <5>1 DEF Stored, Node, Decided
            <4> QED BY <4>2, <4>3
        <3>5. RowSound(m)
            BY <1>8, <3>2 DEF RowSound, RowFits, Undrawn, SlotsOf
        <3>6. Filled(m) /\ Awaited(m)
            BY <1>7, <3>2, <3>4 DEF Filled, Awaited
        <3>7. Decided(fixture[m]) = None
            BY <3>2 DEF Decided
        <3> QED BY <2>1, <3>3, <3>5, <3>6, <3>7
    <2> QED BY <2>2, <2>3
<1>9. TypeOK
    <2>1. Idle \in Request
        BY DEF Idle, Request
    <2>2. req \in [Req -> Request]
        BY <1>1, <2>1
    <2>3. fixture \in [Match -> Fixture]
        BY <1>1, <1>6, <1>8
    <2>4. upsets \in 0 .. MaxUpsets
        BY <1>1, FieldsAssumption
    <2> QED BY <1>1, <2>2, <2>3, <2>4 DEF TypeOK
<1>10. RowsSound
    BY <1>6, <1>8 DEF RowsSound
<1>11. RequestsSound
    BY <1>2 DEF RequestsSound, Knows
<1>12. CalmSound
    <2>1. Alone /\ (\A r \in Req : Holds(r)) /\ ~Crowning
        BY <1>2 DEF Alone, Holds, Crowning
    <2>2. ASSUME NEW m \in Match
          PROVE  /\ m[1] # 1 => Filled(m)
                 /\ Awaited(m)
        <3>1. CASE m[1] = 1
            BY <1>6, <3>1 DEF Awaited
        <3>2. CASE m[1] # 1
            BY <1>8, <3>2
        <3> QED BY <3>1, <3>2
    <2>3. ASSUME NEW m \in Match, NextMatch(m) = None
          PROVE  Decided(fixture[m]) = None
        <3>1. CASE m[1] # 1
            BY <1>8, <3>1
        <3>2. CASE m[1] = 1
            <4> DEFINE n == Len(field)
            <4>1. n \in Nat /\ n >= 2 /\ Rounds(n) = 1
                BY <1>1, <2>3, <3>2, FieldIs, NextInTree DEF Match, NextMatch
            <4>2. Width(n, 1) = 1
                BY <4>1, Widths
            <4>3. n <= 2 /\ Size(n) \div 2 = 1
                BY <4>1, <4>2, FieldFits
            <4>4. m[2] = 0
                <5>1. m[2] \in 0 .. Width(n, 1) - 1
                    BY <1>1, <3>2, TreeIs
                <5> QED BY <4>2, <5>1
            <4>5. Opening(field, 0) = Node(field[2 * 0 + 1], field[2 * 0 + 2], None, "READY")
                <5>1. n - 1 > 0
                    BY <4>1
                <5> QED BY <4>3, <5>1 DEF Opening
            <4> QED BY <1>6, <3>2, <4>4, <4>5 DEF Node
        <3> QED BY <3>1, <3>2
    <2> QED BY <1>1, <2>1, <2>2, <2>3 DEF CalmSound, FinalSound
<1>13. ChampionSound
    BY <1>1 DEF ChampionSound
<1> QED BY <1>9, <1>10, <1>11, <1>12, <1>13 DEF IInv

-----------------------------------------------------------------------------
(* What a step leaves alone *)

LEMMA Unmoved ==
    ASSUME field' = field
    PROVE  /\ Match' = Match /\ Player' = Player /\ Caller' = Caller
           /\ Fixture' = Fixture /\ Request' = Request
           /\ \A m : NextMatch(m)' = NextMatch(m)
<1>1. Match' = Match /\ Player' = Player /\ \A m : NextMatch(m)' = NextMatch(m)
    BY DEF Match, Player, NextMatch
<1> QED BY <1>1 DEF Caller, Fixture, Request

\* A player who took a slot keeps it, and an open match stays drawn.
Grows(m) ==
    /\ fixture[m].a # None => fixture'[m].a = fixture[m].a
    /\ fixture[m].b # None => fixture'[m].b = fixture[m].b
    /\ fixture[m].status \notin Undrawn => fixture'[m].status \notin Undrawn

Grown ==
    /\ field' = field
    /\ fixture' \in [Match -> Fixture]
    /\ RowsSound'
    /\ \A m \in Match : Grows(m)

LEMMA NoWrite ==
    ASSUME IInv, field' = field, fixture' = fixture
    PROVE  Grown
<1>1. RowsSound'
    BY Unmoved DEF IInv, RowsSound, RowSound, RowFits
<1>2. fixture' \in [Match -> Fixture]
    BY DEF IInv, TypeOK
<1> QED BY <1>1, <1>2 DEF Grown, Grows

LEMMA OneWrite ==
    ASSUME IInv, field' = field, NEW k \in Match, NEW x \in Fixture, Write(k, x),
           RowFits(k, x),
           fixture[k].a # None => x.a = fixture[k].a,
           fixture[k].b # None => x.b = fixture[k].b,
           fixture[k].status \notin Undrawn => x.status \notin Undrawn
    PROVE  /\ Grown
           /\ fixture'[k] = x
           /\ \A m \in Match : m # k => fixture'[m] = fixture[m]
<1>1. fixture \in [Match -> Fixture] /\ field \in Fields /\ RowsSound
    BY DEF IInv, TypeOK
<1>2. /\ fixture' = [fixture EXCEPT ![k] = x] /\ fixture' \in [Match -> Fixture]
      /\ fixture'[k] = x
      /\ \A m \in Match : m # k => fixture'[m] = fixture[m]
    BY <1>1 DEF Write
<1>3. \A m \in Match : Grows(m)
    <2> TAKE m \in Match
    <2>1. CASE m = k
        BY <1>2, <2>1 DEF Grows
    <2>2. CASE m # k
        BY <1>2, <2>2 DEF Grows
    <2> QED BY <2>1, <2>2
<1>4. \A m \in Match : SlotsOf(fixture[m]) \subseteq SlotsOf(fixture'[m])
    BY <1>3 DEF Grows, SlotsOf
<1>5. ASSUME NEW m \in Match
      PROVE  RowFits(m, fixture'[m])
    <2>1. CASE m = k
        BY <1>2, <2>1
    <2>2. CASE m # k
        BY <1>1, <1>2, <2>2 DEF RowsSound, RowSound
    <2> QED BY <2>1, <2>2
<1>6. ASSUME NEW m \in Match
      PROVE  RowSound(m)'
    <2>1. m[1] # 1 => First(m) \in Match /\ Latter(m) \in Match
        BY <1>1, TreeIs
    <2>2. m[1] # 1 => /\ SlotsOf(fixture[First(m)]) \subseteq SlotsOf(fixture'[First(m)])
                      /\ SlotsOf(fixture[Latter(m)]) \subseteq SlotsOf(fixture'[Latter(m)])
        BY <1>4, <2>1
    <2> DEFINE y == fixture'[m]
    <2>3. RowFits(m, y)
        BY <1>5
    <2>4. RowSound(m)' <=>
            /\ y.winner # None => y.winner \in SlotsOf(y)
            /\ y.winner # None <=> y.status \in {"PENDING_CONFIRMATION", "COMPLETED", "BYE"}
            /\ y.status \notin Undrawn => y.a # None /\ y.b # None
            /\ IF m[1] = 1
               THEN /\ y.status # "PENDING"
                    /\ y.a = Opening(field, m[2]).a
                    /\ y.b = Opening(field, m[2]).b
               ELSE /\ y.status # "BYE"
                    /\ SlotsOf(y) \subseteq SlotsOf(fixture'[First(m)]) \cup SlotsOf(fixture'[Latter(m)])
        BY DEF RowSound, RowFits, SlotsOf
    <2> HIDE DEF y
    <2> QED BY <2>2, <2>3, <2>4 DEF RowFits
<1>7. RowsSound'
    BY <1>6, Unmoved DEF RowsSound
<1> QED BY <1>2, <1>3, <1>7 DEF Grown

LEMMA SlotsGrow ==
    ASSUME Grown, NEW m \in Match
    PROVE  SlotsOf(fixture[m]) \subseteq SlotsOf(fixture'[m])
BY DEF Grown, Grows, SlotsOf

\* A request that is not the one of the step
LEMMA KnowsStill ==
    ASSUME IInv, Grown, NEW r \in Req, req'[r] = req[r]
    PROVE  Knows(r)'
<1>1. Knows(r) /\ req[r] \in Request
    BY DEF IInv, RequestsSound, TypeOK
<1>2. \A m : NextMatch(m)' = NextMatch(m)
    BY Unmoved DEF Grown
<1>3. Match' = Match
    BY Unmoved DEF Grown
<1>4. \A m \in Match :
        /\ SlotsOf(fixture[m]) \subseteq SlotsOf(fixture'[m])
        /\ fixture[m].status \notin Undrawn => fixture'[m].status \notin Undrawn
    BY SlotsGrow DEF Grown, Grows
<1> DEFINE q == req[r]
           y == fixture'[q.match]
           n == NextOf(Len(field'), q.match)
<1>5. n = NextMatch(q.match)
    BY DEF NextMatch, Grown
<1>6. Knows(r)' <=>
        /\ q.pc = "idle" => q = Idle
        /\ q.pc # "idle" => q.match \in Match /\ y.status \notin Undrawn
        /\ q.pc \in {"report", "complete", "place", "ready", "crown"} =>
              q.winner # None /\ q.winner \in SlotsOf(y)
        /\ q.pc = "report" => q.by \in Player
        /\ q.pc \in {"place", "ready"} => n # None
        /\ q.pc = "crown" => n = None
    BY <1>3, Unmoved DEF Knows, SlotsOf, NextMatch, Grown, Idle
<1>7. q.match \in Match =>
        /\ SlotsOf(fixture[q.match]) \subseteq SlotsOf(y)
        /\ fixture[q.match].status \notin Undrawn => y.status \notin Undrawn
    <2> DEFINE k == q.match
    <2> SUFFICES ASSUME k \in Match
                 PROVE  /\ SlotsOf(fixture[k]) \subseteq SlotsOf(fixture'[k])
                        /\ fixture[k].status \notin Undrawn => fixture'[k].status \notin Undrawn
        OBVIOUS
    <2> HIDE DEF k
    <2> QED BY <1>4
<1> HIDE DEF y, n
<1>8. q.pc \in {"report", "complete", "place", "ready", "crown"} => q.pc # "idle"
    OBVIOUS
<1> QED BY <1>1, <1>5, <1>6, <1>7, <1>8 DEF Knows

\* Only the request r moves.
Turn(r) ==
    /\ req' \in [Req -> Request]
    /\ \A s \in Req : s # r => req'[s] = req[s]


LEMMA IdleIs ==
    /\ Idle \in Request /\ Idle.pc = "idle" /\ Idle.match = None
    /\ Idle = [pc |-> "idle", match |-> None, by |-> None, winner |-> None]
BY DEF Idle, Request

LEMMA FinishIs ==
    ASSUME IInv, field' = field, NEW r \in Req, Finish(r)
    PROVE  Turn(r) /\ req'[r] = Idle /\ Knows(r)'
<1>1. req' = [req EXCEPT ![r] = Idle] /\ req \in [Req -> Request]
    BY DEF Finish, IInv, TypeOK
<1>2. Turn(r) /\ req'[r] = Idle
    BY <1>1, IdleIs DEF Turn
<1>3. req'[r].pc = "idle"
    BY <1>2, IdleIs
<1>4. Knows(r)'
    BY <1>2, <1>3 DEF Knows, Idle
<1> QED BY <1>2, <1>4

LEMMA SafeKeeps ==
    ASSUME IInv, Grown, NEW r \in Req, Turn(r), Knows(r)',
           status' \in {"ONGOING", "COMPLETED"}, champion' \in Player \cup {None},
           upsets' \in 0 .. MaxUpsets, calm' \in BOOLEAN
    PROVE  /\ TypeOK' /\ RowsSound' /\ RequestsSound'
           /\ champion' = champion => ChampionSound'
<1>1. /\ Match' = Match /\ Player' = Player /\ Fixture' = Fixture /\ Request' = Request
      /\ \A m : NextMatch(m)' = NextMatch(m)
    BY Unmoved DEF Grown
<1>2. TypeOK'
    <2>1. field' \in Fields
        BY DEF IInv, TypeOK, Grown
    <2>2. fixture' \in [Match' -> Fixture']
        BY <1>1 DEF Grown
    <2>3. req' \in [Req -> Request']
        BY <1>1 DEF Turn
    <2> QED BY <1>1, <2>1, <2>2, <2>3 DEF TypeOK
<1>3. ASSUME NEW s \in Req
      PROVE  Knows(s)'
    <2>1. CASE s = r
        BY <2>1
    <2>2. CASE s # r
        BY <2>2, KnowsStill DEF Turn
    <2> QED BY <2>1, <2>2
<1>4. RequestsSound'
    BY <1>3 DEF RequestsSound
<1>5. ASSUME champion' = champion
      PROVE  ChampionSound'
    <2>1. ASSUME champion # None
          PROVE  \E m \in Match : NextMatch(m) = None /\ champion \in SlotsOf(fixture'[m])
        <3>1. PICK m \in Match : NextMatch(m) = None /\ champion \in SlotsOf(fixture[m])
            BY <2>1 DEF IInv, ChampionSound
        <3> QED BY <3>1, SlotsGrow
    <2>2. ChampionSound' <=>
            (champion' # None =>
                \E m \in Match' : NextMatch(m)' = None /\ champion' \in SlotsOf(fixture'[m]))
        BY DEF ChampionSound, SlotsOf
    <2> QED BY <1>1, <1>5, <2>1, <2>2
<1> QED BY <1>2, <1>4, <1>5 DEF Grown

Advancing == {"place", "ready", "crown"}

\* What a later match and the final need to know of a row
Same(m) ==
    /\ fixture'[m].a = fixture[m].a
    /\ fixture'[m].b = fixture[m].b
    /\ Decided(fixture'[m]) = Decided(fixture[m])
    /\ fixture'[m].status = "PENDING" <=> fixture[m].status = "PENDING"
    /\ fixture'[m].status = "COMPLETED" <=> fixture[m].status = "COMPLETED"

\* The tree in a calm run
TreeSound ==
    /\ \A m \in Match : /\ m[1] # 1 => Filled(m)
                        /\ Awaited(m)
                        /\ FinalSound(m)
    /\ Crowning => champion = None

\* A step that decides nothing and seats nobody
LEMMA QuietStep ==
    ASSUME IInv, calm, Grown, NEW r \in Req, Turn(r), status' = status, champion' = champion,
           req[r].pc \notin Advancing, req'[r].pc \notin Advancing,
           \A m \in Match : Same(m)
    PROVE  TreeSound'
<1>1. /\ Match' = Match /\ \A m : NextMatch(m)' = NextMatch(m)
    BY Unmoved DEF Grown
<1>2. TreeSound /\ field \in Fields
    BY DEF IInv, CalmSound, TreeSound, TypeOK
<1>3. \A s \in Req : req[s].pc \in Advancing \/ req'[s].pc \in Advancing => req'[s] = req[s]
    BY DEF Turn
<1>4. ASSUME NEW k \in Match
      PROVE  Came(k)' = Came(k)
    <2>1. (\E s \in Req : req'[s].pc = "place" /\ req'[s].match = k)
          <=> \E s \in Req : req[s].pc = "place" /\ req[s].match = k
        BY <1>3 DEF Advancing
    <2>2. Decided(fixture[k])' = Decided(fixture[k])
        BY DEF Same, Decided
    <2> QED BY <2>1, <2>2 DEF Came
<1>5. ASSUME NEW m \in Match, m[1] # 1
      PROVE  Filled(m)'
    <2>1. First(m) \in Match /\ Latter(m) \in Match
        BY <1>2, <1>5, TreeIs
    <2>2. Filled(m) /\ Came(First(m))' = Came(First(m)) /\ Came(Latter(m))' = Came(Latter(m))
        BY <1>2, <1>4, <1>5, <2>1 DEF TreeSound
    <2>3. fixture'[m].a = fixture[m].a /\ fixture'[m].b = fixture[m].b
        BY DEF Same
    <2> QED BY <2>2, <2>3 DEF Filled
<1>6. ASSUME NEW m \in Match
      PROVE  Awaited(m)'
    <2>1. Awaited(m) /\ Same(m)
        BY <1>2 DEF TreeSound
    <2>2. ASSUME NEW s \in Req, req[s].pc = "ready", NextMatch(req[s].match) = m
          PROVE  req'[s].pc = "ready" /\ NextMatch(req[s].match)' = m
        <3>1. req'[s] = req[s]
            BY <1>3, <2>2 DEF Advancing
        <3>2. NextMatch(req[s].match)' = NextMatch(req[s].match)
            BY <3>1 DEF NextMatch, Grown
        <3> QED BY <2>2, <3>1, <3>2
    <2> QED BY <2>1, <2>2 DEF Awaited, Same
<1>7. Crowning' <=> Crowning
    BY <1>3 DEF Crowning, Advancing
<1>8. ASSUME NEW m \in Match
      PROVE  FinalSound(m)'
    <2>1. FinalSound(m) /\ Same(m) /\ NextMatch(m)' = NextMatch(m)
        BY <1>1, <1>2 DEF TreeSound
    <2>2. Decided(fixture[m])' = Decided(fixture[m])
        BY <2>1 DEF Same, Decided
    <2> QED BY <1>7, <2>1, <2>2 DEF FinalSound, Same
<1> QED BY <1>1, <1>2, <1>5, <1>6, <1>7, <1>8 DEF TreeSound

LEMMA CalmFromTree ==
    ASSUME calm' => Alone' /\ (\A s \in Req : Holds(s)') /\ TreeSound'
    PROVE  CalmSound'
BY DEF CalmSound, TreeSound

LEMMA HoldsStill ==
    ASSUME NEW s \in Req, Holds(s), req'[s] = req[s],
           req[s].pc # "idle" =>
              /\ fixture'[req[s].match].winner = fixture[req[s].match].winner
              /\ fixture[req[s].match].status # "PENDING" =>
                    fixture'[req[s].match].status = fixture[req[s].match].status
    PROVE  Holds(s)'
<1> DEFINE y == fixture'[req[s].match]
           x == fixture[req[s].match]
           q == req[s]
<1>1. Holds(s)' <=>
        /\ q.pc \in {"report", "complete", "reread", "clear"} =>
              y.status \in {"READY", "PENDING_CONFIRMATION"}
        /\ q.pc \in {"place", "ready", "crown"} => y.status = "COMPLETED" /\ y.winner = q.winner
    BY DEF Holds
<1>2. q.pc # "idle" => y.winner = x.winner /\ (x.status # "PENDING" => y.status = x.status)
    OBVIOUS
<1>3. /\ q.pc \in {"report", "complete", "reread", "clear"} =>
              x.status \in {"READY", "PENDING_CONFIRMATION"}
      /\ q.pc \in {"place", "ready", "crown"} => x.status = "COMPLETED" /\ x.winner = q.winner
    BY DEF Holds
<1> HIDE DEF x, y, q
<1> QED BY <1>1, <1>2, <1>3

LEMMA AloneStill ==
    ASSUME Alone, NEW r \in Req, Turn(r),
           req'[r].pc # "idle" => req[r].pc # "idle" /\ req'[r].match = req[r].match
    PROVE  Alone'
BY DEF Alone, Turn

-----------------------------------------------------------------------------
(* The steps *)

\* What a request may take from the match it reads
LEMMA BeginKeeps ==
    ASSUME IInv, NEW r \in Req, NEW m \in Match, NEW u \in Caller, NEW w \in Player \cup {None},
           NEW pc \in {"complete", "report", "reread", "clear"},
           Begin(r, pc, m, u, w),
           fixture[m].status \in {"READY", "PENDING_CONFIRMATION"},
           pc \in {"complete", "report"} => w # None /\ w \in SlotsOf(fixture[m]),
           pc = "report" => u \in Player
    PROVE  IInv'
<1>1. /\ req[r] = Idle /\ req' = [req EXCEPT ![r] = Asked(pc, m, u, w)]
      /\ field' = field /\ fixture' = fixture /\ status' = status /\ champion' = champion
      /\ IF Open(m) = {}
         THEN UNCHANGED <<upsets, calm>>
         ELSE upsets < MaxUpsets /\ upsets' = upsets + 1 /\ calm' = FALSE
    BY DEF Begin, rows
<1>2. Asked(pc, m, u, w) \in Request
    BY DEF Asked, Request
<1>3. /\ Turn(r)
      /\ req'[r].pc = pc /\ req'[r].match = m /\ req'[r].by = u /\ req'[r].winner = w
    <2>1. Turn(r) /\ req'[r] = Asked(pc, m, u, w)
        BY <1>1, <1>2 DEF IInv, TypeOK, Turn
    <2> QED BY <2>1 DEF Asked
<1>4. Grown
    BY <1>1, NoWrite
<1>5. Knows(r)'
    <2>1. Match' = Match /\ Player' = Player
        BY <1>1, Unmoved
    <2> QED BY <1>1, <1>3, <2>1 DEF Knows, Undrawn, SlotsOf
<1>6. /\ status' \in {"ONGOING", "COMPLETED"} /\ champion' \in Player \cup {None}
      /\ upsets' \in 0 .. MaxUpsets /\ calm' \in BOOLEAN
    <2>1. /\ status \in {"ONGOING", "COMPLETED"} /\ champion \in Player \cup {None}
          /\ upsets \in 0 .. MaxUpsets /\ calm \in BOOLEAN /\ MaxUpsets \in Nat
        BY FieldsAssumption DEF IInv, TypeOK
    <2>2. upsets' = upsets \/ (upsets < MaxUpsets /\ upsets' = upsets + 1)
        BY <1>1
    <2>3. upsets' \in 0 .. MaxUpsets
        BY <2>1, <2>2
    <2>4. calm' = calm \/ calm' = FALSE
        BY <1>1
    <2> QED BY <1>1, <2>1, <2>3, <2>4
<1>7. TypeOK' /\ RowsSound' /\ RequestsSound' /\ ChampionSound'
    BY <1>1, <1>3, <1>4, <1>5, <1>6, SafeKeeps
<1>8. CalmSound'
    <2> SUFFICES ASSUME calm' PROVE Alone' /\ (\A s \in Req : Holds(s)') /\ TreeSound'
        BY CalmFromTree
    <2>1. calm /\ Open(m) = {} /\ Alone /\ \A s \in Req : Holds(s)
        BY <1>1 DEF IInv, CalmSound
    <2>2. \A s \in Req : req[s].match # m
        BY <2>1 DEF Open
    <2>3. Alone'
        BY <1>3, <2>1, <2>2 DEF Alone, Turn
    <2>4. ASSUME NEW s \in Req
          PROVE  Holds(s)'
        <3>1. CASE s = r
            BY <1>1, <1>3, <3>1 DEF Holds
        <3>2. CASE s # r
            BY <1>1, <1>3, <2>1, <3>2, HoldsStill DEF Turn
        <3> QED BY <3>1, <3>2
    <2>5. TreeSound'
        <3>1. \A k \in Match : Same(k)
            BY <1>1 DEF Same
        <3>2. req[r].pc \notin Advancing /\ req'[r].pc \notin Advancing
            BY <1>1, <1>3, IdleIs DEF Advancing
        <3> QED BY <1>1, <1>3, <1>4, <2>1, <3>1, <3>2, QuietStep
    <2> QED BY <2>3, <2>4, <2>5
<1> QED BY <1>7, <1>8 DEF IInv

LEMMA SubmitByOrganizerKeeps ==
    ASSUME IInv, NEW r \in Req, NEW m \in Match, NEW w \in Player, SubmitByOrganizer(r, m, w)
    PROVE  IInv'
<1>1. /\ fixture[m].status = "READY" /\ w \in SlotsOf(fixture[m]) /\ w # None
      /\ Begin(r, "complete", m, Organizer, w)
    BY DEF SubmitByOrganizer, MaySubmit, SlotsOf
<1>2. Organizer \in Caller
    BY DEF Caller
<1> QED BY <1>1, <1>2, BeginKeeps

LEMMA SubmitByPlayerKeeps ==
    ASSUME IInv, NEW r \in Req, NEW m \in Match, NEW u \in Player, NEW w \in Player,
           SubmitByPlayer(r, u, m, w)
    PROVE  IInv'
<1>1. /\ fixture[m].status = "READY" /\ w \in SlotsOf(fixture[m]) /\ w # None
      /\ Begin(r, "report", m, u, w)
    BY DEF SubmitByPlayer, MaySubmit, SlotsOf
<1>2. u \in Caller
    BY DEF Caller
<1> QED BY <1>1, <1>2, BeginKeeps

LEMMA AnswerKeeps ==
    ASSUME IInv, NEW r \in Req, NEW m \in Match, NEW u \in Caller,
           Approve(r, u, m) \/ Reject(r, u, m)
    PROVE  IInv'
<1>1. fixture[m].status = "PENDING_CONFIRMATION"
    BY DEF Approve, Reject, MayConfirm
<1>2. CASE Begin(r, "reread", m, u, None)
    BY <1>1, <1>2, BeginKeeps
<1>3. CASE Begin(r, "clear", m, u, None)
    BY <1>1, <1>3, BeginKeeps
<1> QED BY <1>2, <1>3 DEF Approve, Reject

\* A request that looks or leaves
LEMMA ReadKeeps ==
    ASSUME IInv, NEW r \in Req,
           field' = field, fixture' = fixture, status' = status, champion' = champion,
           upsets' \in 0 .. MaxUpsets, calm' \in BOOLEAN,
           Turn(r), Knows(r)',
           req'[r].pc # "idle" => req[r].pc # "idle" /\ req'[r].match = req[r].match,
           calm' => calm /\ Holds(r)' /\ req[r].pc \notin Advancing /\ req'[r].pc \notin Advancing
    PROVE  IInv'
<1>1. Grown
    BY NoWrite
<1>2. status' \in {"ONGOING", "COMPLETED"} /\ champion' \in Player \cup {None}
    BY DEF IInv, TypeOK
<1>3. TypeOK' /\ RowsSound' /\ RequestsSound' /\ ChampionSound'
    BY <1>1, <1>2, SafeKeeps
<1>4. CalmSound'
    <2> SUFFICES ASSUME calm' PROVE Alone' /\ (\A s \in Req : Holds(s)') /\ TreeSound'
        BY CalmFromTree
    <2>1. Alone /\ \A s \in Req : Holds(s)
        BY DEF IInv, CalmSound
    <2>2. ASSUME NEW s \in Req, s # r
          PROVE  Holds(s)'
        BY <2>1, <2>2, HoldsStill DEF Turn
    <2>3. \A k \in Match : Same(k)
        BY DEF Same
    <2>4. TreeSound'
        BY <1>1, <2>3, QuietStep
    <2> QED BY <2>1, <2>2, <2>4, AloneStill
<1> QED BY <1>3, <1>4 DEF IInv

LEMMA RereadKeeps ==
    ASSUME IInv, NEW r \in Req, Reread(r)
    PROVE  IInv'
<1> DEFINE k == req[r].match
           w == fixture[k].winner
<1>1. /\ req[r].pc = "reread" /\ w # None
      /\ req' = [req EXCEPT ![r].pc = "complete", ![r].winner = w]
      /\ field' = field /\ fixture' = fixture /\ status' = status /\ champion' = champion
      /\ upsets' = upsets /\ calm' = calm
    BY DEF Reread, rows
<1>2. /\ req \in [Req -> Request] /\ upsets \in 0 .. MaxUpsets /\ calm \in BOOLEAN
      /\ fixture \in [Match -> Fixture]
    BY DEF IInv, TypeOK
<1>3. k \in Match /\ fixture[k].status \notin Undrawn
    BY <1>1 DEF IInv, RequestsSound, Knows
<1>4. w \in SlotsOf(fixture[k]) /\ w \in Player \cup {None}
    <2>1. fixture[k] \in Fixture /\ RowSound(k)
        BY <1>2, <1>3 DEF IInv, RowsSound
    <2> QED BY <1>1, <2>1 DEF RowSound, RowFits, Fixture
<1>5. /\ Turn(r)
      /\ req'[r].pc = "complete" /\ req'[r].match = k /\ req'[r].winner = w
      /\ req'[r].by = req[r].by
    <2>1. req[r] \in Request
        BY <1>2
    <2> DEFINE q == [req[r] EXCEPT !.pc = "complete", !.winner = w]
    <2>2. /\ q \in Request
          /\ q.pc = "complete" /\ q.match = k /\ q.winner = w /\ q.by = req[r].by
        BY <1>4, <2>1 DEF Request
    <2>3. req' = [req EXCEPT ![r] = q]
        BY <1>1, <1>2
    <2> HIDE DEF q
    <2>4. Turn(r) /\ req'[r] = q
        BY <1>2, <2>2, <2>3 DEF Turn
    <2> QED BY <2>2, <2>4
<1>6. Knows(r)'
    <2>1. Match' = Match
        BY <1>1, Unmoved
    <2> HIDE DEF k, w
    <2> QED BY <1>1, <1>3, <1>4, <1>5, <2>1 DEF Knows, SlotsOf
<1>7. ASSUME calm'
      PROVE  calm /\ Holds(r)'
    <2>1. calm /\ Holds(r)
        BY <1>1, <1>7 DEF IInv, CalmSound
    <2>2. fixture[k].status \in {"READY", "PENDING_CONFIRMATION"}
        BY <1>1, <2>1 DEF Holds
    <2> QED BY <1>1, <1>5, <2>1, <2>2 DEF Holds
<1>8. req[r].pc \notin Advancing /\ req'[r].pc \notin Advancing /\ req[r].pc # "idle"
    BY <1>1, <1>5 DEF Advancing
<1> QED BY <1>1, <1>2, <1>5, <1>6, <1>7, <1>8, ReadKeeps

\* A request that ends without a write
LEMMA LeaveKeeps ==
    ASSUME IInv, NEW r \in Req, Finish(r),
           field' = field, fixture' = fixture, status' = status, champion' = champion,
           upsets' \in 0 .. MaxUpsets, calm' \in BOOLEAN,
           calm' => calm /\ req[r].pc \notin Advancing
    PROVE  IInv'
<1>1. Turn(r) /\ Knows(r)' /\ req'[r].pc = "idle"
    BY FinishIs, IdleIs
<1>2. Holds(r)'
    BY <1>1 DEF Holds
<1>3. req'[r].pc \notin Advancing
    BY <1>1 DEF Advancing
<1> QED BY <1>1, <1>2, <1>3, ReadKeeps

LEMMA RereadRefusedKeeps ==
    ASSUME IInv, NEW r \in Req, RereadRefused(r)
    PROVE  IInv'
<1>1. /\ req[r].pc = "reread" /\ Finish(r)
      /\ field' = field /\ fixture' = fixture /\ status' = status /\ champion' = champion
      /\ upsets' = upsets /\ calm' = calm
    BY DEF RereadRefused, rows
<1>2. upsets \in 0 .. MaxUpsets /\ calm \in BOOLEAN
    BY DEF IInv, TypeOK
<1> QED BY <1>1, <1>2, LeaveKeeps DEF Advancing

LEMMA DieKeeps ==
    ASSUME IInv, NEW r \in Req, Die(r)
    PROVE  IInv'
<1>1. /\ Finish(r)
      /\ field' = field /\ fixture' = fixture /\ status' = status /\ champion' = champion
      /\ upsets < MaxUpsets /\ upsets' = upsets + 1
      /\ calm' = (calm /\ req[r].pc \notin {"place", "ready", "crown"})
    BY DEF Die, rows
<1>2. upsets' \in 0 .. MaxUpsets
    BY <1>1, FieldsAssumption DEF IInv, TypeOK
<1>3. calm' \in BOOLEAN /\ (calm' => calm /\ req[r].pc \notin Advancing)
    BY <1>1 DEF Advancing
<1> QED BY <1>1, <1>2, <1>3, LeaveKeeps

\* A request that writes its own match and ends
LEMMA OwnKeeps ==
    ASSUME IInv, NEW r \in Req, NEW k \in Match, NEW x \in Fixture,
           req[r].pc \in {"report", "clear"}, req[r].match = k,
           Write(k, x), Finish(r),
           UNCHANGED <<field, status, champion, upsets, calm>>,
           x.a = fixture[k].a, x.b = fixture[k].b,
           x.status \in {"READY", "PENDING_CONFIRMATION"},
           x.winner # None => x.winner \in SlotsOf(x),
           x.winner # None <=> x.status = "PENDING_CONFIRMATION"
    PROVE  IInv'
<1>1. fixture[k].status \notin Undrawn
    BY DEF IInv, RequestsSound, Knows
<1>2. RowFits(k, x)
    <2>1. RowFits(k, fixture[k])
        BY DEF IInv, RowsSound, RowSound
    <2> QED BY <1>1, <2>1 DEF RowFits, Undrawn, SlotsOf
<1>3. x.status \notin Undrawn
    BY DEF Undrawn
<1>4. Grown /\ fixture'[k] = x /\ \A m \in Match : m # k => fixture'[m] = fixture[m]
    BY <1>2, <1>3, OneWrite
<1>5. Turn(r) /\ Knows(r)' /\ req'[r].pc = "idle"
    BY FinishIs, IdleIs
<1>6. /\ status' \in {"ONGOING", "COMPLETED"} /\ champion' \in Player \cup {None}
      /\ upsets' \in 0 .. MaxUpsets /\ calm' \in BOOLEAN
    BY DEF IInv, TypeOK
<1>7. TypeOK' /\ RowsSound' /\ RequestsSound' /\ ChampionSound'
    BY <1>4, <1>5, <1>6, SafeKeeps
<1>8. CalmSound'
    <2> SUFFICES ASSUME calm' PROVE Alone' /\ (\A s \in Req : Holds(s)') /\ TreeSound'
        BY CalmFromTree
    <2>1. calm /\ Alone /\ \A s \in Req : Holds(s)
        BY DEF IInv, CalmSound
    <2>2. fixture[k].status \in {"READY", "PENDING_CONFIRMATION"}
        BY <2>1 DEF Holds
    <2>3. ASSUME NEW s \in Req
          PROVE  Holds(s)'
        <3>1. CASE s = r
            BY <1>5, <3>1 DEF Holds
        <3>2. CASE s # r
            <4>1. req'[s] = req[s]
                BY <1>5, <3>2 DEF Turn
            <4>2. req[s].pc # "idle" => req[s].match \in Match /\ req[s].match # k
                BY <2>1, <3>2 DEF Alone, IInv, RequestsSound, Knows
            <4> QED BY <1>4, <2>1, <4>1, <4>2, HoldsStill
        <3> QED BY <3>1, <3>2
    <2>4. \A m \in Match : Same(m)
        <3> TAKE m \in Match
        <3>1. CASE m = k
            BY <1>4, <2>2, <3>1 DEF Same, Decided
        <3>2. CASE m # k
            BY <1>4, <3>2 DEF Same
        <3> QED BY <3>1, <3>2
    <2>5. req[r].pc \notin Advancing /\ req'[r].pc \notin Advancing
        BY <1>5 DEF Advancing
    <2>6. TreeSound'
        BY <1>4, <1>5, <2>1, <2>4, <2>5, QuietStep
    <2> QED BY <1>5, <2>1, <2>3, <2>6, AloneStill
<1> QED BY <1>7, <1>8 DEF IInv

LEMMA ReportMatchKeeps ==
    ASSUME IInv, NEW r \in Req, ReportMatch(r)
    PROVE  IInv'
<1> DEFINE k == req[r].match
           w == req[r].winner
           u == req[r].by
           x == Reported(fixture[k], w, u)
<1>1. /\ req[r].pc = "report" /\ Write(k, x) /\ Finish(r)
      /\ UNCHANGED <<field, status, champion, upsets, calm>>
    BY DEF ReportMatch
<1>2. k \in Match /\ w # None /\ w \in SlotsOf(fixture[k]) /\ u \in Player
    BY <1>1 DEF IInv, RequestsSound, Knows
<1>3. fixture[k] \in Fixture
    BY <1>2 DEF IInv, TypeOK
<1>4. w \in Player
    BY <1>2, <1>3 DEF SlotsOf, Fixture
<1> HIDE DEF k, w, u
<1>5. /\ x \in Fixture /\ x.a = fixture[k].a /\ x.b = fixture[k].b
      /\ x.status = "PENDING_CONFIRMATION" /\ x.winner = w
    BY <1>2, <1>3, <1>4 DEF Fixture, Reported
<1> HIDE DEF x
<1>6. w \in SlotsOf(x)
    BY <1>2, <1>5 DEF SlotsOf
<1>7. req[r].match = k
    BY DEF k
<1> QED BY <1>1, <1>2, <1>5, <1>6, <1>7, OwnKeeps

LEMMA ClearReportKeeps ==
    ASSUME IInv, NEW r \in Req, ClearReport(r)
    PROVE  IInv'
<1> DEFINE k == req[r].match
           x == Cleared(fixture[k])
<1>1. /\ req[r].pc = "clear" /\ Write(k, x) /\ Finish(r)
      /\ UNCHANGED <<field, status, champion, upsets, calm>>
    BY DEF ClearReport
<1>2. k \in Match
    BY <1>1 DEF IInv, RequestsSound, Knows
<1>3. fixture[k] \in Fixture
    BY <1>2 DEF IInv, TypeOK
<1> HIDE DEF k
<1>4. /\ x \in Fixture /\ x.a = fixture[k].a /\ x.b = fixture[k].b
      /\ x.status = "READY" /\ x.winner = None
    BY <1>3 DEF Fixture, Cleared
<1> HIDE DEF x
<1>5. req[r].match = k
    BY DEF k
<1> QED BY <1>1, <1>2, <1>4, <1>5, OwnKeeps

\* Going on to the next statement
LEMMA GoIs ==
    ASSUME IInv, NEW r \in Req, NEW pc \in {"crown", "place", "ready"}, Go(r, pc)
    PROVE  /\ Turn(r)
           /\ req'[r].pc = pc /\ req'[r].match = req[r].match
           /\ req'[r].winner = req[r].winner /\ req'[r].by = req[r].by
<1>1. req \in [Req -> Request] /\ req[r] \in Request
    BY DEF IInv, TypeOK
<1> DEFINE q == [req[r] EXCEPT !.pc = pc]
<1>2. /\ q \in Request
      /\ q.pc = pc /\ q.match = req[r].match /\ q.winner = req[r].winner /\ q.by = req[r].by
    BY <1>1 DEF Request
<1>3. req' = [req EXCEPT ![r] = q]
    BY <1>1 DEF Go
<1> HIDE DEF q
<1>4. Turn(r) /\ req'[r] = q
    BY <1>1, <1>2, <1>3 DEF Turn
<1> QED BY <1>2, <1>4

LEMMA CompleteMatchKeeps ==
    ASSUME IInv, NEW r \in Req, CompleteMatch(r)
    PROVE  IInv'
<1> DEFINE k == req[r].match
           w == req[r].winner
           pc == AfterComplete(k)
           x == Completed(fixture[k], w)
<1>1. /\ req[r].pc = "complete" /\ Write(k, x) /\ Go(r, pc)
      /\ UNCHANGED <<field, status, champion, upsets, calm>>
    BY DEF CompleteMatch
<1>2. k \in Match /\ w # None /\ w \in SlotsOf(fixture[k]) /\ fixture[k].status \notin Undrawn
    BY <1>1 DEF IInv, RequestsSound, Knows
<1>3. fixture[k] \in Fixture /\ RowFits(k, fixture[k]) /\ field \in Fields
    BY <1>2 DEF IInv, TypeOK, RowsSound, RowSound
<1>4. /\ w \in Player
      /\ pc = "crown" \/ pc = "place"
      /\ pc = "crown" <=> NextMatch(k) = None
    BY <1>2, <1>3 DEF SlotsOf, Fixture, AfterComplete
<1>5. /\ Turn(r)
      /\ req'[r].pc = pc /\ req'[r].match = k
      /\ req'[r].winner = w /\ req'[r].by = req[r].by
    BY <1>1, <1>4, GoIs
<1>6. req[r].match = k /\ req[r].winner = w
    OBVIOUS
<1> HIDE DEF k, w, pc
<1>7. /\ x \in Fixture /\ x.a = fixture[k].a /\ x.b = fixture[k].b
      /\ x.status = "COMPLETED" /\ x.winner = w
    BY <1>3, <1>4 DEF Fixture, Completed
<1> HIDE DEF x
<1>8. RowFits(k, x)
    BY <1>2, <1>3, <1>7 DEF RowFits, Undrawn, SlotsOf
<1>9. Grown /\ fixture'[k] = x /\ \A m \in Match : m # k => fixture'[m] = fixture[m]
    BY <1>1, <1>2, <1>7, <1>8, OneWrite DEF Undrawn
<1>10. /\ Match' = Match /\ \A m : NextMatch(m)' = NextMatch(m)
    BY <1>1, Unmoved
<1>11. Knows(r)'
    BY <1>2, <1>4, <1>5, <1>7, <1>9, <1>10 DEF Knows, SlotsOf, Undrawn
<1>12. /\ status' \in {"ONGOING", "COMPLETED"} /\ champion' \in Player \cup {None}
       /\ upsets' \in 0 .. MaxUpsets /\ calm' \in BOOLEAN
    BY <1>1 DEF IInv, TypeOK
<1>13. TypeOK' /\ RowsSound' /\ RequestsSound' /\ ChampionSound'
    BY <1>1, <1>5, <1>9, <1>11, <1>12, SafeKeeps
<1>14. CalmSound'
    <2> SUFFICES ASSUME calm' PROVE Alone' /\ (\A s \in Req : Holds(s)') /\ TreeSound'
        BY CalmFromTree
    <2>1. calm /\ Alone /\ (\A s \in Req : Holds(s)) /\ TreeSound
        BY <1>1 DEF IInv, CalmSound, TreeSound
    <2>2. fixture[k].status \in {"READY", "PENDING_CONFIRMATION"}
        BY <1>1, <1>6, <2>1 DEF Holds
    <2>3. Alone'
        BY <1>1, <1>5, <1>6, <2>1, AloneStill
    <2>4. \A s \in Req : s # r /\ req[s].pc # "idle" => req[s].match \in Match /\ req[s].match # k
        BY <1>1, <1>6, <2>1 DEF Alone, IInv, RequestsSound, Knows
    <2>5. ASSUME NEW s \in Req
          PROVE  Holds(s)'
        <3>1. CASE s = r
            BY <1>4, <1>5, <1>7, <1>9, <3>1 DEF Holds
        <3>2. CASE s # r
            BY <1>5, <1>9, <2>1, <2>4, <3>2, HoldsStill DEF Turn
        <3> QED BY <3>1, <3>2
    <2>6. ASSUME NEW m \in Match, NextMatch(m) # None
          PROVE  Came(m)' = Came(m)
        <3>1. CASE m = k
            <4>1. pc = "place"
                BY <1>4, <2>6, <3>1
            <4>2. Came(m)' = None
                BY <1>5, <3>1, <4>1 DEF Came
            <4>3. Decided(fixture[k]) = None
                BY <2>2 DEF Decided
            <4> QED BY <3>1, <4>2, <4>3 DEF Came
        <3>2. CASE m # k
            <4>1. Decided(fixture[m])' = Decided(fixture[m])
                BY <1>9, <3>2 DEF Decided
            <4>2. (\E s \in Req : req'[s].pc = "place" /\ req'[s].match = m)
                  <=> \E s \in Req : req[s].pc = "place" /\ req[s].match = m
                BY <1>1, <1>5, <1>6, <3>2 DEF Turn
            <4> QED BY <4>1, <4>2 DEF Came
        <3> QED BY <3>1, <3>2
    <2>7. \A m \in Match : fixture'[m].a = fixture[m].a /\ fixture'[m].b = fixture[m].b
                           /\ (fixture'[m].status = "PENDING" => fixture[m].status = "PENDING")
        BY <1>7, <1>9
    <2>8. ASSUME NEW m \in Match, m[1] # 1
          PROVE  Filled(m)'
        <3>1. /\ First(m) \in Match /\ Latter(m) \in Match
              /\ NextMatch(First(m)) = m /\ NextMatch(Latter(m)) = m /\ m # None
            BY <1>3, <2>8, TreeIs
        <3>2. Filled(m) /\ Came(First(m))' = Came(First(m)) /\ Came(Latter(m))' = Came(Latter(m))
            BY <2>1, <2>6, <2>8, <3>1 DEF TreeSound
        <3> QED BY <2>7, <3>2 DEF Filled
    <2>9. ASSUME NEW m \in Match
          PROVE  Awaited(m)'
        <3>1. Awaited(m)
            BY <2>1 DEF TreeSound
        <3>2. ASSUME NEW s \in Req, req[s].pc = "ready", NextMatch(req[s].match) = m
              PROVE  req'[s].pc = "ready" /\ NextMatch(req[s].match)' = m
            <4>1. s # r
                BY <1>1, <3>2
            <4>2. req'[s] = req[s]
                BY <1>5, <4>1 DEF Turn
            <4>3. NextMatch(req[s].match)' = NextMatch(req[s].match)
                BY <1>1, <4>2 DEF NextMatch
            <4> QED BY <3>2, <4>2, <4>3
        <3> QED BY <2>7, <3>1, <3>2 DEF Awaited
    <2>10. Crowning => Crowning'
        BY <1>1, <1>5 DEF Crowning, Turn
    <2>11. ASSUME NextMatch(k) = None
           PROVE  champion = None /\ Crowning'
        <3>1. FinalSound(k)
            BY <1>2, <2>1 DEF TreeSound
        <3> QED BY <1>4, <1>5, <2>2, <2>11, <3>1 DEF FinalSound, Crowning
    <2>12. ASSUME NEW m \in Match
           PROVE  FinalSound(m)'
        <3>1. CASE m = k
            BY <1>1, <1>10, <2>11, <3>1 DEF FinalSound
        <3>2. CASE m # k
            <4>1. FinalSound(m) /\ fixture'[m] = fixture[m] /\ NextMatch(m)' = NextMatch(m)
                BY <1>9, <1>10, <2>1, <3>2 DEF TreeSound
            <4> QED BY <1>1, <2>10, <4>1 DEF FinalSound, Decided
        <3> QED BY <3>1, <3>2
    <2>13. ASSUME Crowning'
           PROVE  champion' = None
        <3>1. CASE Crowning
            BY <1>1, <2>1, <3>1 DEF TreeSound
        <3>2. CASE ~Crowning
            <4>1. pc = "crown"
                BY <1>5, <2>13, <3>2 DEF Crowning, Turn
            <4> QED BY <1>1, <1>4, <2>11, <4>1
        <3> QED BY <3>1, <3>2
    <2> QED BY <1>10, <2>3, <2>5, <2>8, <2>9, <2>12, <2>13 DEF TreeSound
<1> QED BY <1>13, <1>14 DEF IInv

LEMMA PlaceIntoNextKeeps ==
    ASSUME IInv, NEW r \in Req, PlaceIntoNext(r)
    PROVE  IInv'
<1>7. PICK k, w, n, x :
            /\ req[r].match = k /\ req[r].winner = w /\ NextMatch(k) = n
            /\ x = Placed(fixture[n], w)
    OBVIOUS
<1>1. /\ req[r].pc = "place" /\ Write(n, x) /\ Go(r, "ready")
      /\ UNCHANGED <<field, status, champion, upsets, calm>>
    BY <1>7 DEF PlaceIntoNext
<1>2. k \in Match /\ w # None /\ w \in SlotsOf(fixture[k]) /\ fixture[k].status \notin Undrawn
      /\ n # None
    BY <1>1, <1>7 DEF IInv, RequestsSound, Knows
<1>3. field \in Fields /\ fixture \in [Match -> Fixture]
    BY DEF IInv, TypeOK
<1>4. /\ n \in Match /\ k[1] \in Nat /\ n[1] = k[1] + 1 /\ k[1] >= 1
      /\ k \in {First(n), Latter(n)}
    BY <1>2, <1>3, <1>7, TreeIs
<1>5. n[1] # 1 /\ n # k
    BY <1>4
<1>6. /\ Turn(r)
      /\ req'[r].pc = "ready" /\ req'[r].match = k /\ req'[r].winner = w
    BY <1>1, <1>7, GoIs
<1>8. fixture[n] \in Fixture /\ RowFits(n, fixture[n]) /\ fixture[k] \in Fixture
    BY <1>2, <1>3, <1>4 DEF IInv, RowsSound, RowSound
<1>9. w \in Player
    BY <1>2, <1>8 DEF SlotsOf, Fixture
<1>10. /\ x \in Fixture /\ x.status = fixture[n].status /\ x.winner = fixture[n].winner
       /\ \/ fixture[n].a = None /\ x.a = w /\ x.b = fixture[n].b
          \/ fixture[n].a # None /\ x.a = fixture[n].a /\ fixture[n].b = None /\ x.b = w
          \/ fixture[n].a # None /\ x.a = fixture[n].a /\ fixture[n].b # None /\ x.b = fixture[n].b
    BY <1>7, <1>8, <1>9 DEF Fixture, Placed
<1>11. RowFits(n, x)
    <2>1. SlotsOf(fixture[n]) \subseteq SlotsOf(x) /\ SlotsOf(x) \subseteq SlotsOf(fixture[n]) \cup {w}
        BY <1>10 DEF SlotsOf
    <2>2. w \in SlotsOf(fixture[First(n)]) \cup SlotsOf(fixture[Latter(n)])
        BY <1>2, <1>4
    <2>3. SlotsOf(x) \subseteq SlotsOf(fixture[First(n)]) \cup SlotsOf(fixture[Latter(n)])
        BY <1>5, <1>8, <2>1, <2>2 DEF RowFits
    <2>4. x.winner # None => x.winner \in SlotsOf(x)
        BY <1>8, <1>10, <2>1 DEF RowFits
    <2>5. x.status \notin Undrawn => x.a # None /\ x.b # None
        BY <1>2, <1>8, <1>10 DEF RowFits
    <2> QED BY <1>5, <1>8, <1>10, <2>3, <2>4, <2>5 DEF RowFits
<1>12. /\ fixture[n].a # None => x.a = fixture[n].a
       /\ fixture[n].b # None => x.b = fixture[n].b
    BY <1>10
<1>13. Grown /\ fixture'[n] = x /\ \A m \in Match : m # n => fixture'[m] = fixture[m]
    BY <1>1, <1>4, <1>10, <1>11, <1>12, OneWrite
<1>14. /\ Match' = Match /\ \A m : NextMatch(m)' = NextMatch(m)
    BY <1>1, Unmoved
<1>15. fixture'[k] = fixture[k]
    BY <1>2, <1>5, <1>13
<1>16. NextMatch(k)' = n
    BY <1>1, <1>7 DEF NextMatch
<1>17. Knows(r)'
    <2> DEFINE nn == NextOf(Len(field'), req'[r].match)
    <2>1. nn = n
        BY <1>1, <1>6, <1>7 DEF NextMatch
    <2>2. Knows(r)' <=>
            LET q == req'[r] IN
            /\ q.pc = "idle" => q = Idle
            /\ q.pc # "idle" => q.match \in Match' /\ fixture'[q.match].status \notin Undrawn
            /\ q.pc \in {"report", "complete", "place", "ready", "crown"} =>
                  q.winner # None /\ q.winner \in SlotsOf(fixture'[q.match])
            /\ q.pc = "report" => q.by \in Player'
            /\ q.pc \in {"place", "ready"} => nn # None
            /\ q.pc = "crown" => nn = None
        BY DEF Knows, SlotsOf, NextMatch, Idle
    <2> HIDE DEF nn
    <2> QED BY <1>2, <1>6, <1>14, <1>15, <2>1, <2>2
<1>18. /\ status' \in {"ONGOING", "COMPLETED"} /\ champion' \in Player \cup {None}
       /\ upsets' \in 0 .. MaxUpsets /\ calm' \in BOOLEAN
    BY <1>1 DEF IInv, TypeOK
<1>19. TypeOK' /\ RowsSound' /\ RequestsSound' /\ ChampionSound'
    BY <1>1, <1>6, <1>13, <1>17, <1>18, SafeKeeps
<1>20. CalmSound'
    <2> SUFFICES ASSUME calm' PROVE Alone' /\ (\A s \in Req : Holds(s)') /\ TreeSound'
        BY CalmFromTree
    <2>1. calm /\ Alone /\ (\A s \in Req : Holds(s)) /\ TreeSound
        BY <1>1 DEF IInv, CalmSound, TreeSound
    <2>2. fixture[k].status = "COMPLETED" /\ fixture[k].winner = w
        BY <1>1, <1>7, <2>1 DEF Holds
    <2>3. Alone'
        BY <1>1, <1>6, <1>7, <2>1, AloneStill
    <2>4. \A m \in Match : /\ fixture'[m].status = fixture[m].status
                           /\ fixture'[m].winner = fixture[m].winner
        BY <1>10, <1>13
    <2>5. ASSUME NEW s \in Req
          PROVE  Holds(s)'
        <3>1. CASE s = r
            BY <1>6, <1>15, <2>2, <3>1 DEF Holds
        <3>2. CASE s # r
            <4>1. req'[s] = req[s]
                BY <1>6, <3>2 DEF Turn
            <4>2. req[s].pc # "idle" => req[s].match \in Match
                BY DEF IInv, RequestsSound, Knows
            <4> QED BY <2>1, <2>4, <4>1, <4>2, HoldsStill
        <3> QED BY <3>1, <3>2
    <2>6. ASSUME NEW m \in Match
          PROVE  Decided(fixture[m])' = Decided(fixture[m])
        BY <2>4 DEF Decided
    <2>7. ASSUME NEW m \in Match, m # k
          PROVE  Came(m)' = Came(m)
        <3>1. (\E s \in Req : req'[s].pc = "place" /\ req'[s].match = m)
              <=> \E s \in Req : req[s].pc = "place" /\ req[s].match = m
            BY <1>6, <1>7, <2>7 DEF Turn
        <3> QED BY <2>6, <3>1 DEF Came
    <2>8. Came(k) = None
        BY <1>1, <1>7 DEF Came
    <2>9. Came(k)' = w
        <3>1. ~\E s \in Req : req'[s].pc = "place" /\ req'[s].match = k
            <4> SUFFICES ASSUME NEW s \in Req, req'[s].pc = "place", req'[s].match = k PROVE FALSE
                OBVIOUS
            <4>1. s # r /\ req'[s] = req[s]
                BY <1>6 DEF Turn
            <4> QED BY <1>1, <1>7, <2>1, <4>1 DEF Alone
        <3>2. Decided(fixture[k])' = w
            BY <1>2, <2>2, <2>6 DEF Decided
        <3> QED BY <3>1, <3>2 DEF Came
    <2>10. Filled(n)'
        <3>1. Filled(n) /\ First(n) \in Match /\ Latter(n) \in Match /\ First(n) # Latter(n)
            BY <1>3, <1>4, <1>5, <2>1, TreeIs DEF TreeSound
        <3>2. CASE k = First(n)
            <4>1. Came(Latter(n))' = Came(Latter(n))
                BY <2>7, <3>1, <3>2
            <4> QED BY <1>10, <1>13, <2>8, <2>9, <3>1, <3>2, <4>1 DEF Filled
        <3>3. CASE k = Latter(n)
            <4>1. Came(First(n))' = Came(First(n))
                BY <2>7, <3>1, <3>3
            <4> QED BY <1>10, <1>13, <2>8, <2>9, <3>1, <3>3, <4>1 DEF Filled
        <3> QED BY <1>4, <3>2, <3>3
    <2>11. ASSUME NEW m \in Match, m[1] # 1
           PROVE  Filled(m)'
        <3>1. CASE m = n
            BY <2>10, <3>1
        <3>2. CASE m # n
            <4>1. /\ First(m) \in Match /\ Latter(m) \in Match
                  /\ NextMatch(First(m)) = m /\ NextMatch(Latter(m)) = m
                BY <1>3, <2>11, TreeIs
            <4>2. First(m) # k /\ Latter(m) # k
                BY <1>7, <3>2, <4>1
            <4>3. Came(First(m))' = Came(First(m)) /\ Came(Latter(m))' = Came(Latter(m))
                BY <2>7, <4>1, <4>2
            <4>4. Filled(m) /\ fixture'[m] = fixture[m]
                BY <1>13, <2>1, <2>11, <3>2 DEF TreeSound
            <4> QED BY <4>3, <4>4 DEF Filled
        <3> QED BY <3>1, <3>2
    <2>12. ASSUME NEW m \in Match
           PROVE  Awaited(m)'
        <3>1. CASE m = n
            <4>1. req'[r].pc = "ready" /\ NextMatch(req[r].match)' = n
                BY <1>6, <1>16 DEF NextMatch
            <4> QED BY <3>1, <4>1 DEF Awaited
        <3>2. CASE m # n
            <4>1. Awaited(m) /\ fixture'[m] = fixture[m]
                BY <1>13, <2>1, <3>2 DEF TreeSound
            <4>2. ASSUME NEW s \in Req, req[s].pc = "ready", NextMatch(req[s].match) = m
                  PROVE  req'[s].pc = "ready" /\ NextMatch(req[s].match)' = m
                <5>1. s # r
                    BY <1>1, <4>2
                <5>2. req'[s] = req[s]
                    BY <1>6, <5>1 DEF Turn
                <5>3. NextMatch(req[s].match)' = NextMatch(req[s].match)
                    BY <1>1, <5>2 DEF NextMatch
                <5> QED BY <4>2, <5>2, <5>3
            <4> QED BY <4>1, <4>2 DEF Awaited
        <3> QED BY <3>1, <3>2
    <2>13. Crowning' <=> Crowning
        BY <1>1, <1>6 DEF Crowning, Turn
    <2>14. ASSUME NEW m \in Match
           PROVE  FinalSound(m)'
        <3>1. FinalSound(m) /\ NextMatch(m)' = NextMatch(m) /\ fixture'[m].status = fixture[m].status
            BY <1>14, <2>1, <2>4 DEF TreeSound
        <3> QED BY <1>1, <2>6, <2>13, <3>1 DEF FinalSound
    <2> QED BY <1>1, <1>14, <2>1, <2>3, <2>5, <2>11, <2>12, <2>13, <2>14 DEF TreeSound
<1> QED BY <1>19, <1>20 DEF IInv

LEMMA ReadyNextKeeps ==
    ASSUME IInv, NEW r \in Req, ReadyNext(r)
    PROVE  IInv'
<1>1. PICK k, n, x : req[r].match = k /\ NextMatch(k) = n /\ x = Opened(fixture[n])
    OBVIOUS
<1>2. /\ req[r].pc = "ready" /\ Write(n, x) /\ Finish(r)
      /\ UNCHANGED <<field, status, champion, upsets, calm>>
    BY <1>1 DEF ReadyNext
<1>3. field \in Fields /\ fixture \in [Match -> Fixture]
    BY DEF IInv, TypeOK
<1>4. k \in Match /\ n # None /\ n \in Match
    <2>1. k \in Match /\ n # None
        BY <1>1, <1>2 DEF IInv, RequestsSound, Knows
    <2> QED BY <1>1, <1>3, <2>1, TreeIs
<1>5. fixture[n] \in Fixture /\ RowFits(n, fixture[n])
    BY <1>3, <1>4 DEF IInv, RowsSound, RowSound
<1>6. /\ x \in Fixture /\ x.a = fixture[n].a /\ x.b = fixture[n].b /\ x.winner = fixture[n].winner
      /\ \/ fixture[n].status = "PENDING" /\ x.status = "READY" /\ x.a # None /\ x.b # None
         \/ x.status = fixture[n].status /\ (x.status = "PENDING" => x.a = None \/ x.b = None)
    BY <1>1, <1>5 DEF Fixture, Opened
<1>7. RowFits(n, x)
    BY <1>5, <1>6 DEF RowFits, SlotsOf, Undrawn
<1>8. fixture[n].status \notin Undrawn => x.status \notin Undrawn
    BY <1>6 DEF Undrawn
<1>9. Grown /\ fixture'[n] = x /\ \A m \in Match : m # n => fixture'[m] = fixture[m]
    BY <1>2, <1>4, <1>6, <1>7, <1>8, OneWrite
<1>10. /\ Match' = Match /\ \A m : NextMatch(m)' = NextMatch(m)
    BY <1>2, Unmoved
<1>11. Turn(r) /\ Knows(r)' /\ req'[r].pc = "idle"
    BY <1>2, FinishIs, IdleIs
<1>12. /\ status' \in {"ONGOING", "COMPLETED"} /\ champion' \in Player \cup {None}
       /\ upsets' \in 0 .. MaxUpsets /\ calm' \in BOOLEAN
    BY <1>2 DEF IInv, TypeOK
<1>13. TypeOK' /\ RowsSound' /\ RequestsSound' /\ ChampionSound'
    BY <1>2, <1>9, <1>11, <1>12, SafeKeeps
<1>14. CalmSound'
    <2> SUFFICES ASSUME calm' PROVE Alone' /\ (\A s \in Req : Holds(s)') /\ TreeSound'
        BY CalmFromTree
    <2>1. calm /\ Alone /\ (\A s \in Req : Holds(s)) /\ TreeSound
        BY <1>2 DEF IInv, CalmSound, TreeSound
    <2>2. Alone'
        BY <1>11, <2>1, AloneStill
    <2>3. ASSUME NEW m \in Match
          PROVE  /\ fixture'[m].a = fixture[m].a /\ fixture'[m].b = fixture[m].b
                 /\ fixture'[m].winner = fixture[m].winner
                 /\ fixture[m].status # "PENDING" => fixture'[m].status = fixture[m].status
                 /\ fixture'[m].status = "COMPLETED" <=> fixture[m].status = "COMPLETED"
                 /\ Decided(fixture[m])' = Decided(fixture[m])
        <3>1. CASE m = n
            BY <1>6, <1>9, <3>1 DEF Decided
        <3>2. CASE m # n
            BY <1>9, <3>2 DEF Decided
        <3> QED BY <3>1, <3>2
    <2>4. ASSUME NEW s \in Req
          PROVE  Holds(s)'
        <3>1. CASE s = r
            BY <1>11, <3>1 DEF Holds
        <3>2. CASE s # r
            <4>1. req'[s] = req[s]
                BY <1>11, <3>2 DEF Turn
            <4>2. req[s].pc # "idle" => req[s].match \in Match
                BY DEF IInv, RequestsSound, Knows
            <4> QED BY <2>1, <2>3, <4>1, <4>2, HoldsStill
        <3> QED BY <3>1, <3>2
    <2>5. ASSUME NEW m \in Match
          PROVE  Came(m)' = Came(m)
        <3>1. (\E s \in Req : req'[s].pc = "place" /\ req'[s].match = m)
              <=> \E s \in Req : req[s].pc = "place" /\ req[s].match = m
            BY <1>2, <1>11 DEF Turn
        <3> QED BY <2>3, <3>1 DEF Came
    <2>6. ASSUME NEW m \in Match, m[1] # 1
          PROVE  Filled(m)'
        <3>1. First(m) \in Match /\ Latter(m) \in Match
            BY <1>3, <2>6, TreeIs
        <3>2. Came(First(m))' = Came(First(m)) /\ Came(Latter(m))' = Came(Latter(m))
            BY <2>5, <3>1
        <3>3. Filled(m)
            BY <2>1, <2>6 DEF TreeSound
        <3> QED BY <2>3, <3>2, <3>3 DEF Filled
    <2>7. ASSUME NEW m \in Match
          PROVE  Awaited(m)'
        <3>1. CASE m = n
            BY <1>6, <1>9, <3>1 DEF Awaited
        <3>2. CASE m # n
            <4>1. Awaited(m) /\ fixture'[m] = fixture[m]
                BY <1>9, <2>1, <3>2 DEF TreeSound
            <4>2. ASSUME NEW s \in Req, req[s].pc = "ready", NextMatch(req[s].match) = m
                  PROVE  req'[s].pc = "ready" /\ NextMatch(req[s].match)' = m
                <5>1. s # r
                    BY <1>1, <3>2, <4>2
                <5>2. req'[s] = req[s]
                    BY <1>11, <5>1 DEF Turn
                <5>3. NextMatch(req[s].match)' = NextMatch(req[s].match)
                    BY <1>2, <5>2 DEF NextMatch
                <5> QED BY <4>2, <5>2, <5>3
            <4> QED BY <4>1, <4>2 DEF Awaited
        <3> QED BY <3>1, <3>2
    <2>8. Crowning' <=> Crowning
        BY <1>2, <1>11 DEF Crowning, Turn
    <2>9. ASSUME NEW m \in Match
          PROVE  FinalSound(m)'
        <3>1. FinalSound(m) /\ NextMatch(m)' = NextMatch(m)
            BY <1>10, <2>1 DEF TreeSound
        <3> QED BY <1>2, <2>3, <2>8, <3>1 DEF FinalSound
    <2> QED BY <1>2, <1>10, <2>1, <2>2, <2>4, <2>6, <2>7, <2>8, <2>9 DEF TreeSound
<1> QED BY <1>13, <1>14 DEF IInv

LEMMA SetChampionKeeps ==
    ASSUME IInv, NEW r \in Req, SetChampion(r)
    PROVE  IInv'
<1>1. PICK k, w : req[r].match = k /\ req[r].winner = w
    OBVIOUS
<1>2. /\ req[r].pc = "crown" /\ Finish(r)
      /\ champion' = w /\ status' = "COMPLETED"
      /\ field' = field /\ fixture' = fixture /\ upsets' = upsets /\ calm' = calm
    BY <1>1 DEF SetChampion
<1>3. field \in Fields /\ fixture \in [Match -> Fixture]
    BY DEF IInv, TypeOK
<1>4. k \in Match /\ w # None /\ w \in SlotsOf(fixture[k]) /\ NextMatch(k) = None
    BY <1>1, <1>2 DEF IInv, RequestsSound, Knows
<1>5. w \in Player
    BY <1>3, <1>4 DEF SlotsOf, Fixture
<1>6. Grown
    BY <1>2, NoWrite
<1>7. Turn(r) /\ Knows(r)' /\ req'[r].pc = "idle"
    BY <1>2, FinishIs, IdleIs
<1>8. /\ status' \in {"ONGOING", "COMPLETED"} /\ champion' \in Player \cup {None}
      /\ upsets' \in 0 .. MaxUpsets /\ calm' \in BOOLEAN
    BY <1>2, <1>5 DEF IInv, TypeOK
<1>9. TypeOK' /\ RowsSound' /\ RequestsSound'
    BY <1>6, <1>7, <1>8, SafeKeeps
<1>10. /\ Match' = Match /\ \A m : NextMatch(m)' = NextMatch(m)
    BY <1>2, Unmoved
<1>11. ChampionSound'
    <2>1. \E m \in Match : NextMatch(m) = None /\ w \in SlotsOf(fixture[m])
        BY <1>4
    <2> QED BY <1>2, <1>10, <2>1 DEF ChampionSound, SlotsOf
<1>12. CalmSound'
    <2> SUFFICES ASSUME calm' PROVE Alone' /\ (\A s \in Req : Holds(s)') /\ TreeSound'
        BY CalmFromTree
    <2>1. calm /\ Alone /\ (\A s \in Req : Holds(s)) /\ TreeSound
        BY <1>2 DEF IInv, CalmSound, TreeSound
    <2>2. Alone'
        BY <1>7, <2>1, AloneStill
    <2>3. ASSUME NEW s \in Req
          PROVE  Holds(s)'
        <3>1. CASE s = r
            BY <1>7, <3>1 DEF Holds
        <3>2. CASE s # r
            BY <1>2, <1>7, <2>1, <3>2, HoldsStill DEF Turn
        <3> QED BY <3>1, <3>2
    <2>4. ASSUME NEW m \in Match
          PROVE  Came(m)' = Came(m)
        <3>1. (\E s \in Req : req'[s].pc = "place" /\ req'[s].match = m)
              <=> \E s \in Req : req[s].pc = "place" /\ req[s].match = m
            BY <1>2, <1>7 DEF Turn
        <3>2. Decided(fixture[m])' = Decided(fixture[m])
            BY <1>2 DEF Decided
        <3> QED BY <3>1, <3>2 DEF Came
    <2>5. ASSUME NEW m \in Match, m[1] # 1
          PROVE  Filled(m)'
        <3>1. First(m) \in Match /\ Latter(m) \in Match
            BY <1>3, <2>5, TreeIs
        <3>2. Came(First(m))' = Came(First(m)) /\ Came(Latter(m))' = Came(Latter(m))
            BY <2>4, <3>1
        <3>3. Filled(m)
            BY <2>1, <2>5 DEF TreeSound
        <3> QED BY <1>2, <3>2, <3>3 DEF Filled
    <2>6. ASSUME NEW m \in Match
          PROVE  Awaited(m)'
        <3>1. Awaited(m)
            BY <2>1 DEF TreeSound
        <3>2. ASSUME NEW s \in Req, req[s].pc = "ready", NextMatch(req[s].match) = m
              PROVE  req'[s].pc = "ready" /\ NextMatch(req[s].match)' = m
            <4>1. s # r
                BY <1>2, <3>2
            <4>2. req'[s] = req[s]
                BY <1>7, <4>1 DEF Turn
            <4>3. NextMatch(req[s].match)' = NextMatch(req[s].match)
                BY <1>2, <4>2 DEF NextMatch
            <4> QED BY <3>2, <4>2, <4>3
        <3> QED BY <1>2, <3>1, <3>2 DEF Awaited
    <2>7. ASSUME NEW m \in Match, NextMatch(m) = None
          PROVE  fixture'[m].status = "COMPLETED"
        <3>1. m = k
            BY <1>3, <1>4, <2>7, TreeIs
        <3> QED BY <1>1, <1>2, <2>1, <3>1 DEF Holds
    <2>8. \A m \in Match : FinalSound(m)'
        BY <1>2, <1>10, <2>7 DEF FinalSound
    <2>9. ~Crowning'
        <3> SUFFICES ASSUME NEW s \in Req, req'[s].pc = "crown" PROVE FALSE
            BY DEF Crowning
        <3>1. s # r /\ req[s].pc = "crown"
            BY <1>7 DEF Turn
        <3>2. req[s].match \in Match /\ NextMatch(req[s].match) = None
            BY <3>1 DEF IInv, RequestsSound, Knows
        <3>3. req[s].match = k
            BY <1>3, <1>4, <3>2, TreeIs
        <3> QED BY <1>1, <1>2, <2>1, <3>1, <3>3 DEF Alone
    <2> QED BY <1>10, <2>2, <2>3, <2>5, <2>6, <2>8, <2>9 DEF TreeSound
<1> QED BY <1>9, <1>11, <1>12 DEF IInv

LEMMA NextKeeps == IInv /\ [Next]_vars => IInv'
<1> SUFFICES ASSUME IInv, [Next]_vars PROVE IInv'
    OBVIOUS
<1>1. ASSUME NEW r \in Req, NEW m \in Match, NEW w \in Player, SubmitByOrganizer(r, m, w)
      PROVE  IInv'
    BY <1>1, SubmitByOrganizerKeeps
<1>2. ASSUME NEW r \in Req, NEW m \in Match, NEW u \in Player, NEW w \in Player,
             SubmitByPlayer(r, u, m, w)
      PROVE  IInv'
    BY <1>2, SubmitByPlayerKeeps
<1>3. ASSUME NEW r \in Req, NEW m \in Match, NEW u \in Caller, Approve(r, u, m) \/ Reject(r, u, m)
      PROVE  IInv'
    BY <1>3, AnswerKeeps
<1>4. ASSUME NEW r \in Req, ReportMatch(r) \/ ClearReport(r)
      PROVE  IInv'
    BY <1>4, ReportMatchKeeps, ClearReportKeeps
<1>5. ASSUME NEW r \in Req, Reread(r) \/ RereadRefused(r) \/ Die(r)
      PROVE  IInv'
    BY <1>5, RereadKeeps, RereadRefusedKeeps, DieKeeps
<1>6. ASSUME NEW r \in Req, CompleteMatch(r) \/ PlaceIntoNext(r)
      PROVE  IInv'
    BY <1>6, CompleteMatchKeeps, PlaceIntoNextKeeps
<1>7. ASSUME NEW r \in Req, ReadyNext(r) \/ SetChampion(r)
      PROVE  IInv'
    BY <1>7, ReadyNextKeeps, SetChampionKeeps
<1>8. CASE UNCHANGED vars
    <2>1. /\ field' = field /\ fixture' = fixture /\ status' = status /\ champion' = champion
          /\ req' = req /\ upsets' = upsets /\ calm' = calm
        BY <1>8 DEF vars
    <2>2. Grown
        BY <2>1, NoWrite
    <2>3. IInv
        OBVIOUS
    <2>4. TypeOK' /\ RowsSound' /\ ChampionSound' /\ RequestsSound'
        BY <2>1, Unmoved DEF IInv, TypeOK, RowsSound, RowSound, RowFits, ChampionSound, SlotsOf,
            RequestsSound, Knows, NextMatch, Match, Player, Idle
    <2>5. CalmSound'
        BY <2>1 DEF IInv, CalmSound, Alone, Holds, Filled, Came, Decided, Awaited, FinalSound,
            Crowning, NextMatch, Match
    <2> QED BY <2>4, <2>5 DEF IInv
<1> QED BY <1>1, <1>2, <1>3, <1>4, <1>5, <1>6, <1>7, <1>8 DEF Next

-----------------------------------------------------------------------------
(* The theorems *)

\* The invariant holds, whatever the field and however many requests meet or die.
THEOREM Inductive == Spec => []IInv
BY InitIInv, NextKeeps, PTL DEF Spec

\* Bracket integrity for every field size: winners are players of their match,
\* only drawn matches open, every later player comes from a match that feeds
\* his, the champion from the final (completeMatch, placeIntoNext, setChampion).
THEOREM BracketCorrect == Spec => []BracketSound
<1>1. IInv => BracketSound
    <2> SUFFICES ASSUME IInv PROVE BracketSound
        OBVIOUS
    <2>1. TypeOK /\ RowsSound /\ ChampionSound
        BY DEF IInv
    <2>2. ASSUME NEW m \in Match
          PROVE  LET x == fixture[m] IN
                 /\ x.winner # None => x.winner \in SlotsOf(x)
                 /\ x.winner # None <=> x.status \in {"PENDING_CONFIRMATION", "COMPLETED", "BYE"}
                 /\ x.status \notin {"PENDING", "BYE"} => x.a # None /\ x.b # None
                 /\ m[1] > 1 => SlotsOf(x) \subseteq UNION {SlotsOf(fixture[k]) : k \in Feeders(m)}
        <3>1. RowFits(m, fixture[m])
            BY <2>1 DEF RowsSound, RowSound
        <3>2. ASSUME m[1] > 1
              PROVE  SlotsOf(fixture[m]) \subseteq UNION {SlotsOf(fixture[k]) : k \in Feeders(m)}
            <4>1. m[1] \in Nat /\ m[1] # 1
                BY <2>1, <3>2, TreeIs DEF TypeOK
            <4>2. First(m) \in Feeders(m) /\ Latter(m) \in Feeders(m)
                BY <2>1, <4>1, TreeIs DEF Feeders, TypeOK
            <4>3. SlotsOf(fixture[m]) \subseteq SlotsOf(fixture[First(m)]) \cup SlotsOf(fixture[Latter(m)])
                BY <3>1, <4>1 DEF RowFits
            <4> QED BY <4>2, <4>3
        <3> QED BY <3>1, <3>2 DEF RowFits, Undrawn
    <2> QED BY <2>1, <2>2 DEF BracketSound, ChampionSound
<1> QED BY <1>1, Inductive, PTL

Keeps(m) ==
    /\ fixture[m].a # None => fixture'[m].a = fixture[m].a
    /\ fixture[m].b # None => fixture'[m].b = fixture[m].b

LEMMA WriteKeeps ==
    ASSUME IInv, NEW k, NEW x, Write(k, x),
           k \in Match =>
              /\ fixture[k].a # None => x.a = fixture[k].a
              /\ fixture[k].b # None => x.b = fixture[k].b
    PROVE  \A m \in Match : Keeps(m)
<1>1. fixture \in [Match -> Fixture] /\ fixture' = [fixture EXCEPT ![k] = x]
    BY DEF IInv, TypeOK, Write
<1> TAKE m \in Match
<1>2. CASE m = k
    BY <1>1, <1>2 DEF Keeps
<1>3. CASE m # k
    BY <1>1, <1>3 DEF Keeps
<1> QED BY <1>2, <1>3

LEMMA StepKeeps == IInv /\ [Next]_vars => \A m \in Match : Keeps(m)
<1> SUFFICES ASSUME IInv, [Next]_vars PROVE \A m \in Match : Keeps(m)
    OBVIOUS
<1>1. \A m \in Match : fixture[m] \in Fixture
    BY DEF IInv, TypeOK
<1>2. CASE fixture' = fixture
    BY <1>2 DEF Keeps
<1>3. ASSUME NEW r \in Req, ReportMatch(r)
      PROVE  \A m \in Match : Keeps(m)
    <2>1. PICK k, x : Write(k, x) /\ x = Reported(fixture[k], req[r].winner, req[r].by)
        BY <1>3 DEF ReportMatch
    <2>2. k \in Match => x.a = fixture[k].a /\ x.b = fixture[k].b
        BY <1>1, <2>1 DEF Reported, Fixture
    <2> QED BY <2>1, <2>2, WriteKeeps
<1>4. ASSUME NEW r \in Req, ClearReport(r)
      PROVE  \A m \in Match : Keeps(m)
    <2>1. PICK k, x : Write(k, x) /\ x = Cleared(fixture[k])
        BY <1>4 DEF ClearReport
    <2>2. k \in Match => x.a = fixture[k].a /\ x.b = fixture[k].b
        BY <1>1, <2>1 DEF Cleared, Fixture
    <2> QED BY <2>1, <2>2, WriteKeeps
<1>5. ASSUME NEW r \in Req, CompleteMatch(r)
      PROVE  \A m \in Match : Keeps(m)
    <2>1. PICK k, x : Write(k, x) /\ x = Completed(fixture[k], req[r].winner)
        BY <1>5 DEF CompleteMatch
    <2>2. k \in Match => x.a = fixture[k].a /\ x.b = fixture[k].b
        BY <1>1, <2>1 DEF Completed, Fixture
    <2> QED BY <2>1, <2>2, WriteKeeps
<1>6. ASSUME NEW r \in Req, PlaceIntoNext(r)
      PROVE  \A m \in Match : Keeps(m)
    <2>1. PICK k, x : Write(k, x) /\ x = Placed(fixture[k], req[r].winner)
        BY <1>6 DEF PlaceIntoNext
    <2>2. k \in Match => /\ fixture[k].a # None => x.a = fixture[k].a
                         /\ fixture[k].b # None => x.b = fixture[k].b
        BY <1>1, <2>1 DEF Placed, Fixture
    <2> QED BY <2>1, <2>2, WriteKeeps
<1>7. ASSUME NEW r \in Req, ReadyNext(r)
      PROVE  \A m \in Match : Keeps(m)
    <2>1. PICK k, x : Write(k, x) /\ x = Opened(fixture[k])
        BY <1>7 DEF ReadyNext
    <2>2. k \in Match => x.a = fixture[k].a /\ x.b = fixture[k].b
        BY <1>1, <2>1 DEF Opened, Fixture
    <2> QED BY <2>1, <2>2, WriteKeeps
<1>8. CASE \E r \in Req : Reread(r) \/ RereadRefused(r) \/ SetChampion(r) \/ Die(r)
    BY <1>2, <1>8 DEF Reread, RereadRefused, SetChampion, Die, rows
<1>9. CASE \E r \in Req : \E m, u, w, pc : Begin(r, pc, m, u, w)
    BY <1>2, <1>9 DEF Begin, rows
<1>10. CASE UNCHANGED vars
    BY <1>2, <1>10 DEF vars
<1> QED BY <1>3, <1>4, <1>5, <1>6, <1>7, <1>8, <1>9, <1>10
        DEF Next, SubmitByOrganizer, SubmitByPlayer, Approve, Reject

\* A player who took a slot keeps it in every step, whatever the field, however
\* requests interleave, meet or die: neither placeIntoNext overwrites a seat.
THEOREM SeatsAreKept == Spec => SeatsKept
<1>1. IInv /\ [Next]_vars =>
        [\A m \in Match :
            /\ fixture[m].a # None => fixture'[m].a = fixture[m].a
            /\ fixture[m].b # None => fixture'[m].b = fixture[m].b]_vars
    BY StepKeeps DEF Keeps
<1> QED BY <1>1, Inductive, PTL DEF Spec, SeatsKept

\* While the run is calm, an unfinished tournament has a match to play or to
\* confirm, or a request on its way, whatever the field: advance leaves no
\* match behind.
THEOREM NeverStuck == Spec => []BracketAlive
<1>1. IInv => BracketAlive
    <2> SUFFICES ASSUME IInv, calm, status = "ONGOING",
                        \A m \in Match : fixture[m].status \notin {"READY", "PENDING_CONFIRMATION"},
                        \A r \in Req : req[r] = Idle
                 PROVE  FALSE
        BY DEF BracketAlive
    <2>1. /\ field \in Fields /\ fixture \in [Match -> Fixture] /\ RowsSound
          /\ \A m \in Match : /\ m[1] # 1 => Filled(m)
                              /\ Awaited(m)
                              /\ FinalSound(m)
        BY DEF IInv, TypeOK, CalmSound
    <2>2. \A r \in Req : req[r].pc = "idle"
        BY IdleIs
    <2>3. ASSUME NEW m \in Match, fixture[m].status # "PENDING"
          PROVE  Came(m) # None /\ Decided(fixture[m]) # None
        <3>1. fixture[m] \in Fixture /\ RowFits(m, fixture[m])
            BY <2>1 DEF RowsSound, RowSound
        <3>2. fixture[m].status \in {"COMPLETED", "BYE"}
            BY <2>3, <3>1 DEF Fixture
        <3>3. Decided(fixture[m]) # None
            BY <3>1, <3>2 DEF Decided, RowFits
        <3> QED BY <2>2, <3>3 DEF Came
    <2>4. PICK f \in Match : NextMatch(f) = None
        BY <2>1, TreeIs
    <2>5. fixture[f].status = "PENDING"
        <3>1. ~Crowning
            BY <2>2 DEF Crowning
        <3> QED BY <2>1, <2>3, <2>4, <3>1 DEF FinalSound
    <2> DEFINE S == {m[1] : m \in {k \in Match : fixture[k].status = "PENDING"}}
    <2>6. S # {} /\ S \subseteq Nat
        BY <2>1, <2>4, <2>5, TreeIs
    <2>7. PICK n \in S : \A i \in S : n <= i
        <3> HIDE DEF S
        <3> QED BY <2>6, Least
    <2>8. PICK m \in Match : m[1] = n /\ fixture[m].status = "PENDING"
        OBVIOUS
    <2>9. m[1] # 1
        BY <2>1, <2>8 DEF RowsSound, RowSound, RowFits
    <2>10. /\ First(m) \in Match /\ Latter(m) \in Match
           /\ First(m)[1] = m[1] - 1 /\ Latter(m)[1] = m[1] - 1 /\ m[1] \in Nat
        BY <2>1, <2>9, TreeIs
    <2>11. \A k \in Match : k[1] = m[1] - 1 => fixture[k].status # "PENDING"
        <3> SUFFICES ASSUME NEW k \in Match, k[1] = m[1] - 1, fixture[k].status = "PENDING"
                     PROVE  FALSE
            OBVIOUS
        <3>1. k[1] \in S
            OBVIOUS
        <3>2. m[1] <= k[1]
            BY <2>7, <2>8, <3>1
        <3> QED BY <2>10, <3>2
    <2>12. Came(First(m)) # None /\ Came(Latter(m)) # None
        BY <2>3, <2>10, <2>11
    <2>13. fixture[m].a # None /\ fixture[m].b # None
        BY <2>1, <2>9, <2>12 DEF Filled
    <2> QED BY <2>1, <2>2, <2>8, <2>13 DEF Awaited
<1> QED BY <1>1, Inductive, PTL

-----------------------------------------------------------------------------
(* The abstract bracket *)

Won == [m \in Match |-> Decided(fixture[m])]

\* The tree of the abstract bracket is the same one.
LEMMA SameTree ==
    /\ B!Match = Match
    /\ \A n, m : B!NextOf(n, m) = NextOf(n, m)
    /\ \A o, p : B!Opening(o, p) = Opening(o, p)
<1>1. \A n : B!Rounds(n) = Rounds(n)
    BY DEF B!Rounds, Rounds
<1>2. \A n : B!Size(n) = Size(n)
    BY <1>1 DEF B!Size, Size
<1>3. \A n : B!Nodes(n) = Nodes(n)
    BY <1>1, <1>2 DEF B!Nodes, Nodes
<1>4. B!Match = Match
    BY <1>3 DEF B!Match, Match
<1>5. \A n, m : B!NextOf(n, m) = NextOf(n, m)
    BY <1>1 DEF B!NextOf, NextOf
<1>6. \A a, b, w, t : B!Node(a, b, w, t) = Node(a, b, w, t)
    BY DEF B!Node, Node
<1>7. \A o, p : B!Opening(o, p) = Opening(o, p)
    BY <1>2, <1>6 DEF B!Opening, Opening
<1> QED BY <1>4, <1>5, <1>7

LEMMA DrawnOpen ==
    ASSUME Init
    PROVE  Won = [m \in Match |-> IF m[1] = 1 THEN Opening(field, m[2]).winner ELSE None]
<1>1. /\ field \in Fields
      /\ fixture = [m \in Match |-> Stored(BuildSingleElim(field)[m])]
    BY DEF Init, Match
<1>2. ASSUME NEW m \in Match
      PROVE  Decided(fixture[m]) = IF m[1] = 1 THEN Opening(field, m[2]).winner ELSE None
    <2>1. fixture[m] = Stored(CASE m[1] = 1 -> Opening(field, m[2])
                                [] m[1] = 2 -> Second(field, m[2])
                                [] OTHER    -> Node(None, None, None, "PENDING"))
        BY <1>1 DEF BuildSingleElim, Match
    <2>2. CASE m[1] = 1
        <3>1. fixture[m] = Stored(Opening(field, m[2]))
            BY <2>1, <2>2
        <3>2. m[2] \in 0 .. Width(Len(field), 1) - 1
            BY <1>1, <2>2, TreeIs
        <3>3. \/ \E a, b \in Player : Opening(field, m[2]) = Node(a, b, None, "READY")
              \/ \E a \in Player : Opening(field, m[2]) = Node(a, None, a, "BYE")
            BY <1>1, <3>2, OpeningIs
        <3>4. ASSUME NEW a, NEW b, NEW w, NEW st, Opening(field, m[2]) = Node(a, b, w, st)
              PROVE  /\ Decided(fixture[m]) = IF st \in {"COMPLETED", "BYE"} THEN w ELSE None
                     /\ Opening(field, m[2]).winner = w
            BY <3>1, <3>4 DEF Stored, Node, Decided
        <3>5. CASE \E a, b \in Player : Opening(field, m[2]) = Node(a, b, None, "READY")
            BY <2>2, <3>4, <3>5
        <3>6. CASE \E a \in Player : Opening(field, m[2]) = Node(a, None, a, "BYE")
            BY <2>2, <3>4, <3>6
        <3> QED BY <3>3, <3>5, <3>6
    <2>3. CASE m[1] = 2
        <3>1. fixture[m] = Stored(Second(field, m[2]))
            BY <2>1, <2>3
        <3> QED BY <2>3, <3>1 DEF Stored, Second, Node, Decided
    <2>4. CASE m[1] # 1 /\ m[1] # 2
        <3>1. fixture[m] = Stored(Node(None, None, None, "PENDING"))
            BY <2>1, <2>4
        <3> QED BY <2>4, <3>1 DEF Stored, Node, Decided
    <2> QED BY <2>2, <2>3, <2>4
<1> QED BY <1>2 DEF Won

\* Completing a match decides it.
LEMMA CompleteDecides ==
    ASSUME IInv, calm, NEW r \in Req, CompleteMatch(r)
    PROVE  \E m \in B!Match : \E w \in B!Contenders(m) : B!Decide(m, w)
<1>1. PICK k, w, x :
            /\ req[r].match = k /\ req[r].winner = w
            /\ x = Completed(fixture[k], w)
    OBVIOUS
<1>2. /\ req[r].pc = "complete" /\ Write(k, x)
      /\ UNCHANGED <<field, champion>>
    BY <1>1 DEF CompleteMatch
<1>3. /\ field \in Fields /\ fixture \in [Match -> Fixture]
      /\ RowsSound /\ Alone /\ (\A s \in Req : Holds(s)) /\ \A m \in Match : m[1] # 1 => Filled(m)
    BY DEF IInv, TypeOK, CalmSound
<1>4. k \in Match /\ w # None /\ w \in SlotsOf(fixture[k])
    BY <1>1, <1>2 DEF IInv, RequestsSound, Knows
<1>5. fixture[k].status \in {"READY", "PENDING_CONFIRMATION"}
    BY <1>1, <1>2, <1>3 DEF Holds
<1>6. RowFits(k, fixture[k]) /\ fixture[k] \in Fixture
    BY <1>3, <1>4 DEF RowsSound, RowSound
<1>7. x.status = "COMPLETED" /\ x.winner = w
    BY <1>1, <1>6 DEF Completed, Fixture
<1>8. Match' = Match
    BY <1>2, Unmoved
<1>9. /\ fixture' = [fixture EXCEPT ![k] = x]
      /\ fixture'[k] = x /\ \A m \in Match : m # k => fixture'[m] = fixture[m]
    BY <1>2, <1>3, <1>4 DEF Write
<1>10. Won' = [Won EXCEPT ![k] = w]
    <2>1. Won' = [m \in Match |-> Decided(fixture'[m])]
        BY <1>8 DEF Won, Decided
    <2>2. \A m \in Match : Decided(fixture'[m]) = IF m = k THEN w ELSE Decided(fixture[m])
        BY <1>7, <1>9 DEF Decided
    <2> QED BY <1>4, <2>1, <2>2 DEF Won
<1>11. Won[k] = None
    BY <1>4, <1>5 DEF Won, Decided
<1>12. w \in B!Contenders(k) /\ None \notin B!Contenders(k)
    <2>1. CASE k[1] = 1
        <3>1. B!Contenders(k) = {Opening(field, k[2]).a, Opening(field, k[2]).b} \ {None}
            BY <2>1, SameTree DEF B!Contenders
        <3>2. B!Contenders(k) = SlotsOf(fixture[k])
            BY <1>6, <2>1, <3>1 DEF RowFits, SlotsOf
        <3> QED BY <1>4, <3>2 DEF SlotsOf
    <2>2. CASE k[1] # 1
        <3>1. /\ First(k) \in Match /\ Latter(k) \in Match
              /\ \A l \in Match : NextMatch(l) = k <=> l \in {First(k), Latter(k)}
            BY <1>3, <1>4, <2>2, TreeIs
        <3>2. B!Feeders(k) = {First(k), Latter(k)}
            BY <3>1, SameTree DEF B!Feeders, NextMatch
        <3>3. B!Contenders(k) = {Won[First(k)], Won[Latter(k)]}
            BY <2>2, <3>2 DEF B!Contenders, Won
        <3>4. Filled(k) /\ fixture[k].a # None /\ fixture[k].b # None
            BY <1>3, <1>4, <1>5, <1>6, <2>2 DEF RowFits, Undrawn
        <3>5. Came(First(k)) # None /\ Came(Latter(k)) # None
            BY <3>4 DEF Filled
        <3>6. Came(First(k)) = Won[First(k)] /\ Came(Latter(k)) = Won[Latter(k)]
            BY <3>1, <3>5 DEF Came, Won
        <3> QED BY <1>4, <3>3, <3>4, <3>5, <3>6 DEF Filled, SlotsOf
    <2> QED BY <2>1, <2>2
<1>13. B!Decide(k, w)
    BY <1>2, <1>10, <1>11, <1>12 DEF B!Decide, Won
<1> QED BY <1>4, <1>12, <1>13, SameTree

LEMMA SetChampionCrowns ==
    ASSUME IInv, calm, NEW r \in Req, SetChampion(r)
    PROVE  B!Crown
<1>1. PICK k, w : req[r].match = k /\ req[r].winner = w
    OBVIOUS
<1>2. /\ req[r].pc = "crown" /\ champion' = w /\ field' = field /\ fixture' = fixture
    BY <1>1 DEF SetChampion
<1>3. k \in Match /\ w # None /\ NextMatch(k) = None
    BY <1>1, <1>2 DEF IInv, RequestsSound, Knows
<1>4. champion = None /\ Holds(r)
    BY <1>2 DEF IInv, CalmSound, Crowning
<1>5. fixture[k].status = "COMPLETED" /\ fixture[k].winner = w
    BY <1>1, <1>2, <1>4 DEF Holds
<1>6. Won[k] = w /\ Won' = Won
    <2>1. Match' = Match
        BY <1>2, Unmoved
    <2> QED BY <1>2, <1>3, <1>5, <2>1 DEF Won, Decided
<1>7. k \in B!Match /\ B!NextOf(Len(field), k) = None
    BY <1>3, SameTree DEF NextMatch
<1> QED BY <1>2, <1>3, <1>4, <1>6, <1>7 DEF B!Crown, Won

\* Every other step of a calm run stutters.
LEMMA OwnStutters ==
    ASSUME IInv, field' = field, champion' = champion, NEW k \in Match, NEW x, Write(k, x),
           Decided(x) = Decided(fixture[k])
    PROVE  UNCHANGED B!bvars
<1>1. Match' = Match
    BY Unmoved
<1>2. fixture \in [Match -> Fixture]
    BY DEF IInv, TypeOK
<1>3. \A m \in Match : Decided(fixture'[m]) = Decided(fixture[m])
    <2> TAKE m \in Match
    <2>1. CASE m = k
        BY <1>2, <2>1 DEF Write
    <2>2. CASE m # k
        BY <1>2, <2>2 DEF Write
    <2> QED BY <2>1, <2>2
<1>4. Won' = [m \in Match |-> Decided(fixture'[m])]
    BY <1>1 DEF Won, Decided
<1>5. Won' = Won
    BY <1>3, <1>4 DEF Won
<1> QED BY <1>5 DEF B!bvars, Won

LEMMA StillStutters ==
    ASSUME field' = field, champion' = champion, fixture' = fixture
    PROVE  UNCHANGED B!bvars
<1>1. Match' = Match
    BY Unmoved
<1>2. Won' = Won
    BY <1>1 DEF Won, Decided
<1> QED BY <1>2 DEF B!bvars, Won

LEMMA StepImplements == IInv /\ [Next]_vars => (calm' => B!Next \/ UNCHANGED B!bvars)
<1> SUFFICES ASSUME IInv, [Next]_vars, calm' PROVE B!Next \/ UNCHANGED B!bvars
    OBVIOUS
<1>1. CASE UNCHANGED vars
    BY <1>1, StillStutters DEF vars
<1>2. CASE \E r \in Req : \E m, u, w, pc : Begin(r, pc, m, u, w)
    BY <1>2, StillStutters DEF Begin, rows
<1>3. CASE \E r \in Req : Reread(r) \/ RereadRefused(r) \/ Die(r)
    BY <1>3, StillStutters DEF Reread, RereadRefused, Die, rows
<1>4. ASSUME NEW r \in Req, CompleteMatch(r)
      PROVE  B!Next
    <2>1. calm
        BY <1>4 DEF CompleteMatch
    <2> QED BY <1>4, <2>1, CompleteDecides DEF B!Next
<1>5. ASSUME NEW r \in Req, SetChampion(r)
      PROVE  B!Next
    <2>1. calm
        BY <1>5 DEF SetChampion
    <2> QED BY <1>5, <2>1, SetChampionCrowns DEF B!Next
<1>6. ASSUME NEW r \in Req, ReportMatch(r) \/ ClearReport(r)
      PROVE  UNCHANGED B!bvars
    <2>1. PICK k, x :
            /\ k = req[r].match /\ Write(k, x)
            /\ \/ x = Reported(fixture[k], req[r].winner, req[r].by)
               \/ x = Cleared(fixture[k])
        BY <1>6 DEF ReportMatch, ClearReport
    <2>2. /\ req[r].pc \in {"report", "clear"} /\ calm
          /\ field' = field /\ champion' = champion
        BY <1>6 DEF ReportMatch, ClearReport
    <2>3. k \in Match /\ Holds(r)
        BY <2>1, <2>2 DEF IInv, RequestsSound, Knows, CalmSound
    <2>4. fixture[k].status \in {"READY", "PENDING_CONFIRMATION"} /\ fixture[k] \in Fixture
        BY <2>1, <2>2, <2>3 DEF Holds, IInv, TypeOK
    <2>5. x.status \in {"READY", "PENDING_CONFIRMATION"}
        BY <2>1, <2>4 DEF Reported, Cleared, Fixture
    <2>6. Decided(x) = Decided(fixture[k])
        BY <2>4, <2>5 DEF Decided
    <2> QED BY <2>1, <2>2, <2>3, <2>6, OwnStutters
<1>7. ASSUME NEW r \in Req, PlaceIntoNext(r) \/ ReadyNext(r)
      PROVE  UNCHANGED B!bvars
    <2>1. PICK k, n, x :
            /\ k = req[r].match /\ n = NextMatch(k) /\ Write(n, x)
            /\ \/ x = Placed(fixture[n], req[r].winner)
               \/ x = Opened(fixture[n])
        BY <1>7 DEF PlaceIntoNext, ReadyNext
    <2>2. /\ req[r].pc \in {"place", "ready"}
          /\ field' = field /\ champion' = champion
        BY <1>7 DEF PlaceIntoNext, ReadyNext
    <2>3. k \in Match /\ n # None /\ field \in Fields
        BY <2>1, <2>2 DEF IInv, RequestsSound, Knows, TypeOK
    <2>4. n \in Match
        BY <2>1, <2>3, TreeIs
    <2>5. fixture[n] \in Fixture
        BY <2>4 DEF IInv, TypeOK
    <2>6. Decided(x) = Decided(fixture[n])
        BY <2>1, <2>5 DEF Placed, Opened, Decided, Fixture
    <2> QED BY <2>1, <2>2, <2>4, <2>6, OwnStutters
<1> QED BY <1>1, <1>2, <1>3, <1>4, <1>5, <1>6, <1>7
        DEF Next, SubmitByOrganizer, SubmitByPlayer, Approve, Reject

\* As long as the run is calm, the requests carry out the abstract bracket: a
\* match is decided once, between the winners that feed it, and the winner of
\* the final is crowned (completeMatch, placeIntoNext, setChampion).
THEOREM Implements == Spec => ImplementsBracket
<1>1. Init => B!Init
    <2> SUFFICES ASSUME Init PROVE B!Init
        OBVIOUS
    <2>1. [m \in Match |-> Decided(fixture[m])]
            = [m \in B!Match |-> IF m[1] = 1 THEN B!Opening(field, m[2]).winner ELSE None]
        BY DrawnOpen, SameTree DEF Won
    <2> QED BY <2>1 DEF Init, B!Init
<1>2. IInv /\ [Next]_vars => [calm' => B!Next \/ UNCHANGED B!bvars]_vars
    BY StepImplements
<1> QED BY <1>1, <1>2, Inductive, PTL DEF Spec, ImplementsBracket

-----------------------------------------------------------------------------
(* The field of a draw *)

\* Participants are numbered in the order of the draw.
FieldInv ==
    \E n \in Nat :
        /\ n >= 2
        /\ ordered = [i \in 1 .. n |-> i]

LEMMA OrderIs ==
    ASSUME FieldInv
    PROVE  /\ Len(ordered) \in Nat /\ Len(ordered) >= 2
           /\ ordered = [i \in 1 .. Len(ordered) |-> i]
           /\ DOMAIN ordered = 1 .. Len(ordered)
           /\ \A i \in 1 .. Len(ordered) : ordered[i] = i
           /\ Players = 1 .. Len(ordered)
           /\ \A x \in Players : x \in Nat /\ x # None
<1>1. PICK n \in Nat : n >= 2 /\ ordered = [i \in 1 .. n |-> i]
    BY DEF FieldInv
<1>2. Len(ordered) = n
    BY <1>1
<1>3. \A i \in 1 .. n : i \in Nat /\ ordered[i] = i
    BY <1>1
<1>4. Players = 1 .. n
    BY <1>2, <1>3 DEF Players
<1> QED BY <1>1, <1>2, <1>3, <1>4, DrawsAssumption

-----------------------------------------------------------------------------
(* Single elimination: the bracket as drawn *)

\* From round s on, the tree has twice as many matches as round s, less one.
Above(n, s) == {m \in Nodes(n) : m[1] >= s}

LEMMA RoundCount ==
    ASSUME NEW n \in Nat, n >= 2, NEW r \in 1 .. Rounds(n)
    PROVE  LET S == {m \in Nodes(n) : m[1] = r}
           IN  IsFiniteSet(S) /\ Cardinality(S) = Width(n, r)
<1> DEFINE w == Width(n, r)
           S == {m \in Nodes(n) : m[1] = r}
           f == [p \in 0 .. w - 1 |-> <<r, p>>]
<1>1. w \in Nat /\ w >= 1
    BY RoundsFit, Widths
<1>2. \A m \in S : m = <<r, m[2]>> /\ m[2] \in 0 .. w - 1
    BY NodesAre
<1>3. \A p \in 0 .. w - 1 : <<r, p>> \in S
    BY NodesAre
<1> HIDE DEF w
<1>4. f \in Bijection(0 .. w - 1, S)
    <2>1. f \in [0 .. w - 1 -> S]
        BY <1>3
    <2>2. \A p, q \in 0 .. w - 1 : f[p] = f[q] => p = q
        OBVIOUS
    <2>3. \A m \in S : \E p \in 0 .. w - 1 : f[p] = m
        BY <1>2
    <2> QED BY <2>1, <2>2, <2>3 DEF Bijection, Injection, Surjection, IsInjective
<1>5. IsFiniteSet(0 .. w - 1) /\ Cardinality(0 .. w - 1) = w
    <2>1. 0 \in Int /\ w - 1 \in Int
        BY <1>1
    <2>2. IsFiniteSet(0 .. w - 1) /\ Cardinality(0 .. w - 1) = IF 0 > w - 1 THEN 0 ELSE (w - 1) - 0 + 1
        BY <2>1, FS_Interval
    <2> QED BY <1>1, <2>2
<1>6. ExistsBijection(0 .. w - 1, S)
    BY <1>4 DEF ExistsBijection
<1> HIDE DEF S
<1>7. IsFiniteSet(S) /\ Cardinality(S) = w
    BY <1>5, <1>6, FS_Bijection
<1> QED BY <1>7 DEF S, w

LEMMA AboveCount ==
    ASSUME NEW n \in Nat, n >= 2, NEW s \in 1 .. Rounds(n)
    PROVE  IsFiniteSet(Above(n, s)) /\ Cardinality(Above(n, s)) = 2 * Width(n, s) - 1
<1> DEFINE R == Rounds(n)
           OK(t) == IsFiniteSet(Above(n, t)) /\ Cardinality(Above(n, t)) = 2 * Width(n, t) - 1
           Bad == {k \in 0 .. R - 1 : ~OK(R - k)}
<1>1. R \in Nat /\ R >= 1
    BY RoundsFit
<1>2. ASSUME Bad # {} PROVE FALSE
    <2> HIDE DEF OK, R
    <2>1. Bad \subseteq Nat
        BY <1>1
    <2> HIDE DEF Bad
    <2>2. PICK k \in Bad : \A j \in Bad : k <= j
        BY <1>2, <2>1, Least
    <2>3. k \in 0 .. R - 1 /\ ~OK(R - k) /\ R - k \in 1 .. R
        BY <1>1, <2>2 DEF Bad
    <2> DEFINE t == R - k
               Here == {m \in Nodes(n) : m[1] = t}
               w == Width(n, t)
    <2>4. IsFiniteSet(Here) /\ Cardinality(Here) = w /\ w \in Nat
        <3>1. t \in 0 .. R
            BY <1>1, <2>3
        <3> QED BY <2>3, <3>1, RoundCount, Widths DEF R
    <2>5. CASE k = 0
        <3>1. \A m \in Nodes(n) : m[1] >= t <=> m[1] = t
            <4>1. t = R
                BY <1>1, <2>5
            <4>2. \A m \in Nodes(n) : m[1] \in 1 .. R
                BY NodesAre DEF R
            <4> HIDE DEF t
            <4> TAKE m \in Nodes(n)
            <4>3. m[1] \in Nat /\ m[1] <= R
                BY <1>1, <4>2
            <4> QED BY <1>1, <4>1, <4>3
        <3>2. Above(n, t) = Here
            BY <3>1 DEF Above
        <3>3. w = 1
            <4>1. t = R /\ R \in 0 .. R
                BY <1>1, <2>5
            <4> QED BY <4>1, Widths DEF R
        <3>4. IsFiniteSet(Above(n, t)) /\ Cardinality(Above(n, t)) = 1
            BY <2>4, <3>2, <3>3
        <3>5. 2 * w - 1 = 1
            BY <3>3
        <3>6. OK(t)
            BY <3>4, <3>5 DEF OK
        <3> QED BY <2>3, <3>6
    <2>6. CASE k # 0
        <3>1. k - 1 \in 0 .. R - 1 /\ ~(k <= k - 1) /\ R - (k - 1) = t + 1 /\ t < R /\ t \in Nat
              /\ t + 1 \in 1 .. R /\ t \in 0 .. R /\ t + 1 \in 0 .. R
            BY <1>1, <2>3, <2>6
        <3>2. OK(t + 1)
            BY <2>2, <3>1 DEF Bad
        <3> DEFINE v == Width(n, t + 1)
        <3>3. w = 2 * v /\ v \in Nat /\ v >= 1
            BY <3>1, Widths DEF R
        <3>4. Above(n, t) = Above(n, t + 1) \cup Here /\ Above(n, t + 1) \cap Here = {}
            <4>1. \A m \in Nodes(n) : m[1] \in Nat
                BY NodesAre, <1>1 DEF R
            <4>2. \A m \in Nodes(n) : /\ m[1] >= t <=> m[1] >= t + 1 \/ m[1] = t
                                      /\ ~(m[1] >= t + 1 /\ m[1] = t)
                BY <3>1, <4>1
            <4> HIDE DEF t
            <4> QED BY <4>2 DEF Above
        <3> DEFINE T == Above(n, t + 1)
                   U == Above(n, t)
        <3>5. IsFiniteSet(T) /\ Cardinality(T) = 2 * v - 1
            BY <3>2 DEF OK
        <3>6. U = T \cup Here /\ T \cap Here = {}
            BY <3>4
        <3> HIDE DEF T, U, Here, v, w
        <3>7. IsFiniteSet(U) /\ Cardinality(U) = Cardinality(T) + Cardinality(Here) - Cardinality(T \cap Here)
            BY <2>4, <3>5, <3>6, FS_Union
        <3>8. Cardinality(T \cap Here) = 0
            BY <3>6, FS_EmptySet
        <3>9. Cardinality(U) = 2 * w - 1
            BY <2>4, <3>3, <3>5, <3>7, <3>8
        <3>10. OK(t)
            BY <3>7, <3>9 DEF OK, U, w
        <3> QED BY <2>3, <3>10
    <2> QED BY <2>5, <2>6
<1>3. OK(s)
    <2> HIDE DEF OK
    <2>1. R - s \in 0 .. R - 1 /\ R - (R - s) = s
        BY <1>1
    <2> QED BY <1>2, <2>1
<1> QED BY <1>3

\* The whole tree: one match less than it has places.
LEMMA NodeCount ==
    ASSUME NEW n \in Nat, n >= 2
    PROVE  IsFiniteSet(Nodes(n)) /\ Cardinality(Nodes(n)) = 2 * Width(n, 1) - 1
<1>1. 1 \in 1 .. Rounds(n)
    BY RoundsFit
<1>2. Above(n, 1) = Nodes(n)
    <2>1. \A m \in Nodes(n) : m[1] >= 1
        BY NodesAre, RoundsFit
    <2> QED BY <2>1 DEF Above
<1> QED BY <1>1, <1>2, AboveCount

\* The first round: pairs of neighbours, then a bye for everyone who is left.
LEMMA FirstRound ==
    ASSUME FieldInv,
           NEW p \in 0 .. Width(Len(ordered), 1) - 1
    PROVE  LET n == Len(ordered)
               real == n - Width(n, 1)
           IN  /\ p < real => /\ Opening(ordered, p) = Node(2 * p + 1, 2 * p + 2, None, "READY")
                              /\ 2 * p + 1 \in 1 .. 2 * real /\ 2 * p + 2 \in 1 .. 2 * real
               /\ ~(p < real) => /\ Opening(ordered, p) = Node(real + p + 1, None, real + p + 1, "BYE")
                                 /\ real + p + 1 \in 2 * real + 1 .. n
<1> DEFINE n == Len(ordered)
           half == Width(n, 1)
           real == n - half
<1>1. /\ n \in Nat /\ half \in Nat /\ Size(n) \div 2 = half
      /\ half < n /\ n <= 2 * half
    BY OrderIs, FieldFits
<1>2. real \in Nat /\ p \in Nat /\ p < half /\ 2 * real <= n
    BY <1>1
<1>3. Opening(ordered, p) = IF p < real
                            THEN Node(ordered[2 * p + 1], ordered[2 * p + 2], None, "READY")
                            ELSE Node(ordered[real + p + 1], None, ordered[real + p + 1], "BYE")
    BY <1>1 DEF Opening
<1> HIDE DEF half
<1>4. CASE p < real
    <2>1. 2 * p + 1 \in 1 .. n /\ 2 * p + 2 \in 1 .. n
          /\ 2 * p + 1 \in 1 .. 2 * real /\ 2 * p + 2 \in 1 .. 2 * real
        BY <1>1, <1>2, <1>4
    <2>2. ordered[2 * p + 1] = 2 * p + 1 /\ ordered[2 * p + 2] = 2 * p + 2
        BY <2>1, OrderIs
    <2> QED BY <1>3, <1>4, <2>1, <2>2 DEF half
<1>5. CASE ~(p < real)
    <2>1. real + p + 1 \in 1 .. n /\ real + p + 1 \in 2 * real + 1 .. n
        BY <1>1, <1>2, <1>5
    <2>2. ordered[real + p + 1] = real + p + 1
        BY <2>1, OrderIs
    <2> QED BY <1>3, <1>5, <2>1, <2>2 DEF half
<1> QED BY <1>4, <1>5 DEF half

\* The match of the first round that x starts in
StartOf(n, x) ==
    LET real == n - Width(n, 1) IN
    <<1, IF x <= 2 * real THEN (x - 1) \div 2 ELSE x - real - 1>>

SlotsIn(plan, m) == {plan[m].a, plan[m].b} \ {None}

LEMMA PlanIs ==
    ASSUME FieldInv, NEW m \in Nodes(Len(ordered))
    PROVE  LET plan == BuildSingleElim(ordered)
           IN  /\ DOMAIN plan = Nodes(Len(ordered))
               /\ plan[m] = CASE m[1] = 1 -> Opening(ordered, m[2])
                              [] m[1] = 2 -> Second(ordered, m[2])
                              [] OTHER    -> Node(None, None, None, "PENDING")
BY DEF BuildSingleElim

\* A participant sits in one match of the first round, and in no other.
LEMMA StartsOnce ==
    ASSUME FieldInv, NEW x \in Players
    PROVE  LET plan == BuildSingleElim(ordered)
           IN  {m \in DOMAIN plan : m[1] = 1 /\ x \in SlotsIn(plan, m)} = {StartOf(Len(ordered), x)}
<1> DEFINE n == Len(ordered)
           plan == BuildSingleElim(ordered)
           half == Width(n, 1)
           real == n - half
<1>1. /\ n \in Nat /\ n >= 2 /\ half \in Nat /\ half < n /\ n <= 2 * half
      /\ real \in Nat /\ 2 * real <= n
    BY OrderIs, FieldFits
<1>2. x \in Nat /\ x >= 1 /\ x <= n /\ x # None
    BY OrderIs
<1>3. \A m \in Nodes(n) : m[1] = 1 =>
        /\ m = <<1, m[2]>> /\ m[2] \in 0 .. half - 1
        /\ plan[m] = Opening(ordered, m[2])
    <2> SUFFICES ASSUME NEW m \in Nodes(n), m[1] = 1
                 PROVE  /\ m = <<1, m[2]>> /\ m[2] \in 0 .. half - 1
                        /\ plan[m] = Opening(ordered, m[2])
        OBVIOUS
    <2>1. m = <<1, m[2]>> /\ m[2] \in 0 .. half - 1
        BY NodesAre
    <2>2. plan[m] = Opening(ordered, m[2])
        BY PlanIs
    <2> QED BY <2>1, <2>2
<1>4. \A p \in 0 .. half - 1 : <<1, p>> \in Nodes(n)
    <2>1. 1 \in 1 .. Rounds(n)
        BY <1>1, RoundsFit
    <2> QED BY <2>1, NodesAre
<1>5. \A k \in Nat : k # None
    BY DrawsAssumption
<1>6. ASSUME NEW p \in 0 .. half - 1
      PROVE  /\ p \in Nat
             /\ p < real => {Opening(ordered, p).a, Opening(ordered, p).b} \ {None} = {2 * p + 1, 2 * p + 2}
             /\ ~(p < real) => {Opening(ordered, p).a, Opening(ordered, p).b} \ {None} = {real + p + 1}
    <2>1. p \in Nat /\ 2 * p + 1 \in Nat /\ 2 * p + 2 \in Nat /\ real + p + 1 \in Nat
        BY <1>1
    <2>2. /\ p < real => Opening(ordered, p) = Node(2 * p + 1, 2 * p + 2, None, "READY")
          /\ ~(p < real) => Opening(ordered, p) = Node(real + p + 1, None, real + p + 1, "BYE")
        BY FirstRound
    <2> HIDE DEF half
    <2>3. CASE p < real
        <3>1. Opening(ordered, p).a = 2 * p + 1 /\ Opening(ordered, p).b = 2 * p + 2
            BY <2>2, <2>3 DEF Node
        <3>2. 2 * p + 1 # None /\ 2 * p + 2 # None
            BY <1>5, <2>1
        <3> QED BY <2>1, <2>3, <3>1, <3>2
    <2>4. CASE ~(p < real)
        <3>1. Opening(ordered, p).a = real + p + 1 /\ Opening(ordered, p).b = None
            BY <2>2, <2>4 DEF Node
        <3>2. real + p + 1 # None
            BY <1>5, <2>1
        <3> QED BY <2>1, <2>4, <3>1, <3>2
    <2> QED BY <2>3, <2>4
<1> DEFINE q == IF x <= 2 * real THEN (x - 1) \div 2 ELSE x - real - 1
<1> HIDE DEF half
<1>7. /\ q \in 0 .. half - 1
      /\ q < real <=> x <= 2 * real
      /\ q < real => x = 2 * q + 1 \/ x = 2 * q + 2
      /\ ~(q < real) => x = real + q + 1
    <2>1. CASE x <= 2 * real
        <3>1. (x - 1) \div 2 \in Nat /\ (x = 2 * ((x - 1) \div 2) + 1 \/ x = 2 * ((x - 1) \div 2) + 2)
            BY <1>2
        <3> QED BY <1>1, <1>2, <2>1, <3>1
    <2>2. CASE ~(x <= 2 * real)
        BY <1>1, <1>2, <2>2
    <2> QED BY <2>1, <2>2
<1>8. StartOf(n, x) = <<1, q>>
    BY DEF StartOf, half
<1> HIDE DEF q, n, plan
<1>9. \A m \in Nodes(n) : m[1] = 1 /\ x \in SlotsIn(plan, m) => m = <<1, q>>
    <2> SUFFICES ASSUME NEW m \in Nodes(n), m[1] = 1, x \in SlotsIn(plan, m) PROVE m = <<1, q>>
        OBVIOUS
    <2>1. m = <<1, m[2]>> /\ m[2] \in 0 .. half - 1 /\ plan[m] = Opening(ordered, m[2])
        BY <1>3
    <2>2. PICK p \in 0 .. half - 1 : p = m[2]
        BY <2>1
    <2>3. x \in {Opening(ordered, p).a, Opening(ordered, p).b} \ {None}
        BY <2>1, <2>2 DEF SlotsIn
    <2>4. p \in Nat /\ (p < real => x = 2 * p + 1 \/ x = 2 * p + 2) /\ (~(p < real) => x = real + p + 1)
        BY <1>6, <2>3
    <2>5. p = q
        <3>1. q \in Nat
            BY <1>7
        <3> QED BY <1>1, <1>2, <1>7, <2>4, <3>1
    <2> QED BY <2>1, <2>2, <2>5
<1>10. <<1, q>> \in Nodes(n) /\ x \in SlotsIn(plan, <<1, q>>)
    <2>1. <<1, q>> \in Nodes(n)
        BY <1>4, <1>7
    <2>2. plan[<<1, q>>] = Opening(ordered, q)
        BY <1>3, <2>1
    <2>3. x \in {Opening(ordered, q).a, Opening(ordered, q).b} \ {None}
        BY <1>6, <1>7
    <2> QED BY <2>1, <2>2, <2>3 DEF SlotsIn
<1>11. DOMAIN plan = Nodes(n)
    BY PlanIs, <1>10 DEF plan, n
<1>12. {m \in DOMAIN plan : m[1] = 1 /\ x \in SlotsIn(plan, m)} = {<<1, q>>}
    BY <1>9, <1>10, <1>11
<1> QED BY <1>8, <1>12 DEF n, plan

\* Who is through to the second round before anything is played
LEMMA ByeWinners ==
    ASSUME FieldInv,
           NEW p \in 0 .. Width(Len(ordered), 1) - 1
    PROVE  LET n == Len(ordered)
               real == n - Width(n, 1)
           IN  /\ p < real => Opening(ordered, p).winner = None
               /\ ~(p < real) => /\ Opening(ordered, p).winner = real + p + 1
                                 /\ real + p + 1 # None
<1> DEFINE real == Len(ordered) - Width(Len(ordered), 1)
<1>1. real \in Nat /\ p \in Nat
    BY OrderIs, FieldFits
<1>2. p < real => Opening(ordered, p).winner = None
    BY FirstRound DEF Node
<1>3. ~(p < real) => Opening(ordered, p).winner = real + p + 1
    BY FirstRound DEF Node
<1>4. real + p + 1 # None
    BY <1>1, DrawsAssumption
<1> QED BY <1>2, <1>3, <1>4

\* The rows of the drawn bracket, round by round
LEMMA RowsPlanned ==
    ASSUME FieldInv, NEW m \in Nodes(Len(ordered))
    PROVE  LET plan == BuildSingleElim(ordered)
               half == Width(Len(ordered), 1)
           IN  /\ m[1] = 1 => /\ m[2] \in 0 .. half - 1
                              /\ plan[m] = Opening(ordered, m[2])
               /\ m[1] = 2 => /\ 2 * m[2] \in 0 .. half - 1 /\ 2 * m[2] + 1 \in 0 .. half - 1
                              /\ plan[m].a = Opening(ordered, 2 * m[2]).winner
                              /\ plan[m].b = Opening(ordered, 2 * m[2] + 1).winner
                              /\ plan[m].status = IF plan[m].a # None /\ plan[m].b # None
                                                  THEN "READY" ELSE "PENDING"
               /\ m[1] # 1 /\ m[1] # 2 => /\ plan[m].a = None /\ plan[m].b = None
                                          /\ plan[m].status = "PENDING"
<1> DEFINE n == Len(ordered)
           plan == BuildSingleElim(ordered)
           half == Width(n, 1)
<1>1. n \in Nat /\ n >= 2 /\ half \in Nat
    BY OrderIs, FieldFits
<1>2. /\ m = <<m[1], m[2]>>
      /\ m[1] \in 1 .. Rounds(n)
      /\ m[2] \in 0 .. Width(n, m[1]) - 1
    BY NodesAre
<1>3. plan[m] = CASE m[1] = 1 -> Opening(ordered, m[2])
                  [] m[1] = 2 -> Second(ordered, m[2])
                  [] OTHER    -> Node(None, None, None, "PENDING")
    BY PlanIs
<1>4. ASSUME m[1] = 1
      PROVE  m[2] \in 0 .. half - 1 /\ plan[m] = Opening(ordered, m[2])
    BY <1>2, <1>3, <1>4
<1>5. ASSUME m[1] = 2
      PROVE  /\ 2 * m[2] \in 0 .. half - 1 /\ 2 * m[2] + 1 \in 0 .. half - 1
             /\ plan[m].a = Opening(ordered, 2 * m[2]).winner
             /\ plan[m].b = Opening(ordered, 2 * m[2] + 1).winner
             /\ plan[m].status = IF plan[m].a # None /\ plan[m].b # None
                                 THEN "READY" ELSE "PENDING"
    <2>1. 1 \in 0 .. Rounds(n) /\ 1 < Rounds(n) /\ 1 + 1 = 2 /\ 2 \in 0 .. Rounds(n)
        BY <1>1, <1>2, <1>5, RoundsFit
    <2> DEFINE w == Width(n, 2)
    <2>2. half = 2 * w /\ w \in Nat
        BY <1>1, <2>1, Widths
    <2>3. m[2] \in 0 .. w - 1
        BY <1>2, <1>5
    <2>4. plan[m] = Second(ordered, m[2])
        BY <1>3, <1>5
    <2>5. /\ plan[m].a = Opening(ordered, 2 * m[2]).winner
          /\ plan[m].b = Opening(ordered, 2 * m[2] + 1).winner
          /\ plan[m].status = IF plan[m].a # None /\ plan[m].b # None
                              THEN "READY" ELSE "PENDING"
        BY <2>4 DEF Second, Node
    <2> HIDE DEF half, w
    <2>6. 2 * m[2] \in 0 .. half - 1 /\ 2 * m[2] + 1 \in 0 .. half - 1
        BY <2>2, <2>3
    <2> QED BY <2>5, <2>6
<1>6. ASSUME m[1] # 1, m[1] # 2
      PROVE  plan[m].a = None /\ plan[m].b = None /\ plan[m].status = "PENDING"
    BY <1>3, <1>6 DEF Node
<1> QED BY <1>4, <1>5, <1>6

\* The byes of a first round
LEMMA ByesAre ==
    ASSUME FieldInv
    PROVE  LET plan == BuildSingleElim(ordered)
               n == Len(ordered)
               half == Width(n, 1)
               byes == {m \in Nodes(n) : plan[m].status = "BYE"}
           IN  /\ \A m \in byes : /\ m[1] = 1 /\ m[2] \in n - half .. half - 1
                                  /\ plan[m].winner = Opening(ordered, m[2]).winner
               /\ IsFiniteSet(byes) /\ Cardinality(byes) = 2 * half - n
<1> DEFINE n == Len(ordered)
           plan == BuildSingleElim(ordered)
           half == Width(n, 1)
           real == n - half
           byes == {m \in Nodes(n) : plan[m].status = "BYE"}
           f == [p \in real .. half - 1 |-> <<1, p>>]
<1>1. /\ n \in Nat /\ n >= 2 /\ half \in Nat /\ half < n /\ n <= 2 * half
      /\ real \in Nat /\ real <= half
    BY OrderIs, FieldFits
<1>2. ASSUME NEW m \in byes
      PROVE  /\ m = <<1, m[2]>> /\ m[2] \in real .. half - 1
             /\ plan[m].winner = Opening(ordered, m[2]).winner
    <2>1. m \in Nodes(n) /\ plan[m].status = "BYE"
        OBVIOUS
    <2>2. m[1] = 1
        BY <2>1, RowsPlanned
    <2>3. m[2] \in 0 .. half - 1 /\ plan[m] = Opening(ordered, m[2])
        BY <2>1, <2>2, RowsPlanned
    <2>4. ~(m[2] < real)
        <3>1. ASSUME m[2] < real PROVE FALSE
            <4>1. Opening(ordered, m[2]) = Node(2 * m[2] + 1, 2 * m[2] + 2, None, "READY")
                BY <2>3, <3>1, FirstRound
            <4> QED BY <2>1, <2>3, <4>1 DEF Node
        <3> QED BY <3>1
    <2>5. m = <<m[1], m[2]>>
        BY <2>1, NodesAre
    <2> HIDE DEF half
    <2>6. m[2] \in real .. half - 1
        BY <1>1, <2>3, <2>4
    <2> QED BY <2>2, <2>3, <2>5, <2>6
<1>3. ASSUME NEW p \in real .. half - 1
      PROVE  <<1, p>> \in byes
    <2>1. 1 \in 1 .. Rounds(n)
        BY <1>1, RoundsFit
    <2>2. p \in 0 .. half - 1 /\ ~(p < real)
        <3> HIDE DEF half
        <3> QED BY <1>1
    <2>3. <<1, p>> \in Nodes(n)
        BY <2>1, <2>2, NodesAre
    <2>4. plan[<<1, p>>] = Opening(ordered, p)
        BY <2>3, RowsPlanned
    <2>5. Opening(ordered, p) = Node(real + p + 1, None, real + p + 1, "BYE")
        BY <2>2, FirstRound
    <2> QED BY <2>3, <2>4, <2>5 DEF Node
<1>4. f \in Bijection(real .. half - 1, byes)
    <2> HIDE DEF byes, half, n
    <2>1. f \in [real .. half - 1 -> byes]
        BY <1>3
    <2>2. \A p, q \in real .. half - 1 : f[p] = f[q] => p = q
        OBVIOUS
    <2>3. \A m \in byes : \E p \in real .. half - 1 : f[p] = m
        BY <1>2
    <2> QED BY <2>1, <2>2, <2>3 DEF Bijection, Injection, Surjection, IsInjective
<1>5. IsFiniteSet(real .. half - 1) /\ Cardinality(real .. half - 1) = half - real
    <2> HIDE DEF half, n
    <2>1. real \in Int /\ half - 1 \in Int
        BY <1>1
    <2>2. IsFiniteSet(real .. half - 1)
          /\ Cardinality(real .. half - 1) = IF real > half - 1 THEN 0 ELSE (half - 1) - real + 1
        BY <2>1, FS_Interval
    <2> QED BY <1>1, <2>2
<1>6. ExistsBijection(real .. half - 1, byes)
    BY <1>4 DEF ExistsBijection
<1>7. IsFiniteSet(byes) /\ Cardinality(byes) = half - real
    <2> HIDE DEF byes, real, half
    <2> QED BY <1>5, <1>6, FS_Bijection
<1>8. half - real = 2 * half - n
    <2> HIDE DEF half, n
    <2> QED BY <1>1
<1>9. \A m \in byes : /\ m[1] = 1 /\ m[2] \in n - half .. half - 1
                      /\ plan[m].winner = Opening(ordered, m[2]).winner
    <2> SUFFICES ASSUME NEW m \in byes
                 PROVE  /\ m[1] = 1 /\ m[2] \in n - half .. half - 1
                        /\ plan[m].winner = Opening(ordered, m[2]).winner
        OBVIOUS
    <2> QED BY <1>2
<1> QED BY <1>7, <1>8, <1>9

\* Nobody is lost to a bye: his next match knows him.
LEMMA ByeAdvances ==
    ASSUME FieldInv, NEW m \in Nodes(Len(ordered)),
           BuildSingleElim(ordered)[m].status = "BYE"
    PROVE  BuildSingleElim(ordered)[m].winner
              \in SlotsIn(BuildSingleElim(ordered), NextOf(Len(ordered), m))
<1> DEFINE n == Len(ordered)
           plan == BuildSingleElim(ordered)
           half == Width(n, 1)
           real == n - half
           k == <<2, m[2] \div 2>>
<1>1. /\ n \in Nat /\ n >= 2 /\ half \in Nat /\ half < n /\ n <= 2 * half /\ real \in Nat
    BY OrderIs, FieldFits
<1>2. m[1] = 1 /\ m[2] \in real .. half - 1 /\ plan[m].winner = Opening(ordered, m[2]).winner
    BY ByesAre
<1>3. PICK p \in Nat : p = m[2] /\ p \in 0 .. half - 1 /\ ~(p < real)
    <2> HIDE DEF half
    <2> QED BY <1>1, <1>2
<1>4. m[1] # Rounds(n)
    <2>1. ASSUME Rounds(n) = 1 PROVE FALSE
        <3>1. half = 1
            <4>1. 1 \in 0 .. Rounds(n)
                BY <2>1
            <4> QED BY <1>1, <2>1, <4>1, Widths
        <3> HIDE DEF half
        <3> QED BY <1>1, <1>3, <3>1
    <2> QED BY <1>2, <2>1
<1>5. NextOf(n, m) = k /\ k \in Nodes(n)
    <2>1. NextOf(n, m) # None
        BY <1>1, <1>4, NextInTree
    <2>2. NextOf(n, m) = <<m[1] + 1, m[2] \div 2>> /\ NextOf(n, m) \in Nodes(n)
        BY <1>1, <2>1, NextInTree
    <2>3. m[1] + 1 = 2
        BY <1>2
    <2> QED BY <2>2, <2>3
<1>6. PICK w : w = Opening(ordered, p).winner /\ w # None
    BY <1>3, ByeWinners
<1>7. /\ plan[k].a = Opening(ordered, 2 * k[2]).winner
      /\ plan[k].b = Opening(ordered, 2 * k[2] + 1).winner
    BY <1>5, RowsPlanned
<1>8. p = 2 * k[2] \/ p = 2 * k[2] + 1
    <2>1. k[2] = p \div 2
        BY <1>3
    <2> QED BY <1>3, <2>1
<1>9. w \in {plan[k].a, plan[k].b} /\ plan[m].winner = w
    BY <1>2, <1>3, <1>6, <1>7, <1>8
<1> HIDE DEF k
<1> QED BY <1>5, <1>6, <1>9 DEF SlotsIn

\* A match that is not a bye is open when both its players are known.
LEMMA ReadyIsFull ==
    ASSUME FieldInv, NEW m \in Nodes(Len(ordered)),
           BuildSingleElim(ordered)[m].status # "BYE"
    PROVE  BuildSingleElim(ordered)[m].status = "READY"
              <=> Cardinality(SlotsIn(BuildSingleElim(ordered), m)) = 2
<1> DEFINE n == Len(ordered)
           plan == BuildSingleElim(ordered)
           half == Width(n, 1)
           real == n - half
           a == plan[m].a
           b == plan[m].b
<1>1. /\ n \in Nat /\ n >= 2 /\ half \in Nat /\ half < n /\ n <= 2 * half /\ real \in Nat
    BY OrderIs, FieldFits
<1>2. /\ a # None /\ b # None /\ a # b => Cardinality(SlotsIn(plan, m)) = 2
      /\ a = None \/ b = None => Cardinality(SlotsIn(plan, m)) # 2
    <2>0. SlotsIn(plan, m) = {a, b} \ {None}
        BY DEF SlotsIn
    <2> HIDE DEF a, b, plan
    <2>1. ASSUME a # None, b # None, a # b PROVE Cardinality(SlotsIn(plan, m)) = 2
        <3>1. SlotsIn(plan, m) = {a, b}
            BY <2>0, <2>1
        <3> QED BY <2>1, <3>1, PairCount
    <2>2. ASSUME a = None \/ b = None PROVE Cardinality(SlotsIn(plan, m)) # 2
        <3>1. SlotsIn(plan, m) = {} \/ \E x : SlotsIn(plan, m) = {x}
            BY <2>0, <2>2
        <3>2. CASE SlotsIn(plan, m) = {}
            <4>1. Cardinality(SlotsIn(plan, m)) = 0
                BY <3>2, FS_EmptySet
            <4> QED BY <4>1
        <3>3. CASE \E x : SlotsIn(plan, m) = {x}
            <4>1. PICK x : SlotsIn(plan, m) = {x}
                BY <3>3
            <4>2. Cardinality(SlotsIn(plan, m)) = 1
                BY <4>1, FS_Singleton
            <4> QED BY <4>2
        <3> QED BY <3>1, <3>2, <3>3
    <2> QED BY <2>1, <2>2
<1>3. CASE m[1] = 1
    <2>1. m[2] \in 0 .. half - 1 /\ plan[m] = Opening(ordered, m[2])
        BY <1>3, RowsPlanned
    <2>2. PICK p \in Nat : p = m[2] /\ p \in 0 .. half - 1
        <3> HIDE DEF half
        <3> QED BY <1>1, <2>1
    <2>3. p < real
        <3>1. ASSUME ~(p < real) PROVE FALSE
            <4>1. Opening(ordered, p).status = "BYE"
                BY <2>2, <3>1, FirstRound DEF Node
            <4> QED BY <2>1, <2>2, <4>1
        <3> QED BY <3>1
    <2>4. plan[m] = Node(2 * p + 1, 2 * p + 2, None, "READY")
        BY <2>1, <2>2, <2>3, FirstRound
    <2>5. a = 2 * p + 1 /\ b = 2 * p + 2 /\ plan[m].status = "READY"
        BY <2>4 DEF Node
    <2>6. 2 * p + 1 # None /\ 2 * p + 2 # None /\ 2 * p + 1 # 2 * p + 2
        BY <2>2, DrawsAssumption
    <2> QED BY <1>2, <2>5, <2>6
<1>4. CASE m[1] = 2
    <2>1. /\ 2 * m[2] \in 0 .. half - 1 /\ 2 * m[2] + 1 \in 0 .. half - 1
          /\ a = Opening(ordered, 2 * m[2]).winner
          /\ b = Opening(ordered, 2 * m[2] + 1).winner
          /\ plan[m].status = IF a # None /\ b # None THEN "READY" ELSE "PENDING"
        BY <1>4, RowsPlanned
    <2>2. PICK i \in Nat, j \in Nat : /\ i = 2 * m[2] /\ j = 2 * m[2] + 1
                                      /\ i \in 0 .. half - 1 /\ j \in 0 .. half - 1
        <3> HIDE DEF half
        <3> QED BY <1>1, <2>1
    <2>3. i # j
        BY <2>2
    <2>4. /\ a # None => a = real + i + 1
          /\ b # None => b = real + j + 1
        BY <2>1, <2>2, ByeWinners
    <2>5. a # None /\ b # None => a # b
        <3> HIDE DEF a, b, half
        <3> QED BY <1>1, <2>2, <2>3, <2>4
    <2> QED BY <1>2, <2>1, <2>5
<1>5. CASE m[1] # 1 /\ m[1] # 2
    <2>1. a = None /\ b = None /\ plan[m].status = "PENDING"
        BY <1>5, RowsPlanned
    <2> QED BY <1>2, <2>1
<1> QED BY <1>3, <1>4, <1>5

\* One match less than participants is played.
LEMMA PlayedCount ==
    ASSUME FieldInv
    PROVE  Cardinality({m \in Nodes(Len(ordered)) : BuildSingleElim(ordered)[m].status # "BYE"})
              = Len(ordered) - 1
<1> DEFINE n == Len(ordered)
           plan == BuildSingleElim(ordered)
           half == Width(n, 1)
           All == Nodes(n)
           byes == {m \in All : plan[m].status = "BYE"}
           Played == {m \in All : plan[m].status # "BYE"}
<1>1. n \in Nat /\ n >= 2 /\ half \in Nat
    BY OrderIs, FieldFits
<1>2. IsFiniteSet(All) /\ Cardinality(All) = 2 * half - 1
    BY <1>1, NodeCount
<1>3. IsFiniteSet(byes) /\ Cardinality(byes) = 2 * half - n
    BY ByesAre
<1>4. Played = All \ byes /\ byes = All \cap byes
    OBVIOUS
<1> HIDE DEF All, byes, half
<1>5. Cardinality(All \ byes) = Cardinality(All) - Cardinality(All \cap byes)
    BY <1>2, FS_Difference
<1>6. Cardinality(All \ byes) = n - 1
    <2>1. Cardinality(All \cap byes) = 2 * half - n
        BY <1>3, <1>4
    <2>2. Cardinality(All \ byes) = (2 * half - 1) - (2 * half - n)
        BY <1>2, <1>5, <2>1
    <2> HIDE DEF n
    <2> QED BY <1>1, <2>2
<1> QED BY <1>4, <1>6 DEF All, byes

\* The links of a tree: two matches feed a later one, none feeds a first one.
LEMMA FeederCount ==
    ASSUME NEW n \in Nat, n >= 2, NEW m \in Nodes(n)
    PROVE  Cardinality({k \in Nodes(n) : NextOf(n, k) = m}) = IF m[1] = 1 THEN 0 ELSE 2
<1> DEFINE F == {k \in Nodes(n) : NextOf(n, k) = m}
<1>1. m[1] \in Nat /\ m[1] >= 1 /\ m # None
    <2>1. m = <<m[1], m[2]>> /\ m[1] \in 1 .. Rounds(n)
        BY NodesAre
    <2>2. m[1] \in Nat /\ m[2] \in Nat
        BY NextInTree
    <2> QED BY <2>1, <2>2, RoundsFit, FieldsAssumption
<1>2. CASE m[1] = 1
    <2>1. \A k \in Nodes(n) : NextOf(n, k) # m
        <3> SUFFICES ASSUME NEW k \in Nodes(n), NextOf(n, k) = m PROVE FALSE
            OBVIOUS
        <3>1. k[1] \in 1 .. Rounds(n) /\ k[1] \in Nat
            BY NodesAre, NextInTree
        <3>2. m[1] = k[1] + 1
            BY <1>1, NextInTree
        <3> QED BY <1>2, <3>1, <3>2
    <2>2. F = {}
        BY <2>1
    <2> QED BY <1>2, <2>2, FS_EmptySet
<1>3. CASE m[1] # 1
    <2>1. m[1] > 1
        BY <1>1, <1>3
    <2>2. F = {First(m), Latter(m)} /\ First(m) # Latter(m)
        BY <2>1, FeedersAre
    <2>3. Cardinality(F) = 2
        <3> HIDE DEF F
        <3>1. Cardinality({First(m), Latter(m)}) = 2
            BY <2>2, PairCount
        <3> QED BY <2>2, <3>1
    <2> QED BY <1>3, <2>3
<1> QED BY <1>2, <1>3

LEMMA ElimHolds == FieldInv => ElimSound
<1> SUFFICES ASSUME FieldInv PROVE ElimSound
    OBVIOUS
<1> DEFINE n == Len(ordered)
           plan == BuildSingleElim(ordered)
<1>1. n \in Nat /\ n >= 2
    BY OrderIs
<1>2. Nodes(n) # {} /\ DOMAIN plan = Nodes(n)
    BY <1>1, OneFinal, PlanIs
<1>3. \A x \in Players : Cardinality({m \in DOMAIN plan : m[1] = 1 /\ x \in SlotsIn(plan, m)}) = 1
    BY StartsOnce, FS_Singleton
<1>4. \A m \in DOMAIN plan : m[1] = 1 => SlotsIn(plan, m) # {}
    <2> SUFFICES ASSUME NEW m \in Nodes(n), m[1] = 1 PROVE SlotsIn(plan, m) # {}
        BY <1>2
    <2>1. m[2] \in 0 .. Width(n, 1) - 1 /\ plan[m] = Opening(ordered, m[2])
        BY RowsPlanned
    <2>2. plan[m].a \in Nat
        <3> DEFINE real == n - Width(n, 1)
        <3>1. real \in Nat /\ m[2] \in Nat
            BY <1>1, <2>1, FieldFits
        <3>2. Opening(ordered, m[2]).a = 2 * m[2] + 1 \/ Opening(ordered, m[2]).a = real + m[2] + 1
            BY <2>1, FirstRound DEF Node
        <3> QED BY <2>1, <3>1, <3>2
    <2>3. plan[m].a # None
        BY <2>2, DrawsAssumption
    <2> QED BY <2>3 DEF SlotsIn
<1>5. \A m \in DOMAIN plan :
        plan[m].status = "BYE" => plan[m].winner \in SlotsIn(plan, NextOf(n, m))
    BY <1>2, ByeAdvances
<1>6. \A m \in DOMAIN plan : plan[m].status # "BYE" =>
        (plan[m].status = "READY" <=> Cardinality(SlotsIn(plan, m)) = 2)
    BY <1>2, ReadyIsFull
<1>7. Cardinality({m \in DOMAIN plan : plan[m].status # "BYE"}) = n - 1
    BY <1>2, PlayedCount
<1>8. \A m \in Nodes(n) : NextOf(n, m) \in Nodes(n) \cup {None}
    BY <1>1, NextInTree
<1>9. \A m \in Nodes(n) :
        Cardinality({k \in Nodes(n) : NextOf(n, k) = m}) = IF m[1] = 1 THEN 0 ELSE 2
    BY <1>1, FeederCount
<1>10. Cardinality({m \in Nodes(n) : NextOf(n, m) = None}) = 1
    <2>1. PICK m \in Nodes(n) : {k \in Nodes(n) : NextOf(n, k) = None} = {m}
        BY <1>1, OneFinal
    <2> QED BY <2>1, FS_Singleton
<1> HIDE DEF n, plan
<1>11. ElimSound =
        (made = "SINGLE_ELIM" =>
            /\ \A x \in Players : Cardinality({m \in DOMAIN plan : m[1] = 1 /\ x \in SlotsIn(plan, m)}) = 1
            /\ \A m \in DOMAIN plan : m[1] = 1 => SlotsIn(plan, m) # {}
            /\ \A m \in DOMAIN plan :
                plan[m].status = "BYE" => plan[m].winner \in SlotsIn(plan, NextOf(n, m))
            /\ \A m \in {k \in DOMAIN plan : plan[k].status # "BYE"} :
                plan[m].status = "READY" <=> Cardinality(SlotsIn(plan, m)) = 2
            /\ Cardinality({m \in DOMAIN plan : plan[m].status # "BYE"}) = n - 1
            /\ \A m \in Nodes(n) : NextOf(n, m) \in Nodes(n) \cup {None}
            /\ \A m \in Nodes(n) :
                Cardinality({k \in Nodes(n) : NextOf(n, k) = m}) = IF m[1] = 1 THEN 0 ELSE 2
            /\ Cardinality({m \in Nodes(n) : NextOf(n, m) = None}) = 1)
    BY Zenon DEF ElimSound, SlotsIn, n, plan
<1> QED BY <1>3, <1>4, <1>5, <1>6, <1>7, <1>8, <1>9, <1>10, <1>11

LEMMA FieldKept == AllSpec => []FieldInv
<1>1. AllInit => FieldInv
    BY DrawsAssumption DEF AllInit, DrawInit, FieldInv
<1>2. FieldInv /\ [AllNext]_allVars => FieldInv'
    <2> SUFFICES ASSUME [AllNext]_allVars PROVE ordered' = ordered
        BY DEF FieldInv
    <2>1. CASE \E f \in Format : Draw(f)
        BY <2>1 DEF Draw
    <2>2. CASE \E m \in drawn, s \in Scores : \E x \in m.players : PlayMeeting(m, x, s)
        BY <2>2 DEF PlayMeeting
    <2>3. CASE \E round \in Results(drawn) : PlayRound(round)
        BY <2>3 DEF PlayRound
    <2>4. CASE \E server \in Side \cup {NoServer}, advantage, tieBreak \in BOOLEAN :
                  StartMatch(server, advantage, tieBreak)
        BY <2>4 DEF StartMatch
    <2>5. CASE \E s \in Side, nextTieBreak \in BOOLEAN : Score(s, nextTieBreak)
        BY <2>5 DEF Score, drawVars
    <2>6. CASE UNCHANGED allVars
        BY <2>6 DEF allVars, drawVars
    <2> QED BY <2>1, <2>2, <2>3, <2>4, <2>5, <2>6 DEF AllNext, DrawNext
<1> QED BY <1>1, <1>2, PTL DEF AllSpec

\* Every single elimination draw, of a field of any size, is a sound bracket
\* (buildSingleElim).
THEOREM BracketDrawn == AllSpec => []ElimSound
BY FieldKept, ElimHolds, PTL

-----------------------------------------------------------------------------
(* Americano: the window that turns round the list *)

LEMMA WrapsOnce ==
    ASSUME NEW n \in Nat, n >= 1, NEW a \in Nat, a < 2 * n
    PROVE  a % n = IF a < n THEN a ELSE a - n
<1>1. CASE a < n
    BY <1>1
<1>2. CASE ~(a < n)
    BY <1>2
<1> QED BY <1>1, <1>2

LEMMA CourtsFit ==
    ASSUME NEW n \in Nat, n >= 4, NEW asked \in Nat, asked >= 1
    PROVE  /\ UsableCourts(n, asked) \in Nat /\ UsableCourts(n, asked) >= 1
           /\ 4 * UsableCourts(n, asked) <= n
           /\ UsableCourts(n, asked) <= asked
BY DEF UsableCourts

\* The rounds of a night fit into one turn of the window: all of it for an odd
\* field, all but the last one for an even field.
LEMMA RoundsOfNight ==
    ASSUME NEW n \in Nat
    PROVE  /\ SocialRoundCount(n) \in Nat
           /\ n < 4 => SocialRoundCount(n) = 0
           /\ n >= 4 => SocialRoundCount(n) = n \/ SocialRoundCount(n) = n - 1
BY DEF SocialRoundCount

LEMMA NightLength ==
    ASSUME NEW n \in Nat
    PROVE  SocialRoundCount(n) \in Nat /\ SocialRoundCount(n) <= n
BY RoundsOfNight

\* Who sits in seat j of round r (from 0)
Sitter(n, r, j) == IF r + j < n THEN r + j + 1 ELSE r + j + 1 - n

LEMMA SitterIs ==
    ASSUME FieldInv, NEW r \in 0 .. Len(ordered) - 1, NEW j \in 0 .. Len(ordered) - 1
    PROVE  /\ Window(ordered, r, j) = Sitter(Len(ordered), r, j)
           /\ Sitter(Len(ordered), r, j) \in Players
<1>1. PICK n \in Nat : n = Len(ordered) /\ n >= 2
    BY OrderIs
<1>2. PICK a \in Nat : a = r + j /\ a < 2 * n
    BY <1>1
<1>3. a % n = IF a < n THEN a ELSE a - n
    <2>1. n >= 1
        BY <1>1
    <2> QED BY <1>2, <2>1, WrapsOnce
<1>4. (a % n) + 1 = Sitter(n, r, j) /\ (a % n) + 1 \in 1 .. n
    <2>1. CASE a < n
        <3>1. a % n = a
            BY <1>3, <2>1
        <3>2. Sitter(n, r, j) = a + 1
            BY <1>1, <1>2, <2>1 DEF Sitter
        <3> QED BY <1>1, <2>1, <3>1, <3>2
    <2>2. CASE ~(a < n)
        <3>1. a % n = a - n
            BY <1>3, <2>2
        <3>2. Sitter(n, r, j) = a - n + 1
            BY <1>1, <1>2, <2>2 DEF Sitter
        <3> QED BY <1>1, <1>2, <2>2, <3>1, <3>2
    <2> QED BY <2>1, <2>2
<1>5. ordered[(a % n) + 1] = (a % n) + 1 /\ (a % n) + 1 \in Players
    BY <1>1, <1>4, OrderIs
<1> QED BY <1>1, <1>2, <1>4, <1>5 DEF Window

\* In a round every seat has its own player.
LEMMA SittersDiffer ==
    ASSUME NEW n \in Nat, n >= 1, NEW r \in 0 .. n - 1,
           NEW i \in 0 .. n - 1, NEW j \in 0 .. n - 1, i # j
    PROVE  Sitter(n, r, i) # Sitter(n, r, j)
BY DEF Sitter

\* The partners of one round, seats j and j + 1 for an even j, are not those of
\* the next.
LEMMA PartnersChange ==
    ASSUME NEW n \in Nat, n >= 4, NEW r \in Nat, r + 1 < n,
           NEW i \in Nat, i + 1 < n, NEW j \in Nat, j + 1 < n, i % 2 = 0, j % 2 = 0,
           NEW t,
           t = {Sitter(n, r, i), Sitter(n, r, i + 1)}
    PROVE  t # {Sitter(n, r + 1, j), Sitter(n, r + 1, j + 1)}
<1> DEFINE a == Sitter(n, r, i)
           b == Sitter(n, r, i + 1)
           c == Sitter(n, r + 1, j)
           d == Sitter(n, r + 1, j + 1)
<1>1. a = c => i = j + 1
    BY DEF Sitter
<1>2. i # j + 1
    OBVIOUS
<1>3. b = c => i = j
    BY DEF Sitter
<1>4. i = j => a # d
    BY DEF Sitter
<1>5. a # b
    BY DEF Sitter
<1>6. {a, b} = {c, d} => (a = c /\ b = d) \/ (a = d /\ b = c)
    <2> HIDE DEF a, b, c, d
    <2> QED BY <1>5
<1>7. t = {a, b}
    OBVIOUS
<1> HIDE DEF a, b, c, d
<1>8. t # {c, d}
    BY <1>1, <1>2, <1>3, <1>4, <1>6, <1>7
<1> QED BY <1>8 DEF c, d

\* Court c of round r (from 1) of an Americano night
CourtAt(n, r, c) ==
    Court(r, c, {{Sitter(n, r - 1, 4 * c), Sitter(n, r - 1, 4 * c + 1)},
                 {Sitter(n, r - 1, 4 * c + 2), Sitter(n, r - 1, 4 * c + 3)}})

CourtsNow == UsableCourts(Len(ordered), courts)

LEMMA SeatsFit ==
    ASSUME FieldInv, courts \in Nat, courts >= 1, Len(ordered) >= 4
    PROVE  /\ CourtsNow \in Nat /\ CourtsNow >= 1 /\ 4 * CourtsNow <= Len(ordered)
           /\ \A c \in 0 .. CourtsNow - 1 :
                /\ c \in Nat
                /\ 4 * c \in 0 .. Len(ordered) - 1 /\ 4 * c + 1 \in 0 .. Len(ordered) - 1
                /\ 4 * c + 2 \in 0 .. Len(ordered) - 1 /\ 4 * c + 3 \in 0 .. Len(ordered) - 1
<1>1. PICK n \in Nat : n = Len(ordered) /\ n >= 4
    BY OrderIs
<1>2. PICK k \in Nat : k = CourtsNow /\ k >= 1 /\ 4 * k <= n
    BY <1>1, CourtsFit DEF CourtsNow
<1>3. ASSUME NEW c \in 0 .. k - 1
      PROVE  /\ c \in Nat
             /\ 4 * c \in 0 .. n - 1 /\ 4 * c + 1 \in 0 .. n - 1
             /\ 4 * c + 2 \in 0 .. n - 1 /\ 4 * c + 3 \in 0 .. n - 1
    BY <1>2
<1> QED BY <1>1, <1>2, <1>3

LEMMA AmericanoRound ==
    ASSUME FieldInv, courts \in Nat, courts >= 1, Len(ordered) >= 4,
           NEW r \in 1 .. SocialRoundCount(Len(ordered))
    PROVE  {m \in BuildAmericano(ordered, courts) : m.round = r}
              = {CourtAt(Len(ordered), r, c) : c \in 0 .. CourtsNow - 1}
<1>1. PICK n \in Nat : n = Len(ordered) /\ n >= 4
    BY OrderIs
<1>2. PICK k \in Nat : k = CourtsNow /\ k >= 1 /\ 4 * k <= n
    BY <1>1, SeatsFit
<1>3. PICK S \in Nat : S = SocialRoundCount(n) /\ S <= n
    BY NightLength
<1> DEFINE Seat(s, c, i) == Window(ordered, s, 4 * c + i)
           At(s, c) == Court(s + 1, c, {{Seat(s, c, 0), Seat(s, c, 1)}, {Seat(s, c, 2), Seat(s, c, 3)}})
<1>4. BuildAmericano(ordered, courts) = {At(s, c) : s \in 0 .. S - 1, c \in 0 .. k - 1}
    <2>1. ~(4 * k > n)
        BY <1>1, <1>2
    <2> QED BY <1>1, <1>2, <1>3, <2>1 DEF BuildAmericano, CourtsNow
<1>5. ASSUME NEW s \in 0 .. S - 1, NEW c \in 0 .. k - 1
      PROVE  At(s, c) = CourtAt(n, s + 1, c) /\ At(s, c).round = s + 1
    <2>1. s \in 0 .. n - 1 /\ (s + 1) - 1 = s
        BY <1>3
    <2>2. /\ 4 * c + 0 = 4 * c
          /\ 4 * c \in 0 .. n - 1 /\ 4 * c + 1 \in 0 .. n - 1
          /\ 4 * c + 2 \in 0 .. n - 1 /\ 4 * c + 3 \in 0 .. n - 1
        <3>1. c \in Nat
            BY <1>2
        <3> QED BY <1>1, <1>2, <3>1, SeatsFit
    <2>3. /\ Window(ordered, s, 4 * c) = Sitter(n, s, 4 * c)
          /\ Window(ordered, s, 4 * c + 1) = Sitter(n, s, 4 * c + 1)
          /\ Window(ordered, s, 4 * c + 2) = Sitter(n, s, 4 * c + 2)
          /\ Window(ordered, s, 4 * c + 3) = Sitter(n, s, 4 * c + 3)
        BY <1>1, <2>1, <2>2, SitterIs
    <2> QED BY <2>1, <2>2, <2>3 DEF CourtAt, Court
<1> HIDE DEF At
<1>6. ASSUME NEW m \in BuildAmericano(ordered, courts), m.round = r
      PROVE  m \in {CourtAt(n, r, c) : c \in 0 .. k - 1}
    <2>1. PICK s \in 0 .. S - 1, c \in 0 .. k - 1 : m = At(s, c)
        BY <1>4, <1>6
    <2>2. m = CourtAt(n, s + 1, c) /\ r = s + 1
        BY <1>5, <1>6, <2>1
    <2> QED BY <2>2
<1>7. ASSUME NEW c \in 0 .. k - 1
      PROVE  CourtAt(n, r, c) \in BuildAmericano(ordered, courts) /\ CourtAt(n, r, c).round = r
    <2>1. r - 1 \in 0 .. S - 1 /\ (r - 1) + 1 = r
        BY <1>1, <1>3
    <2>2. At(r - 1, c) = CourtAt(n, r, c) /\ At(r - 1, c).round = r
        BY <1>5, <2>1
    <2> QED BY <1>4, <2>1, <2>2
<1> QED BY <1>1, <1>2, <1>6, <1>7

CourtsOf(r) == {CourtAt(Len(ordered), r, c) : c \in 0 .. CourtsNow - 1}

LEMMA NoRoundAfter ==
    ASSUME FieldInv, NEW r, r \notin 1 .. SocialRoundCount(Len(ordered))
    PROVE  {m \in BuildAmericano(ordered, courts) : m.round = r} = {}
<1>1. PICK S \in Nat : S = SocialRoundCount(Len(ordered))
    BY OrderIs, RoundsOfNight
<1> SUFFICES ASSUME NEW m \in BuildAmericano(ordered, courts), m.round = r PROVE FALSE
    OBVIOUS
<1>2. PICK s \in 0 .. S - 1 : m.round = s + 1
    <2> DEFINE k == UsableCourts(Len(ordered), courts)
    <2>1. BuildAmericano(ordered, courts) # {}
        OBVIOUS
    <2>2. ~(4 * k > Len(ordered))
        BY <2>1 DEF BuildAmericano
    <2> DEFINE Seat(s, c, i) == Window(ordered, s, 4 * c + i)
               At(s, c) == Court(s + 1, c, {{Seat(s, c, 0), Seat(s, c, 1)}, {Seat(s, c, 2), Seat(s, c, 3)}})
    <2>3. BuildAmericano(ordered, courts) = {At(s, c) : s \in 0 .. S - 1, c \in 0 .. k - 1}
        BY <1>1, <2>2 DEF BuildAmericano
    <2>4. \A s, c : At(s, c).round = s + 1
        BY DEF Court
    <2> HIDE DEF At
    <2>5. PICK s \in 0 .. S - 1, c \in 0 .. k - 1 : m = At(s, c)
        BY <2>3
    <2> QED BY <2>4, <2>5
<1> QED BY <1>1, <1>2

\* The seats of a court
LEMMA CourtSeats ==
    ASSUME NEW n \in Nat, NEW r \in Nat, NEW c \in Nat, NEW x
    PROVE  x \in UNION CourtAt(n, r, c).teams <=> \E i \in 0 .. 3 : x = Sitter(n, r - 1, 4 * c + i)
<1> DEFINE f(i) == Sitter(n, r - 1, 4 * c + i)
<1>1. CourtAt(n, r, c).teams = {{f(0), f(1)}, {f(2), f(3)}}
    <2>1. 4 * c + 0 = 4 * c
        OBVIOUS
    <2> QED BY <2>1 DEF CourtAt, Court
<1> HIDE DEF f
<1>2. x \in UNION CourtAt(n, r, c).teams <=> x = f(0) \/ x = f(1) \/ x = f(2) \/ x = f(3)
    BY <1>1
<1>3. (\E i \in 0 .. 3 : x = f(i)) <=> x = f(0) \/ x = f(1) \/ x = f(2) \/ x = f(3)
    <2>1. \A i \in 0 .. 3 : i = 0 \/ i = 1 \/ i = 2 \/ i = 3
        OBVIOUS
    <2>2. 0 \in 0 .. 3 /\ 1 \in 0 .. 3 /\ 2 \in 0 .. 3 /\ 3 \in 0 .. 3
        OBVIOUS
    <2> QED BY <2>1, <2>2
<1> QED BY <1>2, <1>3 DEF f

LEMMA CourtsDisjoint ==
    ASSUME FieldInv, courts \in Nat, courts >= 1, Len(ordered) >= 4,
           NEW r \in 1 .. SocialRoundCount(Len(ordered))
    PROVE  Disjoint(CourtsOf(r))
<1>1. PICK n \in Nat : n = Len(ordered) /\ n >= 4
    BY OrderIs
<1>2. PICK k \in Nat : k = CourtsNow /\ k >= 1 /\ 4 * k <= n
    BY <1>1, SeatsFit
<1>3. PICK s \in Nat : s = r - 1 /\ s \in 0 .. n - 1
    <2>1. PICK S \in Nat : S = SocialRoundCount(n) /\ S <= n
        BY NightLength
    <2> QED BY <1>1, <2>1
<1>4. ASSUME NEW c \in 0 .. k - 1, NEW d \in 0 .. k - 1, c # d,
             NEW i \in 0 .. 3, NEW j \in 0 .. 3
      PROVE  Sitter(n, s, 4 * c + i) # Sitter(n, s, 4 * d + j)
    <2>1. PICK x \in Nat, y \in Nat : /\ x = 4 * c + i /\ y = 4 * d + j
                                      /\ x \in 0 .. n - 1 /\ y \in 0 .. n - 1 /\ x # y
        BY <1>2, <1>4
    <2>2. n >= 1
        BY <1>1
    <2>3. Sitter(n, s, x) # Sitter(n, s, y)
        BY <1>3, <2>1, <2>2, SittersDiffer
    <2> QED BY <2>1, <2>3
<1>5. ASSUME NEW c \in 0 .. k - 1, NEW d \in 0 .. k - 1, c # d
      PROVE  (UNION CourtAt(n, r, c).teams) \cap (UNION CourtAt(n, r, d).teams) = {}
    <2>1. n \in Nat /\ r \in Nat /\ c \in Nat /\ d \in Nat
        BY <1>2, <1>3
    <2> SUFFICES ASSUME NEW x \in UNION CourtAt(n, r, c).teams, x \in UNION CourtAt(n, r, d).teams
                 PROVE  FALSE
        OBVIOUS
    <2>2. PICK i \in 0 .. 3 : x = Sitter(n, r - 1, 4 * c + i)
        <3>1. x \in UNION CourtAt(n, r, c).teams
                <=> \E i \in 0 .. 3 : x = Sitter(n, r - 1, 4 * c + i)
            BY <2>1, CourtSeats
        <3> QED BY <3>1, Zenon
    <2>3. PICK j \in 0 .. 3 : x = Sitter(n, r - 1, 4 * d + j)
        <3>1. x \in UNION CourtAt(n, r, d).teams
                <=> \E j \in 0 .. 3 : x = Sitter(n, r - 1, 4 * d + j)
            BY <2>1, CourtSeats
        <3> QED BY <3>1, Zenon
    <2>4. x = Sitter(n, s, 4 * c + i) /\ x = Sitter(n, s, 4 * d + j)
        BY <1>3, <2>2, <2>3, Zenon
    <2> QED BY <1>4, <1>5, <2>4, Zenon
<1>6. \A m, q \in CourtsOf(r) : m # q => (UNION m.teams) \cap (UNION q.teams) = {}
    <2> SUFFICES ASSUME NEW m \in CourtsOf(r), NEW q \in CourtsOf(r), m # q
                 PROVE  (UNION m.teams) \cap (UNION q.teams) = {}
        OBVIOUS
    <2>1. PICK c \in 0 .. k - 1 : m = CourtAt(n, r, c)
        BY <1>1, <1>2 DEF CourtsOf
    <2>2. PICK d \in 0 .. k - 1 : q = CourtAt(n, r, d)
        BY <1>1, <1>2 DEF CourtsOf
    <2> QED BY <1>5, <2>1, <2>2
<1> QED BY <1>6 DEF Disjoint

\* Everybody in the window sits, and nobody else.
LEMMA SeatedAre ==
    ASSUME FieldInv, courts \in Nat, courts >= 1, Len(ordered) >= 4,
           NEW r \in 1 .. SocialRoundCount(Len(ordered))
    PROVE  Seated(CourtsOf(r)) = {Sitter(Len(ordered), r - 1, j) : j \in 0 .. 4 * CourtsNow - 1}
<1>1. PICK n \in Nat : n = Len(ordered) /\ n >= 4
    BY OrderIs
<1>2. PICK k \in Nat : k = CourtsNow /\ k >= 1 /\ 4 * k <= n
    BY <1>1, SeatsFit
<1> DEFINE S == {Sitter(n, r - 1, j) : j \in 0 .. 4 * k - 1}
<1>3. ASSUME NEW x \in Seated(CourtsOf(r))
      PROVE  x \in S
    <2>1. PICK c \in 0 .. k - 1 : x \in UNION CourtAt(n, r, c).teams
        BY <1>1, <1>2 DEF CourtsOf, Seated
    <2>2. c \in Nat /\ r \in Nat
        BY <1>2, <1>1, RoundsOfNight
    <2>3. PICK i \in 0 .. 3 : x = Sitter(n, r - 1, 4 * c + i)
        BY <2>1, <2>2, CourtSeats
    <2>4. 4 * c + i \in 0 .. 4 * k - 1
        BY <1>2, <2>2
    <2> QED BY <2>3, <2>4
<1>4. ASSUME NEW x \in S
      PROVE  x \in Seated(CourtsOf(r))
    <2>1. PICK j \in 0 .. 4 * k - 1 : x = Sitter(n, r - 1, j)
        OBVIOUS
    <2>2. PICK c \in 0 .. k - 1, i \in 0 .. 3 : j = 4 * c + i
        <3>1. j \div 4 \in 0 .. k - 1 /\ j - 4 * (j \div 4) \in 0 .. 3
              /\ j = 4 * (j \div 4) + (j - 4 * (j \div 4))
            BY <1>2
        <3> QED BY <3>1
    <2>3. c \in Nat /\ r \in Nat
        BY <1>2, <1>1, RoundsOfNight
    <2>4. x \in UNION CourtAt(n, r, c).teams
        BY <2>1, <2>2, <2>3, CourtSeats
    <2>5. CourtAt(n, r, c) \in CourtsOf(r)
        BY <1>1, <1>2 DEF CourtsOf
    <2> QED BY <2>4, <2>5 DEF Seated
<1>5. Seated(CourtsOf(r)) = S
    BY <1>3, <1>4
<1> QED BY <1>1, <1>2, <1>5

PartnersOf(r) == UNION {m.teams : m \in CourtsOf(r)}

\* Partners sit side by side, the first of them in an even seat.
LEMMA PartnersAre ==
    ASSUME FieldInv, courts \in Nat, courts >= 1, Len(ordered) >= 4,
           NEW r \in 1 .. SocialRoundCount(Len(ordered)),
           NEW t \in PartnersOf(r)
    PROVE  \E j \in 0 .. Len(ordered) - 2 :
                /\ j % 2 = 0
                /\ t = {Sitter(Len(ordered), r - 1, j), Sitter(Len(ordered), r - 1, j + 1)}
<1>1. PICK n \in Nat : n = Len(ordered) /\ n >= 4
    BY OrderIs
<1>2. PICK k \in Nat : k = CourtsNow /\ k >= 1 /\ 4 * k <= n
    BY <1>1, SeatsFit
<1>3. PICK c \in 0 .. k - 1 : t \in CourtAt(n, r, c).teams
    BY <1>1, <1>2 DEF CourtsOf, PartnersOf
<1> DEFINE f(j) == Sitter(n, r - 1, j)
<1>4. t = {f(4 * c), f(4 * c + 1)} \/ t = {f(4 * c + 2), f(4 * c + 3)}
    BY <1>3 DEF CourtAt, Court
<1>5. PICK j \in Nat : j \in 0 .. n - 2 /\ j % 2 = 0 /\ t = {f(j), f(j + 1)}
    <2>1. c \in Nat /\ 4 * c \in 0 .. n - 2 /\ 4 * c + 2 \in 0 .. n - 2
          /\ (4 * c) % 2 = 0 /\ (4 * c + 2) % 2 = 0 /\ (4 * c + 2) + 1 = 4 * c + 3
        BY <1>2
    <2>2. CASE t = {f(4 * c), f(4 * c + 1)}
        <3>1. PICK i \in Nat : i = 4 * c /\ i + 1 = 4 * c + 1 /\ i \in 0 .. n - 2 /\ i % 2 = 0
            BY <2>1
        <3>2. t = {f(i), f(i + 1)}
            BY <2>2, <3>1
        <3> HIDE DEF f
        <3> QED BY <3>1, <3>2
    <2>3. CASE t = {f(4 * c + 2), f(4 * c + 3)}
        <3>1. PICK i \in Nat : i = 4 * c + 2 /\ i + 1 = 4 * c + 3 /\ i \in 0 .. n - 2 /\ i % 2 = 0
            BY <2>1
        <3>2. t = {f(i), f(i + 1)}
            BY <2>3, <3>1
        <3> HIDE DEF f
        <3> QED BY <3>1, <3>2
    <2> QED BY <1>4, <2>2, <2>3
<1> QED BY <1>1, <1>5

\* Nobody plays with the same partner twice in a row.
LEMMA PartnersApart ==
    ASSUME FieldInv, courts \in Nat, courts >= 1, Len(ordered) >= 4
    PROVE  \A r, q \in 1 .. SocialRoundCount(Len(ordered)) :
                q = r + 1 => PartnersOf(r) \cap PartnersOf(q) = {}
<1>1. PICK n \in Nat : n = Len(ordered) /\ n >= 4
    BY OrderIs
<1>2. PICK S \in Nat : S = SocialRoundCount(n) /\ S <= n
    BY NightLength
<1> DEFINE SideBySide(x, t) ==
                \E j \in 0 .. n - 2 : j % 2 = 0 /\ t = {Sitter(n, x, j), Sitter(n, x, j + 1)}
<1>3. \A p \in 1 .. S : \A t \in PartnersOf(p) : SideBySide(p - 1, t)
    BY <1>1, <1>2, PartnersAre
<1>4. ASSUME NEW s \in Nat, s + 1 < n, NEW t, SideBySide(s, t), SideBySide(s + 1, t)
      PROVE  FALSE
    <2>1. PICK i \in 0 .. n - 2 : i % 2 = 0 /\ t = {Sitter(n, s, i), Sitter(n, s, i + 1)}
        BY <1>4
    <2>2. PICK j \in 0 .. n - 2 : j % 2 = 0 /\ t = {Sitter(n, s + 1, j), Sitter(n, s + 1, j + 1)}
        BY <1>4
    <2>3. i \in Nat /\ i + 1 < n /\ j \in Nat /\ j + 1 < n /\ s + 1 \in Nat
        BY <1>1
    <2>4. n \in Nat /\ n >= 4 /\ s \in Nat /\ s + 1 < n /\ i % 2 = 0 /\ j % 2 = 0
        BY <1>1, <1>4, <2>1, <2>2
    <2>5. t # {Sitter(n, s + 1, j), Sitter(n, s + 1, j + 1)}
        BY <2>1, <2>3, <2>4, PartnersChange
    <2> QED BY <2>2, <2>5
<1> HIDE DEF SideBySide
<1>5. ASSUME NEW r \in 1 .. S, NEW q \in 1 .. S, q = r + 1
      PROVE  PartnersOf(r) \cap PartnersOf(q) = {}
    <2> SUFFICES ASSUME NEW t \in PartnersOf(r), t \in PartnersOf(q) PROVE FALSE
        OBVIOUS
    <2>1. SideBySide(r - 1, t) /\ SideBySide(q - 1, t)
        BY <1>3
    <2>2. PICK s \in Nat : s = r - 1 /\ q - 1 = s + 1 /\ s + 1 < n
        BY <1>2, <1>5
    <2> QED BY <1>4, <2>1, <2>2
<1> QED BY <1>1, <1>2, <1>5

\* All usable courts are full.
LEMMA SeatedCount ==
    ASSUME FieldInv, courts \in Nat, courts >= 1, Len(ordered) >= 4,
           NEW r \in 1 .. SocialRoundCount(Len(ordered))
    PROVE  Cardinality(Seated(CourtsOf(r))) = 4 * CourtsNow
<1>1. PICK n \in Nat : n = Len(ordered) /\ n >= 4
    BY OrderIs
<1>2. PICK k \in Nat : k = CourtsNow /\ k >= 1 /\ 4 * k <= n
    BY <1>1, SeatsFit
<1>3. PICK s \in Nat : s = r - 1 /\ s \in 0 .. n - 1
    <2>1. PICK S \in Nat : S = SocialRoundCount(n) /\ S <= n
        BY NightLength
    <2> QED BY <1>1, <2>1
<1> DEFINE T == 0 .. 4 * k - 1
           U == Seated(CourtsOf(r))
           f == [j \in T |-> Sitter(n, s, j)]
<1>4. U = {f[j] : j \in T}
    BY <1>1, <1>2, <1>3, SeatedAre
<1>5. \A i, j \in T : f[i] = f[j] => i = j
    <2> SUFFICES ASSUME NEW i \in T, NEW j \in T, i # j PROVE f[i] # f[j]
        OBVIOUS
    <2>1. n >= 1 /\ i \in 0 .. n - 1 /\ j \in 0 .. n - 1
        BY <1>1, <1>2
    <2> QED BY <1>3, <2>1, SittersDiffer
<1> HIDE DEF U, f
<1>6. DOMAIN f = T /\ f \in [T -> U]
    <2>1. DOMAIN f = T /\ f = [j \in T |-> f[j]]
        BY DEF f
    <2> QED BY <1>4, <2>1
<1>7. f \in Bijection(T, U)
    BY <1>4, <1>5, <1>6 DEF Bijection, Injection, Surjection, IsInjective
<1>8. IsFiniteSet(T) /\ Cardinality(T) = 4 * k
    <2>1. 0 \in Int /\ 4 * k - 1 \in Int
        BY <1>2
    <2>2. IsFiniteSet(T) /\ Cardinality(T) = IF 0 > 4 * k - 1 THEN 0 ELSE (4 * k - 1) - 0 + 1
        BY <2>1, FS_Interval
    <2> QED BY <1>2, <2>2
<1>9. ExistsBijection(T, U)
    BY <1>7 DEF ExistsBijection
<1> HIDE DEF T
<1>10. Cardinality(U) = 4 * k
    BY <1>8, <1>9, FS_Bijection
<1> QED BY <1>2, <1>10 DEF U

\* The rounds of a whole turn that x sits in, as many as the window has seats
TurnOf(n, x, w) == {r \in 1 .. n : \E j \in 0 .. w - 1 : x = Sitter(n, r - 1, j)}

LEMMA TurnCount ==
    ASSUME NEW n \in Nat, n >= 1, NEW x \in 1 .. n, NEW w \in 1 .. n
    PROVE  IsFiniteSet(TurnOf(n, x, w)) /\ Cardinality(TurnOf(n, x, w)) = w
<1> DEFINE T == 0 .. w - 1
           U == TurnOf(n, x, w)
           f == [j \in T |-> IF j < x THEN x - j ELSE x - j + n]
<1>1. \A j \in T : f[j] \in 1 .. n /\ x = Sitter(n, f[j] - 1, j)
    <2> SUFFICES ASSUME NEW j \in T PROVE f[j] \in 1 .. n /\ x = Sitter(n, f[j] - 1, j)
        OBVIOUS
    <2>1. PICK r : r = f[j]
        OBVIOUS
    <2>2. r = IF j < x THEN x - j ELSE x - j + n
        BY <2>1
    <2>3. r \in 1 .. n /\ x = Sitter(n, r - 1, j)
        BY <2>2 DEF Sitter
    <2> QED BY <2>1, <2>3
<1>2. \A j \in T : f[j] \in U
    BY <1>1 DEF TurnOf
<1>3. \A i, j \in T : f[i] = f[j] => i = j
    OBVIOUS
<1>4. \A r \in U : \E j \in T : f[j] = r
    <2> SUFFICES ASSUME NEW r \in U PROVE \E j \in T : f[j] = r
        OBVIOUS
    <2>1. r \in 1 .. n
        BY DEF TurnOf
    <2>2. PICK j \in T : x = Sitter(n, r - 1, j)
        BY DEF TurnOf
    <2>3. r = IF j < x THEN x - j ELSE x - j + n
        BY <2>1, <2>2 DEF Sitter
    <2> QED BY <2>3
<1>5. f \in [T -> U]
    BY <1>2
<1> HIDE DEF f, U
<1>6. f \in Bijection(T, U)
    BY <1>3, <1>4, <1>5 DEF Bijection, Injection, Surjection, IsInjective
<1>7. IsFiniteSet(T) /\ Cardinality(T) = w
    <2>1. 0 \in Int /\ w - 1 \in Int
        OBVIOUS
    <2>2. IsFiniteSet(T) /\ Cardinality(T) = IF 0 > w - 1 THEN 0 ELSE (w - 1) - 0 + 1
        BY <2>1, FS_Interval
    <2> QED BY <2>2
<1>8. ExistsBijection(T, U)
    BY <1>6 DEF ExistsBijection
<1> HIDE DEF T
<1>9. IsFiniteSet(U) /\ Cardinality(U) = w
    BY <1>7, <1>8, FS_Bijection
<1> QED BY <1>9 DEF U

OfRound(r) == {m \in BuildAmericano(ordered, courts) : m.round = r}

TurnsTaken(x) == Cardinality({r \in 1 .. SocialRoundCount(Len(ordered)) : x \in Seated(OfRound(r))})

\* The last round of an even field is not played: it may cost one turn.
LEMMA TurnsAre ==
    ASSUME FieldInv, courts \in Nat, courts >= 1, Len(ordered) >= 4, NEW x \in Players
    PROVE  TurnsTaken(x) = 4 * CourtsNow \/ TurnsTaken(x) = 4 * CourtsNow - 1
<1>1. PICK n \in Nat : n = Len(ordered) /\ n >= 4
    BY OrderIs
<1>2. PICK w \in Nat : w = 4 * CourtsNow /\ w \in 1 .. n
    BY <1>1, SeatsFit
<1>3. PICK S \in Nat : S = SocialRoundCount(n) /\ (S = n \/ S = n - 1)
    BY <1>1, RoundsOfNight
<1> DEFINE T == TurnOf(n, x, w)
           Sits(r) == \E j \in 0 .. w - 1 : x = Sitter(n, r - 1, j)
<1>4. IsFiniteSet(T) /\ Cardinality(T) = w
    <2>1. x \in 1 .. n /\ n >= 1
        BY <1>1, OrderIs
    <2> QED BY <1>2, <2>1, TurnCount
<1>5. T = {r \in 1 .. n : Sits(r)}
    BY DEF TurnOf
<1>6. \A r \in 1 .. S : x \in Seated(OfRound(r)) <=> Sits(r)
    <2> SUFFICES ASSUME NEW r \in 1 .. S PROVE x \in Seated(OfRound(r)) <=> Sits(r)
        OBVIOUS
    <2>1. r \in 1 .. SocialRoundCount(Len(ordered))
        BY <1>1, <1>3
    <2>2. OfRound(r) = CourtsOf(r)
        BY <1>1, <2>1, AmericanoRound DEF OfRound, CourtsOf
    <2>3. Seated(CourtsOf(r)) = {Sitter(n, r - 1, j) : j \in 0 .. w - 1}
        BY <1>1, <1>2, <2>1, SeatedAre
    <2> QED BY <2>2, <2>3
<1> HIDE DEF T, Sits
<1>7. TurnsTaken(x) = Cardinality({r \in 1 .. S : Sits(r)})
    <2>1. {r \in 1 .. S : x \in Seated(OfRound(r))} = {r \in 1 .. S : Sits(r)}
        BY <1>6
    <2> QED BY <1>1, <1>3, <2>1 DEF TurnsTaken
<1>8. CASE S = n
    BY <1>2, <1>4, <1>5, <1>7, <1>8
<1>9. CASE S = n - 1
    <2>1. {r \in 1 .. S : Sits(r)} = T \ {n}
        <3>1. \A r \in 1 .. n : r \in 1 .. S <=> r # n
            BY <1>9
        <3>2. \A r \in 1 .. S : r \in 1 .. n
            BY <1>9
        <3> QED BY <1>5, <3>1, <3>2
    <2>2. CASE n \in T
        <3>1. Cardinality(T \ {n}) = Cardinality(T) - 1
            BY <1>4, <2>2, FS_RemoveElement
        <3> QED BY <1>2, <1>4, <1>7, <2>1, <3>1
    <2>3. CASE n \notin T
        <3>1. T \ {n} = T
            BY <2>3
        <3> QED BY <1>2, <1>4, <1>7, <2>1, <3>1
    <2> QED BY <2>2, <2>3
<1> QED BY <1>3, <1>8, <1>9

LEMMA AmericanoHolds ==
    ASSUME FieldInv, courts \in Nat, courts >= 1
    PROVE  AmericanoFair
<1> DEFINE Rs == 1 .. SocialRoundCount(Len(ordered))
           Teams(r) == UNION {m.teams : m \in OfRound(r)}
<1>1. PICK n \in Nat : n = Len(ordered)
    BY OrderIs
<1>2. PICK S \in Nat : S = SocialRoundCount(n) /\ (n < 4 => S = 0)
    BY <1>1, RoundsOfNight
<1>3. ASSUME NEW r \in Rs
      PROVE  /\ Disjoint(OfRound(r))
             /\ Teams(r) \cap Teams(r + 1) = {}
             /\ Cardinality(Seated(OfRound(r))) = 4 * UsableCourts(Len(ordered), courts)
    <2>1. Len(ordered) >= 4
        BY <1>1, <1>2
    <2>2. \A p \in Rs : OfRound(p) = CourtsOf(p)
        BY <2>1, AmericanoRound DEF OfRound, CourtsOf
    <2>3. Disjoint(OfRound(r))
        BY <2>1, <2>2, CourtsDisjoint
    <2>4. Cardinality(Seated(OfRound(r))) = 4 * UsableCourts(Len(ordered), courts)
        BY <2>1, <2>2, SeatedCount DEF CourtsNow
    <2>5. Teams(r) \cap Teams(r + 1) = {}
        <3>1. CASE r + 1 \in Rs
            <4>1. Teams(r) = PartnersOf(r) /\ Teams(r + 1) = PartnersOf(r + 1)
                BY <2>2, <3>1 DEF PartnersOf
            <4>2. PartnersOf(r) \cap PartnersOf(r + 1) = {}
                BY <2>1, <3>1, PartnersApart
            <4> HIDE DEF Teams
            <4> QED BY <4>1, <4>2
        <3>2. CASE r + 1 \notin Rs
            <4>1. OfRound(r + 1) = {}
                BY <3>2, NoRoundAfter DEF OfRound
            <4> QED BY <4>1
        <3> QED BY <3>1, <3>2
    <2> QED BY <2>3, <2>4, <2>5
<1>4. ASSUME NEW x \in Players, NEW y \in Players
      PROVE  TurnsTaken(x) <= TurnsTaken(y) + 1
    <2>1. CASE n < 4
        <3>1. {r \in Rs : x \in Seated(OfRound(r))} = {} /\ {r \in Rs : y \in Seated(OfRound(r))} = {}
            BY <1>1, <1>2, <2>1
        <3>2. TurnsTaken(x) = 0 /\ TurnsTaken(y) = 0
            BY <3>1, FS_EmptySet DEF TurnsTaken
        <3> QED BY <3>2
    <2>2. CASE n >= 4
        <3>1. PICK w \in Nat : w = 4 * CourtsNow
            BY <1>1, <2>2, SeatsFit
        <3>2. TurnsTaken(x) = w \/ TurnsTaken(x) = w - 1
            BY <1>1, <2>2, <3>1, TurnsAre
        <3>3. TurnsTaken(y) = w \/ TurnsTaken(y) = w - 1
            BY <1>1, <2>2, <3>1, TurnsAre
        <3> QED BY <3>1, <3>2, <3>3
    <2> QED BY <1>1, <2>1, <2>2
<1>5. (\A r \in Rs : /\ Disjoint(OfRound(r))
                     /\ Teams(r) \cap Teams(r + 1) = {}
                     /\ Cardinality(Seated(OfRound(r))) = 4 * UsableCourts(Len(ordered), courts))
      /\ \A x, y \in Players : TurnsTaken(x) <= TurnsTaken(y) + 1
    BY <1>3, <1>4
<1> QED BY <1>5, Zenon DEF AmericanoFair, OfRound, TurnsTaken

-----------------------------------------------------------------------------
(* Sorted lists *)

\* ahead orders the elements of S: of any two, one comes before the other.
Orders(S, ahead) ==
    /\ \A x \in S : x \notin ahead[x] /\ ahead[x] \subseteq S
    /\ \A x, y \in S : x # y => x \in ahead[y] \/ y \in ahead[x]
    /\ \A x, y \in S : y \in ahead[x] => ahead[y] \subseteq ahead[x]

Nth(ahead, x) == Cardinality(ahead[x]) + 1

\* The place of an element is the number of those before it, plus one: who comes
\* first has the lower place, and every place is taken.
LEMMA TurnsFit ==
    ASSUME NEW S, IsFiniteSet(S), NEW ahead, Orders(S, ahead)
    PROVE  /\ \A x \in S : Nth(ahead, x) \in 1 .. Cardinality(S)
           /\ \A x, y \in S : y \in ahead[x] => Nth(ahead, y) < Nth(ahead, x)
<1>1. Cardinality(S) \in Nat
    BY FS_CardinalityType
<1>2. \A x \in S : IsFiniteSet(ahead[x]) /\ Cardinality(ahead[x]) \in Nat
    BY FS_Subset, FS_CardinalityType DEF Orders
<1>3. ASSUME NEW x \in S
      PROVE  Nth(ahead, x) \in 1 .. Cardinality(S)
    <2>1. ahead[x] \subseteq S \ {x}
        BY DEF Orders
    <2>2. IsFiniteSet(S \ {x}) /\ Cardinality(S \ {x}) = Cardinality(S) - 1
        BY FS_RemoveElement
    <2>3. Cardinality(ahead[x]) <= Cardinality(S) - 1
        BY <2>1, <2>2, FS_Subset
    <2> QED BY <1>1, <1>2, <2>3 DEF Nth
<1>4. ASSUME NEW x \in S, NEW y \in S, y \in ahead[x]
      PROVE  Nth(ahead, y) < Nth(ahead, x)
    <2>1. ahead[y] \cup {y} \subseteq ahead[x] /\ y \notin ahead[y]
        BY <1>4 DEF Orders
    <2>2. Cardinality(ahead[y] \cup {y}) = Cardinality(ahead[y]) + 1
        BY <1>2, <2>1, FS_AddElement
    <2>3. Cardinality(ahead[y] \cup {y}) <= Cardinality(ahead[x])
        BY <1>2, <2>1, FS_Subset
    <2> QED BY <1>2, <2>2, <2>3 DEF Nth
<1> QED BY <1>3, <1>4

LEMMA TurnsDiffer ==
    ASSUME NEW S, IsFiniteSet(S), NEW ahead, Orders(S, ahead),
           NEW x \in S, NEW y \in S, Nth(ahead, x) = Nth(ahead, y)
    PROVE  x = y
<1>1. Nth(ahead, x) \in Nat /\ Nth(ahead, y) \in Nat
    <2>1. Cardinality(S) \in Nat
        BY FS_CardinalityType
    <2> QED BY <2>1, TurnsFit
<1>2. x # y => Nth(ahead, x) < Nth(ahead, y) \/ Nth(ahead, y) < Nth(ahead, x)
    BY TurnsFit DEF Orders
<1> QED BY <1>1, <1>2

LEMMA TurnsTakenUp ==
    ASSUME NEW S, IsFiniteSet(S), NEW ahead, Orders(S, ahead), NEW i \in 1 .. Cardinality(S)
    PROVE  \E x \in S : Nth(ahead, x) = i
<1> DEFINE n == Cardinality(S)
           f == [x \in S |-> Nth(ahead, x)]
<1>1. n \in Nat
    BY FS_CardinalityType
<1>2. f \in Injection(S, 1 .. n)
    <2>1. f \in [S -> 1 .. n]
        BY TurnsFit
    <2>2. \A x, y \in S : f[x] = f[y] => x = y
        BY TurnsDiffer
    <2> QED BY <2>1, <2>2 DEF Injection, IsInjective
<1>3. IsFiniteSet(1 .. n) /\ Cardinality(1 .. n) = n
    <2>1. 1 \in Int /\ n \in Int
        BY <1>1
    <2>2. IsFiniteSet(1 .. n) /\ Cardinality(1 .. n) = IF 1 > n THEN 0 ELSE n - 1 + 1
        BY <2>1, FS_Interval
    <2> QED BY <1>1, <2>2
<1>4. f \in Surjection(S, 1 .. n)
    <2> HIDE DEF f
    <2> QED BY <1>2, <1>3, FS_Injection
<1>5. \E x \in S : f[x] = i
    BY <1>4 DEF Surjection
<1> QED BY <1>5

\* A sorted list holds every element once, each behind all that come before it.
LEMMA ListedIs ==
    ASSUME NEW S, IsFiniteSet(S), NEW ahead, Orders(S, ahead), NEW L, L = Listed(S, ahead)
    PROVE  /\ L \in [1 .. Cardinality(S) -> S]
           /\ \A x \in S : L[Nth(ahead, x)] = x
           /\ \A i \in 1 .. Cardinality(S) : Nth(ahead, L[i]) = i
<1> DEFINE n == Cardinality(S)
           places == {<<Nth(ahead, x), x>> : x \in S}
           At(i) == (CHOOSE p \in places : p[1] = i)[2]
<1>1. L = [i \in 1 .. n |-> At(i)]
    BY DEF Listed, Nth
<1>2. ASSUME NEW i \in 1 .. n
      PROVE  At(i) \in S /\ Nth(ahead, At(i)) = i
    <2>1. PICK x \in S : Nth(ahead, x) = i
        BY TurnsTakenUp
    <2> DEFINE p == CHOOSE q \in places : q[1] = i
    <2>2. <<Nth(ahead, x), x>> \in places /\ <<Nth(ahead, x), x>>[1] = i
        BY <2>1
    <2> HIDE DEF places
    <2>3. p \in places /\ p[1] = i
        BY <2>2
    <2> HIDE DEF p
    <2>4. p[2] \in S /\ Nth(ahead, p[2]) = i
        BY <2>3 DEF places
    <2> QED BY <2>4 DEF p
<1> HIDE DEF At
<1>3. L \in [1 .. n -> S] /\ \A i \in 1 .. n : Nth(ahead, L[i]) = i
    BY <1>1, <1>2
<1>4. ASSUME NEW x \in S PROVE L[Nth(ahead, x)] = x
    <2>1. Nth(ahead, x) \in 1 .. n
        BY TurnsFit
    <2>2. L[Nth(ahead, x)] \in S /\ Nth(ahead, L[Nth(ahead, x)]) = Nth(ahead, x)
        BY <1>3, <2>1
    <2> QED BY <2>2, TurnsDiffer
<1> QED BY <1>3, <1>4

-----------------------------------------------------------------------------
(* The standings of a night *)

\* points and rounds won are never negative: every participant has some.
Tallied(tally) == tally \in [Players -> Nat]

AheadOf(x) == {y \in Players : RanksBefore(points, won, y, x)}

Standing == PointStandings(ordered, points, won)

LEMMA StandingOrders ==
    ASSUME FieldInv, Tallied(points), Tallied(won)
    PROVE  Orders(Players, [x \in Players |-> AheadOf(x)])
<1> DEFINE Leads(x, y) == RanksBefore(points, won, x, y)
<1>1. \A x \in Players : x \in Nat /\ points[x] \in Nat /\ won[x] \in Nat
    BY OrderIs DEF Tallied
<1>2. \A x \in Players : ~Leads(x, x)
    BY <1>1 DEF RanksBefore
<1>3. \A x, y \in Players : x # y => Leads(x, y) \/ Leads(y, x)
    BY <1>1 DEF RanksBefore
<1>4. \A x, y, z \in Players : Leads(x, y) /\ Leads(y, z) => Leads(x, z)
    BY <1>1 DEF RanksBefore
<1> HIDE DEF Leads
<1>5. \A x \in Players : AheadOf(x) = {y \in Players : Leads(y, x)}
    BY DEF AheadOf, Leads
<1> QED BY <1>2, <1>3, <1>4, <1>5 DEF Orders

\* The standings rank everybody once.
LEMMA StandingIs ==
    ASSUME FieldInv, Tallied(points), Tallied(won)
    PROVE  LET n == Len(ordered)
               ahead == [x \in Players |-> AheadOf(x)]
           IN  /\ Standing \in [1 .. n -> Players]
               /\ \A x \in Players : Nth(ahead, x) \in 1 .. n /\ Standing[Nth(ahead, x)] = x
               /\ \A i \in 1 .. n : Nth(ahead, Standing[i]) = i
<1> DEFINE ahead == [x \in Players |-> AheadOf(x)]
<1>1. PICK n \in Nat : n = Len(ordered) /\ Players = 1 .. n
    BY OrderIs
<1>2. IsFiniteSet(Players) /\ Cardinality(Players) = n
    <2>1. 1 \in Int /\ n \in Int
        BY <1>1
    <2>2. IsFiniteSet(1 .. n) /\ Cardinality(1 .. n) = IF 1 > n THEN 0 ELSE n - 1 + 1
        BY <2>1, FS_Interval
    <2> QED BY <1>1, <2>2
<1>3. Orders(Players, ahead)
    BY StandingOrders
<1>4. Standing = Listed(Players, ahead)
    <2>1. {ordered[i] : i \in DOMAIN ordered} = Players
        BY OrderIs DEF Players
    <2> QED BY <2>1, Zenon DEF Standing, PointStandings, AheadOf
<1> HIDE DEF ahead
<1>5. /\ Standing \in [1 .. n -> Players]
      /\ \A x \in Players : Standing[Nth(ahead, x)] = x
      /\ \A i \in 1 .. n : Nth(ahead, Standing[i]) = i
    BY <1>2, <1>3, <1>4, ListedIs
<1>6. \A x \in Players : Nth(ahead, x) \in 1 .. n
    BY <1>2, <1>3, TurnsFit
<1> QED BY <1>1, <1>5, <1>6 DEF ahead

\* Before the first point the participants stand in the order of the draw.
LEMMA StandingAtFirst ==
    ASSUME FieldInv, points = [x \in Players |-> 0], won = [x \in Players |-> 0]
    PROVE  Standing = ordered
<1> DEFINE ahead == [x \in Players |-> AheadOf(x)]
<1>1. PICK n \in Nat : n = Len(ordered) /\ Players = 1 .. n /\ ordered = [i \in 1 .. n |-> i]
    BY OrderIs
<1>2. Tallied(points) /\ Tallied(won)
    BY DEF Tallied
<1>3. ASSUME NEW i \in 1 .. n
      PROVE  Nth(ahead, i) = i
    <2>1. ahead[i] = 1 .. i - 1
        <3>1. i \in Players /\ ahead[i] = AheadOf(i)
            BY <1>1
        <3>2. \A y \in Players : RanksBefore(points, won, y, i) <=> y < i
            BY <1>1 DEF RanksBefore
        <3>3. AheadOf(i) = {y \in 1 .. n : y < i}
            BY <1>1, <3>2 DEF AheadOf
        <3>4. {y \in 1 .. n : y < i} = 1 .. i - 1
            OBVIOUS
        <3> QED BY <3>1, <3>3, <3>4
    <2>2. Cardinality(1 .. i - 1) = i - 1
        <3>1. 1 \in Int /\ i - 1 \in Int
            OBVIOUS
        <3>2. Cardinality(1 .. i - 1) = IF 1 > i - 1 THEN 0 ELSE i - 1 - 1 + 1
            BY <3>1, FS_Interval
        <3> QED BY <3>2
    <2>3. Nth(ahead, i) = Cardinality(1 .. i - 1) + 1
        BY <2>1 DEF Nth
    <2> QED BY <2>2, <2>3
<1>4. /\ Standing \in [1 .. n -> Players]
      /\ \A x \in Players : Standing[Nth(ahead, x)] = x
    BY <1>1, <1>2, StandingIs
<1>5. \A i \in 1 .. n : Standing[i] = i
    BY <1>1, <1>3, <1>4
<1> QED BY <1>1, <1>4, <1>5

-----------------------------------------------------------------------------
(* Mexicano: a round drawn from the standings *)

\* Court c of a round drawn from the ranking R
NeighboursAt(R, c, number) ==
    Court(number, c, {{R[4 * c + 1], R[4 * c + 4]}, {R[4 * c + 2], R[4 * c + 3]}})

LEMMA SocialRoundIs ==
    ASSUME FieldInv, courts \in Nat, courts >= 1, Len(ordered) >= 4,
           NEW R \in [1 .. Len(ordered) -> Players], NEW number
    PROVE  BuildSocialRound(R, courts, number)
              = {NeighboursAt(R, c, number) : c \in 0 .. CourtsNow - 1}
<1>1. PICK n \in Nat : n = Len(ordered) /\ n >= 4 /\ R \in [1 .. n -> Players]
    BY OrderIs
<1>2. PICK k \in Nat : k = CourtsNow /\ k >= 1 /\ 4 * k <= n
    BY <1>1, SeatsFit
<1>3. R \in Seq(Players) /\ Len(R) = n
    <2> QED BY <1>1
<1>4. {c \in 0 .. k - 1 : 4 * c + 4 <= n} = 0 .. k - 1
    BY <1>2
<1>5. ASSUME NEW c \in 0 .. k - 1
      PROVE  PairCourt(SubSeq(R, 4 * c + 1, 4 * c + 4))
                = {{R[4 * c + 1], R[4 * c + 4]}, {R[4 * c + 2], R[4 * c + 3]}}
    <2>1. PICK b \in Nat : b = 4 * c /\ b + 4 <= n
        BY <1>2
    <2> DEFINE four == SubSeq(R, b + 1, b + 4)
    <2>2. four[1] = R[b + 1] /\ four[2] = R[b + 2] /\ four[3] = R[b + 3] /\ four[4] = R[b + 4]
        <3> QED BY <1>3, <2>1
    <2> HIDE DEF four
    <2>3. PairCourt(four) = {{R[b + 1], R[b + 4]}, {R[b + 2], R[b + 3]}}
        BY <2>2 DEF PairCourt
    <2> QED BY <2>1, <2>3 DEF four
<1>6. BuildSocialRound(R, courts, number) =
        {Court(number, c, PairCourt(SubSeq(R, 4 * c + 1, 4 * c + 4))) : c \in 0 .. k - 1}
    <2>1. k = UsableCourts(Len(R), courts)
        BY <1>1, <1>2, <1>3 DEF CourtsNow
    <2> QED BY <1>3, <1>4, <2>1 DEF BuildSocialRound
<1>7. {Court(number, c, PairCourt(SubSeq(R, 4 * c + 1, 4 * c + 4))) : c \in 0 .. k - 1}
        = {NeighboursAt(R, c, number) : c \in 0 .. k - 1}
    <2> DEFINE P(c) == PairCourt(SubSeq(R, 4 * c + 1, 4 * c + 4))
               Q(c) == {{R[4 * c + 1], R[4 * c + 4]}, {R[4 * c + 2], R[4 * c + 3]}}
    <2>1. \A c \in 0 .. k - 1 : P(c) = Q(c)
        BY <1>5
    <2> HIDE DEF P, Q
    <2>2. \A c \in 0 .. k - 1 : Court(number, c, P(c)) = Court(number, c, Q(c))
        BY <2>1
    <2>3. {Court(number, c, P(c)) : c \in 0 .. k - 1} = {Court(number, c, Q(c)) : c \in 0 .. k - 1}
        BY <2>2
    <2> QED BY <2>3 DEF P, Q, NeighboursAt
<1> QED BY <1>2, <1>6, <1>7

\* The players of a court are four neighbours in the ranking.
LEMMA NeighboursSit ==
    ASSUME NEW R, NEW c \in Nat, NEW number, NEW x
    PROVE  x \in UNION NeighboursAt(R, c, number).teams <=> \E i \in 1 .. 4 : x = R[4 * c + i]
<1> DEFINE f(i) == R[4 * c + i]
<1>1. NeighboursAt(R, c, number).teams = {{f(1), f(4)}, {f(2), f(3)}}
    BY DEF NeighboursAt, Court
<1> HIDE DEF f
<1>2. x \in UNION NeighboursAt(R, c, number).teams <=> x = f(1) \/ x = f(2) \/ x = f(3) \/ x = f(4)
    BY <1>1
<1>3. (\E i \in 1 .. 4 : x = f(i)) <=> x = f(1) \/ x = f(2) \/ x = f(3) \/ x = f(4)
    <2>1. \A i \in 1 .. 4 : i = 1 \/ i = 2 \/ i = 3 \/ i = 4
        OBVIOUS
    <2>2. 1 \in 1 .. 4 /\ 2 \in 1 .. 4 /\ 3 \in 1 .. 4 /\ 4 \in 1 .. 4
        OBVIOUS
    <2> QED BY <2>1, <2>2
<1> QED BY <1>2, <1>3 DEF f

\* The sum of two numbers, through the fold it is defined by.
LEMMA SumOfTwo ==
    ASSUME NEW a \in Int, NEW b \in Int, a # b
    PROVE  SumSet({a, b}) = a + b
<1> DEFINE S == {a, b}
           Choose(s) == CHOOSE x \in s : TRUE
           Sum(f, s) == IF s = {} THEN 0 ELSE Choose(s) + f[s \ {Choose(s)}]
           F(f) == [s \in SUBSET S |-> Sum(f, s)]
           it == CHOOSE f : f = F(f)
           g == [s \in SUBSET S |-> IF s = {} THEN 0 ELSE IF s = S THEN a + b ELSE Choose(s)]
<1>1. SumSet(S) = it[S]
    BY DEF SumSet, FoldSet, MapThenFoldSet
<1>2. \A s : s # {} => Choose(s) \in s
    OBVIOUS
<1> HIDE DEF Choose
<1>3. \A s \in SUBSET S : s = {} \/ s = {a} \/ s = {b} \/ s = S
    OBVIOUS
<1>4. Choose({a}) = a /\ Choose({b}) = b /\ Choose(S) \in {a, b}
    BY <1>2
<1>5. {a} \ {a} = {} /\ {b} \ {b} = {} /\ S \ {a} = {b} /\ S \ {b} = {a}
    OBVIOUS
<1>6. \A f : (f[{}] = 0 => Sum(f, {a}) = a /\ Sum(f, {b}) = b)
    <2> TAKE f
    <2> HAVE f[{}] = 0
    <2>1. Sum(f, {a}) = Choose({a}) + f[{a} \ {Choose({a})}] /\ {a} \ {Choose({a})} = {}
        BY <1>4
    <2>2. Sum(f, {b}) = Choose({b}) + f[{b} \ {Choose({b})}] /\ {b} \ {Choose({b})} = {}
        BY <1>4
    <2>3. Sum(f, {a}) = a + 0 /\ Sum(f, {b}) = b + 0
        BY <1>4, <2>1, <2>2
    <2> HIDE DEF Sum
    <2> QED BY <2>3
<1>7. \A f : f[{a}] = a /\ f[{b}] = b => Sum(f, S) = a + b
    <2> TAKE f
    <2> HAVE f[{a}] = a /\ f[{b}] = b
    <2>1. Sum(f, S) = Choose(S) + f[S \ {Choose(S)}]
        OBVIOUS
    <2>2. CASE Choose(S) = a
        <3>1. S \ {Choose(S)} = {b}
            BY <2>2, <1>5
        <3>2. Sum(f, S) = a + f[{b}]
            BY <2>1, <2>2, <3>1
        <3> HIDE DEF Sum
        <3> QED BY <3>2
    <2>3. CASE Choose(S) = b
        <3>1. S \ {Choose(S)} = {a}
            BY <2>3, <1>5
        <3>2. Sum(f, S) = b + f[{a}]
            BY <2>1, <2>3, <3>1
        <3> HIDE DEF Sum
        <3> QED BY <3>2
    <2> QED BY <1>4, <2>2, <2>3
<1>8. \A f : Sum(f, {}) = 0
    OBVIOUS
<1>9. g[{}] = 0 /\ g[{a}] = a /\ g[{b}] = b /\ g[S] = a + b
    BY <1>4
<1>10. DOMAIN g = SUBSET S /\ g = [s \in SUBSET S |-> g[s]]
    OBVIOUS
<1> HIDE DEF Sum, g, S
<1>11. \A s \in SUBSET S : g[s] = Sum(g, s)
    <2>1. Sum(g, {}) = 0 /\ Sum(g, {a}) = a /\ Sum(g, {b}) = b /\ Sum(g, S) = a + b
        BY <1>6, <1>7, <1>8, <1>9
    <2> QED BY <1>3, <1>9, <2>1
<1>12. g = F(g)
    BY <1>10, <1>11
<1>13. it = F(it)
    BY <1>12
<1> HIDE DEF it
<1>14. it[{}] = 0 /\ it[{a}] = a /\ it[{b}] = b /\ it[S] = a + b
    <2>1. \A s \in SUBSET S : it[s] = Sum(it, s)
        BY <1>13
    <2>2. {} \in SUBSET S /\ {a} \in SUBSET S /\ {b} \in SUBSET S /\ S \in SUBSET S
        BY DEF S
    <2>3. it[{}] = 0
        BY <2>1, <2>2, <1>8
    <2> HIDE DEF F
    <2>4. it[{a}] = a /\ it[{b}] = b
        BY <2>1, <2>2, <2>3, <1>6
    <2>5. it[S] = a + b
        BY <2>1, <2>2, <2>4, <1>7
    <2> QED BY <2>3, <2>4, <2>5
<1> QED BY <1>1, <1>14 DEF S

RankOf(x) == CHOOSE i \in DOMAIN Standing : Standing[i] = x

LEMMA RankIs ==
    ASSUME FieldInv, Tallied(points), Tallied(won), NEW i \in 1 .. Len(ordered)
    PROVE  RankOf(Standing[i]) = i
<1> DEFINE n == Len(ordered)
           ahead == [x \in Players |-> AheadOf(x)]
           T(x) == Nth(ahead, x)
<1>1. Standing \in [1 .. n -> Players] /\ \A j \in 1 .. n : T(Standing[j]) = j
    BY StandingIs
<1> HIDE DEF T
<1>2. \A j \in 1 .. n : Standing[j] = Standing[i] => j = i
    BY <1>1
<1>3. \E j \in DOMAIN Standing : Standing[j] = Standing[i]
    BY <1>1
<1>4. RankOf(Standing[i]) \in DOMAIN Standing /\ Standing[RankOf(Standing[i])] = Standing[i]
    BY <1>3 DEF RankOf
<1> QED BY <1>1, <1>2, <1>4

\* The courts of a Mexicano night are drawn from the standings.
MexicanoInv ==
    made = "MEXICANO" =>
        /\ Len(ordered) >= 4
        /\ \E number : drawn = BuildSocialRound(Standing, courts, number)

LEMMA MexicanoRound ==
    ASSUME FieldInv, courts \in Nat, courts >= 1, Tallied(points), Tallied(won),
           MexicanoInv, made = "MEXICANO"
    PROVE  /\ Len(ordered) >= 4
           /\ \E number : drawn = {NeighboursAt(Standing, c, number) : c \in 0 .. CourtsNow - 1}
<1>1. Standing \in [1 .. Len(ordered) -> Players]
    BY StandingIs
<1>2. Len(ordered) >= 4
    BY DEF MexicanoInv
<1>3. PICK number : drawn = BuildSocialRound(Standing, courts, number)
    BY DEF MexicanoInv
<1>4. drawn = {NeighboursAt(Standing, c, number) : c \in 0 .. CourtsNow - 1}
    BY <1>1, <1>2, <1>3, SocialRoundIs
<1> QED BY <1>2, <1>4

Ranks(t) == {RankOf(x) : x \in t}

\* Four players, three ranks apart at most, in two teams whose ranks add up to
\* the same.
Balanced(m) ==
    /\ Cardinality(UNION m.teams) = 4
    /\ \A x, y \in UNION m.teams : RankOf(x) <= RankOf(y) + 3
    /\ \A s, t \in m.teams : SumSet(Ranks(s)) = SumSet(Ranks(t))

LEMMA NeighboursBalance ==
    ASSUME FieldInv, Tallied(points), Tallied(won),
           NEW c \in Nat, 4 * c + 4 <= Len(ordered), NEW number,
           NEW m, m = NeighboursAt(Standing, c, number)
    PROVE  Balanced(m)
<1> DEFINE f(i) == Standing[4 * c + i]
<1>1. PICK n \in Nat : n = Len(ordered) /\ 4 * c + 4 <= n
    BY OrderIs
<1>2. \A i \in 1 .. 4 : 4 * c + i \in 1 .. Len(ordered)
    BY <1>1
<1>3. \A i \in 1 .. 4 : RankOf(f(i)) = 4 * c + i
    BY <1>2, RankIs
<1>4. /\ RankOf(f(1)) = 4 * c + 1 /\ RankOf(f(2)) = 4 * c + 2
      /\ RankOf(f(3)) = 4 * c + 3 /\ RankOf(f(4)) = 4 * c + 4
    <2>1. 1 \in 1 .. 4 /\ 2 \in 1 .. 4 /\ 3 \in 1 .. 4 /\ 4 \in 1 .. 4
        OBVIOUS
    <2> HIDE DEF f
    <2> QED BY <1>3, <2>1
<1>5. m.teams = {{f(1), f(4)}, {f(2), f(3)}}
    BY DEF NeighboursAt, Court
<1> HIDE DEF f
<1>6. UNION m.teams = {f(1), f(2), f(3), f(4)}
    BY <1>5
<1>7. Cardinality(UNION m.teams) = 4
    <2>1. f(1) # f(2) /\ f(1) # f(3) /\ f(1) # f(4) /\ f(2) # f(3) /\ f(2) # f(4) /\ f(3) # f(4)
        <3>1. PICK b \in Nat : b = 4 * c
            OBVIOUS
        <3> QED BY <1>4, <3>1
    <2>2. Cardinality({f(1), f(2), f(3), f(4)}) = 4
        <3>1. PICK u, v, w, z : u = f(1) /\ v = f(2) /\ w = f(3) /\ z = f(4)
            OBVIOUS
        <3>2. u # v /\ u # w /\ u # z /\ v # w /\ v # z /\ w # z
            BY <2>1, <3>1
        <3>3. Cardinality({u, v, w, z}) = 4
            BY <3>2, FourCount
        <3> QED BY <3>1, <3>3
    <2> QED BY <1>6, <2>2, Zenon
<1>8. \A x, y \in UNION m.teams : RankOf(x) <= RankOf(y) + 3
    <2>1. \A x \in UNION m.teams : \E i \in 1 .. 4 : RankOf(x) = 4 * c + i
        <3>1. 1 \in 1 .. 4 /\ 2 \in 1 .. 4 /\ 3 \in 1 .. 4 /\ 4 \in 1 .. 4
            OBVIOUS
        <3> QED BY <1>3, <1>6, <3>1
    <2>2. \A i, j \in 1 .. 4 : 4 * c + i <= 4 * c + j + 3
        OBVIOUS
    <2> QED BY <2>1, <2>2
<1>9. \A s \in m.teams : SumSet(Ranks(s)) = 8 * c + 5
    <2>1. SumSet({4 * c + 1, 4 * c + 4}) = 4 * c + 1 + (4 * c + 4)
        <3>1. 4 * c + 1 \in Int /\ 4 * c + 4 \in Int /\ 4 * c + 1 # 4 * c + 4
            OBVIOUS
        <3> QED BY <3>1, SumOfTwo
    <2>2. SumSet({4 * c + 2, 4 * c + 3}) = 4 * c + 2 + (4 * c + 3)
        <3>1. 4 * c + 2 \in Int /\ 4 * c + 3 \in Int /\ 4 * c + 2 # 4 * c + 3
            OBVIOUS
        <3> QED BY <3>1, SumOfTwo
    <2>3. \A a, b : Ranks({a, b}) = {RankOf(a), RankOf(b)}
        BY DEF Ranks
    <2>4. Ranks({f(1), f(4)}) = {4 * c + 1, 4 * c + 4} /\ Ranks({f(2), f(3)}) = {4 * c + 2, 4 * c + 3}
        BY <1>4, <2>3
    <2>5. 4 * c + 1 + (4 * c + 4) = 8 * c + 5 /\ 4 * c + 2 + (4 * c + 3) = 8 * c + 5
        OBVIOUS
    <2>6. SumSet(Ranks({f(1), f(4)})) = 8 * c + 5 /\ SumSet(Ranks({f(2), f(3)})) = 8 * c + 5
        BY <2>1, <2>2, <2>4, <2>5
    <2> QED BY <1>5, <2>6
<1>10. \A s, t \in m.teams : SumSet(Ranks(s)) = SumSet(Ranks(t))
    BY <1>9
<1> QED BY <1>7, <1>8, <1>10 DEF Balanced

LEMMA MexicanoHolds ==
    ASSUME FieldInv, courts \in Nat, courts >= 1, Tallied(points), Tallied(won), MexicanoInv
    PROVE  MexicanoBalanced
<1> SUFFICES ASSUME made = "MEXICANO"
             PROVE  /\ Ranks(Seated(drawn)) = 1 .. 4 * UsableCourts(Len(ordered), courts)
                    /\ Disjoint(drawn)
                    /\ \A m \in drawn : Balanced(m)
    BY Zenon DEF MexicanoBalanced, Balanced, Ranks, RankOf, Standing
<1>1. PICK number : /\ Len(ordered) >= 4
                    /\ drawn = {NeighboursAt(Standing, c, number) : c \in 0 .. CourtsNow - 1}
    BY MexicanoRound
<1>2. PICK n \in Nat : n = Len(ordered)
    BY OrderIs
<1>3. PICK k \in Nat : k = CourtsNow /\ k >= 1 /\ 4 * k <= n
    BY <1>1, <1>2, SeatsFit
<1> DEFINE At(c) == NeighboursAt(Standing, c, number)
           Rank(x) == RankOf(x)
           Place(i) == Standing[i]
<1>4. \A c \in 0 .. k - 1 : c \in Nat /\ 4 * c + 4 <= n
    BY <1>3
<1>5. \A m \in drawn : \E c \in 0 .. k - 1 : m = At(c)
    BY <1>1, <1>3
<1>6. \A c \in 0 .. k - 1 : At(c) \in drawn
    BY <1>1, <1>3
<1>7. \A c \in 0 .. k - 1 : \A x : x \in UNION At(c).teams <=> \E i \in 1 .. 4 : x = Place(4 * c + i)
    BY <1>4, NeighboursSit
<1>8. \A i \in 1 .. n : Rank(Place(i)) = i
    BY <1>2, RankIs
<1> HIDE DEF At, Place
<1>9. \A c \in 0 .. k - 1 : \A x \in UNION At(c).teams :
        \E i \in 1 .. 4 : Rank(x) = 4 * c + i /\ x = Place(4 * c + i)
    <2> SUFFICES ASSUME NEW c \in 0 .. k - 1, NEW x \in UNION At(c).teams
                 PROVE  \E i \in 1 .. 4 : Rank(x) = 4 * c + i /\ x = Place(4 * c + i)
        OBVIOUS
    <2>1. PICK i \in 1 .. 4 : x = Place(4 * c + i)
        BY <1>7
    <2>2. 4 * c + i \in 1 .. n
        BY <1>3
    <2> QED BY <1>8, <2>1, <2>2
<1> HIDE DEF Rank
<1>10. \A m \in drawn : Balanced(m)
    <2> TAKE m \in drawn
    <2>1. PICK c \in 0 .. k - 1 : m = At(c)
        BY <1>5
    <2>2. c \in Nat /\ 4 * c + 4 <= Len(ordered) /\ m = NeighboursAt(Standing, c, number)
        BY <1>2, <1>4, <2>1 DEF At
    <2> QED BY <2>2, NeighboursBalance
<1>11. \A m, q \in drawn : m # q => (UNION m.teams) \cap (UNION q.teams) = {}
    <2> SUFFICES ASSUME NEW m \in drawn, NEW q \in drawn, m # q,
                        NEW x \in UNION m.teams, x \in UNION q.teams
                 PROVE  FALSE
        OBVIOUS
    <2>1. PICK c \in 0 .. k - 1 : m = At(c)
        BY <1>5
    <2>2. PICK d \in 0 .. k - 1 : q = At(d)
        BY <1>5
    <2>3. PICK i \in 1 .. 4 : Rank(x) = 4 * c + i
        BY <1>9, <2>1
    <2>4. PICK j \in 1 .. 4 : Rank(x) = 4 * d + j
        BY <1>9, <2>2
    <2>5. c = d
        BY <1>3, <2>3, <2>4
    <2> QED BY <2>1, <2>2, <2>5
<1>12. ASSUME NEW x \in Seated(drawn)
       PROVE  RankOf(x) \in 1 .. 4 * k
    <2>1. PICK c \in 0 .. k - 1 : x \in UNION At(c).teams
        BY <1>5 DEF Seated
    <2>2. PICK i \in 1 .. 4 : Rank(x) = 4 * c + i
        BY <1>9, <2>1
    <2>3. 4 * c + i \in 1 .. 4 * k
        BY <1>3
    <2> QED BY <2>2, <2>3 DEF Rank
<1>13. ASSUME NEW j \in 1 .. 4 * k
       PROVE  \E x \in Seated(drawn) : RankOf(x) = j
    <2>1. PICK c \in 0 .. k - 1, i \in 1 .. 4 : j = 4 * c + i
        <3> DEFINE b == (j - 1) \div 4
        <3>1. b \in 0 .. k - 1 /\ j - 4 * b \in 1 .. 4 /\ j = 4 * b + (j - 4 * b)
            BY <1>3
        <3> QED BY <3>1
    <2>2. Place(j) \in UNION At(c).teams
        BY <1>7, <2>1
    <2>3. Place(j) \in Seated(drawn)
        BY <1>6, <2>2 DEF Seated
    <2>4. Rank(Place(j)) = j
        BY <1>3, <1>8
    <2> QED BY <2>3, <2>4 DEF Rank
<1>14. Ranks(Seated(drawn)) = 1 .. 4 * k
    BY <1>12, <1>13 DEF Ranks
<1>15. Ranks(Seated(drawn)) = 1 .. 4 * UsableCourts(Len(ordered), courts)
    BY <1>3, <1>14 DEF CourtsNow
<1> QED BY <1>10, <1>11, <1>15 DEF Disjoint

-----------------------------------------------------------------------------
(* Nights, round by round *)

Zero(tally) == tally = [x \in Players |-> 0]

NightInv ==
    /\ FieldInv
    /\ courts \in Nat /\ courts >= 1
    /\ Tallied(points) /\ Tallied(won)
    /\ made = None => Zero(points) /\ Zero(won)
    /\ MexicanoInv

\* The points of a played court are those of Scores.
LEMMA ResultsAre ==
    ASSUME NEW D, NEW round \in Results(D), NEW m \in round, NEW t \in DOMAIN m.points
    PROVE  m.points[t] \in Nat
<1> DEFINE V == UNION {{s[1], s[2]} : s \in Scores}
           Of(q) == {PlayedCourt(q.position, f) :
                       f \in {g \in [q.teams -> V] :
                               \E a, b \in q.teams, s \in Scores : a # b /\ g[a] = s[1] /\ g[b] = s[2]}}
<1>1. PICK h : round = {h[q] : q \in D} /\ \A q \in D : h[q] \in Of(q)
    BY DEF Results
<1>2. V \subseteq Nat
    BY DrawsAssumption
<1>3. PICK q \in D : m = h[q]
    BY <1>1
<1>4. PICK g \in [q.teams -> V] : m = PlayedCourt(q.position, g)
    BY <1>1, <1>3
<1>5. m.points = g
    BY <1>4 DEF PlayedCourt
<1> HIDE DEF V, Of
<1> QED BY <1>2, <1>4, <1>5

\* A round adds points and rounds won to those it was played by.
LEMMA RoundTallies ==
    ASSUME FieldInv, Tallied(points), Tallied(won), NEW round \in Results(drawn), PlayRound(round)
    PROVE  Tallied(points)' /\ Tallied(won)'
<1> DEFINE PlaysIn == UNION {On(m) : m \in round}
           Gain(x) == IF x \in PlaysIn THEN OnCourt(round, x).points[TeamOf(OnCourt(round, x), x)] ELSE 0
           Win(x) == IF x \in PlaysIn /\ Wins(OnCourt(round, x), TeamOf(OnCourt(round, x), x)) THEN 1 ELSE 0
<1>1. /\ points' = [x \in Players |-> points[x] + Gain(x)]
      /\ won' = [x \in Players |-> won[x] + Win(x)]
      /\ ordered' = ordered
    BY DEF PlayRound
<1>2. Players' = Players
    BY <1>1 DEF Players
<1>3. ASSUME NEW x \in PlaysIn
      PROVE  Gain(x) \in Nat
    <2>1. PICK m \in round : x \in On(m)
        OBVIOUS
    <2>2. OnCourt(round, x) \in round /\ x \in On(OnCourt(round, x))
        BY <2>1 DEF OnCourt
    <2>3. PICK k \in round : k = OnCourt(round, x) /\ x \in On(k)
        BY <2>2
    <2>4. TeamOf(k, x) \in DOMAIN k.points
        BY <2>3 DEF On, TeamOf
    <2>5. k.points[TeamOf(k, x)] \in Nat
        BY <2>4, ResultsAre
    <2> HIDE DEF PlaysIn
    <2> QED BY <1>3, <2>3, <2>5
<1>4. \A x \in Players : Gain(x) \in Nat
    <2> TAKE x \in Players
    <2>1. CASE x \in PlaysIn
        BY <1>3, <2>1
    <2>2. CASE x \notin PlaysIn
        BY <2>2
    <2> QED BY <2>1, <2>2
<1>5. \A x \in Players : Win(x) \in Nat
    OBVIOUS
<1> HIDE DEF Gain, Win
<1>6. \A x \in Players : points[x] + Gain(x) \in Nat /\ won[x] + Win(x) \in Nat
    BY <1>4, <1>5 DEF Tallied
<1> QED BY <1>1, <1>2, <1>6 DEF Tallied

LEMMA NightStarts == AllInit => NightInv
<1> SUFFICES ASSUME AllInit PROVE NightInv
    OBVIOUS
<1>1. FieldInv /\ courts \in Nat /\ courts >= 1
    BY DrawsAssumption DEF AllInit, DrawInit, FieldInv
<1>2. Zero(points) /\ Zero(won)
    BY DEF AllInit, DrawInit, Zero
<1>3. Tallied(points) /\ Tallied(won)
    BY <1>2 DEF Zero, Tallied
<1>4. made # "MEXICANO"
    BY DrawsAssumption DEF AllInit, DrawInit, Format, Night
<1> QED BY <1>1, <1>2, <1>3, <1>4 DEF NightInv, MexicanoInv

LEMMA NightDrawn ==
    ASSUME NightInv, NEW f \in Format, Draw(f)
    PROVE  NightInv'
<1>1. /\ made = None /\ made' = f /\ ordered' = ordered /\ courts' = courts
      /\ points' = points /\ won' = won
    BY DEF Draw
<1>2. FieldInv' /\ Players' = Players
    BY <1>1 DEF NightInv, FieldInv, Players
<1>3. (courts \in Nat /\ courts >= 1 /\ Tallied(points) /\ Tallied(won))'
    BY <1>1, <1>2 DEF NightInv, Tallied
<1>4. made' # None
    BY <1>1, DrawsAssumption DEF Format, Night
<1>5. MexicanoInv'
    <2> SUFFICES ASSUME f = "MEXICANO"
                 PROVE  (Len(ordered) >= 4 /\ \E number : drawn = BuildSocialRound(Standing, courts, number))'
        BY <1>1 DEF MexicanoInv
    <2>1. Len(ordered) >= 4 /\ drawn' = BuildSocialRound(ordered, courts, 1)
        BY DEF Draw, Night
    <2>2. Standing = ordered
        BY <1>1, StandingAtFirst DEF NightInv, Zero
    <2>3. Standing' = Standing
        BY <1>1 DEF Standing
    <2>4. drawn' = BuildSocialRound(Standing', courts', 1)
        BY <1>1, <2>1, <2>2, <2>3
    <2> QED BY <1>1, <2>1, <2>4
<1> QED BY <1>2, <1>3, <1>4, <1>5 DEF NightInv

LEMMA NightPlayed ==
    ASSUME NightInv, NEW round \in Results(drawn), made \in Night, PlayRound(round)
    PROVE  NightInv'
<1>1. made' = made /\ ordered' = ordered /\ courts' = courts
    BY DEF PlayRound
<1>2. FieldInv'
    BY <1>1 DEF NightInv, FieldInv
<1>3. Tallied(points)' /\ Tallied(won)'
    BY RoundTallies DEF NightInv
<1>4. made' # None
    BY <1>1, DrawsAssumption DEF Format, Night
<1>5. MexicanoInv'
    <2> SUFFICES ASSUME made = "MEXICANO"
                 PROVE  (Len(ordered) >= 4 /\ \E number : drawn = BuildSocialRound(Standing, courts, number))'
        BY <1>1 DEF MexicanoInv
    <2>1. Len(ordered) >= 4
        BY DEF NightInv, MexicanoInv
    <2>2. PICK number : drawn' = BuildSocialRound(PointStandings(ordered, points', won'), courts, number)
        BY DEF PlayRound
    <2>3. Standing' = PointStandings(ordered, points', won')
        BY <1>1 DEF Standing
    <2> QED BY <1>1, <2>1, <2>2, <2>3
<1>6. (courts \in Nat /\ courts >= 1)'
    BY <1>1 DEF NightInv
<1> QED BY <1>2, <1>3, <1>4, <1>5, <1>6 DEF NightInv

LEMMA NightKept ==
    ASSUME NightInv, ordered' = ordered, courts' = courts, points' = points, won' = won,
           \/ made' = made /\ drawn' = drawn
           \/ made = None /\ made' # "MEXICANO"
    PROVE  NightInv'
<1>1. FieldInv' /\ Players' = Players /\ Standing' = Standing
    BY DEF NightInv, FieldInv, Players, Standing
<1>2. MexicanoInv'
    BY <1>1 DEF NightInv, MexicanoInv
<1> QED BY <1>1, <1>2 DEF NightInv, Tallied, Zero

LEMMA NightInvariant == AllSpec => []NightInv
<1>1. AllInit => NightInv
    BY NightStarts
<1>2. NightInv /\ [AllNext]_allVars => NightInv'
    <2> SUFFICES ASSUME NightInv, [AllNext]_allVars PROVE NightInv'
        OBVIOUS
    <2>1. CASE \E f \in Format : Draw(f)
        BY <2>1, NightDrawn
    <2>2. CASE \E m \in drawn, s \in Scores : \E x \in m.players : PlayMeeting(m, x, s)
        BY <2>2, NightKept DEF PlayMeeting
    <2>3. CASE made \in Night /\ \E round \in Results(drawn) : PlayRound(round)
        BY <2>3, NightPlayed
    <2>4. CASE \E server \in Side \cup {NoServer}, advantage, tieBreak \in BOOLEAN :
                  StartMatch(server, advantage, tieBreak)
        <3>1. made = None /\ made' # "MEXICANO"
            BY <2>4 DEF StartMatch
        <3> QED BY <2>4, <3>1, NightKept DEF StartMatch
    <2>5. CASE \E s \in Side, nextTieBreak \in BOOLEAN : Score(s, nextTieBreak)
        BY <2>5, NightKept DEF Score, drawVars
    <2>6. CASE UNCHANGED allVars
        BY <2>6, NightKept DEF allVars, drawVars
    <2> QED BY <2>1, <2>2, <2>3, <2>4, <2>5, <2>6 DEF AllNext, DrawNext
<1> QED BY <1>1, <1>2, PTL DEF AllSpec

\* Every Americano night and every Mexicano night, on any number of courts and
\* with any results, is fair (buildAmericano, buildSocialRound).
THEOREM NightsAreFair == AllSpec => []NightsFair
<1>1. NightInv => NightsFair
    BY AmericanoHolds, MexicanoHolds DEF NightInv, NightsFair
<1> QED BY <1>1, NightInvariant, PTL

-----------------------------------------------------------------------------
(* King of the court: lists of players *)

\* A ranking holds every participant once.
Ranking(R) ==
    /\ R \in [1 .. Len(ordered) -> Players]
    /\ \A i, j \in 1 .. Len(ordered) : R[i] = R[j] => i = j
    /\ \A x \in Players : \E i \in 1 .. Len(ordered) : R[i] = x

\* A holds the elements of S once each.
Lists(A, S) ==
    /\ A \in [1 .. Cardinality(S) -> S]
    /\ \A i, j \in 1 .. Cardinality(S) : A[i] = A[j] => i = j
    /\ \A x \in S : \E i \in 1 .. Cardinality(S) : A[i] = x

LEMMA StandingRanks ==
    ASSUME FieldInv, Tallied(points), Tallied(won)
    PROVE  Ranking(Standing)
<1> DEFINE ahead == [x \in Players |-> AheadOf(x)]
           n == Len(ordered)
<1>1. /\ Standing \in [1 .. n -> Players]
      /\ \A x \in Players : Nth(ahead, x) \in 1 .. n /\ Standing[Nth(ahead, x)] = x
      /\ \A i \in 1 .. n : Nth(ahead, Standing[i]) = i
    BY StandingIs
<1> HIDE DEF ahead
<1>2. \A i, j \in 1 .. n : Standing[i] = Standing[j] => i = j
    BY <1>1
<1>3. \A x \in Players : \E i \in 1 .. n : Standing[i] = x
    BY <1>1
<1> QED BY <1>1, <1>2, <1>3 DEF Ranking

LEMMA PlayersFinite ==
    ASSUME FieldInv, NEW S, S \subseteq Players
    PROVE  IsFiniteSet(S) /\ Cardinality(S) \in Nat
<1>1. PICK n \in Nat : n = Len(ordered) /\ Players = 1 .. n
    BY OrderIs
<1>2. IsFiniteSet(1 .. n)
    <2>1. 1 \in Int /\ n \in Int
        BY <1>1
    <2> QED BY <2>1, FS_Interval
<1> QED BY <1>1, <1>2, FS_Subset, FS_CardinalityType

LEMMA AmongIs ==
    ASSUME FieldInv, NEW R, Ranking(R), NEW S, S \subseteq Players, NEW A, A = Among(R, S)
    PROVE  Lists(A, S)
<1>1. PICK n \in Nat : n = Len(ordered)
    BY OrderIs
<1> DEFINE at == {i \in 1 .. n : R[i] \in S}
           ahead == [i \in at |-> {j \in at : j < i}]
           order == Listed(at, ahead)
<1>2. DOMAIN R = 1 .. n
    BY <1>1 DEF Ranking
<1>3. IsFiniteSet(at)
    <2>1. 1 \in Int /\ n \in Int
        BY <1>1
    <2>2. IsFiniteSet(1 .. n)
        BY <2>1, FS_Interval
    <2>3. at \subseteq 1 .. n
        OBVIOUS
    <2> QED BY <2>2, <2>3, FS_Subset
<1>4. Orders(at, ahead)
    <2>1. \A i \in at : i \in Nat
        OBVIOUS
    <2>2. \A i \in at : ahead[i] = {j \in at : j < i}
        OBVIOUS
    <2> HIDE DEF at, ahead
    <2>3. \A i \in at : i \notin ahead[i] /\ ahead[i] \subseteq at
        BY <2>1, <2>2
    <2>4. \A i, j \in at : i # j => i \in ahead[j] \/ j \in ahead[i]
        BY <2>1, <2>2
    <2>5. \A i, j \in at : j \in ahead[i] => ahead[j] \subseteq ahead[i]
        BY <2>1, <2>2
    <2> QED BY <2>3, <2>4, <2>5 DEF Orders
<1> HIDE DEF ahead
<1>5. DEFINE k == Cardinality(at)
<1>6. /\ order \in [1 .. k -> at]
      /\ \A i \in at : Nth(ahead, i) \in 1 .. k /\ order[Nth(ahead, i)] = i
      /\ \A i \in 1 .. k : Nth(ahead, order[i]) = i
    <2> HIDE DEF at
    <2> QED BY <1>3, <1>4, ListedIs, TurnsFit
<1>7. A = [i \in 1 .. k |-> R[order[i]]]
    <2>1. A = [i \in DOMAIN order |-> R[order[i]]]
        BY <1>2, Zenon DEF Among, ahead
    <2>2. DOMAIN order = 1 .. k
        BY <1>6
    <2> QED BY <2>1, <2>2
<1> HIDE DEF order
<1>8. A \in [1 .. k -> S]
    <2>1. \A i \in 1 .. k : order[i] \in at
        BY <1>6
    <2>2. \A i \in at : R[i] \in S
        OBVIOUS
    <2> HIDE DEF at, k
    <2> QED BY <1>7, <2>1, <2>2
<1>9. \A i, j \in 1 .. k : A[i] = A[j] => i = j
    <2> SUFFICES ASSUME NEW i \in 1 .. k, NEW j \in 1 .. k, A[i] = A[j] PROVE i = j
        OBVIOUS
    <2>1. order[i] \in at /\ order[j] \in at
        BY <1>6
    <2>2. order[i] \in 1 .. n /\ order[j] \in 1 .. n
        BY <2>1
    <2> HIDE DEF at, k
    <2>3. R[order[i]] = R[order[j]]
        BY <1>7
    <2>4. order[i] = order[j]
        BY <1>1, <2>2, <2>3 DEF Ranking
    <2> QED BY <1>6, <2>4
<1>10. \A x \in S : \E i \in 1 .. k : A[i] = x
    <2> SUFFICES ASSUME NEW x \in S PROVE \E i \in 1 .. k : A[i] = x
        OBVIOUS
    <2>1. PICK j \in 1 .. n : R[j] = x
        BY <1>1 DEF Ranking
    <2>2. j \in at
        BY <2>1
    <2> HIDE DEF at, k
    <2>3. Nth(ahead, j) \in 1 .. k /\ order[Nth(ahead, j)] = j
        BY <1>6, <2>2
    <2> QED BY <1>7, <2>1, <2>3
<1>11. k = Cardinality(S)
    <2>1. k \in Nat
        BY <1>3, FS_CardinalityType
    <2>2. IsFiniteSet(1 .. k) /\ Cardinality(1 .. k) = k
        <3>1. 1 \in Int /\ k \in Int
            BY <2>1
        <3> HIDE DEF k
        <3>2. IsFiniteSet(1 .. k) /\ Cardinality(1 .. k) = IF 1 > k THEN 0 ELSE k - 1 + 1
            BY <3>1, FS_Interval
        <3> QED BY <2>1, <3>2
    <2> HIDE DEF k
    <2>3. A \in Bijection(1 .. k, S)
        BY <1>8, <1>9, <1>10 DEF Bijection, Injection, Surjection, IsInjective
    <2> QED BY <2>2, <2>3, FS_Bijection DEF ExistsBijection
<1> HIDE DEF k
<1> QED BY <1>8, <1>9, <1>10, <1>11 DEF Lists

LEMMA ListLength ==
    ASSUME NEW S, NEW k \in Nat, k = Cardinality(S), NEW A, Lists(A, S)
    PROVE  A \in Seq(S) /\ Len(A) = k /\ DOMAIN A = 1 .. k
<1>1. A \in [1 .. k -> S]
    BY DEF Lists
<1> QED BY <1>1

LEMMA UpTo ==
    ASSUME NEW k \in Nat
    PROVE  IsFiniteSet(1 .. k) /\ Cardinality(1 .. k) = k
<1>1. 1 \in Int /\ k \in Int
    OBVIOUS
<1>2. IsFiniteSet(1 .. k) /\ Cardinality(1 .. k) = IF 1 > k THEN 0 ELSE k - 1 + 1
    BY <1>1, FS_Interval
<1> QED BY <1>2

\* As many of the bottom court make room as sitters take their places.
LEMMA RotateIs ==
    ASSUME FieldInv, NEW R, Ranking(R), NEW bottom, bottom \subseteq Players,
           NEW sitters, sitters \subseteq Players, bottom \cap sitters = {},
           NEW T, T = RotateSitters(bottom, Among(R, sitters), R)
    PROVE  /\ T \subseteq bottom \cup sitters
           /\ Cardinality(T) = Cardinality(bottom)
           /\ Cardinality(sitters) <= Cardinality(bottom) => sitters \subseteq T
<1>1. PICK order : order = Among(R, bottom) /\ Lists(order, bottom)
    BY AmongIs
<1>2. PICK sitting : sitting = Among(R, sitters) /\ Lists(sitting, sitters)
    BY AmongIs
<1>3. PICK b \in Nat : b = Cardinality(bottom)
    BY PlayersFinite
<1>4. PICK s \in Nat : s = Cardinality(sitters)
    BY PlayersFinite
<1>5. PICK swaps \in Nat : swaps = (IF s < b THEN s ELSE b) /\ swaps <= b /\ swaps <= s
    OBVIOUS
<1>6. PICK stay \in Nat : stay = b - swaps
    <2>1. swaps <= b
        BY <1>5
    <2>2. b - swaps \in Nat
        BY <2>1
    <2> QED BY <2>2
<1>7. Len(order) = b /\ Len(sitting) = s
    BY <1>1, <1>2, <1>3, <1>4, ListLength
<1>8. T = {order[i] : i \in 1 .. stay} \cup {sitting[i] : i \in 1 .. swaps}
    <2> DEFINE w == IF Len(sitting) < Cardinality(bottom) THEN Len(sitting) ELSE Cardinality(bottom)
    <2>1. T = {order[i] : i \in 1 .. Len(order) - w} \cup {sitting[i] : i \in 1 .. w}
        BY <1>1, <1>2, Zenon DEF RotateSitters
    <2>2. w = swaps /\ Len(order) - w = stay
        BY <1>3, <1>5, <1>6, <1>7
    <2> HIDE DEF w
    <2> QED BY <2>1, <2>2
<1>9. /\ order \in [1 .. b -> bottom]
      /\ \A i, j \in 1 .. b : order[i] = order[j] => i = j
    BY <1>1, <1>3 DEF Lists
<1>10. /\ sitting \in [1 .. s -> sitters]
       /\ \A i, j \in 1 .. s : sitting[i] = sitting[j] => i = j
       /\ \A x \in sitters : \E i \in 1 .. s : sitting[i] = x
    BY <1>2, <1>4 DEF Lists
<1>11. \A i \in 1 .. stay : i \in 1 .. b
    BY <1>5, <1>6
<1>12. \A i \in 1 .. swaps : i \in 1 .. s
    BY <1>5
<1>13. T \subseteq bottom \cup sitters
    BY <1>8, <1>9, <1>10, <1>11, <1>12
<1>14. Cardinality(T) = b
    <2> DEFINE g == [i \in 1 .. b |-> IF i <= stay THEN order[i] ELSE sitting[i - stay]]
    <2>1. \A i \in 1 .. b : i <= stay => g[i] = order[i] /\ i \in 1 .. stay
        OBVIOUS
    <2>2. \A i \in 1 .. b : ~(i <= stay) => g[i] = sitting[i - stay] /\ i - stay \in 1 .. swaps
        BY <1>5, <1>6
    <2>3. g = [i \in 1 .. b |-> g[i]]
        OBVIOUS
    <2> HIDE DEF g
    <2>4. \A i \in 1 .. b : g[i] \in T
        BY <1>8, <2>1, <2>2
    <2>5. ASSUME NEW i \in 1 .. b, NEW j \in 1 .. b, g[i] = g[j]
          PROVE  i = j
        <3>1. CASE i <= stay /\ j <= stay
            BY <1>9, <2>1, <2>5, <3>1
        <3>2. CASE ~(i <= stay) /\ ~(j <= stay)
            <4>1. sitting[i - stay] = sitting[j - stay] /\ i - stay \in 1 .. s /\ j - stay \in 1 .. s
                BY <1>12, <2>2, <2>5, <3>2
            <4>2. i - stay = j - stay
                BY <1>10, <4>1
            <4> QED BY <4>2
        <3>3. CASE i <= stay /\ ~(j <= stay)
            <4>1. g[i] \in bottom
                BY <1>9, <2>1, <3>3
            <4>2. g[j] \in sitters
                BY <1>10, <1>12, <2>2, <3>3
            <4> QED BY <2>5, <4>1, <4>2
        <3>4. CASE ~(i <= stay) /\ j <= stay
            <4>1. g[j] \in bottom
                BY <1>9, <2>1, <3>4
            <4>2. g[i] \in sitters
                BY <1>10, <1>12, <2>2, <3>4
            <4> QED BY <2>5, <4>1, <4>2
        <3> QED BY <3>1, <3>2, <3>3, <3>4
    <2>6. ASSUME NEW x \in T
          PROVE  \E i \in 1 .. b : g[i] = x
        <3>1. CASE \E i \in 1 .. stay : x = order[i]
            <4>1. PICK i \in 1 .. stay : x = order[i]
                BY <3>1
            <4>2. i \in 1 .. b /\ i <= stay
                BY <1>11
            <4> QED BY <2>1, <4>1, <4>2
        <3>2. CASE \E i \in 1 .. swaps : x = sitting[i]
            <4>1. PICK i \in 1 .. swaps : x = sitting[i]
                BY <3>2
            <4>2. stay + i \in 1 .. b /\ ~(stay + i <= stay) /\ stay + i - stay = i
                BY <1>5, <1>6
            <4>3. g[stay + i] = sitting[i]
                BY <2>2, <4>2
            <4> QED BY <4>1, <4>2, <4>3
        <3> QED BY <1>8, <3>1, <3>2
    <2>7. g \in Bijection(1 .. b, T)
        BY <2>3, <2>4, <2>5, <2>6 DEF Bijection, Injection, Surjection, IsInjective
    <2> QED BY <2>7, UpTo, FS_Bijection DEF ExistsBijection
<1>15. s <= b => sitters \subseteq T
    <2> SUFFICES ASSUME s <= b, NEW x \in sitters PROVE x \in T
        OBVIOUS
    <2>1. swaps = s
        BY <1>5
    <2>2. PICK i \in 1 .. s : sitting[i] = x
        BY <1>10
    <2> QED BY <1>8, <2>1, <2>2
<1> QED BY <1>3, <1>4, <1>13, <1>14, <1>15

-----------------------------------------------------------------------------
(* King of the court: courts as drawn and as played *)

\* Two teams of two players
TwoTeams(T, a, b, c, d) ==
    /\ a \in Players /\ b \in Players /\ c \in Players /\ d \in Players
    /\ a # b /\ a # c /\ a # d /\ b # c /\ b # d /\ c # d
    /\ T = {{a, d}, {b, c}}

Teamed(T) == \E a, b, c, d : TwoTeams(T, a, b, c, d)

\* Courts at different positions on which nobody sits twice
Round(D) ==
    /\ IsFiniteSet(D) /\ D # {}
    /\ \A m \in D : m.position \in Nat /\ Teamed(m.teams)
    /\ \A m, q \in D : m # q =>
        m.position # q.position /\ (UNION m.teams) \cap (UNION q.teams) = {}

\* The same of a round that was played, with the points of each team
Result(D) ==
    /\ IsFiniteSet(D) /\ D # {}
    /\ \A m \in D :
        /\ m.position \in Nat /\ Teamed(DOMAIN m.points)
        /\ \A t \in DOMAIN m.points : m.points[t] \in Nat
    /\ \A m, q \in D : m # q => m.position # q.position /\ On(m) \cap On(q) = {}

LEMMA ResultIs ==
    ASSUME NEW D, Round(D), NEW round \in Results(D)
    PROVE  Result(round) /\ Cardinality(round) = Cardinality(D)
<1> DEFINE V == UNION {{s[1], s[2]} : s \in Scores}
           Of(q) == {PlayedCourt(q.position, f) :
                       f \in {g \in [q.teams -> V] :
                               \E a, b \in q.teams, s \in Scores : a # b /\ g[a] = s[1] /\ g[b] = s[2]}}
<1>1. PICK h \in [D -> UNION {Of(q) : q \in D}] : round = {h[q] : q \in D} /\ \A q \in D : h[q] \in Of(q)
    BY DEF Results
<1>2. ASSUME NEW q \in D
      PROVE  h[q].position = q.position /\ DOMAIN h[q].points = q.teams
    <2>1. PICK g \in [q.teams -> V] : h[q] = PlayedCourt(q.position, g)
        BY <1>1
    <2>2. h[q].position = q.position /\ h[q].points = g
        BY <2>1 DEF PlayedCourt
    <2> HIDE DEF V
    <2> QED BY <2>1, <2>2
<1> HIDE DEF Of
<1>3. \A m \in round : \E q \in D : m = h[q]
    BY <1>1
<1>4. \A m \in round :
        /\ m.position \in Nat /\ Teamed(DOMAIN m.points)
        /\ \A t \in DOMAIN m.points : m.points[t] \in Nat
    <2> TAKE m \in round
    <2>1. PICK q \in D : m = h[q]
        BY <1>3
    <2>2. m.position \in Nat /\ Teamed(DOMAIN m.points)
        <3>1. m.position = q.position /\ DOMAIN m.points = q.teams
            BY <1>2, <2>1
        <3>2. q.position \in Nat /\ Teamed(q.teams)
            BY DEF Round
        <3> QED BY <3>1, <3>2
    <2>3. \A t \in DOMAIN m.points : m.points[t] \in Nat
        BY ResultsAre
    <2> QED BY <2>2, <2>3
<1>5. \A m, k \in round : m # k => m.position # k.position /\ On(m) \cap On(k) = {}
    <2> SUFFICES ASSUME NEW m \in round, NEW k \in round, m # k
                 PROVE  m.position # k.position /\ On(m) \cap On(k) = {}
        OBVIOUS
    <2>1. PICK q \in D : m = h[q]
        BY <1>3
    <2>2. PICK p \in D : k = h[p]
        BY <1>3
    <2>3. q # p
        BY <2>1, <2>2
    <2>4. m.position = q.position /\ k.position = p.position /\ On(m) = UNION q.teams /\ On(k) = UNION p.teams
        BY <1>2, <2>1, <2>2 DEF On
    <2> QED BY <2>3, <2>4 DEF Round
<1>6. h \in Bijection(D, round)
    <2>1. h \in [D -> round]
        BY <1>1
    <2>2. \A q, p \in D : h[q] = h[p] => q = p
        <3> SUFFICES ASSUME NEW q \in D, NEW p \in D, h[q] = h[p] PROVE q = p
            OBVIOUS
        <3>1. q.position = p.position
            BY <1>2
        <3> QED BY <3>1 DEF Round
    <2> QED BY <1>3, <2>1, <2>2 DEF Bijection, Injection, Surjection, IsInjective
<1>7. IsFiniteSet(round) /\ Cardinality(round) = Cardinality(D)
    BY <1>6, FS_Bijection DEF ExistsBijection, Round
<1>8. round # {}
    BY <1>1 DEF Round
<1> QED BY <1>4, <1>5, <1>7, <1>8 DEF Result

Before(round, m) == {k \in round : k.position < m.position}

\* The courts of a round are numbered from 0 without a gap.
LEMMA PlacesAre ==
    ASSUME NEW round, Result(round), NEW n \in Nat, n = Cardinality(round)
    PROVE  /\ n >= 1
           /\ \A m \in round : PlaceOf(round, m) \in 0 .. n - 1
           /\ \A m, q \in round : PlaceOf(round, m) = PlaceOf(round, q) => m = q
           /\ \A i \in 0 .. n - 1 : \E m \in round : PlaceOf(round, m) = i
<1> DEFINE ahead == [m \in round |-> Before(round, m)]
<1>1. IsFiniteSet(round)
    BY DEF Result
<1>2. Orders(round, ahead)
    <2>1. \A m, q \in round : m.position \in Nat /\ (m # q => m.position # q.position)
        BY DEF Result
    <2>2. \A m \in round : m \notin Before(round, m) /\ Before(round, m) \subseteq round
        BY <2>1 DEF Before
    <2>3. \A m, q \in round : m # q => m \in Before(round, q) \/ q \in Before(round, m)
        BY <2>1 DEF Before
    <2>4. \A m, q \in round : q \in Before(round, m) => Before(round, q) \subseteq Before(round, m)
        BY <2>1 DEF Before
    <2> QED BY <2>2, <2>3, <2>4 DEF Orders
<1>3. \A m \in round : Nth(ahead, m) = PlaceOf(round, m) + 1 /\ PlaceOf(round, m) \in Nat
    <2> TAKE m \in round
    <2>1. IsFiniteSet(Before(round, m))
        BY <1>1, FS_Subset DEF Before
    <2>2. PlaceOf(round, m) = Cardinality(Before(round, m))
        BY DEF PlaceOf, Before
    <2> QED BY <2>1, <2>2, FS_CardinalityType DEF Nth
<1> HIDE DEF ahead
<1>4. \A m \in round : Nth(ahead, m) \in 1 .. n
    BY <1>1, <1>2, TurnsFit
<1>5. \A m, q \in round : PlaceOf(round, m) = PlaceOf(round, q) => m = q
    BY <1>1, <1>2, <1>3, TurnsDiffer
<1>6. \A m \in round : PlaceOf(round, m) \in 0 .. n - 1
    <2> TAKE m \in round
    <2>1. PICK p \in Nat : p = PlaceOf(round, m) /\ p + 1 \in 1 .. n
        BY <1>3, <1>4
    <2> QED BY <2>1
<1>7. \A i \in 0 .. n - 1 : \E m \in round : PlaceOf(round, m) = i
    <2> TAKE i \in 0 .. n - 1
    <2>1. PICK m \in round : Nth(ahead, m) = i + 1
        BY <1>1, <1>2, TurnsTakenUp
    <2>2. PICK p \in Nat : p = PlaceOf(round, m) /\ p + 1 = i + 1
        BY <1>3, <2>1
    <2> QED BY <2>2
<1>8. n >= 1
    <2>1. n # 0
        BY <1>1, FS_EmptySet DEF Result
    <2> QED BY <2>1
<1> QED BY <1>5, <1>6, <1>7, <1>8

WinnersOf(m) == {x \in On(m) : Wins(m, TeamOf(m, x))}

LosersOf(m) == On(m) \ WinnersOf(m)

LEMMA TwoPairs ==
    ASSUME NEW S, IsFiniteSet(S), Cardinality(S) = 2, NEW T, IsFiniteSet(T), Cardinality(T) = 2,
           S \cap T = {}
    PROVE  IsFiniteSet(S \cup T) /\ Cardinality(S \cup T) = 4
<1>1. Cardinality({}) = 0
    BY FS_EmptySet
<1>2. /\ IsFiniteSet(S \cup T)
      /\ Cardinality(S \cup T) = Cardinality(S) + Cardinality(T) - Cardinality(S \cap T)
    BY FS_Union
<1>3. Cardinality(S \cup T) = 2 + 2 - 0
    BY <1>1, <1>2
<1> QED BY <1>2, <1>3

\* Four players sit on a court; without a tie two of them have won.
LEMMA CourtIs ==
    ASSUME NEW m, Teamed(DOMAIN m.points), \A t \in DOMAIN m.points : m.points[t] \in Nat
    PROVE  /\ On(m) \subseteq Players
           /\ IsFiniteSet(On(m)) /\ Cardinality(On(m)) = 4
           /\ ~Tied(m) => /\ IsFiniteSet(WinnersOf(m)) /\ Cardinality(WinnersOf(m)) = 2
                          /\ IsFiniteSet(LosersOf(m)) /\ Cardinality(LosersOf(m)) = 2
<1>1. PICK a, b, c, d : TwoTeams(DOMAIN m.points, a, b, c, d)
    BY DEF Teamed
<1> DEFINE s == {a, d}
           t == {b, c}
<1>2. a # b /\ a # c /\ a # d /\ b # c /\ b # d /\ c # d /\ DOMAIN m.points = {s, t}
    BY <1>1 DEF TwoTeams
<1>3. On(m) = s \cup t /\ s \cap t = {} /\ s # t
    BY <1>2 DEF On
<1>4. On(m) \subseteq Players
    BY <1>1, <1>3 DEF TwoTeams
<1>5. IsFiniteSet(s) /\ Cardinality(s) = 2 /\ IsFiniteSet(t) /\ Cardinality(t) = 2
    BY <1>2, PairCount
<1> HIDE DEF s, t
<1>6. IsFiniteSet(On(m)) /\ Cardinality(On(m)) = 4
    BY <1>3, <1>5, TwoPairs
<1>7. \A x \in s : TeamOf(m, x) = s
    BY <1>2, <1>3 DEF TeamOf
<1>8. \A x \in t : TeamOf(m, x) = t
    BY <1>2, <1>3 DEF TeamOf
<1>9. m.points[s] \in Nat /\ m.points[t] \in Nat
    BY <1>2
<1>10. Tied(m) <=> m.points[s] = m.points[t]
    BY <1>2 DEF Tied
<1>11. Wins(m, s) <=> ~Tied(m) /\ m.points[t] <= m.points[s]
    BY <1>2, <1>9 DEF Wins
<1>12. Wins(m, t) <=> ~Tied(m) /\ m.points[s] <= m.points[t]
    BY <1>2, <1>9 DEF Wins
<1>13. ASSUME ~Tied(m)
       PROVE  /\ IsFiniteSet(WinnersOf(m)) /\ Cardinality(WinnersOf(m)) = 2
              /\ IsFiniteSet(LosersOf(m)) /\ Cardinality(LosersOf(m)) = 2
    <2>1. (Wins(m, s) /\ ~Wins(m, t)) \/ (Wins(m, t) /\ ~Wins(m, s))
        BY <1>9, <1>10, <1>11, <1>12, <1>13
    <2>2. CASE Wins(m, s) /\ ~Wins(m, t)
        <3>1. WinnersOf(m) = s /\ LosersOf(m) = t
            BY <1>3, <1>7, <1>8, <2>2 DEF WinnersOf, LosersOf
        <3> QED BY <1>5, <3>1
    <2>3. CASE Wins(m, t) /\ ~Wins(m, s)
        <3>1. WinnersOf(m) = t /\ LosersOf(m) = s
            BY <1>3, <1>7, <1>8, <2>3 DEF WinnersOf, LosersOf
        <3> QED BY <1>5, <3>1
    <2> QED BY <2>1, <2>2, <2>3
<1> QED BY <1>4, <1>6, <1>13

LEMMA Arrivals ==
    ASSUME FieldInv, NEW round, Result(round)
    PROVE  /\ \A c : Arrive(round, c) \subseteq UNION {On(m) : m \in round}
           /\ \A c : Arrive(round, c) \subseteq Players
           /\ \A c, d : c # d => Arrive(round, c) \cap Arrive(round, d) = {}
<1> DEFINE To(m, x) == GoesTo(round, m, x)
<1>1. \A c : Arrive(round, c) = UNION {{x \in On(m) : To(m, x) = c} : m \in round}
    BY DEF Arrive
<1> HIDE DEF To
<1>2. \A c, x : x \in Arrive(round, c) <=> \E m \in round : x \in On(m) /\ To(m, x) = c
    BY <1>1
<1>3. \A m \in round : On(m) \subseteq Players
    BY CourtIs DEF Result
<1>4. \A m, q \in round : m # q => On(m) \cap On(q) = {}
    BY DEF Result
<1>5. \A c, d : c # d => Arrive(round, c) \cap Arrive(round, d) = {}
    BY <1>2, <1>4
<1> QED BY <1>2, <1>3, <1>5

\* Whoever has tied stays: the court is full in the next round.
LEMMA TiedStays ==
    ASSUME FieldInv, NEW round, Result(round), NEW m \in round, Tied(m)
    PROVE  Cardinality(Arrive(round, PlaceOf(round, m))) >= 4
<1>1. \A x \in On(m) : GoesTo(round, m, x) = PlaceOf(round, m)
    BY DEF GoesTo, Wins
<1>2. On(m) \subseteq Arrive(round, PlaceOf(round, m))
    BY <1>1 DEF Arrive
<1>3. /\ IsFiniteSet(Arrive(round, PlaceOf(round, m)))
      /\ Cardinality(Arrive(round, PlaceOf(round, m))) \in Nat
    BY Arrivals, PlayersFinite
<1>4. IsFiniteSet(On(m)) /\ Cardinality(On(m)) = 4
    BY CourtIs DEF Result
<1>5. Cardinality(On(m)) <= Cardinality(Arrive(round, PlaceOf(round, m)))
    BY <1>2, <1>3, FS_Subset
<1> QED BY <1>3, <1>4, <1>5

\* The court at place i
At(round, i) == CHOOSE m \in round : PlaceOf(round, m) = i

\* Who comes to court c from above, or stays on the first; who comes from below,
\* or stays on the last
FromAbove(round, c) == IF c = 0 THEN WinnersOf(At(round, 0)) ELSE LosersOf(At(round, c - 1))

FromBelow(round, n, c) ==
    IF c = n - 1 THEN LosersOf(At(round, n - 1)) ELSE WinnersOf(At(round, c + 1))

LEMMA AtIs ==
    ASSUME NEW round, Result(round), NEW n \in Nat, n = Cardinality(round)
    PROVE  /\ \A i \in 0 .. n - 1 : At(round, i) \in round /\ PlaceOf(round, At(round, i)) = i
           /\ \A m \in round : m = At(round, PlaceOf(round, m))
<1>1. \A i \in 0 .. n - 1 : At(round, i) \in round /\ PlaceOf(round, At(round, i)) = i
    BY PlacesAre DEF At
<1> QED BY <1>1, PlacesAre

LEMMA ArriveIs ==
    ASSUME FieldInv, NEW round, Result(round), NEW n \in Nat, n = Cardinality(round),
           \A m \in round : ~Tied(m), NEW c \in 0 .. n - 1
    PROVE  Arrive(round, c) = FromAbove(round, c) \cup FromBelow(round, n, c)
<1> DEFINE A(i) == At(round, i)
           P(m) == PlaceOf(round, m)
           G(m, x) == GoesTo(round, m, x)
<1>1. n >= 1 /\ \A m \in round : P(m) \in 0 .. n - 1
    BY PlacesAre
<1>2. \A i \in 0 .. n - 1 : A(i) \in round /\ P(A(i)) = i
    BY AtIs
<1>3. \A m \in round : m = A(P(m))
    BY AtIs
<1>4. \A m \in round : \A x \in WinnersOf(m) : G(m, x) = IF P(m) > 0 THEN P(m) - 1 ELSE P(m)
    BY DEF GoesTo, WinnersOf, Wins
<1>5. \A m \in round : \A x \in LosersOf(m) : G(m, x) = IF P(m) < n - 1 THEN P(m) + 1 ELSE P(m)
    BY DEF GoesTo, WinnersOf, LosersOf
<1>6. \A m : WinnersOf(m) \subseteq On(m) /\ LosersOf(m) \subseteq On(m)
             /\ On(m) = WinnersOf(m) \cup LosersOf(m)
    BY DEF WinnersOf, LosersOf
<1>7. Arrive(round, c) = UNION {{x \in On(m) : G(m, x) = c} : m \in round}
    BY DEF Arrive
<1> HIDE DEF A, P, G
<1>8. \A x : x \in Arrive(round, c) <=> \E m \in round : x \in On(m) /\ G(m, x) = c
    BY <1>7
<1>9. FromAbove(round, c) = IF c = 0 THEN WinnersOf(A(0)) ELSE LosersOf(A(c - 1))
    BY DEF FromAbove, A
<1>10. FromBelow(round, n, c) = IF c = n - 1 THEN LosersOf(A(n - 1)) ELSE WinnersOf(A(c + 1))
    BY DEF FromBelow, A
<1>11. ASSUME NEW x \in Arrive(round, c)
       PROVE  x \in FromAbove(round, c) \cup FromBelow(round, n, c)
    <2>1. PICK m \in round : x \in On(m) /\ G(m, x) = c
        BY <1>8
    <2>2. PICK i \in 0 .. n - 1 : i = P(m) /\ m = A(i)
        BY <1>1, <1>3
    <2>3. CASE x \in WinnersOf(m)
        <3>1. c = IF i > 0 THEN i - 1 ELSE i
            BY <1>4, <2>1, <2>2, <2>3
        <3>2. CASE i > 0
            <4>1. c # n - 1 /\ i = c + 1
                BY <3>1, <3>2
            <4> QED BY <1>10, <2>2, <2>3, <4>1
        <3>3. CASE ~(i > 0)
            <4>1. c = 0 /\ i = 0
                BY <3>1, <3>3
            <4> QED BY <1>9, <2>2, <2>3, <4>1
        <3> QED BY <3>2, <3>3
    <2>4. CASE x \in LosersOf(m)
        <3>1. c = IF i < n - 1 THEN i + 1 ELSE i
            BY <1>5, <2>1, <2>2, <2>4
        <3>2. CASE i < n - 1
            <4>1. c # 0 /\ i = c - 1
                BY <3>1, <3>2
            <4> QED BY <1>9, <2>2, <2>4, <4>1
        <3>3. CASE ~(i < n - 1)
            <4>1. c = n - 1 /\ i = n - 1
                BY <3>1, <3>3
            <4> QED BY <1>10, <2>2, <2>4, <4>1
        <3> QED BY <3>2, <3>3
    <2> QED BY <1>6, <2>1, <2>3, <2>4
<1>12. ASSUME NEW x \in FromAbove(round, c)
       PROVE  x \in Arrive(round, c)
    <2>1. CASE c = 0
        <3>1. x \in WinnersOf(A(0)) /\ A(0) \in round /\ P(A(0)) = 0
            BY <1>1, <1>2, <1>9, <1>12, <2>1
        <3>2. G(A(0), x) = 0
            BY <1>4, <3>1
        <3> QED BY <1>6, <1>8, <2>1, <3>1, <3>2
    <2>2. CASE c # 0
        <3>1. PICK i \in 0 .. n - 1 : i = c - 1 /\ i < n - 1
            BY <2>2
        <3>2. x \in LosersOf(A(i)) /\ A(i) \in round /\ P(A(i)) = i
            BY <1>2, <1>9, <1>12, <2>2, <3>1
        <3>3. G(A(i), x) = i + 1
            BY <1>5, <3>1, <3>2
        <3>4. i + 1 = c
            BY <3>1
        <3> QED BY <1>6, <1>8, <3>2, <3>3, <3>4
    <2> QED BY <2>1, <2>2
<1>13. ASSUME NEW x \in FromBelow(round, n, c)
       PROVE  x \in Arrive(round, c)
    <2>1. CASE c = n - 1
        <3>1. PICK i \in 0 .. n - 1 : i = n - 1 /\ i = c
            BY <2>1
        <3>2. x \in LosersOf(A(i)) /\ A(i) \in round /\ P(A(i)) = i
            BY <1>2, <1>10, <1>13, <2>1, <3>1
        <3>3. G(A(i), x) = i
            BY <1>5, <3>1, <3>2
        <3> QED BY <1>6, <1>8, <3>1, <3>2, <3>3
    <2>2. CASE c # n - 1
        <3>1. PICK i \in 0 .. n - 1 : i = c + 1 /\ i > 0
            BY <2>2
        <3>2. x \in WinnersOf(A(i)) /\ A(i) \in round /\ P(A(i)) = i
            BY <1>2, <1>10, <1>13, <2>2, <3>1
        <3>3. G(A(i), x) = i - 1
            BY <1>4, <3>1, <3>2
        <3>4. i - 1 = c
            BY <3>1
        <3> QED BY <1>6, <1>8, <3>2, <3>3, <3>4
    <2> QED BY <2>1, <2>2
<1> QED BY <1>11, <1>12, <1>13

\* Without a tie every court of the next round is full.
LEMMA ArriveFour ==
    ASSUME FieldInv, NEW round, Result(round), NEW n \in Nat, n = Cardinality(round),
           \A m \in round : ~Tied(m), NEW c \in 0 .. n - 1
    PROVE  Cardinality(Arrive(round, c)) = 4
<1> DEFINE A(i) == At(round, i)
<1>1. n >= 1
    BY PlacesAre
<1>2. \A i \in 0 .. n - 1 : A(i) \in round /\ PlaceOf(round, A(i)) = i
    BY AtIs
<1> HIDE DEF A
<1>3. \A i, j \in 0 .. n - 1 : i # j => On(A(i)) \cap On(A(j)) = {}
    BY <1>2 DEF Result
<1>4. \A i \in 0 .. n - 1 :
        /\ IsFiniteSet(WinnersOf(A(i))) /\ Cardinality(WinnersOf(A(i))) = 2
        /\ IsFiniteSet(LosersOf(A(i))) /\ Cardinality(LosersOf(A(i))) = 2
    <2> TAKE i \in 0 .. n - 1
    <2>1. A(i) \in round
        BY <1>2
    <2>2. Teamed(DOMAIN A(i).points) /\ (\A t \in DOMAIN A(i).points : A(i).points[t] \in Nat) /\ ~Tied(A(i))
        BY <2>1 DEF Result
    <2> QED BY <2>2, CourtIs
<1>5. \A m : /\ WinnersOf(m) \subseteq On(m) /\ LosersOf(m) \subseteq On(m)
             /\ WinnersOf(m) \cap LosersOf(m) = {}
    BY DEF WinnersOf, LosersOf
<1> DEFINE S == FromAbove(round, c)
           T == FromBelow(round, n, c)
<1>6. c = 0 => 0 \in 0 .. n - 1 /\ S = WinnersOf(A(0))
    BY <1>1 DEF FromAbove, A
<1>7. c # 0 => c - 1 \in 0 .. n - 1 /\ S = LosersOf(A(c - 1))
    BY <1>1 DEF FromAbove, A
<1>8. c = n - 1 => n - 1 \in 0 .. n - 1 /\ T = LosersOf(A(n - 1))
    BY <1>1 DEF FromBelow, A
<1>9. c # n - 1 => c + 1 \in 0 .. n - 1 /\ T = WinnersOf(A(c + 1))
    BY <1>1 DEF FromBelow, A
<1> HIDE DEF S, T
<1>10. IsFiniteSet(S) /\ Cardinality(S) = 2 /\ IsFiniteSet(T) /\ Cardinality(T) = 2
    BY <1>4, <1>6, <1>7, <1>8, <1>9
<1>11. S \cap T = {}
    <2>1. CASE c = 0 /\ c = n - 1
        <3>1. n - 1 = 0
            BY <2>1
        <3> QED BY <1>5, <1>6, <1>8, <2>1, <3>1
    <2>2. CASE c = 0 /\ c # n - 1
        <3>1. On(A(0)) \cap On(A(c + 1)) = {}
            <4>1. c + 1 # 0
                OBVIOUS
            <4> QED BY <1>3, <1>6, <1>9, <2>2, <4>1
        <3> QED BY <1>5, <1>6, <1>9, <2>2, <3>1
    <2>3. CASE c # 0 /\ c = n - 1
        <3>1. On(A(c - 1)) \cap On(A(n - 1)) = {}
            <4>1. c - 1 # n - 1
                BY <2>3
            <4> QED BY <1>3, <1>7, <1>8, <2>3, <4>1
        <3> QED BY <1>5, <1>7, <1>8, <2>3, <3>1
    <2>4. CASE c # 0 /\ c # n - 1
        <3>1. On(A(c - 1)) \cap On(A(c + 1)) = {}
            <4>1. c - 1 # c + 1
                OBVIOUS
            <4> QED BY <1>3, <1>7, <1>9, <2>4, <4>1
        <3> QED BY <1>5, <1>7, <1>9, <2>4, <3>1
    <2> QED BY <2>1, <2>2, <2>3, <2>4
<1>12. Cardinality(S \cup T) = 4
    BY <1>10, <1>11, TwoPairs
<1> QED BY <1>12, ArriveIs DEF S, T

Sitting(round) == Players \ UNION {On(m) : m \in round}

\* Who plays on court c of the next round, or would if it is dropped
Gathered(round, R, n, c) ==
    IF c = n - 1 THEN RotateSitters(Arrive(round, c), Among(R, Sitting(round)), R)
    ELSE Arrive(round, c)

LEMMA GatheredIs ==
    ASSUME FieldInv, NEW R, Ranking(R), NEW round, Result(round), NEW n \in Nat, n = Cardinality(round)
    PROVE  /\ \A c \in 0 .. n - 1 : Gathered(round, R, n, c) \subseteq Players
           /\ \A c, d \in 0 .. n - 1 : c # d => Gathered(round, R, n, c) \cap Gathered(round, R, n, d) = {}
           /\ \E c \in 0 .. n - 1 : Cardinality(Gathered(round, R, n, c)) >= 4
           /\ (\A m \in round : ~Tied(m)) =>
                /\ \A c \in 0 .. n - 1 : Cardinality(Gathered(round, R, n, c)) = 4
                /\ Cardinality(Sitting(round)) <= 4 => Sitting(round) \subseteq Gathered(round, R, n, n - 1)
<1> DEFINE A(c) == Arrive(round, c)
           G(c) == Gathered(round, R, n, c)
           S == Sitting(round)
<1>1. n >= 1 /\ n - 1 \in 0 .. n - 1
    <2>1. n >= 1
        BY PlacesAre
    <2> QED BY <2>1
<1>2. /\ \A c : A(c) \subseteq Players /\ A(c) \cap S = {}
      /\ \A c, d : c # d => A(c) \cap A(d) = {}
      /\ S \subseteq Players
    BY Arrivals DEF Sitting
<1>3. G(n - 1) = RotateSitters(A(n - 1), Among(R, S), R)
    BY DEF Gathered
<1>4. \A c \in 0 .. n - 1 : c # n - 1 => G(c) = A(c)
    BY DEF Gathered
<1> HIDE DEF A, G, S
<1>5. /\ G(n - 1) \subseteq A(n - 1) \cup S
      /\ Cardinality(G(n - 1)) = Cardinality(A(n - 1))
      /\ Cardinality(S) <= Cardinality(A(n - 1)) => S \subseteq G(n - 1)
    <2>1. PICK bottom : bottom = A(n - 1)
        OBVIOUS
    <2>2. PICK T : T = G(n - 1)
        OBVIOUS
    <2>3. bottom \subseteq Players /\ bottom \cap S = {} /\ S \subseteq Players
          /\ T = RotateSitters(bottom, Among(R, S), R)
        BY <1>2, <1>3, <2>1, <2>2
    <2>4. /\ T \subseteq bottom \cup S
          /\ Cardinality(T) = Cardinality(bottom)
          /\ Cardinality(S) <= Cardinality(bottom) => S \subseteq T
        BY <2>3, RotateIs
    <2> QED BY <2>1, <2>2, <2>4
<1>6. \A c \in 0 .. n - 1 : G(c) \subseteq A(c) \cup S /\ Cardinality(G(c)) = Cardinality(A(c))
    BY <1>4, <1>5
<1>7. \A c \in 0 .. n - 1 : G(c) \subseteq Players
    BY <1>2, <1>6
<1>8. \A c, d \in 0 .. n - 1 : c # d => G(c) \cap G(d) = {}
    <2> SUFFICES ASSUME NEW c \in 0 .. n - 1, NEW d \in 0 .. n - 1, c # d PROVE G(c) \cap G(d) = {}
        OBVIOUS
    <2>1. c # n - 1 \/ d # n - 1
        OBVIOUS
    <2>2. CASE c # n - 1
        BY <1>2, <1>4, <1>6, <2>2
    <2>3. CASE d # n - 1
        BY <1>2, <1>4, <1>6, <2>3
    <2> QED BY <2>1, <2>2, <2>3
<1>9. \E c \in 0 .. n - 1 : Cardinality(A(c)) >= 4
    <2>1. CASE \E m \in round : Tied(m)
        <3>1. PICK m \in round : Tied(m)
            BY <2>1
        <3>2. PlaceOf(round, m) \in 0 .. n - 1
            BY PlacesAre
        <3>3. Cardinality(A(PlaceOf(round, m))) >= 4
            BY <3>1, TiedStays DEF A
        <3> QED BY <3>2, <3>3
    <2>2. CASE \A m \in round : ~Tied(m)
        <3>1. Cardinality(A(n - 1)) = 4
            BY <1>1, <2>2, ArriveFour DEF A
        <3>2. Cardinality(A(n - 1)) >= 4
            BY <3>1
        <3> QED BY <1>1, <3>2
    <2> QED BY <2>1, <2>2
<1>10. \E c \in 0 .. n - 1 : Cardinality(G(c)) >= 4
    BY <1>6, <1>9
<1>11. ASSUME \A m \in round : ~Tied(m)
       PROVE  /\ \A c \in 0 .. n - 1 : Cardinality(G(c)) = 4
              /\ Cardinality(S) <= 4 => S \subseteq G(n - 1)
    <2>1. \A c \in 0 .. n - 1 : Cardinality(A(c)) = 4
        BY <1>11, ArriveFour DEF A
    <2> QED BY <1>1, <1>5, <1>6, <2>1
<1> QED BY <1>7, <1>8, <1>10, <1>11 DEF G, S

\* The four highest-ranked of a court play in two teams.
LEMMA FirstFour ==
    ASSUME FieldInv, NEW R, Ranking(R), NEW S, S \subseteq Players, Cardinality(S) >= 4,
           NEW T, T = PairCourt(SubSeq(Among(R, S), 1, 4))
    PROVE  /\ Teamed(T)
           /\ UNION T \subseteq S
           /\ Cardinality(S) = 4 => UNION T = S
<1>1. PICK F : F = Among(R, S) /\ Lists(F, S)
    BY AmongIs
<1>2. PICK k \in Nat : k = Cardinality(S) /\ k >= 4
    BY PlayersFinite
<1>3. F \in Seq(S) /\ Len(F) = k
    BY <1>1, <1>2, ListLength
<1>4. PICK four : four = SubSeq(F, 1, 4)
    OBVIOUS
<1>5. four[1] = F[1] /\ four[2] = F[2] /\ four[3] = F[3] /\ four[4] = F[4]
    <2>1. k >= 4
        BY <1>2
    <2> HIDE <1>2
    <2>2. /\ SubSeq(F, 1, 4)[1] = F[1] /\ SubSeq(F, 1, 4)[2] = F[2]
          /\ SubSeq(F, 1, 4)[3] = F[3] /\ SubSeq(F, 1, 4)[4] = F[4]
        BY <1>3, <2>1
    <2> QED BY <1>4, <2>2
<1>6. T = {{F[1], F[4]}, {F[2], F[3]}}
    BY <1>1, <1>4, <1>5 DEF PairCourt
<1>7. 1 \in 1 .. k /\ 2 \in 1 .. k /\ 3 \in 1 .. k /\ 4 \in 1 .. k
    BY <1>2
<1>8. F[1] \in S /\ F[2] \in S /\ F[3] \in S /\ F[4] \in S
    BY <1>1, <1>2, <1>7 DEF Lists
<1>9. F[1] # F[2] /\ F[1] # F[3] /\ F[1] # F[4] /\ F[2] # F[3] /\ F[2] # F[4] /\ F[3] # F[4]
    <2>1. \A i, j \in 1 .. k : i # j => F[i] # F[j]
        BY <1>1, <1>2 DEF Lists
    <2>2. 1 # 2 /\ 1 # 3 /\ 1 # 4 /\ 2 # 3 /\ 2 # 4 /\ 3 # 4
        OBVIOUS
    <2> QED BY <1>7, <2>1, <2>2
<1>10. Teamed(T)
    <2>1. F[1] \in Players /\ F[2] \in Players /\ F[3] \in Players /\ F[4] \in Players
        BY <1>8
    <2>2. TwoTeams(T, F[1], F[2], F[3], F[4])
        BY <1>6, <1>9, <2>1 DEF TwoTeams
    <2> QED BY <2>2 DEF Teamed
<1>11. UNION T \subseteq S
    BY <1>6, <1>8
<1>12. ASSUME k = 4, NEW x \in S
       PROVE  x \in UNION T
    <2>1. PICK i \in 1 .. k : F[i] = x
        BY <1>1, <1>2 DEF Lists
    <2>2. i = 1 \/ i = 2 \/ i = 3 \/ i = 4
        BY <1>12
    <2>3. x = F[1] \/ x = F[2] \/ x = F[3] \/ x = F[4]
        BY <2>1, <2>2, Zenon
    <2> QED BY <1>6, <2>3, Zenon
<1> QED BY <1>2, <1>10, <1>11, <1>12

\* The first of the courts that are used, as many as were asked for
FirstOf(used, most) == {c \in used : Cardinality({k \in used : k < c}) < most}

LEMMA FirstTurn ==
    ASSUME NEW S, IsFiniteSet(S), S # {}, NEW ahead, Orders(S, ahead)
    PROVE  \E c \in S : Nth(ahead, c) = 1
<1>1. Cardinality(S) \in Nat /\ Cardinality(S) # 0
    BY FS_CardinalityType, FS_EmptySet
<1>2. 1 \in 1 .. Cardinality(S)
    BY <1>1
<1> QED BY <1>2, TurnsTakenUp

LEMMA FirstOfIs ==
    ASSUME NEW n \in Nat, NEW used, used \subseteq 0 .. n - 1, used # {},
           NEW most \in Nat, most >= 1
    PROVE  /\ FirstOf(used, most) # {}
           /\ IsFiniteSet(FirstOf(used, most)) /\ Cardinality(FirstOf(used, most)) <= most
           /\ used = 0 .. n - 1 /\ n <= most => FirstOf(used, most) = used
<1> DEFINE ahead == [c \in used |-> {k \in used : k < c}]
           kept == FirstOf(used, most)
<1>1. IsFiniteSet(used) /\ Cardinality(used) \in Nat /\ Cardinality(used) <= n
    <2>1. IsFiniteSet(0 .. n - 1) /\ Cardinality(0 .. n - 1) = IF 0 > n - 1 THEN 0 ELSE n - 1 - 0 + 1
        <3>1. 0 \in Int /\ n - 1 \in Int
            OBVIOUS
        <3> QED BY <3>1, FS_Interval
    <2>2. Cardinality(0 .. n - 1) = n
        BY <2>1
    <2>3. Cardinality(used) <= Cardinality(0 .. n - 1)
        BY <2>1, FS_Subset
    <2> QED BY <2>1, <2>2, <2>3, FS_Subset, FS_CardinalityType
<1>2. Orders(used, ahead)
    <2>1. \A c \in used : c \in Nat
        OBVIOUS
    <2>2. \A c \in used : ahead[c] = {k \in used : k < c}
        OBVIOUS
    <2> HIDE DEF ahead
    <2>3. \A c \in used : c \notin ahead[c] /\ ahead[c] \subseteq used
        BY <2>1, <2>2
    <2>4. \A c, d \in used : c # d => c \in ahead[d] \/ d \in ahead[c]
        BY <2>1, <2>2
    <2>5. \A c, d \in used : d \in ahead[c] => ahead[d] \subseteq ahead[c]
        <3> SUFFICES ASSUME NEW c \in used, NEW d \in used, d \in ahead[c],
                            NEW k \in ahead[d]
                     PROVE  k \in ahead[c]
            OBVIOUS
        <3>1. d < c /\ k \in used /\ k < d
            BY <2>2
        <3>2. c \in Nat /\ d \in Nat /\ k \in Nat
            BY <2>1, <3>1
        <3>3. k < c
            BY <3>1, <3>2
        <3> QED BY <2>2, <3>1, <3>3
    <2> QED BY <2>3, <2>4, <2>5 DEF Orders
<1>3. kept = {c \in used : Cardinality(ahead[c]) < most}
    BY DEF FirstOf
<1> HIDE DEF ahead, kept
<1>4. \A c \in used : Cardinality(ahead[c]) \in Nat
    <2> TAKE c \in used
    <2>1. IsFiniteSet(ahead[c])
        BY <1>1, <1>2, FS_Subset DEF Orders
    <2> QED BY <2>1, FS_CardinalityType
<1>5. \A c \in used : c \in kept <=> Nth(ahead, c) <= most
    BY <1>3, <1>4 DEF Nth
<1>6. \A c \in used : Nth(ahead, c) \in 1 .. Cardinality(used)
    BY <1>1, <1>2, TurnsFit
<1>7. kept # {}
    <2>1. PICK c \in used : Nth(ahead, c) = 1
        BY <1>1, <1>2, FirstTurn
    <2> QED BY <1>5, <2>1
<1>8. IsFiniteSet(kept) /\ Cardinality(kept) <= most
    <2> DEFINE f == [c \in kept |-> Nth(ahead, c)]
    <2>1. \A c \in kept : c \in used
        BY <1>3
    <2>2. f \in [kept -> 1 .. most]
        <3>1. \A c \in kept : Nth(ahead, c) \in 1 .. Cardinality(used) /\ Nth(ahead, c) <= most
            BY <1>5, <1>6, <2>1
        <3>2. \A c \in kept : Nth(ahead, c) \in 1 .. most
            BY <1>1, <3>1
        <3> QED BY <3>2
    <2>3. \A c, d \in kept : f[c] = f[d] => c = d
        BY <1>1, <1>2, <2>1, TurnsDiffer
    <2>4. f \in Injection(kept, 1 .. most)
        BY <2>2, <2>3 DEF Injection, IsInjective
    <2>5. IsFiniteSet(1 .. most) /\ Cardinality(1 .. most) = most
        BY UpTo
    <2> HIDE DEF f
    <2> QED BY <2>4, <2>5, FS_Injection
<1>9. ASSUME used = 0 .. n - 1, n <= most
      PROVE  kept = used
    <2>1. \A c \in used : Nth(ahead, c) <= most
        BY <1>1, <1>6, <1>9
    <2> QED BY <1>3, <1>5, <2>1
<1> QED BY <1>7, <1>8, <1>9 DEF kept

KingCourt(F, c, number) == Court(number, c, PairCourt(SubSeq(F, 1, 4)))

LEMMA KingRoundForm ==
    ASSUME FieldInv, courts \in Nat, courts >= 1, NEW R, Ranking(R), NEW round, Result(round),
           NEW n \in Nat, n = Cardinality(round), NEW number
    PROVE  LET used == {c \in 0 .. n - 1 : Cardinality(Gathered(round, R, n, c)) >= 4}
           IN  BuildKingRound(round, R, courts, number)
                 = {KingCourt(Among(R, Gathered(round, R, n, c)), c, number) : c \in FirstOf(used, courts)}
<1> DEFINE G(c) == Gathered(round, R, n, c)
           bottom == n - 1
           sitting == Among(R, {R[i] : i \in DOMAIN R} \ UNION {On(m) : m \in round})
           next == [c \in 0 .. bottom |->
                       IF c = bottom THEN RotateSitters(Arrive(round, c), sitting, R)
                                     ELSE Arrive(round, c)]
           used == {c \in 0 .. bottom : Cardinality(next[c]) >= 4}
           kept == {c \in used : Cardinality({k \in used : k < c}) < courts}
<1>1. BuildKingRound(round, R, courts, number) =
        {Court(number, c, PairCourt(SubSeq(Among(R, next[c]), 1, 4))) : c \in kept}
    BY Zenon DEF BuildKingRound
<1>2. {R[i] : i \in DOMAIN R} = Players
    BY DEF Ranking
<1>3. sitting = Among(R, Sitting(round))
    BY <1>2 DEF Sitting
<1> HIDE DEF sitting
<1>4. \A c \in 0 .. n - 1 : next[c] = G(c)
    BY <1>3 DEF Gathered
<1> HIDE DEF next, G
<1>5. used = {c \in 0 .. n - 1 : Cardinality(G(c)) >= 4}
    BY <1>4
<1>6. kept = FirstOf({c \in 0 .. n - 1 : Cardinality(G(c)) >= 4}, courts)
    BY <1>5 DEF FirstOf
<1>7. \A c \in kept : c \in 0 .. n - 1
    OBVIOUS
<1> HIDE DEF kept, used
<1>8. \A c \in kept : KingCourt(Among(R, G(c)), c, number) = Court(number, c, PairCourt(SubSeq(Among(R, next[c]), 1, 4)))
    BY <1>4, <1>7 DEF KingCourt
<1>9. BuildKingRound(round, R, courts, number) = {KingCourt(Among(R, G(c)), c, number) : c \in kept}
    BY <1>1, <1>8
<1> QED BY <1>6, <1>9 DEF G

LEMMA KingRound ==
    ASSUME FieldInv, courts \in Nat, courts >= 1, NEW R, Ranking(R), NEW round, Result(round),
           NEW number, NEW D, D = BuildKingRound(round, R, courts, number)
    PROVE  /\ Round(D) /\ Cardinality(D) <= courts
           /\ (\A m \in round : ~Tied(m)) /\ Cardinality(round) <= courts =>
                /\ Cardinality(D) = Cardinality(round)
                /\ Cardinality(Sitting(round)) <= 4 => Sitting(round) \subseteq Seated(D)
<1> DEFINE S == Sitting(round)
<1>1. PICK n \in Nat : n = Cardinality(round)
    BY FS_CardinalityType DEF Result
<1> DEFINE G(c) == Gathered(round, R, n, c)
           used == {c \in 0 .. n - 1 : Cardinality(G(c)) >= 4}
           kept == FirstOf(used, courts)
           K(c) == KingCourt(Among(R, G(c)), c, number)
           T(c) == PairCourt(SubSeq(Among(R, G(c)), 1, 4))
<1>2. /\ \A c \in 0 .. n - 1 : G(c) \subseteq Players
      /\ \A c, d \in 0 .. n - 1 : c # d => G(c) \cap G(d) = {}
      /\ \E c \in 0 .. n - 1 : Cardinality(G(c)) >= 4
      /\ (\A m \in round : ~Tied(m)) =>
           /\ \A c \in 0 .. n - 1 : Cardinality(G(c)) = 4
           /\ Cardinality(S) <= 4 => S \subseteq G(n - 1)
    BY <1>1, GatheredIs
<1>3. D = {K(c) : c \in kept}
    BY <1>1, KingRoundForm
<1>4. \A c : K(c).position = c /\ K(c).teams = T(c)
    BY DEF KingCourt, Court
<1> HIDE DEF G, K, S
<1>5. used \subseteq 0 .. n - 1 /\ used # {}
    BY <1>2
<1>6. \A c \in used : Cardinality(G(c)) >= 4 /\ G(c) \subseteq Players
    BY <1>2
<1>7. /\ kept # {}
      /\ IsFiniteSet(kept) /\ Cardinality(kept) <= courts
      /\ used = 0 .. n - 1 /\ n <= courts => kept = used
    <2> HIDE DEF used
    <2> QED BY <1>5, FirstOfIs
<1>8. \A c \in kept : c \in used
    BY DEF FirstOf
<1>9. \A c \in used : /\ Teamed(T(c)) /\ UNION T(c) \subseteq G(c)
                      /\ Cardinality(G(c)) = 4 => UNION T(c) = G(c)
    <2> SUFFICES ASSUME NEW c \in used
                 PROVE  /\ Teamed(T(c)) /\ UNION T(c) \subseteq G(c)
                        /\ Cardinality(G(c)) = 4 => UNION T(c) = G(c)
        OBVIOUS
    <2>1. PICK Q : Q = G(c)
        OBVIOUS
    <2>2. PICK teams : teams = PairCourt(SubSeq(Among(R, Q), 1, 4))
        OBVIOUS
    <2>3. Q \subseteq Players /\ Cardinality(Q) >= 4
        BY <1>6, <2>1
    <2>4. Teamed(teams) /\ UNION teams \subseteq Q /\ (Cardinality(Q) = 4 => UNION teams = Q)
        BY <2>2, <2>3, FirstFour
    <2> QED BY <2>1, <2>2, <2>4
<1> HIDE DEF T, kept
<1>10. \A m \in D : \E c \in kept : m = K(c)
    BY <1>3
<1>11. \A c \in kept : K(c) \in D
    BY <1>3
<1>12. IsFiniteSet(D) /\ Cardinality(D) = Cardinality(kept)
    <2> DEFINE f == [c \in kept |-> K(c)]
    <2>1. \A c, d \in kept : K(c) = K(d) => c = d
        <3> SUFFICES ASSUME NEW c \in kept, NEW d \in kept, K(c) = K(d) PROVE c = d
            OBVIOUS
        <3>1. K(c).position = c /\ K(d).position = d
            BY <1>4
        <3> QED BY <3>1
    <2>2. f \in Bijection(kept, D)
        BY <1>10, <1>11, <2>1 DEF Bijection, Injection, Surjection, IsInjective
    <2> QED BY <1>7, <2>2, FS_Bijection DEF ExistsBijection
<1>13. D # {}
    BY <1>7, <1>11
<1>14. \A m \in D : m.position \in Nat /\ Teamed(m.teams)
    <2> TAKE m \in D
    <2>1. PICK c \in kept : m = K(c)
        BY <1>10
    <2>2. c \in used /\ c \in Nat
        BY <1>5, <1>8
    <2>3. m.position = c /\ m.teams = T(c)
        BY <1>4, <2>1
    <2> HIDE DEF used
    <2> QED BY <1>9, <2>2, <2>3
<1>15. \A m, q \in D : m # q => m.position # q.position /\ (UNION m.teams) \cap (UNION q.teams) = {}
    <2> SUFFICES ASSUME NEW m \in D, NEW q \in D, m # q
                 PROVE  m.position # q.position /\ (UNION m.teams) \cap (UNION q.teams) = {}
        OBVIOUS
    <2>1. PICK c \in kept : m = K(c)
        BY <1>10
    <2>2. PICK d \in kept : q = K(d)
        BY <1>10
    <2>3. c # d /\ m.position = c /\ q.position = d /\ m.teams = T(c) /\ q.teams = T(d)
        BY <1>4, <2>1, <2>2
    <2>4. c \in used /\ d \in used /\ c \in 0 .. n - 1 /\ d \in 0 .. n - 1
        BY <1>5, <1>8
    <2> HIDE DEF used
    <2>5. UNION T(c) \subseteq G(c) /\ UNION T(d) \subseteq G(d) /\ G(c) \cap G(d) = {}
        BY <1>2, <1>9, <2>3, <2>4
    <2> QED BY <2>3, <2>5
<1>16. Round(D) /\ Cardinality(D) <= courts
    BY <1>7, <1>12, <1>13, <1>14, <1>15 DEF Round
<1>17. ASSUME \A m \in round : ~Tied(m), Cardinality(round) <= courts
       PROVE  /\ Cardinality(D) = Cardinality(round)
              /\ Cardinality(S) <= 4 => S \subseteq Seated(D)
    <2>1. \A c \in 0 .. n - 1 : Cardinality(G(c)) = 4
        BY <1>2, <1>17
    <2>2. used = 0 .. n - 1
        BY <2>1
    <2>3. kept = 0 .. n - 1
        BY <1>1, <1>7, <1>17, <2>2
    <2>4. Cardinality(kept) = n
        <3>1. 0 \in Int /\ n - 1 \in Int
            OBVIOUS
        <3>2. Cardinality(0 .. n - 1) = IF 0 > n - 1 THEN 0 ELSE n - 1 - 0 + 1
            BY <3>1, FS_Interval
        <3>3. Cardinality(0 .. n - 1) = n
            BY <3>2
        <3> QED BY <2>3, <3>3
    <2>5. ASSUME Cardinality(S) <= 4
          PROVE  S \subseteq Seated(D)
        <3>1. n >= 1
            BY <1>1, PlacesAre
        <3>2. n - 1 \in 0 .. n - 1
            BY <3>1
        <3>3. n - 1 \in used /\ n - 1 \in kept
            BY <2>2, <2>3, <3>2
        <3> HIDE DEF used
        <3>4. S \subseteq UNION T(n - 1)
            BY <1>2, <1>9, <1>17, <2>1, <2>5, <3>2, <3>3
        <3>5. K(n - 1) \in D /\ K(n - 1).teams = T(n - 1)
            BY <1>4, <1>11, <3>3
        <3>6. UNION T(n - 1) \subseteq Seated(D)
            BY <3>5 DEF Seated
        <3> QED BY <3>4, <3>6
    <2> QED BY <1>1, <1>12, <2>4, <2>5
<1> QED BY <1>16, <1>17 DEF S

\* Nobody has played before the draw.  A king of the court night has a round, of
\* no more courts than there are, and it went on from the last one without a loss.
KingInv ==
    /\ made = None => before = {}
    /\ made = "KING_OF_THE_COURT" =>
        /\ Round(drawn) /\ Cardinality(drawn) <= courts
        /\ before # {} /\ Decisive =>
            /\ Cardinality(drawn) = Cardinality(before)
            /\ Cardinality(Sitting(before)) <= 4 => Sitting(before) \subseteq Seated(drawn)

LEMMA TeamsCount ==
    ASSUME NEW T, Teamed(T)
    PROVE  Cardinality(UNION T) = 4
<1>1. PICK a, b, c, d : TwoTeams(T, a, b, c, d)
    BY DEF Teamed
<1>2. a # d /\ b # c /\ {a, d} \cap {b, c} = {} /\ UNION T = {a, d} \cup {b, c}
    BY <1>1 DEF TwoTeams
<1>3. /\ IsFiniteSet({a, d}) /\ Cardinality({a, d}) = 2
      /\ IsFiniteSet({b, c}) /\ Cardinality({b, c}) = 2
    BY <1>2, PairCount
<1>4. Cardinality({a, d} \cup {b, c}) = 4
    BY <1>2, <1>3, TwoPairs
<1> QED BY <1>2, <1>4

LEMMA KingHolds ==
    ASSUME KingInv
    PROVE  KingSound
<1> SUFFICES ASSUME made = "KING_OF_THE_COURT"
             PROVE  /\ drawn # {}
                    /\ Disjoint(drawn)
                    /\ \A m \in drawn : Cardinality(UNION m.teams) = 4
                    /\ before # {} /\ Decisive =>
                        /\ Cardinality(drawn) = Cardinality(before)
                        /\ Cardinality(Sitting(before)) <= 4 => Sitting(before) \subseteq Seated(drawn)
    BY Zenon DEF KingSound, Sitting
<1>1. Round(drawn)
    BY DEF KingInv
<1>2. \A m \in drawn : Cardinality(UNION m.teams) = 4
    BY <1>1, TeamsCount DEF Round
<1>3. drawn # {} /\ Disjoint(drawn)
    BY <1>1 DEF Round, Disjoint
<1>4. before # {} /\ Decisive =>
        /\ Cardinality(drawn) = Cardinality(before)
        /\ Cardinality(Sitting(before)) <= 4 => Sitting(before) \subseteq Seated(drawn)
    BY DEF KingInv
<1> QED BY <1>2, <1>3, <1>4

\* The first round: courts of neighbours in the order of the draw.
LEMMA FirstCourts ==
    ASSUME FieldInv, courts \in Nat, courts >= 1, Len(ordered) >= 4,
           NEW D, D = BuildSocialRound(ordered, courts, 1)
    PROVE  Round(D) /\ Cardinality(D) <= courts
<1>1. PICK n \in Nat : n = Len(ordered) /\ n >= 4 /\ Players = 1 .. n /\ ordered = [i \in 1 .. n |-> i]
    BY OrderIs
<1>2. PICK k \in Nat : k = CourtsNow /\ k >= 1 /\ 4 * k <= n /\ k <= courts
    BY <1>1, CourtsFit DEF CourtsNow
<1> DEFINE K(c) == NeighboursAt(ordered, c, 1)
<1>3. D = {K(c) : c \in 0 .. k - 1}
    <2>1. ordered \in [1 .. Len(ordered) -> Players]
        BY <1>1
    <2> QED BY <1>2, <2>1, SocialRoundIs
<1>4. \A c \in 0 .. k - 1 :
        /\ c \in Nat /\ K(c).position = c
        /\ TwoTeams(K(c).teams, 4 * c + 1, 4 * c + 2, 4 * c + 3, 4 * c + 4)
    <2> TAKE c \in 0 .. k - 1
    <2>1. PICK b \in Nat : b = 4 * c /\ b + 4 <= n
        BY <1>2
    <2>2. b + 1 \in 1 .. n /\ b + 2 \in 1 .. n /\ b + 3 \in 1 .. n /\ b + 4 \in 1 .. n
        BY <2>1
    <2>3. ordered[b + 1] = b + 1 /\ ordered[b + 2] = b + 2 /\ ordered[b + 3] = b + 3
          /\ ordered[b + 4] = b + 4
        BY <1>1, <2>2
    <2>4. K(c).position = c /\ K(c).teams = {{b + 1, b + 4}, {b + 2, b + 3}}
        BY <2>1, <2>3 DEF NeighboursAt, Court
    <2> HIDE DEF K
    <2>5. TwoTeams(K(c).teams, b + 1, b + 2, b + 3, b + 4)
        BY <1>1, <2>2, <2>4 DEF TwoTeams
    <2> QED BY <2>1, <2>4, <2>5
<1>5. \A c \in 0 .. k - 1 : \A x \in UNION K(c).teams : \E i \in 1 .. 4 : x = 4 * c + i
    <2> TAKE c \in 0 .. k - 1
    <2> TAKE x \in UNION K(c).teams
    <2>1. x = 4 * c + 1 \/ x = 4 * c + 2 \/ x = 4 * c + 3 \/ x = 4 * c + 4
        <3> HIDE DEF K
        <3> QED BY <1>4 DEF TwoTeams
    <2>2. 1 \in 1 .. 4 /\ 2 \in 1 .. 4 /\ 3 \in 1 .. 4 /\ 4 \in 1 .. 4
        OBVIOUS
    <2> HIDE DEF K
    <2> QED BY <2>1, <2>2
<1> HIDE DEF K
<1>6. \A m \in D : \E c \in 0 .. k - 1 : m = K(c)
    BY <1>3
<1>7. \A m \in D : m.position \in Nat /\ Teamed(m.teams)
    BY <1>4, <1>6 DEF Teamed
<1>8. \A m, q \in D : m # q => m.position # q.position /\ (UNION m.teams) \cap (UNION q.teams) = {}
    <2> SUFFICES ASSUME NEW m \in D, NEW q \in D, m # q
                 PROVE  m.position # q.position /\ (UNION m.teams) \cap (UNION q.teams) = {}
        OBVIOUS
    <2>1. PICK c \in 0 .. k - 1 : m = K(c)
        BY <1>6
    <2>2. PICK d \in 0 .. k - 1 : q = K(d)
        BY <1>6
    <2>3. c # d /\ m.position = c /\ q.position = d
        BY <1>4, <2>1, <2>2
    <2>4. ASSUME NEW x \in UNION m.teams, x \in UNION q.teams
          PROVE  FALSE
        <3>1. PICK i \in 1 .. 4 : x = 4 * c + i
            BY <1>5, <2>1, <2>4
        <3>2. PICK j \in 1 .. 4 : x = 4 * d + j
            BY <1>5, <2>2, <2>4
        <3>3. c = d
            BY <1>2, <3>1, <3>2
        <3> QED BY <2>3, <3>3
    <2> QED BY <2>3, <2>4
<1>9. IsFiniteSet(D) /\ Cardinality(D) <= courts /\ D # {}
    <2> DEFINE f == [c \in 0 .. k - 1 |-> K(c)]
    <2>1. IsFiniteSet(0 .. k - 1) /\ Cardinality(0 .. k - 1) = k
        <3>1. 0 \in Int /\ k - 1 \in Int
            OBVIOUS
        <3>2. IsFiniteSet(0 .. k - 1) /\ Cardinality(0 .. k - 1) = IF 0 > k - 1 THEN 0 ELSE k - 1 - 0 + 1
            BY <3>1, FS_Interval
        <3>3. (IF 0 > k - 1 THEN 0 ELSE k - 1 - 0 + 1) = k
            BY <1>2
        <3> QED BY <3>2, <3>3
    <2>2. f \in Surjection(0 .. k - 1, D)
        BY <1>3 DEF Surjection
    <2>3. IsFiniteSet(D) /\ Cardinality(D) <= k
        <3> HIDE DEF f
        <3> QED BY <2>1, <2>2, FS_Surjection
    <2>4. Cardinality(D) \in Nat
        BY <2>3, FS_CardinalityType
    <2>5. D # {}
        <3>1. 0 \in 0 .. k - 1
            BY <1>2
        <3> QED BY <1>3, <3>1
    <2>6. Cardinality(D) <= courts
        BY <1>2, <2>3, <2>4
    <2> QED BY <2>3, <2>5, <2>6
<1> QED BY <1>7, <1>8, <1>9 DEF Round

LEMMA RankingNext ==
    (FieldInv /\ Tallied(points) /\ Tallied(won))' => Ranking(Standing)'
<1>1. FieldInv /\ Tallied(points) /\ Tallied(won) => Ranking(Standing)
    BY StandingRanks
<1> QED BY <1>1, PTL

LEMMA KingStarts == AllInit => KingInv
BY DrawsAssumption DEF AllInit, DrawInit, KingInv, Format, Night

LEMMA KingDrawn ==
    ASSUME NightInv, KingInv, NEW f \in Format, Draw(f)
    PROVE  KingInv'
<1>1. made = None /\ made' = f /\ before' = before /\ courts' = courts
    BY DEF Draw
<1>2. before' = {}
    BY <1>1 DEF KingInv
<1>3. ASSUME f = "KING_OF_THE_COURT"
      PROVE  Round(drawn') /\ Cardinality(drawn') <= courts
    <2>1. Len(ordered) >= 4 /\ drawn' = BuildSocialRound(ordered, courts, 1)
        BY <1>3 DEF Draw, Night
    <2>2. FieldInv /\ courts \in Nat /\ courts >= 1
        BY DEF NightInv
    <2>3. \A D : D = BuildSocialRound(ordered, courts, 1) => Round(D) /\ Cardinality(D) <= courts
        BY <2>1, <2>2, FirstCourts
    <2> QED BY <2>1, <2>3
<1>4. Round(drawn)' <=> Round(drawn')
    <2>1. Players' = Players
        BY DEF Draw, Players
    <2> QED BY <2>1 DEF Round, Teamed, TwoTeams
<1> QED BY <1>1, <1>2, <1>3, <1>4 DEF KingInv

LEMMA KingPlayed ==
    ASSUME NightInv, KingInv, NightInv', NEW round \in Results(drawn), made \in Night, PlayRound(round)
    PROVE  KingInv'
<1>1. made' = made /\ ordered' = ordered /\ courts' = courts /\ before' = round
    BY DEF PlayRound
<1>2. made' # None
    BY <1>1, DrawsAssumption DEF Format, Night
<1> SUFFICES ASSUME made = "KING_OF_THE_COURT"
             PROVE  (/\ Round(drawn) /\ Cardinality(drawn) <= courts
                     /\ before # {} /\ Decisive =>
                          /\ Cardinality(drawn) = Cardinality(before)
                          /\ Cardinality(Sitting(before)) <= 4 => Sitting(before) \subseteq Seated(drawn))'
    BY <1>1, <1>2 DEF KingInv
<1>3. FieldInv /\ courts \in Nat /\ courts >= 1
    BY DEF NightInv
<1>4. Round(drawn) /\ Cardinality(drawn) <= courts
    BY DEF KingInv
<1>5. Result(round) /\ Cardinality(round) = Cardinality(drawn)
    BY <1>4, ResultIs
<1>6. PICK R : R = PointStandings(ordered, points', won')
    OBVIOUS
<1>7. Players' = Players
    BY <1>1 DEF Players
<1>8. Ranking(R)
    <2>1. (FieldInv /\ Tallied(points) /\ Tallied(won))'
        BY DEF NightInv
    <2>2. Ranking(Standing)'
        BY <2>1, RankingNext
    <2>3. Standing' = R
        BY <1>1, <1>6 DEF Standing
    <2> QED BY <1>1, <1>7, <2>2, <2>3 DEF Ranking
<1>9. PICK number : drawn' = BuildKingRound(round, R, courts, number)
    BY <1>6 DEF PlayRound
<1>10. \A D : D = BuildKingRound(round, R, courts, number) =>
        /\ Round(D) /\ Cardinality(D) <= courts
        /\ (\A m \in round : ~Tied(m)) /\ Cardinality(round) <= courts =>
             /\ Cardinality(D) = Cardinality(round)
             /\ Cardinality(Sitting(round)) <= 4 => Sitting(round) \subseteq Seated(D)
    BY <1>3, <1>5, <1>8, KingRound
<1>11. /\ Round(drawn') /\ Cardinality(drawn') <= courts
       /\ (\A m \in round : ~Tied(m)) =>
            /\ Cardinality(drawn') = Cardinality(round)
            /\ Cardinality(Sitting(round)) <= 4 => Sitting(round) \subseteq Seated(drawn')
    BY <1>4, <1>5, <1>9, <1>10
<1>12. Round(drawn)' <=> Round(drawn')
    BY <1>7 DEF Round, Teamed, TwoTeams
<1>13. Sitting(before)' = Sitting(round)
    BY <1>1, <1>7 DEF Sitting
<1>14. Seated(drawn)' = Seated(drawn')
    BY DEF Seated
<1>15. Decisive' => \A m \in round : ~Tied(m)
    BY <1>1 DEF Decisive
<1> QED BY <1>1, <1>11, <1>12, <1>13, <1>14, <1>15

LEMMA KingKept ==
    ASSUME KingInv, ordered' = ordered, courts' = courts,
           \/ made' = made /\ drawn' = drawn /\ before' = before
           \/ made' \notin {None, "KING_OF_THE_COURT"}
    PROVE  KingInv'
<1>1. CASE made' \notin {None, "KING_OF_THE_COURT"}
    BY <1>1 DEF KingInv
<1>2. CASE made' = made /\ drawn' = drawn /\ before' = before
    <2>1. Players' = Players
        BY DEF Players
    <2>2. Round(drawn)' = Round(drawn) /\ Seated(drawn)' = Seated(drawn) /\ Decisive' = Decisive
          /\ Sitting(before)' = Sitting(before)
        BY <1>2, <2>1 DEF Round, Teamed, TwoTeams, Seated, Decisive, Sitting
    <2> QED BY <1>2, <2>2 DEF KingInv
<1> QED BY <1>1, <1>2

LEMMA KingInvariant == AllSpec => []KingInv
<1>1. AllInit => KingInv
    BY KingStarts
<1>2. NightInv /\ NightInv' /\ KingInv /\ [AllNext]_allVars => KingInv'
    <2> SUFFICES ASSUME NightInv, NightInv', KingInv, [AllNext]_allVars PROVE KingInv'
        OBVIOUS
    <2>1. CASE \E f \in Format : Draw(f)
        BY <2>1, KingDrawn
    <2>2. CASE made = "ROUND_ROBIN" /\ \E m \in drawn, s \in Scores : \E x \in m.players : PlayMeeting(m, x, s)
        <3>1. made' = "ROUND_ROBIN" /\ ordered' = ordered /\ courts' = courts
            BY <2>2 DEF PlayMeeting
        <3>2. made' \notin {None, "KING_OF_THE_COURT"}
            BY <3>1, DrawsAssumption DEF Format
        <3> QED BY <3>1, <3>2, KingKept
    <2>3. CASE made \in Night /\ \E round \in Results(drawn) : PlayRound(round)
        BY <2>3, KingPlayed
    <2>4. CASE \E server \in Side \cup {NoServer}, advantage, tieBreak \in BOOLEAN :
                  StartMatch(server, advantage, tieBreak)
        <3>1. made = None /\ made' = "MATCH" /\ ordered' = ordered /\ courts' = courts
              /\ drawn' = drawn /\ before' = before
            BY <2>4 DEF StartMatch
        <3> QED BY <3>1 DEF KingInv
    <2>5. CASE \E s \in Side, nextTieBreak \in BOOLEAN : Score(s, nextTieBreak)
        BY <2>5, KingKept DEF Score, drawVars
    <2>6. CASE UNCHANGED allVars
        BY <2>6, KingKept DEF allVars, drawVars
    <2> QED BY <2>1, <2>2, <2>3, <2>4, <2>5, <2>6 DEF AllNext, DrawNext
<1> QED BY <1>1, <1>2, NightInvariant, PTL DEF AllSpec

\* A king of the court night, on any number of courts and with any results, goes
\* on with full courts and nobody on two of them, and without a tie it keeps its
\* courts and lets those play who sat out (buildKingRound).
THEOREM KingGoesOn == AllSpec => []KingSound
<1>1. KingInv => KingSound
    BY KingHolds
<1> QED BY <1>1, KingInvariant, PTL

-----------------------------------------------------------------------------
(* The point log of a match *)

\* The points that are kept of a log
KeptLength(log0) == IF Len(log0) < MaxPointLog THEN Len(log0) ELSE MaxPointLog

LEMMA CapIs ==
    ASSUME NEW S, NEW L \in Seq(S), \A i \in 1 .. Len(L) : L[i].side \in Side
    PROVE  /\ KeptLength(L) \in Nat /\ KeptLength(L) <= Len(L)
           /\ DOMAIN CapPointLog(L) = 1 .. KeptLength(L)
           /\ \A i \in 1 .. KeptLength(L) : CapPointLog(L)[i] = L[i]
<1> DEFINE n == Len(L)
           Cut(i) == IF i < MaxPointLog THEN i ELSE MaxPointLog
           Kept1(f, i) == IF i = 0 THEN <<>>
                          ELSE IF L[i].side \in Side /\ Len(f[i - 1]) < MaxPointLog
                               THEN Append(f[i - 1], L[i])
                               ELSE f[i - 1]
           F(f) == [i \in 0 .. Len(L) |-> Kept1(f, i)]
           out == CHOOSE f : f = F(f)
           g == [i \in 0 .. Len(L) |-> SubSeq(L, 1, Cut(i))]
<1>0. n \in Nat /\ MaxPointLog \in Nat
    BY PointLogAssumption
<1>1. CapPointLog(L) = out[n]
    BY DEF CapPointLog
<1>2. \A i \in 0 .. n : /\ Cut(i) \in Nat /\ Cut(i) <= n
                        /\ g[i] \in Seq(S) /\ Len(g[i]) = Cut(i)
                        /\ \A j \in 1 .. Cut(i) : g[i][j] = L[j]
    BY <1>0
<1>3. \A i \in 0 .. n : g[i] = Kept1(g, i)
    <2> SUFFICES ASSUME NEW i \in 0 .. n PROVE g[i] = Kept1(g, i)
        OBVIOUS
    <2>1. CASE i = 0
        BY <1>0, <2>1
    <2>2. CASE i # 0
        <3>1. PICK k \in 0 .. n : i = k + 1 /\ k = i - 1 /\ k \in Nat /\ i \in 1 .. n
            BY <1>0, <2>2
        <3>2. Len(g[k]) = Cut(k) /\ L[i].side \in Side
            BY <1>2, <3>1
        <3>3. CASE k < MaxPointLog
            <4>1. Cut(k) = k /\ Cut(i) = k + 1
                BY <1>0, <3>1, <3>3
            <4>2. Kept1(g, i) = Append(SubSeq(L, 1, k), L[k + 1])
                BY <2>2, <3>1, <3>2, <3>3, <4>1
            <4>3. g[i] = SubSeq(L, 1, k + 1)
                BY <3>1, <4>1
            <4>4. SubSeq(L, 1, k + 1) = Append(SubSeq(L, 1, k), L[k + 1])
                BY <3>1, <1>0
            <4> QED BY <4>2, <4>3, <4>4
        <3>4. CASE ~(k < MaxPointLog)
            <4>1. Cut(k) = MaxPointLog /\ Cut(i) = MaxPointLog
                BY <1>0, <3>1, <3>4
            <4>2. Kept1(g, i) = g[k]
                BY <1>0, <2>2, <3>1, <3>2, <3>4, <4>1
            <4> QED BY <3>1, <4>1, <4>2
        <3> QED BY <3>3, <3>4
    <2> QED BY <2>1, <2>2
<1>4. g = F(g)
    BY <1>3
<1>5. out = F(out)
    BY <1>4
<1> HIDE DEF out
<1>6. \A i \in 0 .. n : out[i] = Kept1(out, i)
    BY <1>5
<1>7. out[n] = g[n]
    <2> DEFINE Bad == {i \in 0 .. n : out[i] # g[i]}
    <2>1. Bad = {}
        <3> SUFFICES ASSUME Bad # {} PROVE FALSE
            OBVIOUS
        <3>1. Bad \subseteq Nat
            OBVIOUS
        <3>2. PICK i \in Bad : \A j \in Bad : i <= j
            BY <3>1, Least
        <3>3. i # 0
            BY <1>3, <1>6
        <3>4. PICK k \in 0 .. n : k = i - 1 /\ k \notin Bad
            BY <3>2, <3>3
        <3>5. out[k] = g[k]
            BY <3>4
        <3>6. Kept1(out, i) = Kept1(g, i)
            <4> HIDE DEF g
            <4> QED BY <3>4, <3>5
        <3>7. i \in 0 .. n /\ out[i] # g[i]
            BY <3>2
        <3> HIDE DEF Kept1, g
        <3> QED BY <1>3, <1>6, <3>6, <3>7
    <2>2. n \in 0 .. n
        BY <1>0
    <2> HIDE DEF g, n
    <2> QED BY <2>1, <2>2
<1>8. CapPointLog(L) = g[n] /\ Cut(n) = KeptLength(L)
    BY <1>1, <1>7 DEF KeptLength
<1>9. n \in 0 .. n
    BY <1>0
<1> HIDE DEF g, Cut
<1> QED BY <1>2, <1>8, <1>9

\* The scoreboard between two points of a game that is not over
Runs(x, y, advantage) == ~(x >= 4 /\ (~advantage \/ x >= y + 2))

\* The point that ends it
Ends(x, y, advantage) == x + 1 >= 4 /\ (~advantage \/ x + 1 >= y + 2)

\* What it shows of x against y
Face(x, y, advantage) ==
    IF ~advantage \/ x < 3 \/ y < 3 THEN x ELSE IF x > y THEN 4 ELSE 3

\* What is shown tells who can end the game (pointWinsGame, isBreakPoint).
LEMMA FaceTells ==
    ASSUME NEW x \in Nat, NEW y \in Nat, NEW advantage \in BOOLEAN,
           Runs(x, y, advantage), Runs(y, x, advantage),
           NEW X, X = Face(x, y, advantage), NEW Y, Y = Face(y, x, advantage)
    PROVE  /\ PointWinsGame(X, Y, TRUE, advantage) <=> Ends(x, y, advantage)
           /\ PointWinsGame(X, Y, FALSE, advantage) <=> Ends(y, x, advantage)
           /\ IsBreakPoint(X, Y, advantage) <=> Ends(y, x, advantage)
<1>0. x \in Int /\ y \in Int /\ x >= 0 /\ y >= 0
    OBVIOUS
<1>1. CASE advantage
    <2>1. /\ PointWinsGame(X, Y, TRUE, advantage) <=> X = 4 \/ (X = 3 /\ Y < 3)
          /\ PointWinsGame(X, Y, FALSE, advantage) <=> Y = 4 \/ (Y = 3 /\ X < 3)
          /\ IsBreakPoint(X, Y, advantage) <=> Y >= 3 /\ Y > X
        BY <1>1 DEF PointWinsGame, IsBreakPoint
    <2>2. /\ Ends(x, y, advantage) <=> x + 1 >= 4 /\ x + 1 >= y + 2
          /\ Ends(y, x, advantage) <=> y + 1 >= 4 /\ y + 1 >= x + 2
        BY <1>1 DEF Ends
    <2>3. ~(x >= 4 /\ x >= y + 2) /\ ~(y >= 4 /\ y >= x + 2)
        BY <1>1 DEF Runs
    <2>4. /\ X = (IF x < 3 \/ y < 3 THEN x ELSE IF x > y THEN 4 ELSE 3)
          /\ Y = (IF x < 3 \/ y < 3 THEN y ELSE IF y > x THEN 4 ELSE 3)
        BY <1>0, <1>1 DEF Face
    <2>5. CASE x < 3 \/ y < 3
        <3>1. X = x /\ Y = y /\ x <= 3 /\ y <= 3
            BY <1>0, <2>3, <2>4, <2>5
        <3>2. /\ (X = 4 \/ (X = 3 /\ Y < 3)) <=> (x + 1 >= 4 /\ x + 1 >= y + 2)
              /\ (Y = 4 \/ (Y = 3 /\ X < 3)) <=> (y + 1 >= 4 /\ y + 1 >= x + 2)
              /\ (Y >= 3 /\ Y > X) <=> (y + 1 >= 4 /\ y + 1 >= x + 2)
            BY <1>0, <2>5, <3>1
        <3> QED BY <2>1, <2>2, <3>2
    <2>6. CASE ~(x < 3 \/ y < 3)
        <3>1. x >= 3 /\ y >= 3 /\ x <= y + 1 /\ y <= x + 1
            BY <1>0, <2>3, <2>6
        <3>2. X = (IF x > y THEN 4 ELSE 3) /\ Y = (IF y > x THEN 4 ELSE 3)
            BY <2>4, <2>6
        <3>3. /\ (X = 4 \/ (X = 3 /\ Y < 3)) <=> (x + 1 >= 4 /\ x + 1 >= y + 2)
              /\ (Y = 4 \/ (Y = 3 /\ X < 3)) <=> (y + 1 >= 4 /\ y + 1 >= x + 2)
              /\ (Y >= 3 /\ Y > X) <=> (y + 1 >= 4 /\ y + 1 >= x + 2)
            BY <1>0, <3>1, <3>2
        <3> QED BY <2>1, <2>2, <3>3
    <2> QED BY <2>5, <2>6
<1>2. CASE ~advantage
    <2>1. /\ PointWinsGame(X, Y, TRUE, advantage) <=> X >= 3 /\ (Y < 3 \/ Y = X)
          /\ PointWinsGame(X, Y, FALSE, advantage) <=> Y >= 3 /\ (X < 3 \/ X = Y)
          /\ IsBreakPoint(X, Y, advantage) <=> Y >= 3 /\ (Y > X \/ X >= 3)
        BY <1>2 DEF PointWinsGame, IsBreakPoint
    <2>2. (Ends(x, y, advantage) <=> x + 1 >= 4) /\ (Ends(y, x, advantage) <=> y + 1 >= 4)
        BY <1>2 DEF Ends
    <2>3. X = x /\ Y = y /\ ~(x >= 4) /\ ~(y >= 4)
        BY <1>2 DEF Face, Runs
    <2>4. /\ (X >= 3 /\ (Y < 3 \/ Y = X)) <=> x + 1 >= 4
          /\ (Y >= 3 /\ (X < 3 \/ X = Y)) <=> y + 1 >= 4
          /\ (Y >= 3 /\ (Y > X \/ X >= 3)) <=> y + 1 >= 4
        BY <1>0, <2>3
    <2> QED BY <2>1, <2>2, <2>4
<1> QED BY <1>1, <1>2

\* A game goes on after a point that does not end it.
LEMMA RunsOn ==
    ASSUME NEW x \in Nat, NEW y \in Nat, NEW advantage \in BOOLEAN,
           Runs(x, y, advantage), Runs(y, x, advantage), ~Ends(x, y, advantage)
    PROVE  Runs(x + 1, y, advantage) /\ Runs(y, x + 1, advantage)
BY DEF Runs, Ends

\* The game points of a side's own serve that it won, and those it lost
KeepsGame(p, s) ==
    /\ p.server = s /\ ~p.tieBreak /\ p.side = s
    /\ PointWinsGame(p.score[s], p.score[Other(s)], TRUE, p.advantage)

LosesGame(p, s) ==
    /\ p.server = s /\ ~p.tieBreak /\ p.side = Other(s)
    /\ PointWinsGame(p.score[s], p.score[Other(s)], FALSE, p.advantage)

\* On a served point the receiver has a break point if it can end the game.
Told(p) ==
    /\ p.side \in Side
    /\ p.server \in Side \cup {NoServer}
    /\ p.tieBreak \in BOOLEAN
    /\ p.server \in Side /\ ~p.tieBreak =>
        LET x == p.score[p.server]
            y == p.score[Other(p.server)]
        IN  IsBreakPoint(x, y, p.advantage) <=> PointWinsGame(x, y, FALSE, p.advantage)

\* What the points of a log up to m tell
KeptIn(L, m, s) == {i \in 1 .. m : KeepsGame(L[i], s)}

LostIn(L, m, s) == {i \in 1 .. m : LosesGame(L[i], s)}

\* The figures of a log of such points are these counts.
LEMMA FiguresAre ==
    ASSUME NEW m \in Nat, NEW K, DOMAIN K = 1 .. m, \A i \in 1 .. m : Told(K[i]), NEW s \in Side
    PROVE  /\ Summarize(K).serveWon[s] = Cardinality(KeptIn(K, m, s))
           /\ Summarize(K).breakWon[s] = Cardinality(LostIn(K, m, Other(s)))
           /\ Summarize(K).servePlayed[s] =
                Cardinality(KeptIn(K, m, s)) + Cardinality(LostIn(K, m, s))
           /\ Summarize(K).breakWon[s] <= Summarize(K).breakFaced[s]
<1> DEFINE Served(t) == {i \in 1 .. m : K[i].server = t /\ ~K[i].tieBreak}
           Held(p) == p.side = p.server
           Breaks(t) == {i \in Served(Other(t)) :
                IsBreakPoint(K[i].score[K[i].server], K[i].score[Other(K[i].server)], K[i].advantage)}
           Games(t) == {i \in Served(t) :
                PointWinsGame(K[i].score[K[i].server], K[i].score[Other(K[i].server)], Held(K[i]),
                              K[i].advantage)}
<1>1. /\ Summarize(K).serveWon[s] = Cardinality({i \in Games(s) : Held(K[i])})
      /\ Summarize(K).breakWon[s] = Cardinality({i \in Breaks(s) : ~Held(K[i])})
      /\ Summarize(K).servePlayed[s] = Cardinality(Games(s))
      /\ Summarize(K).breakFaced[s] = Cardinality(Breaks(s))
    BY DEF Summarize
<1>2. Other(s) \in Side /\ Other(Other(s)) = s /\ s # Other(s)
    BY DEF Side, Other
<1>3. {i \in Games(s) : Held(K[i])} = KeptIn(K, m, s)
    BY DEF KeptIn, KeepsGame
<1>4. \A i \in 1 .. m, t \in Side : K[i].server = t /\ ~Held(K[i]) <=> K[i].server = t /\ K[i].side = Other(t)
    <2>1. \A i \in 1 .. m : K[i].side \in Side
        BY DEF Told
    <2> QED BY <2>1 DEF Side, Other
<1>5. {i \in Breaks(s) : ~Held(K[i])} = LostIn(K, m, Other(s))
    <2>1. ASSUME NEW i \in 1 .. m, K[i].server = Other(s), ~K[i].tieBreak
          PROVE  IsBreakPoint(K[i].score[K[i].server], K[i].score[Other(K[i].server)], K[i].advantage)
                 <=> PointWinsGame(K[i].score[K[i].server], K[i].score[Other(K[i].server)], FALSE, K[i].advantage)
        BY <1>2, <2>1 DEF Told
    <2>2. ASSUME NEW i \in 1 .. m
          PROVE  (i \in Breaks(s) /\ ~Held(K[i])) <=> LosesGame(K[i], Other(s))
        BY <1>2, <1>4, <2>1 DEF LosesGame
    <2> QED BY <2>2 DEF LostIn
<1>6. Games(s) = KeptIn(K, m, s) \cup LostIn(K, m, s) /\ KeptIn(K, m, s) \cap LostIn(K, m, s) = {}
    <2>1. ASSUME NEW i \in 1 .. m
          PROVE  i \in Games(s) <=> KeepsGame(K[i], s) \/ LosesGame(K[i], s)
        BY <1>2, <1>4 DEF KeepsGame, LosesGame
    <2>2. \A i \in 1 .. m : ~(KeepsGame(K[i], s) /\ LosesGame(K[i], s))
        BY <1>2 DEF KeepsGame, LosesGame
    <2> QED BY <2>1, <2>2 DEF KeptIn, LostIn
<1>7. IsFiniteSet(1 .. m)
    BY FS_Interval
<1>8. /\ IsFiniteSet(KeptIn(K, m, s)) /\ IsFiniteSet(LostIn(K, m, s)) /\ IsFiniteSet(Breaks(s))
      /\ {i \in Breaks(s) : ~Held(K[i])} \subseteq Breaks(s)
    <2>1. KeptIn(K, m, s) \subseteq 1 .. m /\ LostIn(K, m, s) \subseteq 1 .. m /\ Breaks(s) \subseteq 1 .. m
        BY DEF KeptIn, LostIn
    <2>2. {i \in Breaks(s) : ~Held(K[i])} \subseteq Breaks(s)
        OBVIOUS
    <2> HIDE DEF Breaks, Held
    <2> QED BY <1>7, <2>1, <2>2, FS_Subset
<1> HIDE DEF Games, Breaks, Held, Served
<1>9. Cardinality(Games(s)) = Cardinality(KeptIn(K, m, s)) + Cardinality(LostIn(K, m, s))
    <2>1. Cardinality(KeptIn(K, m, s) \cup LostIn(K, m, s)) =
            Cardinality(KeptIn(K, m, s)) + Cardinality(LostIn(K, m, s))
        <3>1. Cardinality(KeptIn(K, m, s) \cup LostIn(K, m, s)) =
                Cardinality(KeptIn(K, m, s)) + Cardinality(LostIn(K, m, s)) - Cardinality({})
            BY <1>6, <1>8, FS_Union
        <3>2. Cardinality({}) = 0
            BY FS_EmptySet
        <3>3. Cardinality(KeptIn(K, m, s)) \in Nat /\ Cardinality(LostIn(K, m, s)) \in Nat
            BY <1>8, FS_CardinalityType
        <3> QED BY <3>1, <3>2, <3>3
    <2> QED BY <1>6, <2>1
<1>10. Cardinality({i \in Breaks(s) : ~Held(K[i])}) <= Cardinality(Breaks(s))
    BY <1>8, FS_Subset
<1> QED BY <1>1, <1>3, <1>5, <1>9, <1>10

Points == [side : Side, server : Side \cup {NoServer}, score : [Side -> Nat],
           tieBreak : BOOLEAN, advantage : BOOLEAN]

Boards == [game : [server : Side \cup {NoServer}, tieBreak : BOOLEAN, raw : [Side -> Nat]],
           advantage : BOOLEAN, kept : [Side -> Nat], lost : [Side -> Nat]]

\* The running game is not over, and what the scoreboard has counted is what the
\* points of the log tell, one by one.
BoardSound ==
    /\ board \in Boards
    /\ ~board.game.tieBreak =>
        \A s \in Side : Runs(board.game.raw[s], board.game.raw[Other(s)], board.advantage)
    /\ log \in Seq(Points)
    /\ \A i \in 1 .. Len(log) : Told(log[i])
    /\ \A s \in Side : /\ board.kept[s] = Cardinality(KeptIn(log, Len(log), s))
                       /\ board.lost[s] = Cardinality(LostIn(log, Len(log), s))

LogInv ==
    /\ made # "MATCH" => log = <<>>
    /\ made = "MATCH" => BoardSound

LEMMA Sides ==
    /\ \A s \in Side : Other(s) \in Side /\ Other(Other(s)) = s /\ s # Other(s)
    /\ \A s, t \in Side : s = t \/ s = Other(t)
    /\ NoServer \notin Side
BY PointLogAssumption DEF Side, Other

\* The logged point
Scored(s) ==
    Point(s, board.game.server, Shown(board.game, "A", board.advantage),
          Shown(board.game, "B", board.advantage), board.game.tieBreak, board.advantage)

\* It ends a served game.
EndsGame(s) ==
    /\ ~board.game.tieBreak /\ board.game.server # NoServer
    /\ Ends(board.game.raw[s], board.game.raw[Other(s)], board.advantage)

LEMMA ShownIs ==
    ASSUME BoardSound, NEW s \in Side
    PROVE  /\ Shown(board.game, s, board.advantage) \in Nat
           /\ ~board.game.tieBreak =>
                Shown(board.game, s, board.advantage)
                    = Face(board.game.raw[s], board.game.raw[Other(s)], board.advantage)
<1>1. PICK x \in Nat, y \in Nat, tb \in BOOLEAN, adv \in BOOLEAN :
            /\ x = board.game.raw[s] /\ y = board.game.raw[Other(s)]
            /\ tb = board.game.tieBreak /\ adv = board.advantage
    BY Sides DEF BoardSound, Boards
<1>2. Shown(board.game, s, board.advantage) =
        IF tb \/ ~adv \/ x < 3 \/ y < 3 THEN x ELSE IF x > y THEN 4 ELSE 3
    BY <1>1 DEF Shown
<1> QED BY <1>1, <1>2 DEF Face

LEMMA PointScored ==
    ASSUME BoardSound, NEW s \in Side, NEW p, p = Scored(s)
    PROVE  /\ p \in Points /\ Told(p)
           /\ \A t \in Side : KeepsGame(p, t) <=> EndsGame(s) /\ board.game.server = t /\ s = t
           /\ \A t \in Side : LosesGame(p, t) <=> EndsGame(s) /\ board.game.server = t /\ s # t
<1>1. /\ board.game.server \in Side \cup {NoServer} /\ board.game.tieBreak \in BOOLEAN
      /\ board.advantage \in BOOLEAN /\ \A t \in Side : board.game.raw[t] \in Nat
    BY DEF BoardSound, Boards
<1>2. /\ p.side = s /\ p.server = board.game.server /\ p.tieBreak = board.game.tieBreak
      /\ p.advantage = board.advantage
      /\ \A t \in Side : p.score[t] = Shown(board.game, t, board.advantage)
    BY DEF Scored, Point, Side
<1>3. p \in Points
    <2>1. \A t \in Side : Shown(board.game, t, board.advantage) \in Nat
        BY ShownIs
    <2>2. p = [side |-> s, server |-> board.game.server,
               score |-> [t \in Side |-> Shown(board.game, t, board.advantage)],
               tieBreak |-> board.game.tieBreak, advantage |-> board.advantage]
        BY DEF Scored, Point, Side
    <2> QED BY <1>1, <2>1, <2>2 DEF Points
<1>4. ASSUME NEW t \in Side, ~board.game.tieBreak
      PROVE  LET x == board.game.raw[t]
                 y == board.game.raw[Other(t)]
                 X == p.score[t]
                 Y == p.score[Other(t)]
             IN  /\ PointWinsGame(X, Y, TRUE, p.advantage) <=> Ends(x, y, board.advantage)
                 /\ PointWinsGame(X, Y, FALSE, p.advantage) <=> Ends(y, x, board.advantage)
                 /\ IsBreakPoint(X, Y, p.advantage) <=> Ends(y, x, board.advantage)
    <2>1. PICK x \in Nat, y \in Nat, adv \in BOOLEAN :
            x = board.game.raw[t] /\ y = board.game.raw[Other(t)] /\ adv = board.advantage
        BY <1>1, Sides
    <2>2. Other(t) \in Side /\ Other(Other(t)) = t
        BY Sides
    <2>3. Runs(x, y, adv) /\ Runs(y, x, adv)
        BY <1>4, <2>1, <2>2 DEF BoardSound
    <2>4. p.score[t] = Face(x, y, adv) /\ p.score[Other(t)] = Face(y, x, adv)
        BY <1>2, <1>4, <2>1, <2>2, ShownIs
    <2>5. PICK X, Y : X = p.score[t] /\ Y = p.score[Other(t)]
        OBVIOUS
    <2>6. X = Face(x, y, adv) /\ Y = Face(y, x, adv)
        BY <2>4, <2>5
    <2>7. /\ PointWinsGame(X, Y, TRUE, adv) <=> Ends(x, y, adv)
          /\ PointWinsGame(X, Y, FALSE, adv) <=> Ends(y, x, adv)
          /\ IsBreakPoint(X, Y, adv) <=> Ends(y, x, adv)
        BY <2>3, <2>6, FaceTells
    <2> QED BY <1>2, <2>1, <2>5, <2>7
<1>5. Told(p)
    <2>1. p.side \in Side /\ p.server \in Side \cup {NoServer} /\ p.tieBreak \in BOOLEAN
        BY <1>1, <1>2
    <2>2. ASSUME p.server \in Side, ~p.tieBreak
          PROVE  IsBreakPoint(p.score[p.server], p.score[Other(p.server)], p.advantage)
                   <=> PointWinsGame(p.score[p.server], p.score[Other(p.server)], FALSE, p.advantage)
        <3>1. ~board.game.tieBreak
            BY <1>2, <2>2
        <3> QED BY <1>4, <2>2, <3>1
    <2> QED BY <2>1, <2>2 DEF Told
<1>6. ASSUME NEW t \in Side
      PROVE  /\ KeepsGame(p, t) <=> EndsGame(s) /\ board.game.server = t /\ s = t
             /\ LosesGame(p, t) <=> EndsGame(s) /\ board.game.server = t /\ s # t
    <2>1. CASE board.game.tieBreak
        BY <1>2, <2>1 DEF KeepsGame, LosesGame, EndsGame
    <2>2. CASE ~board.game.tieBreak
        <3>1. s = t <=> s # Other(t)
            BY Sides
        <3>2. t # NoServer /\ Other(Other(t)) = t
            BY Sides
        <3>3. /\ PointWinsGame(p.score[t], p.score[Other(t)], TRUE, p.advantage)
                    <=> Ends(board.game.raw[t], board.game.raw[Other(t)], board.advantage)
              /\ PointWinsGame(p.score[t], p.score[Other(t)], FALSE, p.advantage)
                    <=> Ends(board.game.raw[Other(t)], board.game.raw[t], board.advantage)
            BY <1>4, <2>2
        <3>4. KeepsGame(p, t) <=> EndsGame(s) /\ board.game.server = t /\ s = t
            BY <1>2, <2>2, <3>2, <3>3 DEF KeepsGame, EndsGame
        <3>5. LosesGame(p, t) <=> EndsGame(s) /\ board.game.server = t /\ s # t
            <4>1. CASE s = t
                BY <1>2, <3>1, <4>1 DEF LosesGame
            <4>2. CASE s = Other(t)
                BY <1>2, <2>2, <3>1, <3>2, <3>3, <4>2 DEF LosesGame, EndsGame
            <4> QED BY <4>1, <4>2, Sides
        <3> QED BY <3>4, <3>5
    <2> QED BY <2>1, <2>2
<1> QED BY <1>3, <1>5, <1>6

\* One point more
LEMMA CountGrows ==
    ASSUME NEW L \in Seq(Points), NEW p \in Points, NEW t
    PROVE  LET n == Len(L)
               M == Append(L, p)
           IN  /\ Cardinality(KeptIn(M, n + 1, t)) =
                      Cardinality(KeptIn(L, n, t)) + (IF KeepsGame(p, t) THEN 1 ELSE 0)
               /\ Cardinality(LostIn(M, n + 1, t)) =
                      Cardinality(LostIn(L, n, t)) + (IF LosesGame(p, t) THEN 1 ELSE 0)
               /\ Cardinality(KeptIn(L, n, t)) \in Nat /\ Cardinality(LostIn(L, n, t)) \in Nat
<1> DEFINE M == Append(L, p)
<1>1. PICK n \in Nat : n = Len(L)
    OBVIOUS
<1>2. (\A i \in 1 .. n : M[i] = L[i]) /\ M[n + 1] = p
    BY <1>1
<1>3. /\ \A i \in 1 .. n + 1 : i \in 1 .. n \/ i = n + 1
      /\ \A i \in 1 .. n : i \in 1 .. n + 1
      /\ n + 1 \in 1 .. n + 1 /\ n + 1 \notin 1 .. n
    BY <1>1
<1>4. IsFiniteSet(1 .. n)
    BY FS_Interval
<1> HIDE DEF M
<1>5. ASSUME NEW S, NEW T, S \subseteq 1 .. n, NEW b \in BOOLEAN,
             T = IF b THEN S \cup {n + 1} ELSE S
      PROVE  Cardinality(T) = Cardinality(S) + (IF b THEN 1 ELSE 0) /\ Cardinality(S) \in Nat
    <2>1. IsFiniteSet(S)
        BY <1>4, <1>5, FS_Subset
    <2>2. PICK k \in Nat : k = Cardinality(S)
        BY <2>1, FS_CardinalityType
    <2>3. n + 1 \notin S
        BY <1>3, <1>5
    <2>4. Cardinality(S \cup {n + 1}) = k + 1
        BY <2>1, <2>2, <2>3, OneMore
    <2>5. CASE b
        BY <1>5, <2>2, <2>4, <2>5
    <2>6. CASE ~b
        BY <1>5, <2>2, <2>6
    <2> QED BY <2>5, <2>6
<1>6. KeptIn(M, n + 1, t) = IF KeepsGame(p, t) THEN KeptIn(L, n, t) \cup {n + 1} ELSE KeptIn(L, n, t)
    BY <1>2, <1>3 DEF KeptIn
<1>7. LostIn(M, n + 1, t) = IF LosesGame(p, t) THEN LostIn(L, n, t) \cup {n + 1} ELSE LostIn(L, n, t)
    BY <1>2, <1>3 DEF LostIn
<1>8. KeptIn(L, n, t) \subseteq 1 .. n /\ LostIn(L, n, t) \subseteq 1 .. n
    BY DEF KeptIn, LostIn
<1>9. KeepsGame(p, t) \in BOOLEAN /\ LosesGame(p, t) \in BOOLEAN
    BY DEF KeepsGame, LosesGame
<1>10. /\ Cardinality(KeptIn(M, n + 1, t)) =
                      Cardinality(KeptIn(L, n, t)) + (IF KeepsGame(p, t) THEN 1 ELSE 0)
       /\ Cardinality(KeptIn(L, n, t)) \in Nat
    BY <1>5, <1>6, <1>8, <1>9
<1>11. /\ Cardinality(LostIn(M, n + 1, t)) =
                      Cardinality(LostIn(L, n, t)) + (IF LosesGame(p, t) THEN 1 ELSE 0)
       /\ Cardinality(LostIn(L, n, t)) \in Nat
    BY <1>5, <1>7, <1>8, <1>9
<1> QED BY <1>1, <1>10, <1>11 DEF M

LEMMA ScoreKeeps ==
    ASSUME BoardSound, NEW s \in Side, NEW nextTieBreak \in BOOLEAN, Score(s, nextTieBreak)
    PROVE  BoardSound'
<1> DEFINE g == board.game
           adv == board.advantage
           after == [g EXCEPT !.raw[s] = g.raw[s] + 1]
           over == Over(after, s, adv)
           counted == over /\ ~g.tieBreak /\ g.server # NoServer
           server == IF g.server = NoServer THEN NoServer ELSE Other(g.server)
           p == Scored(s)
<1>1. /\ g.server \in Side \cup {NoServer} /\ g.tieBreak \in BOOLEAN /\ g.raw \in [Side -> Nat]
      /\ adv \in BOOLEAN /\ board.kept \in [Side -> Nat] /\ board.lost \in [Side -> Nat]
      /\ g \in [server : Side \cup {NoServer}, tieBreak : BOOLEAN, raw : [Side -> Nat]]
    BY DEF BoardSound, Boards
<1>2. log' = Append(log, p) /\ log \in Seq(Points)
    BY DEF Score, Scored, BoardSound
<1> DEFINE G == IF over THEN Game(server, nextTieBreak) ELSE after
           k == IF counted /\ g.server = s THEN board.kept[s] + 1 ELSE board.kept[s]
           w == IF counted /\ g.server # s THEN board.lost[Other(s)] + 1 ELSE board.lost[Other(s)]
<1>3. board' = [board EXCEPT !.game = G, !.kept[s] = k, !.lost[Other(s)] = w]
    BY DEF Score
<1>4. /\ board' = [game |-> board'.game, advantage |-> adv, kept |-> board'.kept, lost |-> board'.lost]
      /\ board'.game = G
      /\ board'.kept = [board.kept EXCEPT ![s] = k]
      /\ board'.lost = [board.lost EXCEPT ![Other(s)] = w]
    <2>1. board = [game |-> board.game, advantage |-> board.advantage, kept |-> board.kept, lost |-> board.lost]
        BY DEF BoardSound, Boards
    <2>2. board' = [game |-> G, advantage |-> board.advantage,
                    kept |-> [board.kept EXCEPT ![s] = k], lost |-> [board.lost EXCEPT ![Other(s)] = w]]
        <3> HIDE DEF G, k, w
        <3> QED BY <1>3, <2>1
    <2> HIDE DEF G, k, w
    <2> QED BY <2>2
<1>5. /\ after.tieBreak = g.tieBreak /\ after.server = g.server
      /\ after.raw = [g.raw EXCEPT ![s] = g.raw[s] + 1]
      /\ after.raw[s] = g.raw[s] + 1 /\ after.raw[Other(s)] = g.raw[Other(s)]
      /\ after \in [server : Side \cup {NoServer}, tieBreak : BOOLEAN, raw : [Side -> Nat]]
    <2>1. Other(s) \in Side /\ Other(s) # s
        BY Sides
    <2>2. g.raw[s] + 1 \in Nat
        BY <1>1
    <2> QED BY <1>1, <2>1, <2>2
<1>6. ~g.tieBreak => (over <=> Ends(g.raw[s], g.raw[Other(s)], adv))
    <2>1. g.raw[s] \in Nat /\ g.raw[Other(s)] \in Nat
        BY <1>1, Sides
    <2> HIDE DEF after, g, adv
    <2> QED BY <1>5, <2>1 DEF Over, Ends
<1>7. over \in BOOLEAN /\ counted \in BOOLEAN
    BY DEF Over
<1> HIDE DEF over, after
<1>8. counted <=> EndsGame(s)
    BY <1>6 DEF EndsGame
<1> HIDE DEF counted
<1>9. server \in Side \cup {NoServer}
    BY <1>1, Sides
<1> HIDE DEF server
<1>10. Game(server, nextTieBreak) = [server |-> server, tieBreak |-> nextTieBreak, raw |-> Nought]
       /\ Nought \in [Side -> Nat] /\ \A t \in Side : Nought[t] = 0
    BY DEF Game, Nought
<1>11. /\ p \in Points /\ Told(p)
       /\ \A t \in Side : KeepsGame(p, t) <=> EndsGame(s) /\ g.server = t /\ s = t
       /\ \A t \in Side : LosesGame(p, t) <=> EndsGame(s) /\ g.server = t /\ s # t
    BY PointScored
<1> HIDE DEF p
<1>12. board' \in Boards
    <2>1. board'.game \in [server : Side \cup {NoServer}, tieBreak : BOOLEAN, raw : [Side -> Nat]]
        BY <1>4, <1>5, <1>9, <1>10
    <2>2. board'.kept \in [Side -> Nat] /\ board'.lost \in [Side -> Nat]
        <3>1. k \in Nat /\ w \in Nat
            BY <1>1, Sides
        <3> HIDE DEF k, w
        <3> QED BY <1>1, <1>4, <3>1, Sides
    <2> QED BY <1>1, <1>4, <2>1, <2>2 DEF Boards
<1>13. ASSUME ~board'.game.tieBreak, NEW t \in Side
       PROVE  Runs(board'.game.raw[t], board'.game.raw[Other(t)], board'.advantage)
    <2>0. Other(t) \in Side /\ board'.advantage = adv
        BY <1>4, Sides
    <2>1. CASE over
        <3>1. board'.game.raw[t] = 0 /\ board'.game.raw[Other(t)] = 0
            BY <1>4, <1>10, <2>0, <2>1
        <3> QED BY <3>1 DEF Runs
    <2>2. CASE ~over
        <3>1. board'.game = after /\ ~g.tieBreak
            BY <1>4, <1>5, <1>13, <2>2
        <3>2. PICK x \in Nat, y \in Nat : x = g.raw[s] /\ y = g.raw[Other(s)]
            BY <1>1, Sides
        <3>3. Runs(x, y, adv) /\ Runs(y, x, adv)
            BY <3>1, <3>2, Sides DEF BoardSound
        <3>4. ~Ends(x, y, adv)
            BY <1>6, <2>2, <3>1, <3>2
        <3>5. Runs(x + 1, y, adv) /\ Runs(y, x + 1, adv)
            BY <1>1, <3>3, <3>4, RunsOn
        <3>6. after.raw[s] = x + 1 /\ after.raw[Other(s)] = y
            BY <1>5, <3>2
        <3>7. t = s \/ (t = Other(s) /\ Other(t) = s)
            BY Sides
        <3> QED BY <2>0, <3>1, <3>5, <3>6, <3>7
    <2> QED BY <2>1, <2>2
<1>14. /\ Len(log') = Len(log) + 1 /\ Len(log) \in Nat /\ log' \in Seq(Points)
       /\ \A i \in 1 .. Len(log) : log'[i] = log[i]
       /\ log'[Len(log) + 1] = p
    BY <1>2, <1>11
<1>15. \A i \in 1 .. Len(log') : Told(log'[i])
    <2> SUFFICES ASSUME NEW i \in 1 .. Len(log') PROVE Told(log'[i])
        OBVIOUS
    <2>1. i \in 1 .. Len(log) \/ i = Len(log) + 1
        BY <1>14
    <2> QED BY <1>11, <1>14, <2>1 DEF BoardSound
<1>16. ASSUME NEW t \in Side
       PROVE  /\ board'.kept[t] = board.kept[t] + (IF KeepsGame(p, t) THEN 1 ELSE 0)
              /\ board'.lost[t] = board.lost[t] + (IF LosesGame(p, t) THEN 1 ELSE 0)
    <2>1. board.kept[t] \in Nat /\ board.lost[t] \in Nat
        BY <1>1
    <2>2. (KeepsGame(p, t) <=> counted /\ g.server = t /\ s = t) /\ (LosesGame(p, t) <=> counted /\ g.server = t /\ s # t)
        BY <1>8, <1>11
    <2>3. board'.kept[t] = IF counted /\ g.server = t /\ s = t THEN board.kept[t] + 1 ELSE board.kept[t]
        BY <1>1, <1>4
    <2>4. board'.lost[t] = IF counted /\ g.server = t /\ s # t THEN board.lost[t] + 1 ELSE board.lost[t]
        <3>1. counted => g.server \in Side
            BY <1>1 DEF counted
        <3>2. CASE t = Other(s)
            <4>1. board'.lost[t] = w /\ s # t
                BY <1>1, <1>4, <3>2, Sides
            <4>2. counted => (g.server # s <=> g.server = t)
                BY <3>1, <3>2, Sides
            <4> QED BY <3>2, <4>1, <4>2
        <3>3. CASE t = s
            <4>1. board'.lost[t] = board.lost[t]
                BY <1>1, <1>4, <3>3, Sides
            <4> QED BY <3>3, <4>1
        <3> QED BY <3>2, <3>3, Sides
    <2> QED BY <2>1, <2>2, <2>3, <2>4
<1>17. ASSUME NEW t \in Side
       PROVE  /\ board'.kept[t] = Cardinality(KeptIn(log', Len(log'), t))
              /\ board'.lost[t] = Cardinality(LostIn(log', Len(log'), t))
    <2>1. /\ board.kept[t] = Cardinality(KeptIn(log, Len(log), t))
          /\ board.lost[t] = Cardinality(LostIn(log, Len(log), t))
        BY DEF BoardSound
    <2>2. /\ Cardinality(KeptIn(log', Len(log'), t)) =
                Cardinality(KeptIn(log, Len(log), t)) + (IF KeepsGame(p, t) THEN 1 ELSE 0)
          /\ Cardinality(LostIn(log', Len(log'), t)) =
                Cardinality(LostIn(log, Len(log), t)) + (IF LosesGame(p, t) THEN 1 ELSE 0)
        BY <1>2, <1>11, <1>14, CountGrows
    <2> QED BY <1>16, <2>1, <2>2
<1> QED BY <1>12, <1>13, <1>14, <1>15, <1>17 DEF BoardSound, KeptIn, LostIn

\* Every point of a log is one side's.
LEMMA PointsCount ==
    ASSUME NEW m \in Nat, NEW K, DOMAIN K = 1 .. m, \A i \in 1 .. m : K[i].side \in Side
    PROVE  Total(Summarize(K).points) = m
<1> DEFINE A == {i \in 1 .. m : K[i].side = "A"}
           C == {i \in 1 .. m : K[i].side = "B"}
<1>1. Total(Summarize(K).points) = Cardinality(A) + Cardinality(C)
    BY DEF Summarize, Total, Side
<1>2. A \cup C = 1 .. m /\ A \cap C = {} /\ A \subseteq 1 .. m /\ C \subseteq 1 .. m
    BY DEF Side
<1>3. IsFiniteSet(1 .. m) /\ Cardinality(1 .. m) = m
    <2>1. 1 \in Int /\ m \in Int
        OBVIOUS
    <2>2. IsFiniteSet(1 .. m) /\ Cardinality(1 .. m) = IF 1 > m THEN 0 ELSE m - 1 + 1
        BY <2>1, FS_Interval
    <2> QED BY <2>2
<1> HIDE DEF A, C
<1>4. IsFiniteSet(A) /\ IsFiniteSet(C)
    BY <1>2, <1>3, FS_Subset
<1>5. Cardinality(A \cup C) = Cardinality(A) + Cardinality(C) - Cardinality(A \cap C)
    BY <1>4, FS_Union
<1>6. Cardinality(A) \in Nat /\ Cardinality(C) \in Nat /\ Cardinality({}) = 0
    BY <1>4, FS_CardinalityType, FS_EmptySet
<1>7. m = Cardinality(A) + Cardinality(C) - 0
    BY <1>2, <1>3, <1>5, <1>6
<1> QED BY <1>1, <1>6, <1>7

\* The points that are kept are the first of the log.
LEMMA FirstTell ==
    ASSUME BoardSound, NEW t \in Side,
           NEW m \in Nat, m <= Len(log), NEW K, \A i \in 1 .. m : K[i] = log[i]
    PROVE  /\ Cardinality(KeptIn(K, m, t)) <= board.kept[t]
           /\ Cardinality(LostIn(K, m, t)) <= board.lost[t]
           /\ m = Len(log) => /\ Cardinality(KeptIn(K, m, t)) = board.kept[t]
                              /\ Cardinality(LostIn(K, m, t)) = board.lost[t]
<1>1. PICK n \in Nat : n = Len(log) /\ m <= n
    BY DEF BoardSound
<1>2. KeptIn(K, m, t) = KeptIn(log, m, t) /\ LostIn(K, m, t) = LostIn(log, m, t)
    BY DEF KeptIn, LostIn
<1>3. KeptIn(log, m, t) \subseteq KeptIn(log, n, t) /\ LostIn(log, m, t) \subseteq LostIn(log, n, t)
    BY <1>1 DEF KeptIn, LostIn
<1>4. IsFiniteSet(KeptIn(log, n, t)) /\ IsFiniteSet(LostIn(log, n, t))
    <2>1. IsFiniteSet(1 .. n)
        BY FS_Interval
    <2>2. KeptIn(log, n, t) \subseteq 1 .. n /\ LostIn(log, n, t) \subseteq 1 .. n
        BY DEF KeptIn, LostIn
    <2> QED BY <2>1, <2>2, FS_Subset
<1>5. /\ Cardinality(KeptIn(log, m, t)) <= Cardinality(KeptIn(log, n, t))
      /\ Cardinality(LostIn(log, m, t)) <= Cardinality(LostIn(log, n, t))
    BY <1>3, <1>4, FS_Subset
<1>6. /\ board.kept[t] = Cardinality(KeptIn(log, n, t))
      /\ board.lost[t] = Cardinality(LostIn(log, n, t))
    BY <1>1 DEF BoardSound
<1> QED BY <1>1, <1>2, <1>5, <1>6

LEMMA PointsHold == LogInv => PointsTold
<1> SUFFICES ASSUME LogInv, made = "MATCH"
             PROVE  LET kept == CapPointLog(log)
                        told == Summarize(kept)
                    IN  /\ Total(told.points) = IF Len(log) < MaxPointLog THEN Len(log) ELSE MaxPointLog
                        /\ \A s \in Side :
                            /\ told.serveWon[s] <= board.kept[s]
                            /\ told.breakWon[s] <= board.lost[Other(s)]
                            /\ told.servePlayed[s] = told.serveWon[s] + told.breakWon[Other(s)]
                            /\ told.breakWon[s] <= told.breakFaced[s]
                        /\ Len(log) <= MaxPointLog =>
                            \A s \in Side :
                                told.serveWon[s] = board.kept[s] /\ told.breakWon[s] = board.lost[Other(s)]
    BY Zenon DEF PointsTold
<1>1. BoardSound
    BY DEF LogInv
<1>2. log \in Seq(Points) /\ \A i \in 1 .. Len(log) : Told(log[i]) /\ log[i].side \in Side
    BY <1>1 DEF BoardSound, Told
<1>3. PICK K : K = CapPointLog(log)
    OBVIOUS
<1>4. PICK m : m = KeptLength(log) /\ m \in Nat /\ m <= Len(log) /\ DOMAIN K = 1 .. m
               /\ \A i \in 1 .. m : K[i] = log[i]
    BY <1>2, <1>3, CapIs
<1>5. \A i \in 1 .. m : Told(K[i]) /\ K[i].side \in Side
    BY <1>2, <1>4
<1>6. Total(Summarize(K).points) = m
    BY <1>4, <1>5, PointsCount
<1>7. Len(log) <= MaxPointLog => m = Len(log)
    BY <1>2, <1>4, PointLogAssumption DEF KeptLength
<1>8. ASSUME NEW s \in Side
      PROVE  /\ Summarize(K).serveWon[s] <= board.kept[s]
             /\ Summarize(K).breakWon[s] <= board.lost[Other(s)]
             /\ Summarize(K).servePlayed[s] = Summarize(K).serveWon[s] + Summarize(K).breakWon[Other(s)]
             /\ Summarize(K).breakWon[s] <= Summarize(K).breakFaced[s]
             /\ m = Len(log) => /\ Summarize(K).serveWon[s] = board.kept[s]
                                /\ Summarize(K).breakWon[s] = board.lost[Other(s)]
    <2>1. Other(s) \in Side /\ Other(Other(s)) = s
        BY Sides
    <2>2. /\ Summarize(K).serveWon[s] = Cardinality(KeptIn(K, m, s))
          /\ Summarize(K).breakWon[s] = Cardinality(LostIn(K, m, Other(s)))
          /\ Summarize(K).servePlayed[s] =
                Cardinality(KeptIn(K, m, s)) + Cardinality(LostIn(K, m, s))
          /\ Summarize(K).breakWon[s] <= Summarize(K).breakFaced[s]
        BY <1>4, <1>5, FiguresAre
    <2>3. Summarize(K).breakWon[Other(s)] = Cardinality(LostIn(K, m, s))
        BY <1>4, <1>5, <2>1, FiguresAre
    <2>4. /\ Cardinality(KeptIn(K, m, s)) <= board.kept[s]
          /\ m = Len(log) => Cardinality(KeptIn(K, m, s)) = board.kept[s]
        BY <1>1, <1>4, FirstTell
    <2>5. /\ Cardinality(LostIn(K, m, Other(s))) <= board.lost[Other(s)]
          /\ m = Len(log) => Cardinality(LostIn(K, m, Other(s))) = board.lost[Other(s)]
        BY <1>1, <1>4, <2>1, FirstTell
    <2> QED BY <2>2, <2>3, <2>4, <2>5
<1> QED BY <1>3, <1>4, <1>6, <1>7, <1>8 DEF KeptLength

LEMMA MatchStarts ==
    ASSUME log = <<>>, NEW server \in Side \cup {NoServer}, NEW advantage \in BOOLEAN,
           NEW tieBreak \in BOOLEAN, StartMatch(server, advantage, tieBreak)
    PROVE  BoardSound'
<1>1. log' = <<>> /\ board' = [game |-> [server |-> server, tieBreak |-> tieBreak, raw |-> Nought],
                               advantage |-> advantage, kept |-> Nought, lost |-> Nought]
    BY DEF StartMatch, Game
<1>2. Nought \in [Side -> Nat] /\ \A s \in Side : Nought[s] = 0
    BY DEF Nought
<1>3. \A s \in Side : Runs(Nought[s], Nought[Other(s)], advantage)
    <2>1. \A s \in Side : Nought[s] = 0 /\ Nought[Other(s)] = 0
        BY <1>2, Sides
    <2> QED BY <2>1 DEF Runs
<1>4. \A t : KeptIn(<<>>, 0, t) = {} /\ LostIn(<<>>, 0, t) = {}
    BY DEF KeptIn, LostIn
<1>5. Cardinality({}) = 0
    BY FS_EmptySet
<1>6. Len(log') = 0 /\ log' \in Seq(Points)
    BY <1>1
<1>7. board' \in Boards
    BY <1>1, <1>2 DEF Boards
<1>8. \A s \in Side : /\ board'.kept[s] = Cardinality(KeptIn(log', Len(log'), s))
                      /\ board'.lost[s] = Cardinality(LostIn(log', Len(log'), s))
    BY <1>1, <1>2, <1>4, <1>5, <1>6
<1> HIDE DEF Boards
<1> QED BY <1>1, <1>3, <1>6, <1>7, <1>8 DEF BoardSound, KeptIn, LostIn

LEMMA LogInvariant == AllSpec => []LogInv
<1>1. AllInit => LogInv
    BY MatchAssumption DEF AllInit, DrawInit, LogInv
<1>2. LogInv /\ [AllNext]_allVars => LogInv'
    <2> SUFFICES ASSUME LogInv, [AllNext]_allVars PROVE LogInv'
        OBVIOUS
    <2>1. CASE UNCHANGED <<made, log, board>>
        <3>1. BoardSound' = BoardSound
            BY <2>1 DEF BoardSound, KeptIn, LostIn
        <3> QED BY <2>1, <3>1 DEF LogInv
    <2>2. CASE DrawNext /\ UNCHANGED <<log, board>>
        <3>1. CASE \E f \in Format : Draw(f)
            <4>1. made = None /\ made' \in Format
                BY <3>1 DEF Draw
            <4>2. made # "MATCH" /\ made' # "MATCH"
                BY <4>1, MatchAssumption DEF Format, Night
            <4> QED BY <2>2, <4>2 DEF LogInv
        <3>2. CASE \E m \in drawn, s \in Scores : \E x \in m.players : PlayMeeting(m, x, s)
            <4>1. made' = made
                BY <3>2 DEF PlayMeeting
            <4> QED BY <2>1, <2>2, <4>1
        <3>3. CASE \E round \in Results(drawn) : PlayRound(round)
            <4>1. made' = made
                BY <3>3 DEF PlayRound
            <4> QED BY <2>1, <2>2, <4>1
        <3> QED BY <2>2, <3>1, <3>2, <3>3 DEF DrawNext
    <2>3. CASE \E server \in Side \cup {NoServer}, advantage, tieBreak \in BOOLEAN :
                  StartMatch(server, advantage, tieBreak)
        <3>1. made = None /\ made' = "MATCH"
            BY <2>3 DEF StartMatch
        <3>2. log = <<>>
            BY <3>1, MatchAssumption DEF LogInv
        <3>3. BoardSound'
            BY <2>3, <3>2, MatchStarts
        <3> QED BY <3>1, <3>3 DEF LogInv
    <2>4. CASE \E s \in Side, nextTieBreak \in BOOLEAN : Score(s, nextTieBreak)
        <3>1. made = "MATCH" /\ made' = made
            BY <2>4 DEF Score, drawVars
        <3>2. BoardSound
            BY <3>1 DEF LogInv
        <3>3. BoardSound'
            BY <2>4, <3>2, ScoreKeeps
        <3> QED BY <3>1, <3>3 DEF LogInv
    <2>5. CASE UNCHANGED allVars
        BY <2>1, <2>5 DEF allVars, drawVars
    <2> QED BY <2>2, <2>3, <2>4, <2>5 DEF AllNext
<1> QED BY <1>1, <1>2, PTL DEF AllSpec

\* Of a match of any length, the figures count the points of the log that were
\* kept, never a game that was not played, and all served games if nothing was
\* cut (capPointLog, Summarize).
THEOREM MatchIsTold == AllSpec => []PointsTold
<1>1. LogInv => PointsTold
    BY PointsHold
<1> QED BY <1>1, LogInvariant, PTL

-----------------------------------------------------------------------------
(* Sums over finite sets *)

\* Of sets of subsets of a finite set, some are minimal.
LEMMA Smallest ==
    ASSUME NEW S, IsFiniteSet(S), NEW T, T \subseteq SUBSET S, T # {}
    PROVE  \E U \in T : \A V \in T : V \subseteq U => V = U
<1>1. T \subseteq FiniteSubsetsOf(S)
    BY FS_Subset DEF FiniteSubsetsOf
<1>2. IsWellFoundedOn(StrictSubsetOrdering(S), FiniteSubsetsOf(S))
    BY FS_StrictSubsetOrderingWellFounded
<1>3. IsWellFoundedOn(StrictSubsetOrdering(S), T)
    BY <1>1, <1>2, IsWellFoundedOnSubset
<1>4. PICK U \in T : \A V \in T : ~(<<V, U>> \in StrictSubsetOrdering(S))
    BY <1>3, WFMin
<1>5. ASSUME NEW V \in T, V \subseteq U PROVE V = U
    <2>1. V \in SUBSET S /\ U \in SUBSET S
        OBVIOUS
    <2>2. V # U => <<V, U>> \in StrictSubsetOrdering(S)
        BY <1>5, <2>1 DEF StrictSubsetOrdering
    <2> QED BY <1>4, <2>2
<1> QED BY <1>5

Pick(s) == CHOOSE x \in s : TRUE

LEMMA Picked ==
    ASSUME NEW s, s # {}
    PROVE  Pick(s) \in s
BY DEF Pick

\* One step of the fold: g holds the sums over the smaller sets
AddUp(f, g, s) == IF s = {} THEN 0 ELSE f[Pick(s)] + g[s \ {Pick(s)}]

Adds(f, g, S) == \A s \in SUBSET S : g[s] = AddUp(f, g, s)

\* The subsets with n elements at most
Layer(S, n) == {s \in SUBSET S : Cardinality(s) <= n}

LEMMA SumsUpTo ==
    ASSUME NEW S, IsFiniteSet(S), NEW f, \A x \in S : f[x] \in Int, NEW n \in Nat
    PROVE  \E g \in [Layer(S, n) -> Int] : \A s \in Layer(S, n) : g[s] = AddUp(f, g, s)
<1> DEFINE Good(i) == \E g \in [Layer(S, i) -> Int] : \A s \in Layer(S, i) : g[s] = AddUp(f, g, s)
           Bad == {i \in Nat : ~Good(i)}
<1>0. \A s \in SUBSET S : /\ IsFiniteSet(s) /\ Cardinality(s) \in Nat
                          /\ s # {} => /\ Pick(s) \in S
                                       /\ s \ {Pick(s)} \in SUBSET S
                                       /\ Cardinality(s \ {Pick(s)}) = Cardinality(s) - 1
    <2> TAKE s \in SUBSET S
    <2>1. IsFiniteSet(s) /\ Cardinality(s) \in Nat
        BY FS_Subset, FS_CardinalityType
    <2>2. s # {} => Cardinality(s \ {Pick(s)}) = Cardinality(s) - 1
        BY <2>1, Picked, FS_RemoveElement
    <2> QED BY <2>1, <2>2, Picked
<1>1. Bad = {}
    <2> SUFFICES ASSUME Bad # {} PROVE FALSE
        OBVIOUS
    <2>1. Bad \subseteq Nat
        OBVIOUS
    <2>2. PICK i \in Bad : \A j \in Bad : i <= j
        BY <2>1, Least
    <2>3. i \in Nat /\ ~Good(i)
        BY <2>2
    <2> HIDE DEF Bad
    <2>4. CASE i = 0
        <3> DEFINE g == [s \in Layer(S, 0) |-> 0]
        <3>1. \A s \in Layer(S, 0) : s = {}
            <4> TAKE s \in Layer(S, 0)
            <4>0. s \in SUBSET S /\ Cardinality(s) <= 0
                BY DEF Layer
            <4>1. IsFiniteSet(s) /\ Cardinality(s) \in Nat
                BY <1>0, <4>0
            <4>2. Cardinality(s) = 0
                BY <4>0, <4>1
            <4> QED BY <4>1, <4>2, FS_EmptySet
        <3>2. \A s \in Layer(S, 0) : g[s] = AddUp(f, g, s)
            BY <3>1 DEF AddUp
        <3>3. g \in [Layer(S, 0) -> Int]
            OBVIOUS
        <3> HIDE DEF g
        <3> QED BY <2>3, <2>4, <3>2, <3>3
    <2>5. CASE i # 0
        <3>1. PICK k \in Nat : i = k + 1
            <4>1. i - 1 \in Nat /\ i = (i - 1) + 1
                BY <2>3, <2>5
            <4> QED BY <4>1
        <3>2. Good(k)
            <4>1. ~(i <= k)
                BY <3>1
            <4>2. k \notin Bad
                BY <2>2, <4>1
            <4> HIDE DEF Good
            <4> QED BY <4>2 DEF Bad
        <3>3. PICK h \in [Layer(S, k) -> Int] : \A s \in Layer(S, k) : h[s] = AddUp(f, h, s)
            BY <3>2
        <3> DEFINE g == [s \in Layer(S, i) |-> IF s \in Layer(S, k) THEN h[s] ELSE AddUp(f, h, s)]
        <3>4. ASSUME NEW s \in Layer(S, i), s # {}
              PROVE  s \ {Pick(s)} \in Layer(S, k) /\ Pick(s) \in S
            <4>1. Cardinality(s) \in Nat /\ Cardinality(s \ {Pick(s)}) = Cardinality(s) - 1
                BY <1>0, <3>4 DEF Layer
            <4>2. Cardinality(s) <= k + 1
                BY <3>1 DEF Layer
            <4>3. Cardinality(s \ {Pick(s)}) <= k
                BY <4>1, <4>2
            <4> QED BY <1>0, <3>4, <4>3 DEF Layer
        <3>5. Layer(S, k) \subseteq Layer(S, i)
            <4> SUFFICES ASSUME NEW s \in SUBSET S, Cardinality(s) <= k PROVE Cardinality(s) <= i
                BY DEF Layer
            <4>1. Cardinality(s) \in Nat
                BY <1>0
            <4> QED BY <3>1, <4>1
        <3>6. \A s \in Layer(S, k) : g[s] = h[s]
            BY <3>5
        <3>7. \A s \in Layer(S, i) : AddUp(f, g, s) = AddUp(f, h, s)
            <4> TAKE s \in Layer(S, i)
            <4>1. CASE s = {}
                BY <4>1 DEF AddUp
            <4>2. CASE s # {}
                <5>1. g[s \ {Pick(s)}] = h[s \ {Pick(s)}]
                    BY <3>4, <3>6, <4>2
                <5> HIDE DEF g
                <5> QED BY <4>2, <5>1 DEF AddUp
            <4> QED BY <4>1, <4>2
        <3>8. \A s \in Layer(S, i) : g[s] = AddUp(f, g, s)
            <4> TAKE s \in Layer(S, i)
            <4>1. CASE s \in Layer(S, k)
                <5>1. g[s] = h[s] /\ h[s] = AddUp(f, h, s)
                    BY <3>3, <3>6, <4>1
                <5> HIDE DEF g
                <5> QED BY <3>7, <5>1
            <4>2. CASE s \notin Layer(S, k)
                <5>1. g[s] = AddUp(f, h, s)
                    BY <4>2
                <5> HIDE DEF g
                <5> QED BY <3>7, <5>1
            <4> QED BY <4>1, <4>2
        <3>9. \A s \in Layer(S, i) : AddUp(f, h, s) \in Int
            <4> TAKE s \in Layer(S, i)
            <4>1. s # {} => f[Pick(s)] \in Int /\ h[s \ {Pick(s)}] \in Int
                BY <3>4
            <4> QED BY <4>1 DEF AddUp
        <3>10. g \in [Layer(S, i) -> Int]
            BY <3>9
        <3> HIDE DEF g
        <3> QED BY <2>3, <3>8, <3>10
    <2> QED BY <2>4, <2>5
<1>2. Good(n)
    <2> HIDE DEF Good
    <2> QED BY <1>1
<1> QED BY <1>2

\* What SumOf folds to, and the sums over the subsets with it
LEMMA SumIsFold ==
    ASSUME NEW S, IsFiniteSet(S), NEW f, \A x \in S : f[x] \in Int
    PROVE  \E g \in [SUBSET S -> Int] : Adds(f, g, S) /\ SumOf(f, S) = g[S]
<1> DEFINE Sum(h, s) == IF s = {} THEN 0 ELSE f[Pick(s)] + h[s \ {Pick(s)}]
           F(h) == [s \in SUBSET S |-> Sum(h, s)]
           it == CHOOSE h : h = F(h)
<1>1. SumOf(f, S) = it[S]
    BY DEF SumOf, MapThenSumSet, MapThenFoldSet, Pick
<1>2. \A h, s : Sum(h, s) = AddUp(f, h, s)
    BY DEF AddUp
<1>3. PICK g \in [SUBSET S -> Int] : \A s \in SUBSET S : g[s] = AddUp(f, g, s)
    <2>1. PICK n \in Nat : n = Cardinality(S)
        BY FS_CardinalityType
    <2>2. \A s \in SUBSET S : Cardinality(s) <= n
        BY <2>1, FS_Subset
    <2>3. Layer(S, n) = SUBSET S
        BY <2>2 DEF Layer
    <2>4. \E g \in [Layer(S, n) -> Int] : \A s \in Layer(S, n) : g[s] = AddUp(f, g, s)
        BY SumsUpTo
    <2> QED BY <2>3, <2>4
<1> HIDE DEF Sum
<1>4. g = F(g)
    BY <1>2, <1>3
<1>5. it = F(it)
    BY <1>4
<1> HIDE DEF it
<1>6. \A s \in SUBSET S : it[s] = AddUp(f, it, s)
    BY <1>2, <1>5
<1>8. \A s \in SUBSET S : it[s] = g[s]
    <2> DEFINE Bad == {s \in SUBSET S : it[s] # g[s]}
    <2> SUFFICES ASSUME Bad # {} PROVE FALSE
        OBVIOUS
    <2>1. PICK U \in Bad : \A V \in Bad : V \subseteq U => V = U
        <3>1. Bad \subseteq SUBSET S
            OBVIOUS
        <3> HIDE DEF Bad
        <3> QED BY <3>1, Smallest
    <2>2. U \in SUBSET S /\ it[U] = AddUp(f, it, U) /\ g[U] = AddUp(f, g, U) /\ it[U] # g[U]
        BY <1>3, <1>6
    <2>3. CASE U = {}
        BY <2>2, <2>3 DEF AddUp
    <2>4. CASE U # {}
        <3>1. U \ {Pick(U)} \in SUBSET S /\ U \ {Pick(U)} # U
            BY <2>2, <2>4, Picked
        <3>2. it[U \ {Pick(U)}] = g[U \ {Pick(U)}]
            BY <2>1, <3>1
        <3> QED BY <2>2, <2>4, <3>2 DEF AddUp
    <2> QED BY <2>3, <2>4
<1>9. it = g
    <2>1. it = [s \in SUBSET S |-> it[s]]
        BY <1>5
    <2>2. g = [s \in SUBSET S |-> g[s]]
        OBVIOUS
    <2>3. [s \in SUBSET S |-> it[s]] = [s \in SUBSET S |-> g[s]]
        BY <1>8
    <2> HIDE DEF F
    <2> QED BY <2>1, <2>2, <2>3
<1> QED BY <1>1, <1>3, <1>9 DEF Adds

\* The same sums are found within any set that contains the summands.
LEMMA FoldsAgree ==
    ASSUME NEW S, IsFiniteSet(S), NEW R \in SUBSET S, NEW f, NEW g, NEW h,
           Adds(f, g, S), Adds(f, h, R)
    PROVE  g[R] = h[R]
<1> DEFINE Bad == {s \in SUBSET R : h[s] # g[s]}
<1> SUFFICES ASSUME Bad # {} PROVE FALSE
    OBVIOUS
<1>1. IsFiniteSet(R)
    BY FS_Subset
<1>2. PICK U \in Bad : \A V \in Bad : V \subseteq U => V = U
    <2>1. Bad \subseteq SUBSET R
        OBVIOUS
    <2> HIDE DEF Bad
    <2> QED BY <1>1, <2>1, Smallest
<1>3. U \in SUBSET R /\ h[U] = AddUp(f, h, U) /\ g[U] = AddUp(f, g, U) /\ h[U] # g[U]
    BY DEF Adds
<1>4. CASE U = {}
    BY <1>3, <1>4 DEF AddUp
<1>5. CASE U # {}
    <2>1. U \ {Pick(U)} \in SUBSET R /\ U \ {Pick(U)} # U
        BY <1>3, <1>5, Picked
    <2>2. h[U \ {Pick(U)}] = g[U \ {Pick(U)}]
        BY <1>2, <2>1
    <2> QED BY <1>3, <1>5, <2>2 DEF AddUp
<1> QED BY <1>4, <1>5

LEMMA SumStep ==
    ASSUME NEW S, IsFiniteSet(S), NEW f, \A x \in S : f[x] \in Int
    PROVE  /\ SumOf(f, S) \in Int
           /\ S = {} => SumOf(f, S) = 0
           /\ S # {} => SumOf(f, S) = f[Pick(S)] + SumOf(f, S \ {Pick(S)})
<1>1. PICK g \in [SUBSET S -> Int] : Adds(f, g, S) /\ SumOf(f, S) = g[S]
    BY SumIsFold
<1>2. S \in SUBSET S /\ SumOf(f, S) \in Int /\ g[S] = AddUp(f, g, S)
    BY <1>1 DEF Adds
<1>3. CASE S = {}
    BY <1>1, <1>2, <1>3 DEF AddUp
<1>4. CASE S # {}
    <2>1. PICK R \in SUBSET S : R = S \ {Pick(S)}
        OBVIOUS
    <2>2. IsFiniteSet(R) /\ \A x \in R : f[x] \in Int
        BY FS_Subset
    <2>3. PICK h \in [SUBSET R -> Int] : Adds(f, h, R) /\ SumOf(f, R) = h[R]
        BY <2>2, SumIsFold
    <2>4. g[R] = h[R]
        BY <1>1, <2>3, FoldsAgree
    <2>5. SumOf(f, S) = f[Pick(S)] + g[R]
        BY <1>1, <1>2, <1>4, <2>1 DEF AddUp
    <2> QED BY <1>2, <1>4, <2>1, <2>3, <2>4, <2>5
<1> QED BY <1>2, <1>3, <1>4

\* Any summand can be taken off.
LEMMA SumTake ==
    ASSUME NEW S, IsFiniteSet(S), NEW f, \A x \in S : f[x] \in Int, NEW x \in S
    PROVE  SumOf(f, S) = f[x] + SumOf(f, S \ {x})
<1> DEFINE Takes(s) == \A y \in s : SumOf(f, s) = f[y] + SumOf(f, s \ {y})
           Bad == {s \in SUBSET S : ~Takes(s)}
<1>1. Bad = {}
    <2> SUFFICES ASSUME Bad # {} PROVE FALSE
        OBVIOUS
    <2>1. PICK U \in Bad : \A V \in Bad : V \subseteq U => V = U
        <3>1. Bad \subseteq SUBSET S
            OBVIOUS
        <3> HIDE DEF Bad
        <3> QED BY <3>1, Smallest
    <2>2. PICK y \in U : SumOf(f, U) # f[y] + SumOf(f, U \ {y})
        OBVIOUS
    <2>3. U \in SUBSET S /\ U # {}
        BY <2>2
    <2>4. \A s \in SUBSET U : s # U => Takes(s)
        BY <2>1, <2>3
    <2> HIDE DEF Takes, Bad
    <2>5. PICK p \in U : p = Pick(U)
        BY <2>3, Picked
    <2>6. \A s \in SUBSET S : IsFiniteSet(s) /\ SumOf(f, s) \in Int
        BY FS_Subset, SumStep
    <2>7. SumOf(f, U) = f[p] + SumOf(f, U \ {p})
        BY <2>3, <2>5, <2>6, SumStep
    <2>8. p # y
        BY <2>2, <2>7
    <2>9. Takes(U \ {p}) /\ Takes(U \ {y}) /\ y \in U \ {p} /\ p \in U \ {y}
        BY <2>4, <2>8
    <2>10. SumOf(f, U \ {p}) = f[y] + SumOf(f, (U \ {p}) \ {y})
        BY <2>9 DEF Takes
    <2>11. SumOf(f, U \ {y}) = f[p] + SumOf(f, (U \ {y}) \ {p})
        BY <2>9 DEF Takes
    <2>12. PICK R \in SUBSET S : R = (U \ {p}) \ {y} /\ R = (U \ {y}) \ {p}
        BY <2>3
    <2>13. f[p] \in Int /\ f[y] \in Int /\ SumOf(f, R) \in Int
        BY <2>3, <2>6
    <2>14. SumOf(f, U) = f[p] + (f[y] + SumOf(f, R))
        BY <2>7, <2>10, <2>12
    <2>15. f[y] + SumOf(f, U \ {y}) = f[y] + (f[p] + SumOf(f, R))
        BY <2>11, <2>12
    <2>16. f[p] + (f[y] + SumOf(f, R)) = f[y] + (f[p] + SumOf(f, R))
        BY <2>13
    <2> QED BY <2>2, <2>14, <2>15, <2>16
<1>2. Takes(S)
    BY <1>1
<1> QED BY <1>2

\* Functions that agree on S have the same sum.
LEMMA SumSame ==
    ASSUME NEW S, IsFiniteSet(S), NEW f, NEW g, \A x \in S : f[x] \in Int /\ f[x] = g[x]
    PROVE  SumOf(f, S) = SumOf(g, S)
<1> DEFINE Bad == {s \in SUBSET S : SumOf(f, s) # SumOf(g, s)}
<1> SUFFICES ASSUME Bad # {} PROVE FALSE
    OBVIOUS
<1>1. PICK U \in Bad : \A V \in Bad : V \subseteq U => V = U
    <2>1. Bad \subseteq SUBSET S
        OBVIOUS
    <2> HIDE DEF Bad
    <2> QED BY <2>1, Smallest
<1>2. U \in SUBSET S /\ SumOf(f, U) # SumOf(g, U)
    OBVIOUS
<1>3. \A s \in SUBSET U : s # U => SumOf(f, s) = SumOf(g, s)
    BY <1>1, <1>2
<1> HIDE DEF Bad
<1>4. IsFiniteSet(U) /\ (\A x \in U : f[x] \in Int) /\ (\A x \in U : g[x] \in Int)
    BY <1>2, FS_Subset
<1>5. CASE U = {}
    <2>1. SumOf(f, U) = 0 /\ SumOf(g, U) = 0
        BY <1>4, <1>5, SumStep
    <2> QED BY <1>2, <2>1
<1>6. CASE U # {}
    <2>1. PICK x \in U : TRUE
        BY <1>6
    <2>2. SumOf(f, U) = f[x] + SumOf(f, U \ {x})
        BY <1>4, SumTake
    <2>3. SumOf(g, U) = g[x] + SumOf(g, U \ {x})
        BY <1>4, SumTake
    <2>4. SumOf(f, U \ {x}) = SumOf(g, U \ {x}) /\ f[x] = g[x]
        BY <1>2, <1>3
    <2> QED BY <1>2, <2>2, <2>3, <2>4
<1> QED BY <1>5, <1>6

\* f differs from g by d in one place.
Bumped(f, g, S, a, d) ==
    /\ \A x \in S : g[x] \in Int
    /\ \A x \in S \ {a} : f[x] = g[x]
    /\ f[a] = g[a] + d

LEMMA SumBump ==
    ASSUME NEW S, IsFiniteSet(S), NEW f, NEW g, NEW a \in S, NEW d \in Int, Bumped(f, g, S, a, d)
    PROVE  /\ SumOf(f, S) = SumOf(g, S) + d
           /\ \A x \in S : f[x] \in Int
<1>0. (\A x \in S : g[x] \in Int) /\ (\A x \in S \ {a} : f[x] = g[x]) /\ f[a] = g[a] + d
    BY DEF Bumped
<1>1. g[a] \in Int /\ f[a] \in Int
    BY <1>0
<1>2. \A x \in S : f[x] \in Int
    BY <1>0, <1>1
<1>3. PICK R \in SUBSET S : R = S \ {a}
    OBVIOUS
<1>4. IsFiniteSet(R) /\ \A x \in R : f[x] \in Int /\ f[x] = g[x]
    BY <1>0, <1>2, <1>3, FS_Subset
<1>5. SumOf(f, R) = SumOf(g, R)
    BY <1>4, SumSame
<1>6. SumOf(g, R) \in Int
    BY <1>4, SumStep
<1>7. SumOf(f, S) = f[a] + SumOf(f, R)
    BY <1>2, <1>3, SumTake
<1>8. SumOf(g, S) = g[a] + SumOf(g, R)
    BY <1>0, <1>3, SumTake
<1>9. PICK u \in Int, v \in Int : u = g[a] /\ v = SumOf(g, R)
    BY <1>1, <1>6
<1>10. (u + d) + v = (u + v) + d
    OBVIOUS
<1> QED BY <1>0, <1>2, <1>5, <1>7, <1>8, <1>9, <1>10

LEMMA SumLess ==
    ASSUME NEW S, IsFiniteSet(S), NEW f, NEW g, S # {},
           \A x \in S : f[x] \in Int /\ g[x] \in Int /\ f[x] < g[x]
    PROVE  SumOf(f, S) < SumOf(g, S)
<1> DEFINE Bad == {s \in SUBSET S : s # {} /\ ~(SumOf(f, s) < SumOf(g, s))}
<1> SUFFICES ASSUME Bad # {} PROVE FALSE
    OBVIOUS
<1>1. PICK U \in Bad : \A V \in Bad : V \subseteq U => V = U
    <2>1. Bad \subseteq SUBSET S
        OBVIOUS
    <2> HIDE DEF Bad
    <2> QED BY <2>1, Smallest
<1>2. U \in SUBSET S /\ U # {} /\ ~(SumOf(f, U) < SumOf(g, U))
    OBVIOUS
<1>3. \A s \in SUBSET U : s # U /\ s # {} => SumOf(f, s) < SumOf(g, s)
    BY <1>1, <1>2
<1> HIDE DEF Bad
<1>4. \A s \in SUBSET U : IsFiniteSet(s) /\ SumOf(f, s) \in Int /\ SumOf(g, s) \in Int
    <2> TAKE s \in SUBSET U
    <2>1. IsFiniteSet(s) /\ (\A x \in s : f[x] \in Int) /\ (\A x \in s : g[x] \in Int)
        BY <1>2, FS_Subset
    <2> QED BY <2>1, SumStep
<1>5. PICK x \in U : f[x] \in Int /\ g[x] \in Int /\ f[x] < g[x]
    BY <1>2
<1>6. IsFiniteSet(U) /\ (\A y \in U : f[y] \in Int) /\ (\A y \in U : g[y] \in Int)
    BY <1>2, FS_Subset
<1>7. SumOf(f, U) = f[x] + SumOf(f, U \ {x})
    BY <1>6, SumTake
<1>8. SumOf(g, U) = g[x] + SumOf(g, U \ {x})
    BY <1>6, SumTake
<1>9. PICK R \in SUBSET U : R = U \ {x} /\ R # U
    <2>1. U \ {x} \in SUBSET U /\ U \ {x} # U
        OBVIOUS
    <2> QED BY <2>1
<1>10. SumOf(f, R) \in Int /\ SumOf(g, R) \in Int
    BY <1>4
<1>11. CASE R = {}
    <2>1. IsFiniteSet(R) /\ (\A y \in R : f[y] \in Int) /\ (\A y \in R : g[y] \in Int)
        BY <1>4, <1>11
    <2>2. SumOf(f, R) = 0 /\ SumOf(g, R) = 0
        BY <1>11, <2>1, SumStep
    <2> QED BY <1>2, <1>5, <1>7, <1>8, <1>9, <2>2
<1>12. CASE R # {}
    <2>1. SumOf(f, R) < SumOf(g, R)
        BY <1>3, <1>9, <1>12
    <2> QED BY <1>2, <1>5, <1>7, <1>8, <1>9, <1>10, <2>1
<1> QED BY <1>11, <1>12

LEMMA ImageFinite ==
    ASSUME NEW S, IsFiniteSet(S), NEW p
    PROVE  IsFiniteSet({p[x] : x \in S})
<1> DEFINE f == [x \in S |-> p[x]]
           T == {p[x] : x \in S}
<1>1. f \in Surjection(S, T)
    BY DEF Surjection
<1> HIDE DEF f, T
<1>2. IsFiniteSet(T)
    BY <1>1, FS_Surjection
<1> QED BY <1>2 DEF T

\* The order of the summands does not matter.
Hit(p, S) == {p[x] : x \in S}

OneToOne(p, S, T) == p \in [S -> T] /\ \A x, y \in S : x # y => p[x] # p[y]

LEMMA SumMoved ==
    ASSUME NEW S, IsFiniteSet(S), NEW T, NEW p, NEW f, NEW h, OneToOne(p, S, T),
           \A y \in T : f[y] \in Int,
           \A x \in S : h[x] = f[p[x]]
    PROVE  SumOf(h, S) = SumOf(f, Hit(p, S))
<1> DEFINE To(s) == {p[x] : x \in s}
           Bad == {s \in SUBSET S : SumOf(h, s) # SumOf(f, To(s))}
<1>0. p \in [S -> T] /\ (\A x, y \in S : x # y => p[x] # p[y])
    BY DEF OneToOne
<1>1. Bad = {}
    <2> SUFFICES ASSUME Bad # {} PROVE FALSE
        OBVIOUS
    <2>1. PICK U \in Bad : \A V \in Bad : V \subseteq U => V = U
        <3>1. Bad \subseteq SUBSET S
            OBVIOUS
        <3> HIDE DEF Bad
        <3> QED BY <3>1, Smallest
    <2>2. U \in SUBSET S /\ SumOf(h, U) # SumOf(f, To(U))
        OBVIOUS
    <2> HIDE DEF To
    <2>3. \A s \in SUBSET U : s # U => SumOf(h, s) = SumOf(f, To(s))
        BY <2>1, <2>2
    <2> HIDE DEF Bad
    <2>4. IsFiniteSet(U) /\ (\A x \in U : h[x] \in Int)
        BY <1>0, <2>2, FS_Subset
    <2>5. IsFiniteSet(To(U)) /\ (\A y \in To(U) : f[y] \in Int)
        <3>1. p \in [S -> T] /\ \A x \in U : p[x] \in T
            BY <1>0, <2>2
        <3>2. IsFiniteSet(To(U))
            BY <2>4, ImageFinite DEF To
        <3> QED BY <3>1, <3>2 DEF To
    <2>6. CASE U = {}
        <3>1. To(U) = {}
            BY <2>6 DEF To
        <3>2. SumOf(h, U) = 0 /\ SumOf(f, To(U)) = 0
            BY <2>4, <2>5, <2>6, <3>1, SumStep
        <3> QED BY <2>2, <3>2
    <2>7. CASE U # {}
        <3>1. PICK x \in U : TRUE
            BY <2>7
        <3>2. p[x] \in To(U) /\ h[x] = f[p[x]]
            BY <2>2 DEF To
        <3>3. To(U) \ {p[x]} = To(U \ {x})
            BY <1>0, <2>2, <3>1 DEF To
        <3>4. SumOf(h, U) = h[x] + SumOf(h, U \ {x})
            BY <2>4, SumTake
        <3>5. SumOf(f, To(U)) = f[p[x]] + SumOf(f, To(U) \ {p[x]})
            BY <2>5, <3>2, SumTake
        <3>6. SumOf(h, U \ {x}) = SumOf(f, To(U \ {x}))
            BY <2>3, <3>1
        <3> QED BY <2>2, <3>2, <3>3, <3>4, <3>5, <3>6
    <2> QED BY <2>6, <2>7
<1>2. S \in SUBSET S
    OBVIOUS
<1>3. To(S) = Hit(p, S)
    BY DEF Hit
<1> HIDE DEF To
<1> QED BY <1>1, <1>2, <1>3

-----------------------------------------------------------------------------
(* The table of a round robin *)

\* m was played by a and b, and a won it.
Beat(m, a, b) ==
    /\ a # b /\ m.players = {a, b} /\ m.winner = a
    /\ m.games[a] \in Int /\ m.games[b] \in Int

\* Results of a round robin among P
League(P, R) ==
    /\ IsFiniteSet(R)
    /\ \A m \in R : \E a, b \in P : Beat(m, a, b)
    /\ \A m, k \in R : m # k => m.players # k.players

Own(R, x) == {m \in R : x \in m.players}

WonBy(R, x) == {m \in Own(R, x) : m.winner = x}

Margin(m, x) == m.games[x] - m.games[CHOOSE y \in m.players : y # x]

Margins(R, x) == [m \in Own(R, x) |-> Margin(m, x)]

LEMMA RowIs ==
    ASSUME NEW R, NEW x
    PROVE  /\ LeagueRow(R, x).participant = x
           /\ LeagueRow(R, x).won = Cardinality(WonBy(R, x))
           /\ LeagueRow(R, x).lost = Cardinality(Own(R, x) \ WonBy(R, x))
           /\ LeagueRow(R, x).diff = SumOf(Margins(R, x), Own(R, x))
BY DEF LeagueRow, Own, WonBy, Margins, Margin

LEMMA MarginIs ==
    ASSUME NEW m, NEW a, NEW b, Beat(m, a, b)
    PROVE  /\ Margin(m, a) = m.games[a] - m.games[b] /\ Margin(m, a) \in Int
           /\ Margin(m, b) = m.games[b] - m.games[a] /\ Margin(m, b) \in Int
           /\ Margin(m, b) = -Margin(m, a)
<1>1. (CHOOSE y \in m.players : y # a) = b
    BY DEF Beat
<1>2. (CHOOSE y \in m.players : y # b) = a
    BY DEF Beat
<1>3. m.games[a] \in Int /\ m.games[b] \in Int
    BY DEF Beat
<1>4. Margin(m, a) = m.games[a] - m.games[b] /\ Margin(m, b) = m.games[b] - m.games[a]
    BY <1>1, <1>2 DEF Margin
<1> QED BY <1>3, <1>4

LEMMA RowTypes ==
    ASSUME NEW P, NEW R, League(P, R), NEW x
    PROVE  /\ IsFiniteSet(Own(R, x)) /\ IsFiniteSet(WonBy(R, x))
           /\ \A m \in Own(R, x) : Margin(m, x) \in Int
           /\ LeagueRow(R, x).won \in Nat /\ LeagueRow(R, x).lost \in Nat
           /\ LeagueRow(R, x).diff \in Int
<1>1. Own(R, x) \subseteq R /\ WonBy(R, x) \subseteq R /\ Own(R, x) \ WonBy(R, x) \subseteq R
    BY DEF Own, WonBy
<1>2. /\ IsFiniteSet(Own(R, x)) /\ IsFiniteSet(WonBy(R, x))
      /\ IsFiniteSet(Own(R, x) \ WonBy(R, x))
    BY <1>1, FS_Subset DEF League
<1>3. ASSUME NEW m \in Own(R, x) PROVE Margin(m, x) \in Int
    <2>1. PICK a, b \in P : Beat(m, a, b)
        BY <1>1 DEF League
    <2>2. x = a \/ x = b
        BY <2>1 DEF Own, Beat
    <2> QED BY <2>1, <2>2, MarginIs
<1>4. \A m \in Own(R, x) : Margins(R, x)[m] \in Int
    BY <1>3 DEF Margins
<1>5. SumOf(Margins(R, x), Own(R, x)) \in Int
    BY <1>2, <1>4, SumStep
<1> QED BY <1>2, <1>3, <1>5, RowIs, FS_CardinalityType

LEMMA SubLeague ==
    ASSUME NEW P, NEW R, League(P, R), NEW C \in SUBSET R
    PROVE  League(P, C)
<1>1. IsFiniteSet(C)
    BY FS_Subset DEF League
<1> QED BY <1>1 DEF League

WonColumn(P, R) == [x \in P |-> LeagueRow(R, x).won]

LostColumn(P, R) == [x \in P |-> LeagueRow(R, x).lost]

DiffColumn(P, R) == [x \in P |-> LeagueRow(R, x).diff]

\* One more result changes the rows of its two players.
LEMMA RowGrows ==
    ASSUME NEW P, NEW R, League(P, R), NEW m \in R, NEW a \in P, NEW b \in P, Beat(m, a, b),
           NEW C, C = R \ {m}
    PROVE  /\ Bumped(WonColumn(P, R), WonColumn(P, C), P, a, 1)
           /\ Bumped(LostColumn(P, R), LostColumn(P, C), P, b, 1)
           /\ \E h : /\ Bumped(h, DiffColumn(P, C), P, a, Margin(m, a))
                    /\ Bumped(DiffColumn(P, R), h, P, b, -Margin(m, a))
<1> DEFINE Lost(S, x) == Own(S, x) \ WonBy(S, x)
<1>0. a # b /\ m.players = {a, b} /\ m.winner = a /\ League(P, C)
    BY SubLeague DEF Beat
<1>1. \A x \in P \ {a, b} : Own(R, x) = Own(C, x)
    BY <1>0 DEF Own
<1>2. \A x \in P \ {a} : WonBy(R, x) = WonBy(C, x)
    BY <1>0 DEF Own, WonBy
<1>3. \A x \in P \ {b} : Lost(R, x) = Lost(C, x)
    BY <1>0 DEF Own, WonBy
<1>4. \A x \in {a, b} : Own(C, x) = Own(R, x) \ {m} /\ m \in Own(R, x)
    BY <1>0 DEF Own
<1>5. WonBy(R, a) = WonBy(C, a) \cup {m} /\ m \notin WonBy(C, a)
    BY <1>0 DEF Own, WonBy
<1>6. Lost(R, b) = Lost(C, b) \cup {m} /\ m \notin Lost(C, b)
    BY <1>0 DEF Own, WonBy
<1>7. \A x : /\ IsFiniteSet(WonBy(C, x)) /\ IsFiniteSet(Lost(C, x))
             /\ Cardinality(WonBy(C, x)) \in Nat /\ Cardinality(Lost(C, x)) \in Nat
    <2> TAKE x
    <2>1. IsFiniteSet(Own(C, x)) /\ IsFiniteSet(WonBy(C, x))
        BY <1>0, RowTypes
    <2>2. IsFiniteSet(Lost(C, x))
        BY <2>1, FS_Difference
    <2> HIDE DEF Lost
    <2> QED BY <2>1, <2>2, FS_CardinalityType
<1>8. Cardinality(WonBy(R, a)) = Cardinality(WonBy(C, a)) + 1
    BY <1>5, <1>7, FS_AddElement
<1>9. Cardinality(Lost(R, b)) = Cardinality(Lost(C, b)) + 1
    <2> HIDE DEF Lost
    <2> QED BY <1>6, <1>7, FS_AddElement
<1>10. ASSUME NEW x \in {a, b}
       PROVE  SumOf(Margins(R, x), Own(R, x)) = Margin(m, x) + SumOf(Margins(C, x), Own(C, x))
    <2>1. IsFiniteSet(Own(R, x)) /\ \A k \in Own(R, x) : Margins(R, x)[k] = Margin(k, x) /\ Margin(k, x) \in Int
        BY RowTypes DEF Margins
    <2>2. SumOf(Margins(R, x), Own(R, x)) = Margins(R, x)[m] + SumOf(Margins(R, x), Own(R, x) \ {m})
        BY <1>4, <2>1, SumTake
    <2>3. IsFiniteSet(Own(C, x)) /\ Own(C, x) \subseteq Own(R, x)
        BY <1>4, <2>1, FS_Subset
    <2>4. \A k \in Own(C, x) : Margins(R, x)[k] \in Int /\ Margins(R, x)[k] = Margins(C, x)[k]
        BY <2>1, <2>3 DEF Margins
    <2>5. SumOf(Margins(R, x), Own(C, x)) = SumOf(Margins(C, x), Own(C, x))
        BY <2>3, <2>4, SumSame
    <2> QED BY <1>4, <2>1, <2>2, <2>5
<1>11. \A x \in P \ {a, b} : Margins(R, x) = Margins(C, x)
    BY <1>1 DEF Margins
<1>12. Margin(m, a) \in Int /\ Margin(m, b) = -Margin(m, a)
    BY MarginIs
<1>13. \A x : LeagueRow(C, x).diff \in Int
    BY <1>0, RowTypes
<1>14. \A x : /\ LeagueRow(R, x).diff = SumOf(Margins(R, x), Own(R, x))
              /\ LeagueRow(C, x).diff = SumOf(Margins(C, x), Own(C, x))
              /\ LeagueRow(R, x).won = Cardinality(WonBy(R, x))
              /\ LeagueRow(C, x).won = Cardinality(WonBy(C, x))
              /\ LeagueRow(R, x).lost = Cardinality(Lost(R, x))
              /\ LeagueRow(C, x).lost = Cardinality(Lost(C, x))
    <2> TAKE x
    <2> QED BY RowIs
<1> HIDE DEF Lost
<1>15. /\ LeagueRow(R, a).diff = Margin(m, a) + LeagueRow(C, a).diff
       /\ LeagueRow(R, b).diff = Margin(m, b) + LeagueRow(C, b).diff
    BY <1>10, <1>14
<1>16. /\ LeagueRow(R, a).diff = LeagueRow(C, a).diff + Margin(m, a)
       /\ LeagueRow(R, b).diff = LeagueRow(C, b).diff - Margin(m, a)
    <2>1. PICK u \in Int, v \in Int, w \in Int :
            u = LeagueRow(C, a).diff /\ v = LeagueRow(C, b).diff /\ w = Margin(m, a)
        BY <1>12, <1>13
    <2>2. -w + v = v - w /\ w + u = u + w
        OBVIOUS
    <2> QED BY <1>12, <1>15, <2>1, <2>2
<1>17. \A x \in P \ {a, b} : LeagueRow(R, x).diff = LeagueRow(C, x).diff
    BY <1>1, <1>11, <1>14
<1>18. /\ \A x \in P \ {a} : LeagueRow(R, x).won = LeagueRow(C, x).won
       /\ LeagueRow(R, a).won = LeagueRow(C, a).won + 1
    BY <1>2, <1>8, <1>14
<1>19. /\ \A x \in P \ {b} : LeagueRow(R, x).lost = LeagueRow(C, x).lost
       /\ LeagueRow(R, b).lost = LeagueRow(C, b).lost + 1
    BY <1>3, <1>9, <1>14
<1>20. \A x : LeagueRow(C, x).won \in Int /\ LeagueRow(C, x).lost \in Int /\ LeagueRow(C, x).diff \in Int
    <2> TAKE x
    <2>1. LeagueRow(C, x).won \in Nat /\ LeagueRow(C, x).lost \in Nat /\ LeagueRow(C, x).diff \in Int
        BY <1>0, RowTypes
    <2> QED BY <2>1
<1>21. Bumped(WonColumn(P, R), WonColumn(P, C), P, a, 1)
    <2> DEFINE f == WonColumn(P, R)
               g == WonColumn(P, C)
    <2>1. \A x \in P : f[x] = LeagueRow(R, x).won /\ g[x] = LeagueRow(C, x).won
        BY DEF WonColumn
    <2> HIDE DEF f, g
    <2>2. Bumped(f, g, P, a, 1)
        BY <1>18, <1>20, <2>1 DEF Bumped
    <2> QED BY <2>2 DEF f, g
<1>22. Bumped(LostColumn(P, R), LostColumn(P, C), P, b, 1)
    <2> DEFINE f == LostColumn(P, R)
               g == LostColumn(P, C)
    <2>1. \A x \in P : f[x] = LeagueRow(R, x).lost /\ g[x] = LeagueRow(C, x).lost
        BY DEF LostColumn
    <2> HIDE DEF f, g
    <2>2. Bumped(f, g, P, b, 1)
        BY <1>19, <1>20, <2>1 DEF Bumped
    <2> QED BY <2>2 DEF f, g
<1>23. \E h : /\ Bumped(h, DiffColumn(P, C), P, a, Margin(m, a))
             /\ Bumped(DiffColumn(P, R), h, P, b, -Margin(m, a))
    <2> DEFINE f == DiffColumn(P, R)
               g == DiffColumn(P, C)
               d == Margin(m, a)
               h == [x \in P |-> IF x = a THEN g[a] + d ELSE g[x]]
    <2>1. \A x \in P : f[x] = LeagueRow(R, x).diff /\ g[x] = LeagueRow(C, x).diff
        BY DEF DiffColumn
    <2>2. (\A x \in P \ {a} : h[x] = g[x]) /\ h[a] = g[a] + d
        OBVIOUS
    <2>3. d \in Int
        BY <1>12
    <2> HIDE DEF f, g, h, d
    <2>4. \A x \in P : g[x] \in Int
        BY <1>20, <2>1
    <2>5. \A x \in P : h[x] \in Int
        <3>1. g[a] + d \in Int
            BY <2>3, <2>4
        <3> QED BY <2>2, <2>4, <3>1
    <2>6. Bumped(h, g, P, a, d)
        BY <2>2, <2>4 DEF Bumped
    <2>7. \A x \in P \ {b} : f[x] = h[x]
        <3>1. f[a] = g[a] + d
            BY <1>16, <2>1 DEF d
        <3>2. \A x \in P \ {a, b} : f[x] = g[x]
            BY <1>17, <2>1
        <3> QED BY <2>2, <3>1, <3>2
    <2>8. f[b] = h[b] + (-d)
        <3>1. f[b] = g[b] - d /\ h[b] = g[b] /\ g[b] \in Int
            BY <1>0, <1>16, <2>1, <2>2, <2>4 DEF d
        <3> QED BY <2>3, <3>1
    <2>9. Bumped(f, h, P, b, -d)
        BY <2>5, <2>7, <2>8 DEF Bumped
    <2> QED BY <2>6, <2>9 DEF f, g, d
<1> QED BY <1>21, <1>22, <1>23

LEMMA SumZero ==
    ASSUME NEW S, IsFiniteSet(S), NEW f, \A x \in S : f[x] = 0
    PROVE  SumOf(f, S) = 0
<1> DEFINE Bad == {s \in SUBSET S : SumOf(f, s) # 0}
<1> SUFFICES ASSUME Bad # {} PROVE FALSE
    OBVIOUS
<1>1. PICK U \in Bad : \A V \in Bad : V \subseteq U => V = U
    <2>1. Bad \subseteq SUBSET S
        OBVIOUS
    <2> HIDE DEF Bad
    <2> QED BY <2>1, Smallest
<1>2. U \in SUBSET S /\ SumOf(f, U) # 0
    OBVIOUS
<1>3. \A s \in SUBSET U : s # U => SumOf(f, s) = 0
    BY <1>1, <1>2
<1> HIDE DEF Bad
<1>4. IsFiniteSet(U) /\ \A x \in U : f[x] \in Int /\ f[x] = 0
    BY <1>2, FS_Subset
<1>5. CASE U = {}
    BY <1>2, <1>4, <1>5, SumStep
<1>6. CASE U # {}
    <2>1. PICK x \in U : f[x] = 0
        BY <1>4, <1>6
    <2>2. SumOf(f, U) = f[x] + SumOf(f, U \ {x})
        BY <1>4, SumTake
    <2>3. SumOf(f, U \ {x}) = 0
        BY <1>3
    <2> QED BY <1>2, <2>1, <2>2, <2>3
<1> QED BY <1>5, <1>6

ColumnsMatch(P, R) ==
    /\ SumOf(WonColumn(P, R), P) = Cardinality(R)
    /\ SumOf(LostColumn(P, R), P) = Cardinality(R)
    /\ SumOf(DiffColumn(P, R), P) = 0

LEMMA NoResults ==
    ASSUME NEW P, IsFiniteSet(P)
    PROVE  ColumnsMatch(P, {})
<1>1. ASSUME NEW x
      PROVE  LeagueRow({}, x).won = 0 /\ LeagueRow({}, x).lost = 0 /\ LeagueRow({}, x).diff = 0
    <2>1. Own({}, x) = {} /\ WonBy({}, x) = {} /\ Own({}, x) \ WonBy({}, x) = {}
        BY DEF Own, WonBy
    <2>2. SumOf(Margins({}, x), {}) = 0
        BY SumStep, FS_EmptySet
    <2> QED BY <2>1, <2>2, RowIs, FS_EmptySet
<1>2. SumOf(WonColumn(P, {}), P) = 0
    BY <1>1, SumZero DEF WonColumn
<1>3. SumOf(LostColumn(P, {}), P) = 0
    BY <1>1, SumZero DEF LostColumn
<1>4. SumOf(DiffColumn(P, {}), P) = 0
    BY <1>1, SumZero DEF DiffColumn
<1> QED BY <1>2, <1>3, <1>4, FS_EmptySet DEF ColumnsMatch

\* One more result keeps the columns balanced.
LEMMA ColumnsMatchStill ==
    ASSUME NEW P, IsFiniteSet(P), NEW R, League(P, R), NEW m \in R,
           NEW a \in P, NEW b \in P, Beat(m, a, b),
           NEW C, C = R \ {m}, ColumnsMatch(P, C)
    PROVE  ColumnsMatch(P, R)
<1>1. /\ Bumped(WonColumn(P, R), WonColumn(P, C), P, a, 1)
      /\ Bumped(LostColumn(P, R), LostColumn(P, C), P, b, 1)
      /\ \E h : /\ Bumped(h, DiffColumn(P, C), P, a, Margin(m, a))
               /\ Bumped(DiffColumn(P, R), h, P, b, -Margin(m, a))
    BY RowGrows, Zenon
<1>2. Cardinality(C) \in Nat /\ Cardinality(R) = Cardinality(C) + 1
    <2>1. IsFiniteSet(C)
        BY FS_Subset DEF League
    <2>2. R = C \cup {m} /\ m \notin C
        OBVIOUS
    <2>3. Cardinality(C) \in Nat
        BY <2>1, FS_CardinalityType
    <2> QED BY <2>1, <2>2, <2>3, FS_AddElement
<1>3. PICK d \in Int, e \in Int : d = Margin(m, a) /\ e = -d /\ (\A u \in Int : (u + d) + e = u)
    <2>1. PICK d \in Int : d = Margin(m, a)
        BY MarginIs
    <2>2. -d \in Int /\ (\A u \in Int : (u + d) + (-d) = u)
        OBVIOUS
    <2> QED BY <2>1, <2>2
<1>4. SumOf(WonColumn(P, R), P) = SumOf(WonColumn(P, C), P) + 1
    <2>1. Bumped(WonColumn(P, R), WonColumn(P, C), P, a, 1) /\ 1 \in Int
        BY <1>1
    <2> QED BY <2>1, SumBump
<1>5. SumOf(LostColumn(P, R), P) = SumOf(LostColumn(P, C), P) + 1
    <2>1. Bumped(LostColumn(P, R), LostColumn(P, C), P, b, 1) /\ 1 \in Int
        BY <1>1
    <2> QED BY <2>1, SumBump
<1>6. PICK h : Bumped(h, DiffColumn(P, C), P, a, d) /\ Bumped(DiffColumn(P, R), h, P, b, e)
    BY <1>1, <1>3
<1>7. SumOf(h, P) = SumOf(DiffColumn(P, C), P) + d
    <2>1. Bumped(h, DiffColumn(P, C), P, a, d)
        BY <1>6
    <2> QED BY <2>1, SumBump
<1>8. SumOf(DiffColumn(P, R), P) = SumOf(h, P) + e
    <2>1. Bumped(DiffColumn(P, R), h, P, b, e)
        BY <1>6
    <2> QED BY <2>1, SumBump, ZenonT(20)
<1>9. SumOf(DiffColumn(P, C), P) = 0 /\ 0 \in Int
    BY DEF ColumnsMatch
<1>10. SumOf(DiffColumn(P, R), P) = 0
    <2>1. SumOf(DiffColumn(P, R), P) = (0 + d) + e
        BY <1>7, <1>8, <1>9
    <2> QED BY <1>3, <2>1
<1> QED BY <1>2, <1>4, <1>5, <1>10 DEF ColumnsMatch

LEMMA Totals ==
    ASSUME NEW P, IsFiniteSet(P), NEW R, League(P, R)
    PROVE  ColumnsMatch(P, R)
<1> DEFINE Bad == {s \in SUBSET R : ~ColumnsMatch(P, s)}
<1>1. Bad = {}
    <2> SUFFICES ASSUME Bad # {} PROVE FALSE
        OBVIOUS
    <2>1. IsFiniteSet(R) /\ Bad \subseteq SUBSET R
        BY DEF League
    <2>2. PICK U \in Bad : \A V \in Bad : V \subseteq U => V = U
        <3> HIDE DEF Bad
        <3> QED BY <2>1, Smallest
    <2>3. U \in SUBSET R /\ ~ColumnsMatch(P, U)
        OBVIOUS
    <2>4. \A s \in SUBSET U : s # U => ColumnsMatch(P, s)
        BY <2>2, <2>3
    <2> HIDE DEF Bad
    <2>5. League(P, U)
        BY <2>3, SubLeague
    <2>6. CASE U = {}
        BY <2>3, <2>6, NoResults
    <2>7. CASE U # {}
        <3>1. PICK m \in U : \E a, b \in P : Beat(m, a, b)
            BY <2>5, <2>7 DEF League
        <3>2. PICK a \in P, b \in P : Beat(m, a, b)
            BY <3>1
        <3>3. PICK C : C = U \ {m}
            OBVIOUS
        <3>4. ColumnsMatch(P, C)
            BY <2>4, <3>3
        <3>5. ColumnsMatch(P, U)
            BY <2>5, <3>2, <3>3, <3>4, ColumnsMatchStill
        <3> QED BY <2>3, <3>5
    <2> QED BY <2>6, <2>7
<1>2. R \in SUBSET R
    OBVIOUS
<1> QED BY <1>1, <1>2

Opponent(m, x) == CHOOSE y \in m.players : y # x

LEMMA OpponentIs ==
    ASSUME NEW P, NEW R, League(P, R), NEW x
    PROVE  /\ \A m \in Own(R, x) : /\ Opponent(m, x) \in P \ {x}
                                   /\ m.players = {x, Opponent(m, x)}
           /\ \A m, k \in Own(R, x) : m # k => Opponent(m, x) # Opponent(k, x)
<1>1. ASSUME NEW m \in Own(R, x)
      PROVE  m \in R /\ Opponent(m, x) \in P \ {x} /\ m.players = {x, Opponent(m, x)}
    <2>1. m \in R /\ x \in m.players
        BY DEF Own
    <2>2. PICK a, b \in P : Beat(m, a, b)
        BY <2>1 DEF League
    <2>3. PICK y \in P : y # x /\ m.players = {x, y}
        BY <2>1, <2>2 DEF Beat
    <2>4. Opponent(m, x) = y
        BY <2>3 DEF Opponent
    <2> QED BY <2>1, <2>3, <2>4
<1>2. ASSUME NEW m \in Own(R, x), NEW k \in Own(R, x), m # k
      PROVE  Opponent(m, x) # Opponent(k, x)
    BY <1>1, <1>2 DEF League
<1> QED BY <1>1, <1>2

PlayedAll(P, R, x) == \A y \in P \ {x} : \E m \in R : m.players = {x, y}

\* Nobody has more matches than opponents; with all of them played, he has as many.
LEMMA MatchesFit ==
    ASSUME NEW P, IsFiniteSet(P), NEW R, League(P, R), NEW x \in P,
           NEW n \in Nat, Cardinality(P) = n
    PROVE  /\ Cardinality(Own(R, x)) \in Nat /\ Cardinality(Own(R, x)) <= n - 1
           /\ PlayedAll(P, R, x) => Cardinality(Own(R, x)) = n - 1
           /\ LeagueRow(R, x).won + LeagueRow(R, x).lost = Cardinality(Own(R, x))
           /\ LeagueRow(R, x).won \in Nat /\ LeagueRow(R, x).lost \in Nat
<1> DEFINE f == [m \in Own(R, x) |-> Opponent(m, x)]
           Q == P \ {x}
<1>1. IsFiniteSet(Q) /\ Cardinality(Q) = n - 1
    BY FS_RemoveElement
<1>2. IsFiniteSet(Own(R, x)) /\ IsFiniteSet(WonBy(R, x)) /\ IsFiniteSet(Own(R, x) \ WonBy(R, x))
    BY RowTypes, FS_Difference
<1>3. f \in Injection(Own(R, x), Q)
    BY OpponentIs DEF Injection, IsInjective
<1>4. Cardinality(Own(R, x)) \in Nat
    BY <1>2, FS_CardinalityType
<1>5. Cardinality(Own(R, x)) <= n - 1
    <2> HIDE DEF f, Q
    <2>1. Cardinality(Own(R, x)) <= Cardinality(Q)
        BY <1>1, <1>3, FS_Injection
    <2> QED BY <1>1, <2>1
<1>6. ASSUME PlayedAll(P, R, x)
      PROVE  Cardinality(Own(R, x)) = n - 1
    <2>1. ASSUME NEW y \in Q PROVE \E m \in Own(R, x) : f[m] = y
        <3>1. PICK m \in R : m.players = {x, y}
            BY <1>6 DEF PlayedAll
        <3>2. m \in Own(R, x) /\ y # x
            BY <3>1 DEF Own
        <3>3. Opponent(m, x) = y
            BY <3>1, <3>2 DEF Opponent
        <3> QED BY <3>2, <3>3
    <2>2. f \in Surjection(Own(R, x), Q)
        <3>1. f \in [Own(R, x) -> Q]
            BY <1>3 DEF Injection
        <3> HIDE DEF f, Q
        <3> QED BY <2>1, <3>1 DEF Surjection
    <2> HIDE DEF f, Q
    <2>3. Cardinality(Q) <= Cardinality(Own(R, x))
        BY <1>2, <2>2, FS_Surjection
    <2> QED BY <1>1, <1>4, <1>5, <2>3
<1>7. LeagueRow(R, x).won + LeagueRow(R, x).lost = Cardinality(Own(R, x))
    <2> DEFINE W == WonBy(R, x)
               L == Own(R, x) \ WonBy(R, x)
    <2>1. Own(R, x) = W \cup L /\ W \cap L = {}
        BY DEF WonBy
    <2>2. Cardinality(W \cap L) = 0
        BY <2>1, FS_EmptySet
    <2>3. IsFiniteSet(W) /\ IsFiniteSet(L)
        BY <1>2
    <2>4. LeagueRow(R, x).won = Cardinality(W) /\ LeagueRow(R, x).lost = Cardinality(L)
        BY RowIs
    <2> HIDE DEF W, L
    <2>5. Cardinality(W) \in Nat /\ Cardinality(L) \in Nat
        BY <2>3, FS_CardinalityType
    <2>6. Cardinality(W \cup L) = Cardinality(W) + Cardinality(L) - Cardinality(W \cap L)
        BY <2>3, FS_Union
    <2> QED BY <2>1, <2>2, <2>4, <2>5, <2>6
<1> QED BY <1>4, <1>5, <1>6, <1>7, RowTypes

\* Who won against everybody leaves no one else without a defeat.
LEMMA OneUnbeaten ==
    ASSUME NEW P, IsFiniteSet(P), NEW R, League(P, R), NEW n \in Nat, Cardinality(P) = n,
           NEW x \in P, NEW y \in P, x # y, LeagueRow(R, x).won = n - 1
    PROVE  LeagueRow(R, y).won < n - 1
<1> DEFINE f == [m \in WonBy(R, x) |-> Opponent(m, x)]
           Q == P \ {x}
<1>1. IsFiniteSet(Q) /\ Cardinality(Q) = n - 1
    BY FS_RemoveElement
<1>2. IsFiniteSet(WonBy(R, x)) /\ Cardinality(WonBy(R, x)) = n - 1
    BY RowTypes, RowIs
<1>3. WonBy(R, x) \subseteq Own(R, x)
    BY DEF WonBy
<1>4. f \in Injection(WonBy(R, x), Q)
    BY <1>3, OpponentIs DEF Injection, IsInjective
<1>5. f \in Surjection(WonBy(R, x), Q)
    <2> HIDE DEF f, Q
    <2> QED BY <1>1, <1>2, <1>4, FS_Injection
<1>6. PICK m \in WonBy(R, x) : Opponent(m, x) = y
    <2>1. y \in Q
        OBVIOUS
    <2>2. \E m \in WonBy(R, x) : f[m] = y
        <3> HIDE DEF f, Q
        <3> QED BY <1>5, <2>1 DEF Surjection
    <2> QED BY <2>2
<1>7. m \in Own(R, x) /\ m.winner = x /\ m.players = {x, y} /\ m \in R
    <2>1. m \in Own(R, x)
        BY <1>3
    <2>2. m.players = {x, Opponent(m, x)}
        BY <2>1, OpponentIs
    <2>3. m \in R /\ m.winner = x
        BY <2>1 DEF Own, WonBy
    <2> QED BY <1>6, <2>1, <2>2, <2>3
<1>8. m \in Own(R, y) \ WonBy(R, y)
    BY <1>7 DEF Own, WonBy
<1>9. LeagueRow(R, y).lost # 0
    <2>1. IsFiniteSet(Own(R, y) \ WonBy(R, y))
        BY RowTypes, FS_Difference
    <2> QED BY <1>8, <2>1, RowIs, FS_EmptySet
<1>10. /\ Cardinality(Own(R, y)) <= n - 1
       /\ LeagueRow(R, y).won + LeagueRow(R, y).lost = Cardinality(Own(R, y))
       /\ LeagueRow(R, y).won \in Nat /\ LeagueRow(R, y).lost \in Nat
    BY MatchesFit
<1> QED BY <1>9, <1>10

-----------------------------------------------------------------------------
(* The circle of a round robin *)

\* Who sits in place i of round r came from place From(s, r, i) of the first
\* round, and goes from place j of it to To(s, r, j).
From(s, r, i) == IF i = 1 THEN 1 ELSE IF i > r THEN i - r + 1 ELSE i - r + s

To(s, r, j) == IF j = 1 THEN 1 ELSE IF j + r - 1 <= s THEN j + r - 1 ELSE j + r - s

LEMMA FromTo ==
    ASSUME NEW s \in Nat, NEW r \in 1 .. s - 1
    PROVE  /\ \A i \in 1 .. s : From(s, r, i) \in 1 .. s /\ To(s, r, From(s, r, i)) = i
           /\ \A j \in 1 .. s : To(s, r, j) \in 1 .. s /\ From(s, r, To(s, r, j)) = j
BY DEF From, To

\* Any two places face each other in exactly one round.
LEMMA FaceOnce ==
    ASSUME NEW h \in Nat, NEW s \in Nat, s = 2 * h,
           NEW j \in 1 .. s, NEW k \in 1 .. s, j < k
    PROVE  \E r \in 1 .. s - 1 : /\ To(s, r, j) + To(s, r, k) = s + 1
                                 /\ \A q \in 1 .. s - 1 : To(s, q, j) + To(s, q, k) = s + 1 => q = r
<1>1. CASE j = 1
    <2>1. PICK r \in 1 .. s - 1 : r = s + 1 - k
        <3>1. s + 1 - k \in 1 .. s - 1
            BY <1>1
        <3> QED BY <3>1
    <2>2. To(s, r, j) + To(s, r, k) = s + 1
        BY <1>1, <2>1 DEF To
    <2>3. \A q \in 1 .. s - 1 : To(s, q, j) + To(s, q, k) = s + 1 => q = r
        BY <1>1, <2>1 DEF To
    <2> QED BY <2>2, <2>3
<1>2. CASE j # 1
    <2>1. j >= 2 /\ k >= 3
        BY <1>2
    <2>2. PICK t \in Nat : j + k = 2 * t \/ j + k = 2 * t + 1
        <3>1. PICK w \in Nat : w = j + k
            OBVIOUS
        <3>2. w = 2 * (w \div 2) + (w % 2) /\ w % 2 \in 0 .. 1 /\ w \div 2 \in Nat
            OBVIOUS
        <3>3. w = 2 * (w \div 2) \/ w = 2 * (w \div 2) + 1
            BY <3>2
        <3> QED BY <3>1, <3>2, <3>3
    <2>3. CASE j + k = 2 * t
        <3>1. PICK r \in 1 .. s - 1 : r = s + 1 - t
            <4>1. s + 1 - t \in 1 .. s - 1
                BY <2>1, <2>3
            <4> QED BY <4>1
        <3>2. To(s, r, j) + To(s, r, k) = s + 1
            BY <2>1, <2>3, <3>1 DEF To
        <3>3. \A q \in 1 .. s - 1 : To(s, q, j) + To(s, q, k) = s + 1 => q = r
            BY <2>1, <2>3, <3>1 DEF To
        <3> QED BY <3>2, <3>3
    <2>4. CASE j + k = 2 * t + 1 /\ t <= h
        <3>1. PICK r \in 1 .. s - 1 : r = h + 1 - t
            <4>1. h + 1 - t \in 1 .. s - 1
                BY <2>1, <2>4
            <4> QED BY <4>1
        <3>2. To(s, r, j) + To(s, r, k) = s + 1
            BY <2>1, <2>4, <3>1 DEF To
        <3>3. \A q \in 1 .. s - 1 : To(s, q, j) + To(s, q, k) = s + 1 => q = r
            BY <2>1, <2>4, <3>1 DEF To
        <3> QED BY <3>2, <3>3
    <2>5. CASE j + k = 2 * t + 1 /\ t > h
        <3>1. PICK r \in 1 .. s - 1 : r = 3 * h - t
            <4>1. 3 * h - t \in 1 .. s - 1
                BY <2>1, <2>5
            <4> QED BY <4>1
        <3>2. To(s, r, j) + To(s, r, k) = s + 1
            BY <2>1, <2>5, <3>1 DEF To
        <3>3. \A q \in 1 .. s - 1 : To(s, q, j) + To(s, q, k) = s + 1 => q = r
            BY <2>1, <2>5, <3>1 DEF To
        <3> QED BY <3>2, <3>3
    <2> QED BY <2>2, <2>3, <2>4, <2>5
<1> QED BY <1>1, <1>2

LEMMA Joined ==
    ASSUME NEW S, NEW a \in Seq(S), NEW b \in Seq(S)
    PROVE  /\ a \o b \in Seq(S) /\ Len(a \o b) = Len(a) + Len(b)
           /\ \A i \in 1 .. Len(a) : (a \o b)[i] = a[i]
           /\ \A i \in 1 .. Len(b) : (a \o b)[i + Len(a)] = b[i]
OBVIOUS

LEMMA Turned ==
    ASSUME NEW S, NEW c \in Seq(S), NEW s \in Nat, s = Len(c), s >= 3
    PROVE  /\ Rotate(c) \in Seq(S) /\ Len(Rotate(c)) = s
           /\ Rotate(c)[1] = c[1] /\ Rotate(c)[2] = c[s]
           /\ \A i \in 3 .. s : Rotate(c)[i] = c[i - 1]
<1> DEFINE a == <<c[1], c[s]>>
           b == SubSeq(c, 2, s - 1)
<1>1. Rotate(c) = a \o b
    BY DEF Rotate
<1>2. c[1] \in S /\ c[s] \in S
    OBVIOUS
<1>3. a \in Seq(S) /\ Len(a) = 2 /\ a[1] = c[1] /\ a[2] = c[s]
    BY <1>2
<1>4. b \in Seq(S) /\ Len(b) = s - 2 /\ \A i \in 1 .. s - 2 : b[i] = c[i + 1]
    OBVIOUS
<1> HIDE DEF a, b
<1>5. /\ a \o b \in Seq(S) /\ Len(a \o b) = Len(a) + Len(b)
      /\ \A i \in 1 .. Len(a) : (a \o b)[i] = a[i]
      /\ \A i \in 1 .. Len(b) : (a \o b)[i + Len(a)] = b[i]
    <2>1. a \in Seq(S) /\ b \in Seq(S)
        BY <1>3, <1>4
    <2> QED BY <2>1, Joined
<1>6. Len(a \o b) = s
    BY <1>3, <1>4, <1>5
<1>7. (a \o b)[1] = c[1] /\ (a \o b)[2] = c[s]
    <2>1. 1 \in 1 .. Len(a) /\ 2 \in 1 .. Len(a)
        BY <1>3
    <2> QED BY <1>3, <1>5, <2>1
<1>8. ASSUME NEW i \in 3 .. s PROVE (a \o b)[i] = c[i - 1]
    <2>1. PICK l \in 1 .. s - 2 : l = i - 2 /\ l + 1 = i - 1 /\ l + 2 = i
        <3>1. i - 2 \in 1 .. s - 2 /\ (i - 2) + 1 = i - 1 /\ (i - 2) + 2 = i
            OBVIOUS
        <3> QED BY <3>1
    <2>2. l \in 1 .. Len(b)
        BY <1>4
    <2>3. (a \o b)[l + 2] = b[l]
        BY <1>3, <1>5, <2>2
    <2> QED BY <1>4, <2>1, <2>3
<1> QED BY <1>1, <1>5, <1>6, <1>7, <1>8

LEMMA SameSeq ==
    ASSUME NEW S, NEW a \in Seq(S), NEW b \in Seq(S), Len(a) = Len(b),
           \A i \in 1 .. Len(a) : a[i] = b[i]
    PROVE  a = b
OBVIOUS

\* The circle of round r
RoundCircle(c, s, r) == [i \in 1 .. s |-> c[From(s, r, i)]]

LEMMA CircleTurns ==
    ASSUME NEW S, NEW c \in Seq(S), NEW s \in Nat, s = Len(c), s >= 2
    PROVE  /\ RoundCircle(c, s, 1) = c
           /\ \A r \in 1 .. s - 1 : RoundCircle(c, s, r) \in Seq(S)
           /\ \A r \in 1 .. s - 1 : r # 1 => RoundCircle(c, s, r) = Rotate(RoundCircle(c, s, r - 1))
<1>1. ASSUME NEW r \in 1 .. s - 1
      PROVE  /\ RoundCircle(c, s, r) \in Seq(S) /\ Len(RoundCircle(c, s, r)) = s
             /\ \A i \in 1 .. s : RoundCircle(c, s, r)[i] = c[From(s, r, i)]
    <2>1. \A i \in 1 .. s : From(s, r, i) \in 1 .. s
        BY FromTo
    <2>2. \A i \in 1 .. s : c[From(s, r, i)] \in S
        BY <2>1
    <2>3. RoundCircle(c, s, r) \in [1 .. s -> S]
        BY <2>2 DEF RoundCircle
    <2>4. RoundCircle(c, s, r) \in Seq(S) /\ Len(RoundCircle(c, s, r)) = s
        BY <2>3
    <2> QED BY <2>4 DEF RoundCircle
<1>2. RoundCircle(c, s, 1) = c
    <2>1. 1 \in 1 .. s - 1
        OBVIOUS
    <2>2. \A i \in 1 .. s : From(s, 1, i) = i
        BY DEF From
    <2>3. RoundCircle(c, s, 1) \in Seq(S) /\ Len(RoundCircle(c, s, 1)) = s
          /\ \A i \in 1 .. s : RoundCircle(c, s, 1)[i] = c[i]
        BY <1>1, <2>1, <2>2
    <2> QED BY <2>3, SameSeq
<1>3. ASSUME NEW r \in 1 .. s - 1, r # 1
      PROVE  RoundCircle(c, s, r) = Rotate(RoundCircle(c, s, r - 1))
    <2>1. PICK k \in 1 .. s - 1 : k = r - 1 /\ r = k + 1
        <3>1. r - 1 \in 1 .. s - 1 /\ r = (r - 1) + 1
            BY <1>3
        <3> QED BY <3>1
    <2>2. s >= 3
        BY <1>3
    <2>3. PICK d \in Seq(S) : d = RoundCircle(c, s, k) /\ Len(d) = s
                              /\ \A i \in 1 .. s : d[i] = c[From(s, k, i)]
        BY <1>1
    <2>4. /\ Rotate(d) \in Seq(S) /\ Len(Rotate(d)) = s
          /\ Rotate(d)[1] = d[1] /\ Rotate(d)[2] = d[s]
          /\ \A i \in 3 .. s : Rotate(d)[i] = d[i - 1]
        BY <2>2, <2>3, Turned
    <2>5. From(s, r, 1) = 1 /\ From(s, k, 1) = 1 /\ From(s, r, 2) = From(s, k, s)
        BY <2>1, <2>2 DEF From
    <2>6. \A i \in 3 .. s : From(s, r, i) = From(s, k, i - 1) /\ i - 1 \in 1 .. s
        BY <2>1 DEF From
    <2>7. ASSUME NEW i \in 1 .. s PROVE RoundCircle(c, s, r)[i] = Rotate(d)[i]
        <3>1. RoundCircle(c, s, r)[i] = c[From(s, r, i)]
            BY <1>1
        <3>2. CASE i = 1
            <4>1. d[1] = c[From(s, k, 1)]
                BY <2>2, <2>3
            <4> QED BY <2>4, <2>5, <3>1, <3>2, <4>1
        <3>3. CASE i = 2
            <4>1. d[s] = c[From(s, k, s)]
                BY <2>2, <2>3
            <4> QED BY <2>4, <2>5, <3>1, <3>3, <4>1
        <3>4. CASE i # 1 /\ i # 2
            <4>1. i \in 3 .. s
                BY <3>4
            <4>2. d[i - 1] = c[From(s, k, i - 1)]
                BY <2>3, <2>6, <4>1
            <4> QED BY <2>4, <2>6, <3>1, <4>1, <4>2
        <3> QED BY <3>2, <3>3, <3>4
    <2>8. RoundCircle(c, s, r) \in Seq(S) /\ Len(RoundCircle(c, s, r)) = s
        BY <1>1
    <2>9. RoundCircle(c, s, r) = Rotate(d)
        BY <2>4, <2>7, <2>8, SameSeq
    <2> QED BY <2>1, <2>3, <2>9
<1> QED BY <1>1, <1>2, <1>3

\* The meeting of places i and s + 1 - i in round r
MeetingOf(c, s, r, i) ==
    [round |-> r, players |-> {c[From(s, r, i)], c[From(s, r, s + 1 - i)]}]

\* The meetings of h pairs of places, and those of them without the dummy
Meetings(c, s, h) == {MeetingOf(c, s, r, i) : r \in 1 .. s - 1, i \in 1 .. h}

RobinPlan(c, s, h) == {x \in Meetings(c, s, h) : None \notin x.players}

LEMMA RobinPlanIs ==
    ASSUME NEW S, NEW L, NEW c \in Seq(S), c = Circle(L), NEW h \in Nat, NEW s \in Nat,
           s = Len(c), s = 2 * h, h >= 1
    PROVE  BuildRoundRobin(L) = RobinPlan(c, s, h)
<1> DEFINE Turn1(f, r) == IF r = 1 THEN Circle(L) ELSE Rotate(f[r - 1])
           F(f) == [r \in 1 .. Len(Circle(L)) - 1 |-> Turn1(f, r)]
           circle == CHOOSE f : f = F(f)
           Meets(r, i) == [round |-> r, players |-> {circle[r][i], circle[r][Len(Circle(L)) + 1 - i]}]
           g == [r \in 1 .. s - 1 |-> RoundCircle(c, s, r)]
<1>1. BuildRoundRobin(L) =
        {x \in {Meets(r, i) : r \in 1 .. Len(Circle(L)) - 1, i \in 1 .. Len(Circle(L)) \div 2} :
            None \notin x.players}
    BY DEF BuildRoundRobin
<1>2. s >= 2 /\ s \div 2 = h
    OBVIOUS
<1>3. /\ RoundCircle(c, s, 1) = c
      /\ \A r \in 1 .. s - 1 : r # 1 => RoundCircle(c, s, r) = Rotate(RoundCircle(c, s, r - 1))
    BY <1>2, CircleTurns
<1>4. \A r \in 1 .. s - 1 : g[r] = Turn1(g, r)
    <2> TAKE r \in 1 .. s - 1
    <2>1. CASE r = 1
        BY <1>3, <2>1
    <2>2. CASE r # 1
        <3>1. PICK k \in 1 .. s - 1 : k = r - 1
            <4>1. r - 1 \in 1 .. s - 1
                BY <2>2
            <4> QED BY <4>1
        <3>2. g[k] = RoundCircle(c, s, k) /\ g[r] = RoundCircle(c, s, r)
            OBVIOUS
        <3> HIDE DEF g
        <3> QED BY <1>3, <2>2, <3>1, <3>2
    <2> QED BY <2>1, <2>2
<1>5. g = F(g)
    <2> HIDE DEF Turn1
    <2>1. g = [r \in 1 .. s - 1 |-> g[r]]
        OBVIOUS
    <2> HIDE DEF g
    <2> QED BY <1>4, <2>1
<1>6. circle = F(circle)
    BY <1>5
<1> HIDE DEF circle
<1>7. \A r \in 1 .. s - 1 : circle[r] = Turn1(circle, r)
    BY <1>6
<1>8. \A r \in 1 .. s - 1 : circle[r] = g[r]
    <2> DEFINE Bad == {r \in 1 .. s - 1 : circle[r] # g[r]}
    <2> SUFFICES ASSUME Bad # {} PROVE FALSE
        OBVIOUS
    <2>1. Bad \subseteq Nat
        OBVIOUS
    <2>2. PICK r \in Bad : \A q \in Bad : r <= q
        BY <2>1, Least
    <2>3. r \in 1 .. s - 1 /\ circle[r] # g[r]
        BY <2>2
    <2> HIDE DEF g
    <2>4. circle[r] = Turn1(circle, r) /\ g[r] = Turn1(g, r)
        BY <1>4, <1>7, <2>3
    <2>5. r # 1
        BY <2>3, <2>4
    <2>6. PICK k \in 1 .. s - 1 : k = r - 1 /\ ~(r <= k)
        <3>1. r - 1 \in 1 .. s - 1 /\ ~(r <= r - 1)
            BY <2>3, <2>5
        <3> QED BY <3>1
    <2>7. circle[k] = g[k]
        BY <2>2, <2>6
    <2> QED BY <2>3, <2>4, <2>5, <2>6, <2>7
<1>9. \A r \in 1 .. s - 1, i \in 1 .. h : Meets(r, i) = MeetingOf(c, s, r, i)
    <2> TAKE r \in 1 .. s - 1, i \in 1 .. h
    <2>1. PICK l \in 1 .. s : l = i
        OBVIOUS
    <2>2. PICK k \in 1 .. s : k = s + 1 - i
        OBVIOUS
    <2>3. circle[r] = RoundCircle(c, s, r)
        BY <1>8
    <2>4. circle[r][l] = c[From(s, r, l)] /\ circle[r][k] = c[From(s, r, k)]
        BY <2>3 DEF RoundCircle
    <2> QED BY <2>1, <2>2, <2>4 DEF MeetingOf
<1> DEFINE M == {Meets(r, i) : r \in 1 .. s - 1, i \in 1 .. h}
           N == {MeetingOf(c, s, r, i) : r \in 1 .. s - 1, i \in 1 .. h}
<1>10. M = N
    <2> HIDE DEF Meets
    <2> QED BY <1>9
<1>11. BuildRoundRobin(L) = {x \in M : None \notin x.players}
    <2>1. Len(Circle(L)) = s
        OBVIOUS
    <2> HIDE DEF Meets
    <2> QED BY <1>1, <1>2, <2>1
<1>12. N = Meetings(c, s, h)
    BY DEF Meetings
<1> HIDE DEF M, N
<1> QED BY <1>10, <1>11, <1>12 DEF RobinPlan

\* The circle of a field of n: the participants in order, and a dummy behind an
\* odd number of them.
CircleSound(c, n, h, s) ==
    /\ s = 2 * h /\ h >= 1 /\ n >= 2 /\ n <= s
    /\ c \in Seq((1 .. n) \cup {None}) /\ Len(c) = s
    /\ \A i \in 1 .. s : c[i] = IF i <= n THEN i ELSE None

LEMMA CircleIs ==
    ASSUME FieldInv
    PROVE  \E h \in Nat : \E s \in Nat : CircleSound(Circle(ordered), Len(ordered), h, s)
<1>1. PICK n \in Nat : n = Len(ordered) /\ n >= 2 /\ ordered = [i \in 1 .. n |-> i]
    BY OrderIs
<1>2. ordered \in Seq(1 .. n) /\ ordered \in Seq((1 .. n) \cup {None})
    <2>1. ordered \in [1 .. n -> 1 .. n] /\ ordered \in [1 .. n -> (1 .. n) \cup {None}]
        BY <1>1
    <2> QED BY <2>1
<1>3. PICK k \in Nat : k = n \div 2
    OBVIOUS
<1>4. n = 2 * k + (n % 2) /\ n % 2 \in 0 .. 1
    BY <1>3
<1>5. CASE n % 2 = 1
    <2>1. Circle(ordered) = Append(ordered, None)
        BY <1>1, <1>5 DEF Circle
    <2>2. PICK c \in Seq((1 .. n) \cup {None}) : /\ c = Circle(ordered) /\ Len(c) = n + 1
                                                  /\ c[n + 1] = None
                                                  /\ \A i \in 1 .. n : c[i] = ordered[i]
        <3>1. Append(ordered, None) \in Seq((1 .. n) \cup {None})
            BY <1>2
        <3>2. Len(Append(ordered, None)) = n + 1 /\ Append(ordered, None)[n + 1] = None
            BY <1>1, <1>2
        <3>3. \A i \in 1 .. n : Append(ordered, None)[i] = ordered[i]
            BY <1>1, <1>2
        <3> QED BY <2>1, <3>1, <3>2, <3>3
    <2>3. PICK h \in Nat, s \in Nat : h = k + 1 /\ s = 2 * h /\ s = n + 1 /\ h >= 1
        <3>1. k + 1 \in Nat /\ 2 * (k + 1) \in Nat /\ 2 * (k + 1) = n + 1 /\ k + 1 >= 1
            BY <1>4, <1>5
        <3> QED BY <3>1
    <2>4. ASSUME NEW i \in 1 .. s PROVE c[i] = IF i <= n THEN i ELSE None
        <3>1. i \in 1 .. n \/ i = n + 1
            BY <2>3
        <3>2. CASE i \in 1 .. n
            BY <1>1, <2>2, <3>2
        <3>3. CASE i = n + 1
            BY <2>2, <3>3
        <3> QED BY <3>1, <3>2, <3>3
    <2>5. CircleSound(c, n, h, s)
        BY <1>1, <2>2, <2>3, <2>4 DEF CircleSound
    <2> QED BY <1>1, <2>2, <2>5
<1>6. CASE n % 2 = 0
    <2>1. Circle(ordered) = ordered
        BY <1>1, <1>6 DEF Circle
    <2>2. n = 2 * k /\ k >= 1
        BY <1>1, <1>4, <1>6
    <2>3. \A i \in 1 .. n : ordered[i] = IF i <= n THEN i ELSE None
        BY <1>1
    <2>4. CircleSound(ordered, n, k, n)
        BY <1>1, <1>2, <2>2, <2>3 DEF CircleSound
    <2> QED BY <1>1, <2>1, <2>4
<1> QED BY <1>4, <1>5, <1>6

\* Who meets sat on opposite places.
Opposite(s, r, x, y) == To(s, r, x) + To(s, r, y) = s + 1

LEMMA MeetingIs ==
    ASSUME NEW n \in Nat, NEW h \in Nat, NEW s \in Nat, NEW c, CircleSound(c, n, h, s),
           NEW r \in 1 .. s - 1, NEW i \in 1 .. h, None \notin MeetingOf(c, s, r, i).players
    PROVE  /\ From(s, r, i) \in 1 .. n /\ From(s, r, s + 1 - i) \in 1 .. n
           /\ From(s, r, i) # From(s, r, s + 1 - i)
           /\ Opposite(s, r, From(s, r, i), From(s, r, s + 1 - i))
           /\ MeetingOf(c, s, r, i) =
                [round |-> r, players |-> {From(s, r, i), From(s, r, s + 1 - i)}]
<1>1. PICK k \in 1 .. s, l \in 1 .. s : k = i /\ l = s + 1 - i /\ k # l /\ k + l = s + 1
    <2>1. s = 2 * h
        BY DEF CircleSound
    <2>2. i \in 1 .. s /\ s + 1 - i \in 1 .. s /\ i # s + 1 - i /\ i + (s + 1 - i) = s + 1
        BY <2>1
    <2> QED BY <2>2
<1>2. PICK p \in 1 .. s : p = From(s, r, k) /\ To(s, r, p) = k
    BY FromTo
<1>3. PICK q \in 1 .. s : q = From(s, r, l) /\ To(s, r, q) = l
    BY FromTo
<1>4. p # q /\ Opposite(s, r, p, q)
    BY <1>1, <1>2, <1>3 DEF Opposite
<1>5. /\ MeetingOf(c, s, r, i) = [round |-> r, players |-> {c[p], c[q]}]
      /\ c[p] # None /\ c[q] # None
    BY <1>1, <1>2, <1>3 DEF MeetingOf
<1>6. /\ c[p] = (IF p <= n THEN p ELSE None)
      /\ c[q] = (IF q <= n THEN q ELSE None)
    BY DEF CircleSound
<1>7. p <= n /\ q <= n /\ c[p] = p /\ c[q] = q
    BY <1>5, <1>6
<1>8. p \in 1 .. n /\ q \in 1 .. n
    BY <1>7
<1> QED BY <1>1, <1>2, <1>3, <1>4, <1>5, <1>7, <1>8

LEMMA OnceOpposite ==
    ASSUME NEW h \in Nat, NEW s \in Nat, s = 2 * h,
           NEW x \in 1 .. s, NEW y \in 1 .. s, x # y
    PROVE  \E r \in 1 .. s - 1 : /\ Opposite(s, r, x, y)
                                 /\ \A q \in 1 .. s - 1 : Opposite(s, q, x, y) => q = r
<1>1. CASE x < y
    BY <1>1, FaceOnce DEF Opposite
<1>2. CASE y < x
    <2>1. \A q \in 1 .. s - 1 : Opposite(s, q, x, y) <=> Opposite(s, q, y, x)
        <3> TAKE q \in 1 .. s - 1
        <3>1. To(s, q, x) \in 1 .. s /\ To(s, q, y) \in 1 .. s
            BY FromTo
        <3>2. To(s, q, x) + To(s, q, y) = To(s, q, y) + To(s, q, x)
            BY <3>1
        <3> QED BY <3>2 DEF Opposite
    <2>2. \E r \in 1 .. s - 1 : /\ Opposite(s, r, y, x)
                                /\ \A q \in 1 .. s - 1 : Opposite(s, q, y, x) => q = r
        BY <1>2, FaceOnce DEF Opposite
    <2> QED BY <2>1, <2>2
<1> QED BY <1>1, <1>2

\* One meeting of D has the players P.
Single(D, P) == \E it : {m \in D : m.players = P} = {it}

LEMMA PairMeets ==
    ASSUME NEW n \in Nat, NEW h \in Nat, NEW s \in Nat, NEW c, CircleSound(c, n, h, s),
           NEW x \in 1 .. n, NEW y \in 1 .. n, x # y
    PROVE  Single(RobinPlan(c, s, h), {x, y})
<1>0. s = 2 * h /\ n <= s /\ (\A i \in 1 .. s : c[i] = IF i <= n THEN i ELSE None)
    BY DEF CircleSound
<1>1. x \in 1 .. s /\ y \in 1 .. s /\ c[x] = x /\ c[y] = y /\ x # None /\ y # None
    BY <1>0, DrawsAssumption
<1>2. PICK r \in 1 .. s - 1 : /\ Opposite(s, r, x, y)
                              /\ \A q \in 1 .. s - 1 : Opposite(s, q, x, y) => q = r
    BY <1>0, <1>1, OnceOpposite
<1> DEFINE it == [round |-> r, players |-> {x, y}]
<1>3. it \in RobinPlan(c, s, h)
    <2>0. None \notin it.players
        BY <1>1
    <2>1. PICK u \in 1 .. s : u = To(s, r, x) /\ From(s, r, u) = x
        BY <1>1, FromTo
    <2>2. PICK v \in 1 .. s : v = To(s, r, y) /\ From(s, r, v) = y
        BY <1>1, FromTo
    <2>3. u + v = s + 1
        BY <1>2, <2>1, <2>2 DEF Opposite
    <2>4. CASE u <= h
        <3>1. u \in 1 .. h /\ v = s + 1 - u
            BY <2>3, <2>4
        <3>2. MeetingOf(c, s, r, u) = it
            BY <1>1, <2>1, <2>2, <3>1 DEF MeetingOf
        <3>3. it \in Meetings(c, s, h)
            BY <3>1, <3>2 DEF Meetings
        <3> HIDE DEF it
        <3> QED BY <2>0, <3>3 DEF RobinPlan
    <2>5. CASE u > h
        <3>1. v \in 1 .. h /\ u = s + 1 - v
            BY <1>0, <2>3, <2>5
        <3>2. MeetingOf(c, s, r, v) = [round |-> r, players |-> {y, x}]
            BY <1>1, <2>1, <2>2, <3>1 DEF MeetingOf
        <3>3. {y, x} = {x, y}
            OBVIOUS
        <3>4. MeetingOf(c, s, r, v) = it
            BY <3>2, <3>3
        <3>5. MeetingOf(c, s, r, v) \in Meetings(c, s, h)
            BY <3>1 DEF Meetings
        <3> HIDE DEF it
        <3> QED BY <2>0, <3>4, <3>5 DEF RobinPlan
    <2> QED BY <2>4, <2>5
<1>4. ASSUME NEW m \in RobinPlan(c, s, h), m.players = {x, y} PROVE m = it
    <2>1. PICK q \in 1 .. s - 1, i \in 1 .. h : m = MeetingOf(c, s, q, i)
        BY DEF RobinPlan, Meetings
    <2>2. None \notin MeetingOf(c, s, q, i).players
        BY <2>1 DEF RobinPlan
    <2>3. PICK a \in 1 .. n, b \in 1 .. n : a # b /\ Opposite(s, q, a, b)
                                            /\ m = [round |-> q, players |-> {a, b}]
        <3>1. /\ From(s, q, i) \in 1 .. n /\ From(s, q, s + 1 - i) \in 1 .. n
              /\ From(s, q, i) # From(s, q, s + 1 - i)
              /\ Opposite(s, q, From(s, q, i), From(s, q, s + 1 - i))
              /\ MeetingOf(c, s, q, i) =
                    [round |-> q, players |-> {From(s, q, i), From(s, q, s + 1 - i)}]
            BY <2>2, MeetingIs
        <3> QED BY <2>1, <3>1
    <2>4. (x = a /\ y = b) \/ (x = b /\ y = a)
        BY <1>4, <2>3
    <2>5. Opposite(s, q, x, y)
        <3>1. a \in 1 .. s /\ b \in 1 .. s
            BY <1>0
        <3>2. To(s, q, a) \in 1 .. s /\ To(s, q, b) \in 1 .. s
            BY <3>1, FromTo
        <3>3. To(s, q, b) + To(s, q, a) = s + 1
            BY <2>3, <3>2 DEF Opposite
        <3> QED BY <2>3, <2>4, <3>3 DEF Opposite
    <2>6. q = r
        BY <1>2, <2>5
    <2> QED BY <1>4, <2>3, <2>6
<1>5. it.players = {x, y}
    OBVIOUS
<1> HIDE DEF it
<1>6. {m \in RobinPlan(c, s, h) : m.players = {x, y}} = {it}
    BY <1>3, <1>4, <1>5
<1> QED BY <1>6, Zenon DEF Single

LEMMA RoundsApart ==
    ASSUME NEW n \in Nat, NEW h \in Nat, NEW s \in Nat, NEW c, CircleSound(c, n, h, s),
           NEW m \in RobinPlan(c, s, h), NEW k \in RobinPlan(c, s, h), m # k, m.round = k.round
    PROVE  m.players \cap k.players = {}
<1>0. s = 2 * h
    BY DEF CircleSound
<1>1. PICK r \in 1 .. s - 1, i \in 1 .. h : m = MeetingOf(c, s, r, i) /\ None \notin MeetingOf(c, s, r, i).players
    BY DEF RobinPlan, Meetings
<1>2. PICK q \in 1 .. s - 1, j \in 1 .. h : k = MeetingOf(c, s, q, j) /\ None \notin MeetingOf(c, s, q, j).players
    BY DEF RobinPlan, Meetings
<1>3. m = [round |-> r, players |-> {From(s, r, i), From(s, r, s + 1 - i)}]
    BY <1>1, MeetingIs
<1>4. k = [round |-> q, players |-> {From(s, q, j), From(s, q, s + 1 - j)}]
    BY <1>2, MeetingIs
<1>5. q = r /\ i # j
    BY <1>1, <1>2, <1>3, <1>4
<1>6. PICK i1 \in 1 .. s, i2 \in 1 .. s : i1 = i /\ i2 = s + 1 - i
    BY <1>0
<1>7. PICK j1 \in 1 .. s, j2 \in 1 .. s : j1 = j /\ j2 = s + 1 - j
    BY <1>0
<1>8. i1 # j1 /\ i1 # j2 /\ i2 # j1 /\ i2 # j2
    BY <1>0, <1>5, <1>6, <1>7
<1>9. \A a, b \in 1 .. s : From(s, r, a) = From(s, r, b) => a = b
    <2> SUFFICES ASSUME NEW a \in 1 .. s, NEW b \in 1 .. s, From(s, r, a) = From(s, r, b) PROVE a = b
        OBVIOUS
    <2>1. To(s, r, From(s, r, a)) = a /\ To(s, r, From(s, r, b)) = b
        BY FromTo
    <2> QED BY <2>1
<1>10. /\ From(s, r, i1) # From(s, r, j1) /\ From(s, r, i1) # From(s, r, j2)
       /\ From(s, r, i2) # From(s, r, j1) /\ From(s, r, i2) # From(s, r, j2)
    BY <1>8, <1>9
<1> QED BY <1>3, <1>4, <1>5, <1>6, <1>7, <1>10

\* A meeting for every pair, the rounds of disjoint pairs
LEMMA RobinDrawn ==
    ASSUME FieldInv, NEW D, D = BuildRoundRobin(ordered)
    PROVE  /\ \A x, y \in Players : x # y => Cardinality({m \in D : m.players = {x, y}}) = 1
           /\ \A m, k \in D : m # k /\ m.round = k.round => m.players \cap k.players = {}
           /\ \A m \in D : \E x, y \in Players : x # y /\ m.players = {x, y}
           /\ \A m, k \in D : m.players = k.players => m = k
           /\ \A x, y \in Players : x # y => \E m \in D : m.players = {x, y}
           /\ IsFiniteSet(D)
<1>1. PICK n \in Nat : n = Len(ordered) /\ Players = 1 .. n
    BY OrderIs
<1>2. PICK h \in Nat : \E s \in Nat : CircleSound(Circle(ordered), n, h, s)
    BY <1>1, CircleIs
<1>3. PICK s \in Nat : CircleSound(Circle(ordered), n, h, s)
    BY <1>2
<1>4. PICK c : c = Circle(ordered) /\ CircleSound(c, n, h, s)
    BY <1>3
<1>5. D = RobinPlan(c, s, h)
    <2>1. /\ c \in Seq((1 .. n) \cup {None}) /\ s = Len(c) /\ s = 2 * h /\ h >= 1
        BY <1>4 DEF CircleSound
    <2>2. PICK S : S = (1 .. n) \cup {None} /\ c \in Seq(S)
        BY <2>1
    <2>3. c = Circle(ordered) /\ s = Len(c) /\ s = 2 * h /\ h >= 1
        BY <1>4, <2>1
    <2>4. BuildRoundRobin(ordered) = RobinPlan(c, s, h)
        BY <2>2, <2>3, RobinPlanIs, ZenonT(20)
    <2> QED BY <2>4
<1>6. ASSUME NEW x \in Players, NEW y \in Players, x # y
      PROVE  Single(D, {x, y})
    <2>1. x \in 1 .. n /\ y \in 1 .. n /\ x # y
        BY <1>1, <1>6
    <2>2. Single(RobinPlan(c, s, h), {x, y})
        BY <1>4, <2>1, PairMeets
    <2> QED BY <1>5, <2>2
<1>7. \A x, y \in Players : x # y => Cardinality({m \in D : m.players = {x, y}}) = 1
    <2> SUFFICES ASSUME NEW x \in Players, NEW y \in Players, x # y
                 PROVE  Cardinality({m \in D : m.players = {x, y}}) = 1
        OBVIOUS
    <2>1. PICK it : {m \in D : m.players = {x, y}} = {it}
        BY <1>6 DEF Single
    <2>2. Cardinality({it}) = 1
        BY FS_Singleton
    <2> QED BY <2>1, <2>2
<1>8. \A m, k \in D : m # k /\ m.round = k.round => m.players \cap k.players = {}
    BY <1>4, <1>5, RoundsApart
<1>9. ASSUME NEW m \in D PROVE \E x, y \in Players : x # y /\ m.players = {x, y}
    <2>1. PICK r \in 1 .. s - 1, i \in 1 .. h :
            m = MeetingOf(c, s, r, i) /\ None \notin MeetingOf(c, s, r, i).players
        BY <1>5 DEF RobinPlan, Meetings
    <2>2. /\ From(s, r, i) \in 1 .. n /\ From(s, r, s + 1 - i) \in 1 .. n
          /\ From(s, r, i) # From(s, r, s + 1 - i)
          /\ MeetingOf(c, s, r, i) =
                [round |-> r, players |-> {From(s, r, i), From(s, r, s + 1 - i)}]
        BY <1>4, <2>1, MeetingIs
    <2>3. PICK x \in 1 .. n, y \in 1 .. n : x # y /\ MeetingOf(c, s, r, i) = [round |-> r, players |-> {x, y}]
        BY <2>2
    <2> QED BY <1>1, <2>1, <2>3
<1>10. ASSUME NEW m \in D, NEW k \in D, m.players = k.players PROVE m = k
    <2>1. PICK x \in Players, y \in Players : x # y /\ m.players = {x, y}
        BY <1>9
    <2>2. PICK it : {j \in D : j.players = {x, y}} = {it}
        BY <1>6, <2>1 DEF Single
    <2>3. m \in {j \in D : j.players = {x, y}} /\ k \in {j \in D : j.players = {x, y}}
        BY <1>10, <2>1
    <2> QED BY <2>2, <2>3, Zenon
<1>11. IsFiniteSet(D)
    <2> DEFINE f == [m \in D |-> m.players]
    <2>1. IsFiniteSet(SUBSET (1 .. n))
        BY PowCounts
    <2>2. f \in [D -> SUBSET (1 .. n)]
        BY <1>1, <1>9
    <2>3. f \in Injection(D, SUBSET (1 .. n))
        BY <1>10, <2>2 DEF Injection, IsInjective
    <2> HIDE DEF f
    <2> QED BY <2>1, <2>3, FS_Injection
<1>12. ASSUME NEW x \in Players, NEW y \in Players, x # y
       PROVE  \E m \in D : m.players = {x, y}
    <2>1. PICK it : {m \in D : m.players = {x, y}} = {it}
        BY <1>6, <1>12 DEF Single
    <2> QED BY <2>1
<1> QED BY <1>7, <1>8, <1>9, <1>10, <1>11, <1>12

\* What is known of a round robin and its results
RobinInv ==
    made = "ROUND_ROBIN" =>
        /\ drawn = BuildRoundRobin(ordered)
        /\ League(Players, before)
        /\ \A m \in before : \E k \in drawn : m.players = k.players

LEMMA RobinBegun ==
    ASSUME KingInv, NEW f \in Format, Draw(f)
    PROVE  RobinInv'
<1>1. made = None /\ made' = f /\ before' = before /\ ordered' = ordered
    BY DEF Draw
<1>2. before' = {}
    BY <1>1 DEF KingInv
<1>3. CASE f = "ROUND_ROBIN"
    <2>1. drawn' = BuildRoundRobin(ordered)
        BY <1>3 DEF Draw, Night
    <2>2. League(Players, before)'
        BY <1>2, FS_EmptySet DEF League
    <2> QED BY <1>1, <1>2, <2>1, <2>2 DEF RobinInv
<1>4. CASE f # "ROUND_ROBIN"
    BY <1>1, <1>4 DEF RobinInv
<1> QED BY <1>3, <1>4

\* A result between two who had none is one more of the league.
LEMMA MeetingCounts ==
    ASSUME FieldInv, RobinInv, NEW m \in drawn, NEW s \in Scores, NEW x \in m.players, PlayMeeting(m, x, s)
    PROVE  RobinInv'
<1>1. /\ made = "ROUND_ROBIN" /\ made' = made /\ ordered' = ordered /\ drawn' = drawn
      /\ \A k \in before : k.players # m.players
      /\ before' = before \cup {Met(m, x, [y \in m.players |-> IF y = x THEN s[1] ELSE s[2]])}
    BY DEF PlayMeeting
<1>2. /\ drawn = BuildRoundRobin(ordered) /\ League(Players, before)
      /\ \A k \in before : \E j \in drawn : k.players = j.players
    BY <1>1 DEF RobinInv
<1>3. PICK y \in m.players : m.players = {x, y} /\ x # y /\ x \in Players /\ y \in Players
    <2>1. \A k \in drawn : \E a, b \in Players : a # b /\ k.players = {a, b}
        BY <1>2, RobinDrawn
    <2> QED BY <2>1
<1>4. PICK k : k = Met(m, x, [z \in m.players |-> IF z = x THEN s[1] ELSE s[2]])
    OBVIOUS
<1>5. k.players = m.players /\ k.winner = x /\ k.games[x] = s[1] /\ k.games[y] = s[2]
    BY <1>3, <1>4 DEF Met
<1>6. s[1] \in Int /\ s[2] \in Int
    BY DrawsAssumption
<1>7. Beat(k, x, y)
    BY <1>3, <1>5, <1>6 DEF Beat
<1>8. before' = before \cup {k}
    BY <1>1, <1>4
<1>9. PICK N : N = before \cup {k}
    OBVIOUS
<1>10. IsFiniteSet(N)
    BY <1>2, <1>9, FS_AddElement DEF League
<1>11. League(Players, N)
    BY <1>1, <1>2, <1>3, <1>5, <1>7, <1>9, <1>10 DEF League
<1>12. \A j \in N : \E l \in drawn : j.players = l.players
    BY <1>2, <1>5, <1>9
<1>13. Players' = Players
    BY <1>1 DEF Players
<1>14. League(Players, before)'
    BY <1>8, <1>9, <1>11, <1>13 DEF League, Beat
<1> QED BY <1>1, <1>2, <1>8, <1>9, <1>12, <1>14 DEF RobinInv

LEMMA RobinInvariant == AllSpec => []RobinInv
<1>1. AllInit => RobinInv
    BY DrawsAssumption DEF AllInit, DrawInit, RobinInv, Format
<1>2. FieldInv /\ KingInv /\ RobinInv /\ [AllNext]_allVars => RobinInv'
    <2> SUFFICES ASSUME FieldInv, KingInv, RobinInv, [AllNext]_allVars PROVE RobinInv'
        OBVIOUS
    <2>1. CASE \E f \in Format : Draw(f)
        BY <2>1, RobinBegun
    <2>2. CASE made = "ROUND_ROBIN" /\ \E m \in drawn, s \in Scores : \E x \in m.players : PlayMeeting(m, x, s)
        BY <2>2, MeetingCounts
    <2>3. CASE made \in Night /\ \E round \in Results(drawn) : PlayRound(round)
        <3>1. made' # "ROUND_ROBIN"
            BY <2>3 DEF PlayRound, Night
        <3> QED BY <3>1 DEF RobinInv
    <2>4. CASE \E server \in Side \cup {NoServer}, advantage, tieBreak \in BOOLEAN :
                  StartMatch(server, advantage, tieBreak)
        <3>1. made' # "ROUND_ROBIN"
            BY <2>4 DEF StartMatch
        <3> QED BY <3>1 DEF RobinInv
    <2>5. CASE made' = made /\ ordered' = ordered /\ drawn' = drawn /\ before' = before
        <3>1. Players' = Players
            BY <2>5 DEF Players
        <3>2. League(Players, before)' = League(Players, before)
            BY <2>5, <3>1 DEF League, Beat
        <3> QED BY <2>5, <3>2 DEF RobinInv
    <2>6. CASE \E s \in Side, nextTieBreak \in BOOLEAN : Score(s, nextTieBreak)
        BY <2>5, <2>6 DEF Score, drawVars
    <2>7. CASE UNCHANGED allVars
        BY <2>5, <2>7 DEF allVars, drawVars
    <2> QED BY <2>1, <2>2, <2>3, <2>4, <2>6, <2>7 DEF AllNext, DrawNext
<1> QED BY <1>1, <1>2, FieldKept, KingInvariant, PTL DEF AllSpec

\* Who stands above whom in the table of R
Tops(R, i, j) ==
    \/ LeagueRow(R, i).won > LeagueRow(R, j).won
    \/ LeagueRow(R, i).won = LeagueRow(R, j).won /\ LeagueRow(R, i).diff > LeagueRow(R, j).diff
    \/ /\ LeagueRow(R, i).won = LeagueRow(R, j).won /\ LeagueRow(R, i).diff = LeagueRow(R, j).diff
       /\ i < j

Higher(R) == [j \in Players |-> {i \in Players : Tops(R, i, j)}]

LEMMA TableOrders ==
    ASSUME FieldInv, NEW R, League(Players, R)
    PROVE  Orders(Players, Higher(R))
<1>1. \A x \in Players : x \in Nat /\ LeagueRow(R, x).won \in Nat /\ LeagueRow(R, x).diff \in Int
    BY OrderIs, RowTypes
<1>2. \A x \in Players : ~Tops(R, x, x)
    BY <1>1 DEF Tops
<1>3. \A x, y \in Players : x # y => Tops(R, x, y) \/ Tops(R, y, x)
    BY <1>1 DEF Tops
<1>4. \A x, y, z \in Players : Tops(R, x, y) /\ Tops(R, y, z) => Tops(R, x, z)
    BY <1>1 DEF Tops
<1>5. \A x \in Players : Higher(R)[x] = {y \in Players : Tops(R, y, x)}
    BY DEF Higher
<1> QED BY <1>2, <1>3, <1>4, <1>5 DEF Orders

\* The table lists everybody once, and first someone with as many wins as any.
TableOf(R, n, o) ==
    /\ o \in [1 .. n -> Players]
    /\ \A i, j \in 1 .. n : i # j => o[i] # o[j]
    /\ \A x \in Players : \E i \in 1 .. n : o[i] = x
    /\ ComputeStandings(ordered, R) = [i \in 1 .. n |-> LeagueRow(R, o[i])]
    /\ \A x \in Players : LeagueRow(R, x).won <= LeagueRow(R, o[1]).won

LEMMA TableIs ==
    ASSUME FieldInv, NEW R, League(Players, R)
    PROVE  \E o : TableOf(R, Len(ordered), o)
<1>1. PICK n \in Nat : /\ n = Len(ordered) /\ n >= 2 /\ Players = 1 .. n /\ DOMAIN ordered = 1 .. n
                       /\ \A i \in 1 .. n : ordered[i] = i
    BY OrderIs
<1>2. IsFiniteSet(Players) /\ Cardinality(Players) = n
    <2>1. 1 \in Int /\ n \in Int
        BY <1>1
    <2>2. IsFiniteSet(1 .. n) /\ Cardinality(1 .. n) = IF 1 > n THEN 0 ELSE n - 1 + 1
        BY <2>1, FS_Interval
    <2> QED BY <1>1, <2>2
<1>3. Orders(Players, Higher(R))
    BY TableOrders
<1>4. PICK o : o = Listed(Players, Higher(R))
    OBVIOUS
<1>5. /\ o \in [1 .. n -> Players]
      /\ \A x \in Players : o[Nth(Higher(R), x)] = x
      /\ \A i \in 1 .. n : Nth(Higher(R), o[i]) = i
    BY <1>2, <1>3, <1>4, ListedIs
<1>6. \A x \in Players : Nth(Higher(R), x) \in 1 .. n
    BY <1>2, <1>3, TurnsFit
<1>7. ComputeStandings(ordered, R) = [i \in 1 .. n |-> LeagueRow(R, o[i])]
    <2> DEFINE row == [i \in DOMAIN ordered |-> LeagueRow(R, ordered[i])]
               Exceeds(i, j) ==
                   \/ row[i].won > row[j].won
                   \/ row[i].won = row[j].won /\ row[i].diff > row[j].diff
                   \/ row[i].won = row[j].won /\ row[i].diff = row[j].diff /\ i < j
               up == [j \in DOMAIN row |-> {i \in DOMAIN row : Exceeds(i, j)}]
    <2>1. ComputeStandings(ordered, R) = [i \in DOMAIN row |-> row[Listed(DOMAIN row, up)[i]]]
        BY DEF ComputeStandings
    <2>2. DOMAIN row = Players /\ DOMAIN row = 1 .. n /\ \A i \in Players : row[i] = LeagueRow(R, i)
        BY <1>1
    <2> HIDE DEF row
    <2>3. \A i, j \in Players : Exceeds(i, j) <=> Tops(R, i, j)
        BY <2>2 DEF Tops
    <2> HIDE DEF Exceeds
    <2>4. up = Higher(R)
        BY <2>2, <2>3 DEF Higher
    <2> HIDE DEF up
    <2>5. ComputeStandings(ordered, R) = [i \in 1 .. n |-> row[o[i]]]
        BY <1>4, <2>1, <2>2, <2>4
    <2>6. \A i \in 1 .. n : row[o[i]] = LeagueRow(R, o[i])
        BY <1>5, <2>2
    <2> QED BY <2>5, <2>6
<1>8. ASSUME NEW x \in Players PROVE LeagueRow(R, x).won <= LeagueRow(R, o[1]).won
    <2>1. PICK t \in Players : t = o[1] /\ Nth(Higher(R), t) = 1
        BY <1>1, <1>5
    <2>2. IsFiniteSet(Higher(R)[t]) /\ Cardinality(Higher(R)[t]) \in Nat
        <3>1. Higher(R)[t] \subseteq Players
            BY <1>3 DEF Orders
        <3> QED BY <1>2, <3>1, FS_Subset, FS_CardinalityType
    <2>3. Higher(R)[t] = {}
        <3>1. Cardinality(Higher(R)[t]) = 0
            BY <2>1, <2>2 DEF Nth
        <3> QED BY <2>2, <3>1, FS_EmptySet
    <2>4. ~Tops(R, x, t)
        BY <2>3 DEF Higher
    <2>5. LeagueRow(R, x).won \in Nat /\ LeagueRow(R, t).won \in Nat
        BY RowTypes
    <2>6. ~(LeagueRow(R, x).won > LeagueRow(R, t).won)
        BY <2>4 DEF Tops
    <2> QED BY <2>1, <2>5, <2>6
<1>9. \A x \in Players : \E i \in 1 .. n : o[i] = x
    BY <1>5, <1>6
<1>10. \A i, j \in 1 .. n : i # j => o[i] # o[j]
    BY <1>5
<1> QED BY <1>1, <1>5, <1>7, <1>8, <1>9, <1>10 DEF TableOf

ColumnOf(R, column) == [x \in Players |-> LeagueRow(R, x)[column]]

TableColumn(R, n, o, column) == [i \in 1 .. n |-> LeagueRow(R, o[i])[column]]

\* A column of the table has the sum it has over the participants.
LEMMA TableSums ==
    ASSUME FieldInv, NEW R, League(Players, R), NEW n \in Nat, n = Len(ordered),
           NEW o, TableOf(R, n, o), NEW column \in {"won", "lost", "diff"}
    PROVE  SumOf(TableColumn(R, n, o, column), 1 .. n) = SumOf(ColumnOf(R, column), Players)
<1> DEFINE f == TableColumn(R, n, o, column)
           g == ColumnOf(R, column)
<1>1. /\ o \in [1 .. n -> Players]
      /\ \A i, j \in 1 .. n : i # j => o[i] # o[j]
      /\ \A x \in Players : \E i \in 1 .. n : o[i] = x
    BY DEF TableOf
<1>2. IsFiniteSet(1 .. n)
    BY FS_Interval
<1>3. Hit(o, 1 .. n) = Players
    BY <1>1 DEF Hit
<1>4. \A x \in Players : LeagueRow(R, x)[column] \in Int
    BY RowTypes
<1>5. \A x \in Players : g[x] \in Int
    BY <1>4 DEF ColumnOf
<1>6. \A i \in 1 .. n : f[i] = g[o[i]]
    BY <1>1 DEF ColumnOf, TableColumn
<1> HIDE DEF f, g
<1>7. SumOf(f, 1 .. n) = SumOf(g, Hit(o, 1 .. n))
    <2>1. OneToOne(o, 1 .. n, Players)
        BY <1>1 DEF OneToOne
    <2> QED BY <1>2, <1>5, <1>6, <2>1, SumMoved
<1> QED BY <1>3, <1>7 DEF f, g

\* With as many results as meetings drawn, everyone has played everyone.
LEMMA AllPlayed ==
    ASSUME FieldInv, RobinInv, made = "ROUND_ROBIN", Cardinality(before) = Cardinality(drawn),
           NEW x \in Players, NEW y \in Players, x # y
    PROVE  \E m \in before : m.players = {x, y}
<1> DEFINE Meeting(m) == CHOOSE k \in drawn : m.players = k.players
           f == [m \in before |-> Meeting(m)]
<1>1. /\ drawn = BuildRoundRobin(ordered) /\ League(Players, before)
      /\ \A m \in before : \E k \in drawn : m.players = k.players
    BY DEF RobinInv
<1>2. IsFiniteSet(before) /\ \A m, k \in before : m # k => m.players # k.players
    BY <1>1 DEF League
<1>3. IsFiniteSet(drawn) /\ \E k \in drawn : k.players = {x, y}
    <2>1. PICK D : D = drawn /\ D = BuildRoundRobin(ordered)
        BY <1>1
    <2>2. IsFiniteSet(D) /\ \A a, b \in Players : a # b => \E m \in D : m.players = {a, b}
        BY <2>1, RobinDrawn, Zenon
    <2> QED BY <2>1, <2>2
<1>4. \A m \in before : Meeting(m) \in drawn /\ m.players = Meeting(m).players
    BY <1>1
<1>5. f \in Injection(before, drawn)
    <2> HIDE DEF Meeting
    <2>1. \A m, k \in before : f[m] = f[k] => m = k
        BY <1>2, <1>4
    <2>2. f \in [before -> drawn]
        BY <1>4
    <2> HIDE DEF f
    <2> QED BY <2>1, <2>2 DEF Injection, IsInjective
<1>6. \A m \in before : f[m].players = m.players
    BY <1>4
<1> HIDE DEF f
<1>7. f \in Surjection(before, drawn)
    BY <1>2, <1>3, <1>5, FS_Injection
<1>8. PICK k \in drawn : k.players = {x, y}
    BY <1>3
<1>9. PICK m \in before : f[m] = k
    BY <1>7 DEF Surjection
<1> QED BY <1>6, <1>8, <1>9

\* After the last match someone has won at least half of his.
LEMMA HalfWon ==
    ASSUME NEW P, IsFiniteSet(P), P # {}, NEW n \in Nat, Cardinality(P) = n, NEW R, League(P, R),
           \A x, y \in P : x # y => \E m \in R : m.players = {x, y}
    PROVE  \E x \in P : 2 * LeagueRow(R, x).won >= n - 1
<1> SUFFICES ASSUME \A x \in P : ~(2 * LeagueRow(R, x).won >= n - 1) PROVE FALSE
    OBVIOUS
<1>1. ASSUME NEW x \in P
      PROVE  WonColumn(P, R)[x] \in Int /\ LostColumn(P, R)[x] \in Int
             /\ WonColumn(P, R)[x] < LostColumn(P, R)[x]
    <2>1. PlayedAll(P, R, x)
        BY DEF PlayedAll
    <2>2. /\ LeagueRow(R, x).won \in Nat /\ LeagueRow(R, x).lost \in Nat
          /\ LeagueRow(R, x).won + LeagueRow(R, x).lost = n - 1
        <3>1. Cardinality(Own(R, x)) = n - 1
            BY <2>1, MatchesFit
        <3>2. /\ LeagueRow(R, x).won + LeagueRow(R, x).lost = Cardinality(Own(R, x))
              /\ LeagueRow(R, x).won \in Nat /\ LeagueRow(R, x).lost \in Nat
            BY MatchesFit
        <3> QED BY <3>1, <3>2
    <2>3. LeagueRow(R, x).won < LeagueRow(R, x).lost
        BY <2>2
    <2> QED BY <2>2, <2>3 DEF WonColumn, LostColumn
<1>2. SumOf(WonColumn(P, R), P) < SumOf(LostColumn(P, R), P)
    BY <1>1, SumLess
<1>3. /\ SumOf(WonColumn(P, R), P) = Cardinality(R) /\ SumOf(LostColumn(P, R), P) = Cardinality(R)
      /\ Cardinality(R) \in Nat
    <2>1. IsFiniteSet(R)
        BY DEF League
    <2> QED BY <2>1, Totals, FS_CardinalityType DEF ColumnsMatch
<1> QED BY <1>2, <1>3

LEMMA RobinHolds ==
    ASSUME FieldInv, RobinInv
    PROVE  RobinSound
<1> SUFFICES ASSUME made = "ROUND_ROBIN" PROVE RobinSound
    BY DEF RobinSound
<1>1. PICK n \in Nat : n = Len(ordered) /\ n >= 2 /\ Players = 1 .. n
    BY OrderIs
<1>2. /\ drawn = BuildRoundRobin(ordered) /\ League(Players, before)
      /\ \A m \in before : \E k \in drawn : m.players = k.players
    BY DEF RobinInv
<1>3. IsFiniteSet(Players) /\ Cardinality(Players) = n
    <2>1. 1 \in Int /\ n \in Int
        BY <1>1
    <2>2. IsFiniteSet(1 .. n) /\ Cardinality(1 .. n) = IF 1 > n THEN 0 ELSE n - 1 + 1
        BY <2>1, FS_Interval
    <2> QED BY <1>1, <2>2
<1>4. PICK o : TableOf(before, n, o)
    BY <1>1, <1>2, TableIs
<1>5. /\ o \in [1 .. n -> Players]
      /\ \A i, j \in 1 .. n : i # j => o[i] # o[j]
      /\ \A x \in Players : \E i \in 1 .. n : o[i] = x
      /\ \A x \in Players : LeagueRow(before, x).won <= LeagueRow(before, o[1]).won
    BY <1>4 DEF TableOf
<1>6. PICK table : table = ComputeStandings(ordered, before)
                   /\ \A i \in 1 .. n : table[i] = LeagueRow(before, o[i])
    BY <1>4 DEF TableOf
<1>7. PICK top \in Players : top = o[1] /\ table[1] = LeagueRow(before, top)
    <2>1. 1 \in 1 .. n
        BY <1>1
    <2> QED BY <1>5, <1>6, <2>1
<1>8. \A x \in Players : /\ LeagueRow(before, x).won \in Nat
                         /\ LeagueRow(before, x).won <= LeagueRow(before, top).won
    BY <1>2, <1>5, <1>7, RowTypes
<1>9. RobinComplete
    <2>1. PICK D : D = drawn /\ D = BuildRoundRobin(ordered)
        BY <1>2
    <2>2. /\ \A x, y \in Players : x # y => Cardinality({m \in D : m.players = {x, y}}) = 1
          /\ \A m, k \in D : m # k /\ m.round = k.round => m.players \cap k.players = {}
        BY <2>1, RobinDrawn, Zenon
    <2> QED BY <2>1, <2>2, Zenon DEF RobinComplete
<1>10. {table[i].participant : i \in 1 .. n} = Players
    <2>1. ASSUME NEW i \in 1 .. n PROVE table[i].participant = o[i] /\ o[i] \in Players
        <3>1. LeagueRow(before, o[i]).participant = o[i]
            BY RowIs
        <3> QED BY <1>5, <1>6, <3>1
    <2> QED BY <1>5, <2>1
<1> DEFINE Column(column) == [i \in 1 .. n |-> table[i][column]]
           Sum(column) == SumOf(Column(column), 1 .. n)
<1>11. Sum("won") = Cardinality(before) /\ Sum("lost") = Cardinality(before) /\ Sum("diff") = 0
    <2>1. ASSUME NEW column \in {"won", "lost", "diff"}
          PROVE  Sum(column) = SumOf(ColumnOf(before, column), Players)
        <3>1. Column(column) = TableColumn(before, n, o, column)
            BY <1>6 DEF TableColumn
        <3> HIDE DEF Column
        <3>2. SumOf(TableColumn(before, n, o, column), 1 .. n) = SumOf(ColumnOf(before, column), Players)
            BY <1>1, <1>2, <1>4, TableSums
        <3> QED BY <3>1, <3>2
    <2> HIDE DEF Sum
    <2>2. /\ Sum("won") = SumOf(WonColumn(Players, before), Players)
          /\ Sum("lost") = SumOf(LostColumn(Players, before), Players)
          /\ Sum("diff") = SumOf(DiffColumn(Players, before), Players)
        BY <2>1 DEF WonColumn, LostColumn, DiffColumn, ColumnOf
    <2>3. ColumnsMatch(Players, before)
        BY <1>2, <1>3, Totals
    <2> QED BY <2>2, <2>3 DEF ColumnsMatch
<1>12. ASSUME NEW i \in 1 .. n, table[i].won = n - 1
       PROVE  i = 1
    <2> SUFFICES ASSUME i # 1 PROVE FALSE
        OBVIOUS
    <2>1. PICK x \in Players : x = o[i] /\ LeagueRow(before, x).won = n - 1 /\ x # top
        <3>1. 1 \in 1 .. n
            BY <1>1
        <3> QED BY <1>5, <1>6, <1>7, <1>12, <3>1
    <2>2. LeagueRow(before, top).won < n - 1
        BY <1>2, <1>3, <2>1, OneUnbeaten
    <2>3. LeagueRow(before, top).won \in Nat /\ n - 1 <= LeagueRow(before, top).won
        BY <1>8, <2>1
    <2> QED BY <2>2, <2>3
<1>13. ASSUME before # {} PROVE table[1].won > 0
    <2>1. PICK m \in before : \E a, b \in Players : Beat(m, a, b)
        BY <1>2, <1>13 DEF League
    <2>2. PICK a \in Players : m \in WonBy(before, a)
        BY <2>1 DEF Beat, WonBy, Own
    <2>3. LeagueRow(before, a).won # 0
        <3>1. IsFiniteSet(WonBy(before, a))
            BY <1>2, RowTypes
        <3>2. Cardinality(WonBy(before, a)) # 0
            BY <2>2, <3>1, FS_EmptySet
        <3>3. LeagueRow(before, a).won = Cardinality(WonBy(before, a))
            BY RowIs
        <3> QED BY <3>2, <3>3
    <2>4. /\ LeagueRow(before, a).won \in Nat /\ LeagueRow(before, top).won \in Nat
          /\ LeagueRow(before, a).won <= LeagueRow(before, top).won
        BY <1>8
    <2> QED BY <1>7, <2>3, <2>4
<1>14. ASSUME Cardinality(before) = Cardinality(drawn) PROVE 2 * table[1].won >= n - 1
    <2>1. \A x, y \in Players : x # y => \E m \in before : m.players = {x, y}
        BY <1>14, AllPlayed
    <2>2. PICK x \in Players : 2 * LeagueRow(before, x).won >= n - 1
        <3>1. Players # {}
            BY <1>1
        <3> QED BY <1>2, <1>3, <2>1, <3>1, HalfWon
    <2>3. /\ LeagueRow(before, x).won \in Nat /\ LeagueRow(before, top).won \in Nat
          /\ LeagueRow(before, x).won <= LeagueRow(before, top).won
        BY <1>8
    <2> QED BY <1>7, <2>2, <2>3
<1> HIDE DEF Sum
<1> QED BY <1>1, <1>6, <1>9, <1>10, <1>11, <1>12, <1>13, <1>14 DEF RobinSound, Sum, Column

\* A round robin has everyone meet everyone once and nobody twice in a round
\* (buildRoundRobin), and its table (computeStandings) lists everyone once, with as
\* many matches won as lost and the differences in balance; who has won all his
\* matches is first, and after the last match the champion has won half of his.
THEOREM RobinIsFair == AllSpec => []RobinSound
<1>1. FieldInv /\ RobinInv => RobinSound
    BY RobinHolds
<1> QED BY <1>1, FieldKept, RobinInvariant, PTL

=============================================================================
