----------------------------- MODULE GraphProofs -----------------------------
(***************************************************************************)
(* What the graph algorithms compute, for every number of blocks and every *)
(* flow graph, as facts about the values that FlowGraph, DFS,              *)
(* DominatorTree and LoopTree define, with no state in them: reachability, *)
(* the search, the theory of Lengauer and Tarjan with reachability for the *)
(* paths, the three passes of the dominator tree's constructor, natural    *)
(* loops, the table that LoopTree makes of them, and the order in which a  *)
(* loop's body is queued.                                                  *)
(***************************************************************************)
EXTENDS LoopTree, FiniteSetTheorems, WellFoundedInduction, TLAPS

-------------------------------------------------------------------------------
(* Natural numbers, and folds.                                             *)

(* Min is the least element of a set of natural numbers, finite or not.    *)
LEMMA SmallestNat ==
    ASSUME NEW S \in SUBSET Nat, S # {}
    PROVE  Min(S) \in S /\ \A y \in S : Min(S) <= y
<1> DEFINE R == OpToRel(<, Nat)
<1>1. \A x, y \in Nat : x < y <=> <<x, y>> \in R
    BY DEF OpToRel
<1>2. \E x \in S : \A y \in S : ~ (<<y, x>> \in R)
    <2> HIDE DEF R
    <2>1. IsWellFoundedOn(R, Nat)
        BY NatLessThanWellFounded DEF R
    <2>2. QED
        BY <2>1, WFMin
<1> HIDE DEF R
<1>3. \E x \in S : \A y \in S : x <= y
    <2>1. PICK x \in S : \A y \in S : ~ (<<y, x>> \in R)
        BY <1>2
    <2>2. \A y \in S : x \in Nat /\ y \in Nat
        OBVIOUS
    <2>3. \A y \in S : ~ (y < x)
        BY <1>1, <2>1, <2>2
    <2>4. QED
        BY <2>2, <2>3
<1>4. QED
    BY <1>3 DEF Min

(* What holds of 0 and of a number if it holds of the one before it, holds *)
(* of all.                                                                 *)
LEMMA UpTo ==
    ASSUME NEW N \in Nat, NEW T, 0 \in T, \A k \in 1 .. N : k - 1 \in T => k \in T
    PROVE  0 .. N \subseteq T
<1> DEFINE rest == (0 .. N) \ T
<1> SUFFICES ASSUME rest # {} PROVE FALSE
    OBVIOUS
<1>1. Min(rest) \in rest /\ \A y \in rest : Min(rest) <= y
    BY SmallestNat
<1>2. PICK n \in 0 .. N : n = Min(rest) /\ n \notin T
    BY <1>1
<1>3. n # 0
    BY <1>2
<1>4. n \in 1 .. N /\ n - 1 \in 0 .. N /\ n - 1 < n
    BY <1>3
<1>5. n - 1 \in T
    BY <1>1, <1>2, <1>4
<1>6. QED
    BY <1>2, <1>4, <1>5

(* Max is the greatest element of an interval.                             *)
LEMMA GreatestOfInterval ==
    ASSUME NEW k \in Nat \ {0}
    PROVE  Max(1 .. k) = k /\ (1 .. k) \ {k} = 1 .. k - 1
<1>1. k \in 1 .. k /\ \A y \in 1 .. k : k >= y
    OBVIOUS
<1>2. \A x \in 1 .. k : (\A y \in 1 .. k : x >= y) => x = k
    BY <1>1
<1>3. Max(1 .. k) = k
    BY <1>1, <1>2 DEF Max
<1>4. QED
    BY <1>3

LEMMA LargestNat ==
    ASSUME NEW N \in Nat, NEW S \in SUBSET (1 .. N), S # {}
    PROVE  Max(S) \in S /\ \A y \in S : Max(S) >= y
<1> DEFINE bounds == {n \in Nat : \A y \in S : n >= y}
<1>1. bounds \in SUBSET Nat /\ N \in bounds
    OBVIOUS
<1>2. PICK m \in bounds : \A n \in bounds : m <= n
    BY <1>1, SmallestNat
<1>3. m \in S
    <2> SUFFICES ASSUME m \notin S PROVE FALSE
        OBVIOUS
    <2>1. m \in Nat /\ \A y \in S : y \in Nat \ {0} /\ m >= y /\ m # y
        BY <1>2
    <2>2. \A y \in S : m - 1 >= y
        BY <2>1
    <2>3. m - 1 \in Nat
        <3>1. PICK y : y \in S
            OBVIOUS
        <3>2. QED
            BY <2>1, <3>1
    <2>4. m - 1 \in bounds
        BY <2>2, <2>3
    <2>5. QED
        BY <1>2, <2>1, <2>4
<1>4. \A y \in S : m >= y
    BY <1>2
<1>5. QED
    BY <1>3, <1>4 DEF Max

(* The recursion of MapThenFoldSet in FoldLeft, over the indices 1 .. N of *)
(* a sequence ...                                                          *)
FoldsBy(it, N, base, Op) ==
    \A s \in SUBSET (1 .. N) :
        it[s] = IF s = {} THEN base ELSE Op[<<it[s \ {Max(s)}], Max(s)>>]

(* ... has a solution,                                                     *)
LEMMA FoldExists ==
    ASSUME NEW N \in Nat, NEW X, NEW base \in X, NEW Op \in [X \X (1 .. N) -> X]
    PROVE  \E it \in [SUBSET (1 .. N) -> X] : FoldsBy(it, N, base, Op)
<1> DEFINE Solves(it, n) ==
               \A s \in SUBSET (1 .. n) :
                   it[s] = IF s = {} THEN base ELSE Op[<<it[s \ {Max(s)}], Max(s)>>]
           Solvable(n) == \E it \in [SUBSET (1 .. n) -> X] : Solves(it, n)
           bad == {n \in 0 .. N : ~Solvable(n)}
<1>1. Solvable(0)
    <2> DEFINE it == [s \in SUBSET (1 .. 0) |-> base]
    <2>1. 1 .. 0 = {} /\ SUBSET (1 .. 0) = {{}}
        OBVIOUS
    <2>2. it \in [SUBSET (1 .. 0) -> X] /\ Solves(it, 0)
        BY <2>1
    <2>3. QED
        BY <2>2
<1>2. ASSUME NEW m \in 1 .. N, Solvable(m - 1)
      PROVE  Solvable(m)
    <2>1. PICK it \in [SUBSET (1 .. m - 1) -> X] : Solves(it, m - 1)
        BY <1>2
    <2> DEFINE more == [s \in SUBSET (1 .. m) |-> IF m \in s THEN Op[<<it[s \ {m}], m>>] ELSE it[s]]
    <2>2. m \in Nat /\ m \in 1 .. m /\ \A y \in 1 .. m : m >= y /\ (y # m => y \in 1 .. m - 1)
        OBVIOUS
    <2>3. ASSUME NEW s \in SUBSET (1 .. m), m \in s
          PROVE  Max(s) = m /\ s \ {m} \in SUBSET (1 .. m - 1)
        <3>1. \A x \in s : (\A y \in s : x >= y) => x = m
            BY <2>2, <2>3
        <3>2. Max(s) = m
            BY <2>2, <2>3, <3>1 DEF Max
        <3>3. QED
            BY <2>2, <3>2
    <2>4. \A s \in SUBSET (1 .. m) : m \notin s => s \in SUBSET (1 .. m - 1)
        BY <2>2
    <2>5. \A s \in SUBSET (1 .. m) : s \ {Max(s)} \in SUBSET (1 .. m)
        OBVIOUS
    <2>6. ASSUME NEW s \in SUBSET (1 .. m)
          PROVE  more[s] \in X
        <3>1. CASE m \in s
            <4>1. it[s \ {m}] \in X
                BY <2>3, <3>1
            <4>2. QED
                BY <2>2, <3>1, <4>1
        <3>2. CASE m \notin s
            BY <2>4, <3>2
        <3>3. QED
            BY <3>1, <3>2
    <2>7. ASSUME NEW s \in SUBSET (1 .. m)
          PROVE  more[s] = IF s = {} THEN base ELSE Op[<<more[s \ {Max(s)}], Max(s)>>]
        <3>1. CASE m \in s
            <4>1. Max(s) = m /\ s \ {m} \in SUBSET (1 .. m) /\ m \notin s \ {m} /\ s # {}
                BY <2>3, <3>1
            <4>2. more[s \ {m}] = it[s \ {m}]
                BY <4>1
            <4>3. more[s] = Op[<<it[s \ {m}], m>>]
                BY <3>1
            <4>4. QED
                BY <4>1, <4>2, <4>3
        <3>2. CASE m \notin s
            <4>1. s \in SUBSET (1 .. m - 1) /\ more[s] = it[s]
                BY <2>4, <3>2
            <4>2. s \ {Max(s)} \in SUBSET (1 .. m) /\ m \notin s \ {Max(s)}
                BY <2>5, <3>2
            <4>3. more[s \ {Max(s)}] = it[s \ {Max(s)}]
                BY <4>2
            <4>4. QED
                BY <2>1, <4>1, <4>3
        <3>3. QED
            BY <3>1, <3>2
    <2>8. more \in [SUBSET (1 .. m) -> X]
        BY <2>6
    <2> HIDE DEF more
    <2>9. QED
        BY <2>7, <2>8
<1> HIDE DEF Solvable
<1>3. bad = {}
    <2> SUFFICES ASSUME bad # {} PROVE FALSE
        OBVIOUS
    <2>1. Min(bad) \in bad /\ \A y \in bad : Min(bad) <= y
        BY SmallestNat
    <2>2. PICK m \in 0 .. N : m = Min(bad) /\ ~Solvable(m)
        BY <2>1
    <2>3. m # 0
        BY <1>1, <2>2
    <2>4. m \in 1 .. N /\ m - 1 \in 0 .. N /\ m - 1 < m
        BY <2>3
    <2>5. Solvable(m - 1)
        BY <2>1, <2>2, <2>4
    <2>6. QED
        BY <1>2, <2>2, <2>4, <2>5
<1>4. Solvable(N)
    BY <1>3
<1>5. QED
    BY <1>4 DEF Solvable, FoldsBy

(* ... and the values of a solution on the prefixes are the partial        *)
(* results.                                                                *)
FoldsPrefixesBy(it, N, X, base, Op) ==
    /\ it[{}] = base
    /\ \A k \in 1 .. N : it[1 .. k - 1] \in X => it[1 .. k] = Op[<<it[1 .. k - 1], k>>]

PartialResults(a, N, base, Op, result) ==
    /\ a[0] = base /\ a[N] = result
    /\ \A k \in 1 .. N : a[k] = Op[<<a[k - 1], k>>]

LEMMA FoldValues ==
    ASSUME NEW N \in Nat, NEW X, NEW base \in X, NEW Op \in [X \X (1 .. N) -> X], NEW it,
           FoldsPrefixesBy(it, N, X, base, Op)
    PROVE  \E a \in [0 .. N -> X] : PartialResults(a, N, base, Op, it[1 .. N])
<1> DEFINE a == [k \in 0 .. N |-> it[1 .. k]]
           bad == {n \in 0 .. N : a[n] \notin X}
<1>1. 1 .. 0 = {} /\ a[0] = base
    BY DEF FoldsPrefixesBy
<1>2. \A k \in 1 .. N : a[k - 1] \in X => a[k] = Op[<<a[k - 1], k>>]
    <2> SUFFICES ASSUME NEW k \in 1 .. N, a[k - 1] \in X
                 PROVE  a[k] = Op[<<a[k - 1], k>>]
        OBVIOUS
    <2>1. k - 1 \in 0 .. N /\ k \in 0 .. N
        OBVIOUS
    <2>2. a[k - 1] = it[1 .. k - 1] /\ a[k] = it[1 .. k]
        BY <2>1
    <2>3. QED
        BY <2>2 DEF FoldsPrefixesBy
<1>3. a[N] = it[1 .. N] /\ DOMAIN a = 0 .. N /\ a = [k \in 0 .. N |-> a[k]]
    OBVIOUS
<1> HIDE DEF a
<1>4. bad = {}
    <2> SUFFICES ASSUME bad # {} PROVE FALSE
        OBVIOUS
    <2>1. Min(bad) \in bad /\ \A y \in bad : Min(bad) <= y
        BY SmallestNat
    <2>2. PICK m \in 0 .. N : m = Min(bad) /\ a[m] \notin X
        BY <2>1
    <2>3. m # 0
        BY <1>1, <2>2
    <2>4. m \in 1 .. N /\ m - 1 \in 0 .. N /\ m - 1 < m
        BY <2>3
    <2>5. a[m - 1] \in X
        <3>1. m - 1 \notin bad
            BY <2>1, <2>2, <2>4
        <3>2. QED
            BY <2>4, <3>1
    <2>6. Op[<<a[m - 1], m>>] \in X
        BY <2>4, <2>5
    <2>7. QED
        BY <1>2, <2>2, <2>4, <2>5, <2>6
<1>5. a \in [0 .. N -> X]
    BY <1>3, <1>4
<1>6. \A k \in 1 .. N : a[k] = Op[<<a[k - 1], k>>]
    <2> SUFFICES ASSUME NEW k \in 1 .. N
                 PROVE  a[k] = Op[<<a[k - 1], k>>]
        OBVIOUS
    <2>1. k - 1 \in 0 .. N
        OBVIOUS
    <2>2. QED
        BY <1>2, <1>5, <2>1
<1>7. QED
    BY <1>1, <1>3, <1>5, <1>6 DEF PartialResults


-------------------------------------------------------------------------------
(* Reach is the least set that is closed under the edges.                  *)

(* the blocks of a set and those one edge away                             *)
Grown(g, avoided, set) ==
    set \cup {w \in Block \ avoided : \E u \in set : w \in Range(g.succ[u])}

Rounds(a, g, avoided) ==
    \A k \in 1 .. NumBlocks : a[k] = Grown(g, avoided, a[k - 1])

Closed(g, avoided, set) ==
    \A u \in set : \A w \in Range(g.succ[u]) : w \in Block \ avoided => w \in set

(* Reach grows the set with its start once for every block.                *)
LEMMA ReachGrows ==
    ASSUME NEW g, NEW v \in Block, NEW avoided
    PROVE  \E a \in [0 .. NumBlocks -> SUBSET Block] :
               a[0] = {v} \ avoided /\ a[NumBlocks] = Reach(g, v, avoided) /\ Rounds(a, g, avoided)
<1> DEFINE N == NumBlocks
           X == SUBSET Block
           base == {v} \ avoided
           seq == Times(N)
           Op == [p \in X \X (1 .. N) |-> Grown(g, avoided, p[1])]
<1>1. N \in Nat /\ N # 0
    BY FlowGraphAssumption
<1>2. Op \in [X \X (1 .. N) -> X] /\ base \in X
    BY DEF Grown
<1>3. DOMAIN seq = 1 .. N
    BY DEF Times
<1>4. \A x \in X, k \in 1 .. N : Op[<<x, k>>] = Grown(g, avoided, x)
    OBVIOUS
<1>5. PICK it \in [SUBSET (1 .. N) -> X] : FoldsBy(it, N, base, Op)
    <2> HIDE DEF Op, X, base
    <2>1. QED
        BY <1>1, <1>2, FoldExists
<1>6. it = [s \in SUBSET (1 .. N) |->
               IF s = {} THEN base ELSE Grown(g, avoided, it[s \ {Max(s)}])]
    <2>1. ASSUME NEW s \in SUBSET (1 .. N)
          PROVE  it[s] = IF s = {} THEN base ELSE Grown(g, avoided, it[s \ {Max(s)}])
        <3>1. CASE s = {}
            BY <1>5, <3>1 DEF FoldsBy
        <3>2. CASE s # {}
            <4>1. Max(s) \in 1 .. N
                BY <1>1, <3>2, LargestNat
            <4>2. it[s \ {Max(s)}] \in X
                BY <1>5
            <4>3. QED
                BY <1>4, <1>5, <3>2, <4>1, <4>2 DEF FoldsBy
        <3>3. QED
            BY <3>1, <3>2
    <2>2. QED
        BY <2>1
<1> DEFINE fold == CHOOSE f : f = [s \in SUBSET (1 .. N) |->
                                      IF s = {} THEN base ELSE Grown(g, avoided, f[s \ {Max(s)}])]
<1>7. fold = [s \in SUBSET (1 .. N) |->
                 IF s = {} THEN base ELSE Grown(g, avoided, fold[s \ {Max(s)}])]
    BY <1>6
<1>8. Reach(g, v, avoided) = fold[1 .. N]
    BY <1>3 DEF Reach, FoldLeft, MapThenFoldSet, Grown
<1>9. fold[{}] = base /\ \A s \in SUBSET (1 .. N) : s # {} => fold[s] = Grown(g, avoided, fold[s \ {Max(s)}])
    <2> HIDE DEF fold, base, N
    <2>1. {} \in SUBSET (1 .. N)
        OBVIOUS
    <2>2. QED
        BY <1>7, <2>1
<1>10. \A k \in 1 .. N : fold[1 .. k - 1] \in X => fold[1 .. k] = Op[<<fold[1 .. k - 1], k>>]
    <2> SUFFICES ASSUME NEW k \in 1 .. N, fold[1 .. k - 1] \in X
                 PROVE  fold[1 .. k] = Grown(g, avoided, fold[1 .. k - 1])
        BY <1>4
    <2>1. k \in Nat \ {0} /\ k <= N /\ 1 .. k \in SUBSET (1 .. N) /\ k \in 1 .. k
        BY <1>1
    <2>2. Max(1 .. k) = k /\ (1 .. k) \ {k} = 1 .. k - 1
        BY <2>1, GreatestOfInterval
    <2> HIDE DEF fold
    <2>3. QED
        BY <1>9, <2>1, <2>2
<1> HIDE DEF fold, Op, X, base, N
<1>11. PICK a \in [0 .. N -> X] : PartialResults(a, N, base, Op, fold[1 .. N])
    <2>1. FoldsPrefixesBy(fold, N, X, base, Op)
        BY <1>9, <1>10 DEF FoldsPrefixesBy
    <2>2. QED
        BY <1>1, <1>2, <2>1, FoldValues
<1>12. \A k \in 1 .. N : a[k] = Grown(g, avoided, a[k - 1])
    <2> SUFFICES ASSUME NEW k \in 1 .. N
                 PROVE  a[k] = Grown(g, avoided, a[k - 1])
        OBVIOUS
    <2>1. k - 1 \in 0 .. N
        BY <1>1
    <2>2. QED
        BY <1>4, <1>11, <2>1 DEF PartialResults
<1>13. QED
    BY <1>8, <1>11, <1>12 DEF X, base, N, PartialResults, Rounds

(* There are as many rounds as blocks, and a round that adds no block is   *)
(* followed by no other that does: the last one has nothing left to add.   *)
LEMMA GrowthEnds ==
    ASSUME NEW g, NEW avoided, NEW a \in [0 .. NumBlocks -> SUBSET Block],
           Rounds(a, g, avoided), a[0] # {}
    PROVE  Grown(g, avoided, a[NumBlocks]) = a[NumBlocks]
<1> DEFINE N == NumBlocks
           grow(set) == Grown(g, avoided, set)
<1>1. N \in Nat /\ N # 0
    BY FlowGraphAssumption
<1>2. \A k \in 1 .. N : k - 1 \in 0 .. N /\ a[k] = grow(a[k - 1])
    BY <1>1 DEF Rounds
<1>3. \A set : set \subseteq grow(set)
    BY DEF Grown
<1>4. \A k \in 0 .. N : a[k] \in SUBSET Block
    OBVIOUS
<1>5. \A set \in SUBSET Block : IsFiniteSet(set) /\ Cardinality(set) \in Nat /\ Cardinality(set) <= N
    <2>1. IsFiniteSet(Block) /\ Cardinality(Block) = N
        BY <1>1, FS_Interval DEF Block
    <2>2. QED
        BY <2>1, FS_Subset, FS_CardinalityType
<1> HIDE DEF N, grow
<1> SUFFICES ASSUME grow(a[N]) # a[N] PROVE FALSE
    BY DEF grow, N
<1>6. \A k \in 0 .. N : grow(a[k]) # a[k]
    <2> DEFINE left == {n \in 0 .. N : grow(a[N - n]) = a[N - n]}
    <2> SUFFICES ASSUME NEW k \in 0 .. N, grow(a[k]) = a[k] PROVE FALSE
        OBVIOUS
    <2>1. left \in SUBSET Nat
        OBVIOUS
    <2>2. N - k \in left
        <3>1. N - k \in 0 .. N /\ N - (N - k) = k
            BY <1>1
        <3>2. QED
            BY <3>1
    <2>3. Min(left) \in left /\ \A y \in left : Min(left) <= y
        BY <2>1, <2>2, SmallestNat
    <2>4. PICK n \in 0 .. N : n = Min(left) /\ grow(a[N - n]) = a[N - n]
        BY <2>3
    <2>5. n # 0
        BY <1>1, <2>4
    <2>6. n - 1 \in 0 .. N /\ N - (n - 1) \in 1 .. N /\ (N - (n - 1)) - 1 = N - n /\ n - 1 < n
        BY <1>1, <2>5
    <2>7. a[N - (n - 1)] = grow(a[N - n])
        BY <1>2, <2>6
    <2>8. n - 1 \in left
        BY <2>4, <2>6, <2>7
    <2>9. QED
        BY <2>3, <2>4, <2>6, <2>8
<1>7. \A k \in 0 .. N : Cardinality(a[k]) >= k + 1
    <2> DEFINE small == {n \in 0 .. N : ~ (Cardinality(a[n]) >= n + 1)}
    <2> SUFFICES ASSUME small # {} PROVE FALSE
        OBVIOUS
    <2>1. small \in SUBSET Nat
        OBVIOUS
    <2>2. Min(small) \in small /\ \A y \in small : Min(small) <= y
        BY <2>1, SmallestNat
    <2>3. PICK n \in 0 .. N : n = Min(small) /\ ~ (Cardinality(a[n]) >= n + 1)
        BY <2>2
    <2>4. CASE n = 0
        <3>1. a[0] \in SUBSET Block
            BY <1>1, <1>4
        <3>2. Cardinality(a[0]) # 0
            BY <1>5, <3>1, FS_EmptySet
        <3>3. QED
            BY <1>5, <2>3, <2>4, <3>1, <3>2
    <2>5. CASE n # 0
        <3>1. n \in 1 .. N /\ n - 1 \in 0 .. N /\ n - 1 < n
            BY <1>1, <2>5
        <3>2. Cardinality(a[n - 1]) >= n
            BY <2>2, <2>3, <3>1
        <3>3. a[n - 1] \in SUBSET Block /\ a[n] \in SUBSET Block
            BY <1>4, <3>1
        <3>4. a[n] = grow(a[n - 1]) /\ a[n - 1] \subseteq a[n] /\ a[n] # a[n - 1]
            BY <1>2, <1>3, <1>6, <3>1
        <3>5. Cardinality(a[n - 1]) <= Cardinality(a[n]) /\ Cardinality(a[n - 1]) # Cardinality(a[n])
            BY <1>5, <3>3, <3>4, FS_Subset
        <3>6. Cardinality(a[n]) \in Nat /\ Cardinality(a[n - 1]) \in Nat
            BY <1>5, <3>3
        <3>7. QED
            BY <2>3, <3>2, <3>5, <3>6
    <2>6. QED
        BY <2>4, <2>5
<1>8. Cardinality(a[N]) >= N + 1 /\ a[N] \in SUBSET Block
    BY <1>1, <1>4, <1>7
<1>9. QED
    BY <1>1, <1>5, <1>8

(* What the rounds keep holds of their result.                             *)
LEMMA RoundsKeep ==
    ASSUME NEW g, NEW avoided, NEW a \in [0 .. NumBlocks -> SUBSET Block],
           Rounds(a, g, avoided),
           NEW kept, a[0] \in kept, \A set \in kept : Grown(g, avoided, set) \in kept
    PROVE  a[NumBlocks] \in kept
<1> DEFINE T == {k \in 0 .. NumBlocks : a[k] \in kept}
<1>1. NumBlocks \in Nat
    BY FlowGraphAssumption
<1>2. \A k \in 1 .. NumBlocks : a[k] = Grown(g, avoided, a[k - 1]) /\ k \in 0 .. NumBlocks
    BY DEF Rounds
<1>3. 0 \in T /\ \A k \in 1 .. NumBlocks : k - 1 \in T => k \in T
    BY <1>1, <1>2
<1> HIDE DEF T
<1>4. 0 .. NumBlocks \subseteq T
    BY <1>1, <1>3, UpTo
<1>5. QED
    BY <1>1, <1>4 DEF T

(* So it is the least set with its start that no edge leaves.              *)
LEMMA ReachIsLeast ==
    ASSUME NEW g, NEW v \in Block, NEW avoided
    PROVE  /\ Reach(g, v, avoided) \in SUBSET (Block \ avoided)
           /\ {v} \ avoided \subseteq Reach(g, v, avoided)
           /\ Closed(g, avoided, Reach(g, v, avoided))
           /\ \A set : {v} \ avoided \subseteq set /\ Closed(g, avoided, set)
                           => Reach(g, v, avoided) \subseteq set
<1> DEFINE start == {v} \ avoided
<1>1. PICK a \in [0 .. NumBlocks -> SUBSET Block] :
          a[0] = start /\ a[NumBlocks] = Reach(g, v, avoided) /\ Rounds(a, g, avoided)
    BY ReachGrows
<1>2. Reach(g, v, avoided) \in {set \in SUBSET (Block \ avoided) : start \subseteq set}
    <2> DEFINE kept == {set \in SUBSET (Block \ avoided) : start \subseteq set}
    <2>1. a[0] \in kept
        BY <1>1
    <2>2. \A set \in kept : Grown(g, avoided, set) \in kept
        BY DEF Grown
    <2> HIDE DEF kept
    <2>3. a[NumBlocks] \in kept
        BY <1>1, <2>1, <2>2, RoundsKeep
    <2>4. QED
        BY <1>1, <2>3 DEF kept
<1>3. ASSUME NEW set, start \subseteq set, Closed(g, avoided, set)
      PROVE  Reach(g, v, avoided) \subseteq set
    <2>1. a[0] \in SUBSET set
        BY <1>1, <1>3
    <2>2. \A part \in SUBSET set : Grown(g, avoided, part) \in SUBSET set
        BY <1>3 DEF Closed, Grown
    <2>3. a[NumBlocks] \in SUBSET set
        BY <1>1, <2>1, <2>2, RoundsKeep
    <2>4. QED
        BY <1>1, <2>3
<1>4. Closed(g, avoided, Reach(g, v, avoided))
    <2>1. CASE start = {}
        <3>1. Closed(g, avoided, {})
            BY DEF Closed
        <3>2. Reach(g, v, avoided) = {}
            BY <1>3, <2>1, <3>1
        <3>3. QED
            BY <3>1, <3>2
    <2>2. CASE start # {}
        <3>1. Grown(g, avoided, Reach(g, v, avoided)) = Reach(g, v, avoided)
            BY <1>1, <2>2, GrowthEnds
        <3>2. QED
            BY <3>1 DEF Closed, Grown
    <2>3. QED
        BY <2>1, <2>2
<1>5. QED
    BY <1>2, <1>3, <1>4

-------------------------------------------------------------------------------
(* The search: what DFSOf finds, its times, its tree and its orders.       *)

(* The notions of module DFSWalk for a value d of a search around vis.     *)

FoundBy(vis, d) == DOMAIN d.info \ vis

Begin(d, v) == d.info[v].discovery_time

End(d, v) == d.info[v].finished_time

Running(d, v) == End(d, v) = 0

Root(d) == d.pre_order[1]

Nodes(vis, d) == [predecessor    : FoundBy(vis, d) \cup {NoBlock},
                  discovery_time : 0 .. d.time,
                  finished_time  : 0 .. d.time]

WellFormed(g, vis, d) ==
    /\ g.succ \in [Block -> Seq(Block)]
    /\ vis \subseteq DOMAIN d.info
    /\ DOMAIN d.info \subseteq Block
    /\ d \in [info       : [DOMAIN d.info -> Nodes(vis, d)],
              pre_order  : Seq(FoundBy(vis, d)),
              post_order : Seq(FoundBy(vis, d)),
              current    : FoundBy(vis, d) \cup {NoBlock},
              time       : Nat]

(* two calls never overlap partly                                          *)
Nested(vis, d) ==
    \A u, v \in FoundBy(vis, d) :
        /\ Begin(d, u) < Begin(d, v)
        /\ End(d, u) # 0
        => \/ End(d, u) < Begin(d, v)
           \/ End(d, v) # 0 /\ End(d, v) < End(d, u)

(* the edges of a vertex whose call has returned                           *)
Forward(g, vis, d) ==
    \A u \in FoundBy(vis, d) : \A v \in Range(g.succ[u]) \ vis :
        End(d, u) # 0 =>
            /\ v \in FoundBy(vis, d)
            /\ \/ Begin(d, v) <= Begin(d, u) /\ (Running(d, v) \/ End(d, u) <= End(d, v))
               \/ ~Running(d, v) /\ End(d, v) < End(d, u)

(* the steps of the search                                                 *)
Starts(g, vis, d) ==
    /\ g.succ \in [Block -> Seq(Block)]
    /\ \E source \in Block : vis \in SUBSET (Block \ {source}) /\ d = Started(source, vis)

Calls(g, d, e) ==
    /\ d.current # NoBlock
    /\ Fresh(g, d) # {}
    /\ e = Enter(d, Child(g, d))

Returns(g, d, e) ==
    /\ d.current # NoBlock
    /\ Fresh(g, d) = {}
    /\ e = Leave(d)

-------------------------------------------------------------------------------
(* The inductive invariant.                                                *)

(* Times are given out once: vertices are discovered at different times,   *)
(* and a call returns after it began.                                      *)
TimesApart(vis, d) ==
    /\ \A v \in FoundBy(vis, d) : 0 < Begin(d, v) /\ (Running(d, v) \/ Begin(d, v) < End(d, v))
    /\ \A u, v \in FoundBy(vis, d) : Begin(d, u) = Begin(d, v) => u = v

(* The open calls are a stack whose links are predecessor_: current is the *)
(* open vertex discovered last, and the predecessor of an open vertex is   *)
(* the open vertex discovered last before it.                              *)
CallStack(vis, d) ==
    /\ \A v \in FoundBy(vis, d) : Running(d, v) =>
           \E c \in FoundBy(vis, d) : c = d.current /\ Begin(d, v) <= Begin(d, c)
    /\ \A c \in FoundBy(vis, d) : c = d.current => Running(d, c)
    /\ \A p, v \in FoundBy(vis, d) :
           Running(d, v) /\ p = d.info[v].predecessor => Running(d, p) /\ Begin(d, p) < Begin(d, v)
    /\ \A u, v \in FoundBy(vis, d) :
           Running(d, u) /\ Running(d, v) /\ Begin(d, u) < Begin(d, v) =>
               \E p \in FoundBy(vis, d) : p = d.info[v].predecessor /\ Begin(d, u) <= Begin(d, p)

Consistent(g, vis, d) ==
    /\ WellFormed(g, vis, d)
    /\ TimesApart(vis, d)
    /\ CallStack(vis, d)
    /\ Nested(vis, d)
    /\ Forward(g, vis, d)

-------------------------------------------------------------------------------

LEMMA BlockFacts == Block \subseteq Nat /\ NoBlock \notin Block
BY FlowGraphAssumption DEF Block, NoBlock

Entered(d, v, e) == e = Enter(d, v)

Left(d, c, e) == c = d.current /\ e = Leave(d)

LEMMA RecordOf ==
    ASSUME NEW I, NEW P, NEW Q, NEW C, NEW T,
           NEW i \in I, NEW p \in P, NEW q \in Q, NEW c \in C, NEW t \in T
    PROVE  [info |-> i, pre_order |-> p, post_order |-> q, current |-> c, time |-> t]
               \in [info : I, pre_order : P, post_order : Q, current : C, time : T]
OBVIOUS

(* All that is known of a record in which the call of v has just begun.    *)
BegunIn(g, vis, d, v, e) ==
    /\ WellFormed(g, vis, e)
    /\ FoundBy(vis, e) = FoundBy(vis, d) \cup {v}
    /\ v \notin FoundBy(vis, d)
    /\ e.current = v
    /\ e.pre_order = Append(d.pre_order, v)
    /\ e.post_order = d.post_order
    /\ e.time = d.time + 1
    /\ Begin(e, v) = d.time + 1
    /\ End(e, v) = 0
    /\ e.info[v].predecessor = d.current
    /\ \A u \in FoundBy(vis, d) : e.info[u] = d.info[u]

(* A call that begins adds one vertex and changes no other.                *)
LEMMA EnterEffect ==
    ASSUME NEW g, NEW vis, NEW d, NEW e, WellFormed(g, vis, d),
           NEW v \in Block, v \notin DOMAIN d.info,
           Entered(d, v, e)
    PROVE  BegunIn(g, vis, d, v, e)
<1> USE DEF FoundBy
<1> DEFINE node == InfoNode(d.current, d.time + 1, 0)
           D == DOMAIN d.info
<1>1. e = [info       |-> Stored(d.info, v, node),
              pre_order  |-> Append(d.pre_order, v),
              post_order |-> d.post_order,
              current    |-> v,
              time       |-> d.time + 1]
    BY DEF WellFormed, Enter, Entered
<1>2. e.info = [u \in D \cup {v} |-> IF u = v THEN node ELSE d.info[u]]
    BY <1>1 DEF Stored
<1>3. DOMAIN e.info = D \cup {v} /\ FoundBy(vis, e) = FoundBy(vis, d) \cup {v} /\ v \notin vis
    BY <1>2 DEF WellFormed
<1>4. node \in Nodes(vis, e)
    BY <1>1, <1>3 DEF WellFormed, Nodes, InfoNode
<1>5. \A u \in D : d.info[u] \in Nodes(vis, e)
    BY <1>1, <1>3 DEF WellFormed, Nodes
<1>6. e.info \in [DOMAIN e.info -> Nodes(vis, e)]
    BY <1>2, <1>3, <1>4, <1>5
<1>7. e.pre_order \in Seq(FoundBy(vis, e)) /\ e.post_order \in Seq(FoundBy(vis, e))
    <2>1. d.pre_order \in Seq(FoundBy(vis, e)) /\ d.post_order \in Seq(FoundBy(vis, e))
        BY <1>3 DEF WellFormed
    <2>2. QED
        BY <1>1, <1>3, <2>1
<1>8. d.time + 1 \in Nat /\ v \in FoundBy(vis, e)
    BY <1>3 DEF WellFormed
<1>9. WellFormed(g, vis, e)
    <2>1. e \in [info       : [DOMAIN e.info -> Nodes(vis, e)],
                pre_order  : Seq(FoundBy(vis, e)),
                post_order : Seq(FoundBy(vis, e)),
                current    : FoundBy(vis, e) \cup {NoBlock},
                time       : Nat]
        <3> HIDE DEF FoundBy, node
        <3>1. /\ e.current = v
              /\ e.time = d.time + 1
              /\ e = [info |-> e.info, pre_order |-> e.pre_order, post_order |-> e.post_order,
                      current |-> e.current, time |-> e.time]
            BY <1>1
        <3>2. QED
            BY <1>6, <1>7, <1>8, <3>1, RecordOf
    <2>2. g.succ \in [Block -> Seq(Block)] /\ vis \subseteq DOMAIN e.info /\ DOMAIN e.info \subseteq Block
        BY <1>3 DEF WellFormed
    <2>3. QED
        BY <2>1, <2>2 DEF WellFormed
<1>10. e.info[v] = node /\ \A u \in FoundBy(vis, d) : e.info[u] = d.info[u]
    BY <1>2, <1>3
<1> HIDE DEF node
<1>11. /\ e.current = v
       /\ e.pre_order = Append(d.pre_order, v)
       /\ e.post_order = d.post_order
       /\ e.time = d.time + 1
    BY <1>1
<1>12. /\ e.info[v].discovery_time = d.time + 1
       /\ e.info[v].finished_time = 0
       /\ e.info[v].predecessor = d.current
    BY <1>10 DEF node, InfoNode
<1> HIDE DEF FoundBy
<1>13. v \notin FoundBy(vis, d)
    BY DEF FoundBy
<1>14. QED
    BY <1>3, <1>9, <1>10, <1>11, <1>12, <1>13 DEF Begin, End, BegunIn

(* A call that returns sets the finished time of current.                  *)
LEMMA LeaveEffect ==
    ASSUME NEW g, NEW vis, NEW d, NEW e, WellFormed(g, vis, d),
           NEW c \in FoundBy(vis, d), Left(d, c, e)
    PROVE  /\ WellFormed(g, vis, e)
           /\ FoundBy(vis, e) = FoundBy(vis, d)
           /\ e.current = d.info[c].predecessor
           /\ e.pre_order = d.pre_order
           /\ e.post_order = Append(d.post_order, c)
           /\ e.time = d.time + 1
           /\ End(e, c) = d.time + 1
           /\ \A u \in FoundBy(vis, d) : u # c => End(e, u) = End(d, u)
           /\ \A u \in FoundBy(vis, d) : /\ Begin(e, u) = Begin(d, u)
                               /\ e.info[u].predecessor = d.info[u].predecessor
<1> USE DEF FoundBy
<1> DEFINE D == DOMAIN d.info
           node == [predecessor    |-> d.info[c].predecessor,
                    discovery_time |-> d.info[c].discovery_time,
                    finished_time  |-> d.time + 1]
           info == [u \in D |-> IF u = c THEN node ELSE d.info[u]]
<1>1. d.info \in [D -> Nodes(vis, d)] /\ c \in D /\ d.time \in Nat
    BY DEF WellFormed
<1>2. \A u \in D : /\ d.info[u].predecessor \in FoundBy(vis, d) \cup {NoBlock}
                   /\ d.info[u].discovery_time \in 0 .. d.time
                   /\ d.info[u].finished_time \in 0 .. d.time
    BY <1>1 DEF Nodes
<1>3. [d.info EXCEPT ![c].finished_time = d.time + 1] = info
    <2>1. [d.info[c] EXCEPT !.finished_time = d.time + 1] = node
        BY <1>1 DEF Nodes
    <2>2. QED
        BY <1>1, <2>1
<1>4. e = [info       |-> [d.info EXCEPT ![c].finished_time = d.time + 1],
              pre_order  |-> d.pre_order,
              post_order |-> Append(d.post_order, c),
              current    |-> d.info[c].predecessor,
              time       |-> d.time + 1]
    BY DEF WellFormed, Leave, Left
<1>5. /\ e.info = info
      /\ e.pre_order = d.pre_order
      /\ e.post_order = Append(d.post_order, c)
      /\ e.current = d.info[c].predecessor
      /\ e.time = d.time + 1
    BY <1>3, <1>4
<1>6. FoundBy(vis, e) = FoundBy(vis, d) /\ DOMAIN e.info = D
    BY <1>5
<1>7. node \in Nodes(vis, e) /\ \A u \in D : d.info[u] \in Nodes(vis, e)
    BY <1>1, <1>2, <1>5, <1>6 DEF Nodes
<1>8. e.info \in [DOMAIN e.info -> Nodes(vis, e)]
    BY <1>5, <1>6, <1>7
<1>9. e.pre_order \in Seq(FoundBy(vis, e)) /\ e.post_order \in Seq(FoundBy(vis, e))
    BY <1>5, <1>6 DEF WellFormed
<1>10. e.current \in FoundBy(vis, e) \cup {NoBlock}
    BY <1>1, <1>2, <1>5, <1>6
<1>11. WellFormed(g, vis, e)
    <2>1. e \in [info       : [DOMAIN e.info -> Nodes(vis, e)],
                pre_order  : Seq(FoundBy(vis, e)),
                post_order : Seq(FoundBy(vis, e)),
                current    : FoundBy(vis, e) \cup {NoBlock},
                time       : Nat]
        <3>1. d.time + 1 \in Nat
            BY <1>1
        <3> HIDE DEF FoundBy, info, node
        <3>2. e = [info |-> e.info, pre_order |-> e.pre_order, post_order |-> e.post_order,
                   current |-> e.current, time |-> e.time]
            BY <1>4
        <3>3. e.time \in Nat
            BY <1>5, <3>1
        <3>4. QED
            BY <1>8, <1>9, <1>10, <3>2, <3>3, RecordOf
    <2>2. g.succ \in [Block -> Seq(Block)] /\ vis \subseteq DOMAIN e.info /\ DOMAIN e.info \subseteq Block
        BY <1>6 DEF WellFormed
    <2>3. QED
        BY <2>1, <2>2 DEF WellFormed
<1>12. \A u \in D : e.info[u] = IF u = c THEN node ELSE d.info[u]
    BY <1>5
<1>13. c \in D /\ FoundBy(vis, d) \subseteq D
    BY <1>1
<1> HIDE DEF info, FoundBy
<1>14. End(e, c) = d.time + 1
    BY <1>12, <1>13 DEF End
<1>15. \A u \in FoundBy(vis, d) : u # c => End(e, u) = End(d, u)
    BY <1>12, <1>13 DEF End
<1>16. \A u \in FoundBy(vis, d) : /\ Begin(e, u) = Begin(d, u)
                        /\ e.info[u].predecessor = d.info[u].predecessor
    BY <1>12, <1>13 DEF Begin
<1>17. QED
    BY <1>5, <1>6, <1>11, <1>14, <1>15, <1>16

-------------------------------------------------------------------------------

LEMMA TimeFacts ==
    ASSUME NEW g, NEW vis, NEW d, WellFormed(g, vis, d)
    PROVE  /\ d.time \in Nat
           /\ \A v \in FoundBy(vis, d) : /\ Begin(d, v) \in Nat /\ Begin(d, v) <= d.time
                               /\ End(d, v) \in Nat /\ End(d, v) <= d.time
           /\ FoundBy(vis, d) \subseteq Block
           /\ NoBlock \notin FoundBy(vis, d)
           /\ \A v \in FoundBy(vis, d) : d.info[v].predecessor \in FoundBy(vis, d) \cup {NoBlock}
<1>1. \A v \in DOMAIN d.info : d.info[v] \in Nodes(vis, d)
    BY DEF WellFormed
<1>2. d.time \in Nat /\ FoundBy(vis, d) \subseteq DOMAIN d.info /\ DOMAIN d.info \subseteq Block
    BY DEF WellFormed, FoundBy
<1>3. QED
    BY <1>1, <1>2, BlockFacts DEF Nodes, Begin, End

(* The vertex that a call begins for is not known and is a block.          *)
LEMMA ChildFacts ==
    ASSUME NEW g, NEW vis, NEW d, WellFormed(g, vis, d), d.current \in FoundBy(vis, d), Fresh(g, d) # {}
    PROVE  Child(g, d) \in Block /\ Child(g, d) \notin DOMAIN d.info
<1> DEFINE paths == g.succ[d.current]
<1>1. d.current \in Block
    BY TimeFacts
<1>2. paths \in Seq(Block)
    BY <1>1 DEF WellFormed
<1>3. Fresh(g, d) \subseteq DOMAIN paths /\ DOMAIN paths \subseteq Nat
    BY <1>2 DEF Fresh
<1>4. Min(Fresh(g, d)) \in Fresh(g, d)
    BY <1>3, SmallestNat
<1> DEFINE i == Min(Fresh(g, d))
<1>5. i \in DOMAIN paths /\ paths[i] \notin DOMAIN d.info
    BY <1>4 DEF Fresh
<1> HIDE DEF i
<1>6. paths[i] \in Block
    BY <1>2, <1>5
<1>7. QED
    BY <1>5, <1>6 DEF Child, i

LEMMA PathsAreSequences == Paths \subseteq Seq(Block)
<1> SUFFICES ASSUME NEW n \in 0 .. 2, NEW path \in [1 .. n -> Block]
             PROVE  path \in Seq(Block)
    BY DEF Paths
<1>1. n \in Nat
    OBVIOUS
<1>2. QED
    BY <1>1

-------------------------------------------------------------------------------

LEMMA StartConsistent ==
    ASSUME NEW g, NEW vis, NEW d, Starts(g, vis, d)
    PROVE  Consistent(g, vis, d)
<1>2. PICK source \in Block : /\ vis \in SUBSET (Block \ {source})
                              /\ d = Started(source, vis)
    BY DEF Starts
<1>3. g.succ \in [Block -> Seq(Block)]
    BY DEF Starts
<1> DEFINE before == [v \in vis |-> InfoNode(NoBlock, 0, 0)]
           node   == InfoNode(NoBlock, 1, 0)
           info   == [v \in vis \cup {source} |-> IF v = source THEN node ELSE before[v]]
<1>4. d = [info       |-> info,
             pre_order  |-> <<source>>,
             post_order |-> << >>,
             current    |-> source,
             time       |-> 1]
    <2> DEFINE d0 == [info       |-> before,
                      pre_order  |-> << >>,
                      post_order |-> << >>,
                      current    |-> NoBlock,
                      time       |-> 0]
    <2>1. Enter(d0, source) = [info       |-> Stored(before, source, InfoNode(NoBlock, 0 + 1, 0)),
                               pre_order  |-> Append(<< >>, source),
                               post_order |-> << >>,
                               current    |-> source,
                               time       |-> 0 + 1]
        BY DEF Enter
    <2>2. Stored(before, source, node) = info
        BY DEF Stored
    <2>3. 0 + 1 = 1 /\ Append(<< >>, source) = <<source>>
        OBVIOUS
    <2>4. d = Enter(d0, source)
        BY <1>2 DEF Started
    <2> HIDE DEF d0, info, before, node
    <2>5. QED
        BY <2>1, <2>2, <2>3, <2>4 DEF node
<1>5. DOMAIN d.info = vis \cup {source} /\ FoundBy(vis, d) = {source}
    BY <1>2, <1>4 DEF FoundBy
<1>6. d.info[source] = node /\ d.current = source
    BY <1>4
<1>7. \A v \in vis : d.info[v] = InfoNode(NoBlock, 0, 0)
    BY <1>2, <1>4
<1>8. WellFormed(g, vis, d)
    <2>1. \A v \in DOMAIN d.info : d.info[v] \in Nodes(vis, d)
        BY <1>4, <1>5, <1>6, <1>7 DEF Nodes, InfoNode
    <2>2. d.info \in [DOMAIN d.info -> Nodes(vis, d)]
        BY <1>4, <2>1
    <2>3. d \in [info       : [DOMAIN d.info -> Nodes(vis, d)],
                pre_order  : Seq(FoundBy(vis, d)),
                post_order : Seq(FoundBy(vis, d)),
                current    : FoundBy(vis, d) \cup {NoBlock},
                time       : Nat]
        <3>1. d.info = info /\ source \in FoundBy(vis, d)
            BY <1>4, <1>5
        <3> HIDE DEF info, node, before
        <3>2. <<source>> \in Seq(FoundBy(vis, d)) /\ << >> \in Seq(FoundBy(vis, d))
            BY <3>1
        <3>3. QED
            BY <1>4, <2>2, <3>1, <3>2
    <2>4. QED
        BY <1>2, <1>3, <1>5, <2>3 DEF WellFormed
<1>9. Begin(d, source) = 1 /\ Running(d, source) /\ d.info[source].predecessor = NoBlock
    BY <1>6 DEF Begin, End, Running, InfoNode
<1>10. NoBlock \notin FoundBy(vis, d)
    BY <1>8, TimeFacts
<1>11. TimesApart(vis, d) /\ CallStack(vis, d) /\ Nested(vis, d) /\ Forward(g, vis, d)
    BY <1>5, <1>6, <1>9, <1>10
       DEF TimesApart, CallStack, Nested, Forward, Running
<1>12. QED
    BY <1>8, <1>11 DEF Consistent

(* A call that begins is the latest, so nothing can overlap it yet.        *)
LEMMA CallConsistent ==
    ASSUME NEW g, NEW vis, NEW d, NEW e, Consistent(g, vis, d), Calls(g, d, e)
    PROVE  Consistent(g, vis, e)
<1> DEFINE v == Child(g, d)
<1>1. WellFormed(g, vis, d) /\ d.current \in FoundBy(vis, d)
    BY DEF Consistent, WellFormed, Calls
<1>2. v \in Block /\ v \notin DOMAIN d.info /\ Entered(d, v, e)
    BY <1>1, ChildFacts DEF Calls, Entered
<1>3. PICK w \in Block : w = v
    BY <1>2
<1> HIDE DEF v
<1>4. /\ WellFormed(g, vis, e)
      /\ FoundBy(vis, e) = FoundBy(vis, d) \cup {w}
      /\ w \notin FoundBy(vis, d)
      /\ e.current = w
      /\ e.time = d.time + 1
      /\ Begin(e, w) = d.time + 1
      /\ End(e, w) = 0
      /\ e.info[w].predecessor = d.current
      /\ \A u \in FoundBy(vis, d) : e.info[u] = d.info[u]
    <2>1. w \notin DOMAIN d.info /\ Entered(d, w, e)
        BY <1>2, <1>3
    <2>2. WellFormed(g, vis, d)
        BY <1>1
    <2>3. BegunIn(g, vis, d, w, e)
        BY <2>1, <2>2, EnterEffect
    <2>4. QED
        BY <2>3 DEF BegunIn
<1>5. \A u \in FoundBy(vis, d) : /\ Begin(e, u) = Begin(d, u)
                       /\ End(e, u) = End(d, u)
                       /\ e.info[u].predecessor = d.info[u].predecessor
    BY <1>4 DEF Begin, End
<1>6. /\ d.time \in Nat
      /\ \A u \in FoundBy(vis, d) : /\ Begin(d, u) \in Nat /\ Begin(d, u) <= d.time
                          /\ End(d, u) \in Nat /\ End(d, u) <= d.time
      /\ NoBlock \notin FoundBy(vis, d)
      /\ \A u \in FoundBy(vis, d) : d.info[u].predecessor \in FoundBy(vis, d) \cup {NoBlock}
    BY <1>1, TimeFacts
<1>7. w # NoBlock
    BY BlockFacts
<1>8. TimesApart(vis, e)
    <2>1. \A u \in FoundBy(vis, e) : 0 < Begin(e, u) /\ (Running(e, u) \/ Begin(e, u) < End(e, u))
        BY <1>4, <1>5, <1>6 DEF Consistent, TimesApart, Running
    <2>2. \A u, x \in FoundBy(vis, e) : Begin(e, u) = Begin(e, x) => u = x
        BY <1>4, <1>5, <1>6 DEF Consistent, TimesApart
    <2>3. QED
        BY <2>1, <2>2 DEF TimesApart
<1>9. CallStack(vis, e)
    <2>1. \A u \in FoundBy(vis, e) : Running(e, u) =>
              \E c \in FoundBy(vis, e) : c = e.current /\ Begin(e, u) <= Begin(e, c)
        BY <1>4, <1>5, <1>6
    <2>2. \A c \in FoundBy(vis, e) : c = e.current => Running(e, c)
        BY <1>4 DEF Running
    <2>3. ASSUME NEW p \in FoundBy(vis, e), NEW u \in FoundBy(vis, e), Running(e, u), p = e.info[u].predecessor
          PROVE  Running(e, p) /\ Begin(e, p) < Begin(e, u)
        <3>1. p \in FoundBy(vis, d)
            BY <1>1, <1>4, <1>5, <1>6, <1>7, <2>3
        <3>2. CASE u = w
            BY <1>4, <1>5, <1>6, <2>3, <3>1, <3>2 DEF Consistent, CallStack, Running
        <3>3. CASE u \in FoundBy(vis, d)
            BY <1>5, <2>3, <3>1, <3>3 DEF Consistent, CallStack, Running
        <3>4. QED
            BY <1>4, <3>2, <3>3
    <2>4. ASSUME NEW x \in FoundBy(vis, e), NEW u \in FoundBy(vis, e), Running(e, x), Running(e, u),
                 Begin(e, x) < Begin(e, u)
          PROVE  \E p \in FoundBy(vis, e) : p = e.info[u].predecessor /\ Begin(e, x) <= Begin(e, p)
        <3>1. x \in FoundBy(vis, d)
            BY <1>4, <1>5, <1>6, <2>4
        <3>2. CASE u = w
            BY <1>4, <1>5, <2>4, <3>1, <3>2 DEF Consistent, CallStack, Running
        <3>3. CASE u \in FoundBy(vis, d)
            BY <1>4, <1>5, <2>4, <3>1, <3>3 DEF Consistent, CallStack, Running
        <3>4. QED
            BY <1>4, <3>2, <3>3
    <2>5. QED
        BY <2>1, <2>2, <2>3, <2>4 DEF CallStack
<1>10. Nested(vis, e)
    <2> SUFFICES ASSUME NEW u \in FoundBy(vis, e), NEW x \in FoundBy(vis, e),
                        Begin(e, u) < Begin(e, x), End(e, u) # 0
                 PROVE  \/ End(e, u) < Begin(e, x)
                        \/ End(e, x) # 0 /\ End(e, x) < End(e, u)
        BY DEF Nested
    <2>1. u \in FoundBy(vis, d)
        BY <1>4
    <2>2. CASE x = w
        BY <1>4, <1>5, <1>6, <2>1, <2>2
    <2>3. CASE x \in FoundBy(vis, d)
        BY <1>5, <2>1, <2>3 DEF Consistent, Nested
    <2>4. QED
        BY <1>4, <2>2, <2>3
<1>11. Forward(g, vis, e)
    <2> SUFFICES ASSUME NEW u \in FoundBy(vis, e), End(e, u) # 0,
                        NEW x \in Range(g.succ[u]) \ vis
                 PROVE  /\ x \in FoundBy(vis, e)
                        /\ \/ /\ Begin(e, x) <= Begin(e, u)
                              /\ Running(e, x) \/ End(e, u) <= End(e, x)
                           \/ ~Running(e, x) /\ End(e, x) < End(e, u)
        BY <1>1 DEF Forward
    <2>1. u \in FoundBy(vis, d) /\ End(d, u) # 0
        BY <1>4, <1>5
    <2>2. /\ x \in FoundBy(vis, d)
          /\ \/ Begin(d, x) <= Begin(d, u) /\ (Running(d, x) \/ End(d, u) <= End(d, x))
             \/ ~Running(d, x) /\ End(d, x) < End(d, u)
        BY <2>1 DEF Consistent, Forward
    <2>3. QED
        BY <1>4, <1>5, <2>1, <2>2 DEF Running
<1>12. QED
    BY <1>4, <1>8, <1>9, <1>10, <1>11 DEF Consistent

(* A call that returns is the innermost one: every other vertex that was   *)
(* discovered after it has returned already.                               *)
LEMMA ReturnConsistent ==
    ASSUME NEW g, NEW vis, NEW d, NEW e, Consistent(g, vis, d), Returns(g, d, e)
    PROVE  Consistent(g, vis, e)
<1>1. WellFormed(g, vis, d) /\ d.current \in FoundBy(vis, d)
    BY DEF Consistent, WellFormed, Returns
<1>2. PICK c \in FoundBy(vis, d) : c = d.current
    BY <1>1
<1>3. /\ WellFormed(g, vis, e)
      /\ FoundBy(vis, e) = FoundBy(vis, d)
      /\ e.current = d.info[c].predecessor
      /\ e.time = d.time + 1
      /\ End(e, c) = d.time + 1
      /\ \A u \in FoundBy(vis, d) : u # c => End(e, u) = End(d, u)
      /\ \A u \in FoundBy(vis, d) : /\ Begin(e, u) = Begin(d, u)
                          /\ e.info[u].predecessor = d.info[u].predecessor
    <2>1. Left(d, c, e)
        BY <1>2 DEF Returns, Left
    <2>2. QED
        BY <1>1, <2>1, LeaveEffect
<1>4. /\ d.time \in Nat
      /\ \A u \in FoundBy(vis, d) : /\ Begin(d, u) \in Nat /\ Begin(d, u) <= d.time
                          /\ End(d, u) \in Nat /\ End(d, u) <= d.time
    BY <1>1, TimeFacts
<1>5. /\ Running(d, c)
      /\ \A u \in FoundBy(vis, d) : Running(d, u) => Begin(d, u) <= Begin(d, c)
    BY <1>2 DEF Consistent, CallStack
<1>6. \A u \in FoundBy(vis, d) : Running(e, u) => u # c /\ Running(d, u)
    BY <1>3, <1>4 DEF Running
<1>7. \A u \in FoundBy(vis, d) : Running(d, u) /\ u # c => Begin(d, u) < Begin(d, c)
    <2>1. \A u \in FoundBy(vis, d) : Begin(d, u) = Begin(d, c) => u = c
        BY DEF Consistent, TimesApart
    <2>2. QED
        BY <1>4, <1>5, <2>1
<1>8. TimesApart(vis, e)
    BY <1>3, <1>4, <1>5 DEF Consistent, TimesApart, Running
<1>9. CallStack(vis, e)
    <2>1. \A u \in FoundBy(vis, e) : Running(e, u) =>
              \E p \in FoundBy(vis, e) : p = e.current /\ Begin(e, u) <= Begin(e, p)
        BY <1>3, <1>5, <1>6, <1>7 DEF Consistent, CallStack
    <2>2. \A p \in FoundBy(vis, e) : p = e.current => Running(e, p)
        <3> SUFFICES ASSUME NEW p \in FoundBy(vis, d), p = d.info[c].predecessor PROVE Running(e, p)
            BY <1>3
        <3>1. Running(d, p) /\ Begin(d, p) < Begin(d, c)
            BY <1>5 DEF Consistent, CallStack
        <3>2. p # c
            BY <1>4, <3>1
        <3>3. QED
            BY <1>3, <3>1, <3>2 DEF Running
    <2>3. ASSUME NEW p \in FoundBy(vis, e), NEW u \in FoundBy(vis, e), Running(e, u), p = e.info[u].predecessor
          PROVE  Running(e, p) /\ Begin(e, p) < Begin(e, u)
        <3>1. p \in FoundBy(vis, d) /\ u \in FoundBy(vis, d) /\ Running(d, u) /\ u # c /\ p = d.info[u].predecessor
            BY <1>3, <1>6, <2>3
        <3>2. Running(d, p) /\ Begin(d, p) < Begin(d, u)
            BY <3>1 DEF Consistent, CallStack
        <3>3. p # c
            BY <1>4, <1>5, <3>1, <3>2
        <3>4. QED
            BY <1>3, <3>1, <3>2, <3>3 DEF Running
    <2>4. ASSUME NEW x \in FoundBy(vis, e), NEW u \in FoundBy(vis, e), Running(e, x), Running(e, u),
                 Begin(e, x) < Begin(e, u)
          PROVE  \E p \in FoundBy(vis, e) : p = e.info[u].predecessor /\ Begin(e, x) <= Begin(e, p)
        BY <1>3, <1>6, <2>4 DEF Consistent, CallStack
    <2>5. QED
        BY <2>1, <2>2, <2>3, <2>4 DEF CallStack
<1>10. Nested(vis, e)
    <2> SUFFICES ASSUME NEW u \in FoundBy(vis, d), NEW x \in FoundBy(vis, d),
                        Begin(d, u) < Begin(d, x), End(e, u) # 0
                 PROVE  \/ End(e, u) < Begin(d, x)
                        \/ End(e, x) # 0 /\ End(e, x) < End(e, u)
        BY <1>3 DEF Nested
    <2>1. CASE u = c
        <3>1. ~Running(d, x) /\ x # c
            BY <1>4, <1>5, <2>1
        <3>2. QED
            BY <1>3, <1>4, <2>1, <3>1 DEF Running
    <2>2. CASE u # c
        <3>1. \/ End(d, u) < Begin(d, x)
              \/ End(d, x) # 0 /\ End(d, x) < End(d, u)
            BY <1>3, <2>2 DEF Consistent, Nested
        <3>2. QED
            BY <1>3, <1>5, <2>2, <3>1 DEF Running
    <2>3. QED
        BY <2>1, <2>2
<1>11. Forward(g, vis, e)
    <2> SUFFICES ASSUME NEW u \in FoundBy(vis, d), End(e, u) # 0,
                        NEW x \in Range(g.succ[u]) \ vis
                 PROVE  /\ x \in FoundBy(vis, d)
                        /\ \/ /\ Begin(e, x) <= Begin(e, u)
                              /\ Running(e, x) \/ End(e, u) <= End(e, x)
                           \/ ~Running(e, x) /\ End(e, x) < End(e, u)
        BY <1>1, <1>3 DEF Forward
    <2>1. CASE u = c
        <3>1. x \in FoundBy(vis, d)
            <4>1. PICK i \in DOMAIN g.succ[c] : x = g.succ[c][i]
                BY <2>1 DEF Range
            <4>2. x \in DOMAIN d.info
                BY <1>2, <4>1 DEF Returns, Fresh
            <4>3. QED
                BY <4>2 DEF FoundBy
        <3>2. CASE x = c
            BY <1>3, <1>4, <2>1, <3>2
        <3>3. CASE x # c /\ Running(d, x)
            BY <1>3, <1>4, <1>5, <2>1, <3>1, <3>3 DEF Running
        <3>4. CASE x # c /\ ~Running(d, x)
            BY <1>3, <1>4, <2>1, <3>1, <3>4 DEF Running
        <3>5. QED
            BY <3>1, <3>2, <3>3, <3>4
    <2>2. CASE u # c
        <3>1. End(d, u) # 0
            BY <1>3, <2>2
        <3>2. /\ x \in FoundBy(vis, d)
              /\ \/ Begin(d, x) <= Begin(d, u) /\ (Running(d, x) \/ End(d, u) <= End(d, x))
                 \/ ~Running(d, x) /\ End(d, x) < End(d, u)
            BY <3>1 DEF Consistent, Forward
        <3>3. CASE x = c
            BY <1>3, <1>4, <1>5, <2>2, <3>2, <3>3 DEF Running
        <3>4. CASE x # c
            BY <1>3, <2>2, <3>2, <3>4 DEF Running
        <3>5. QED
            BY <3>2, <3>3, <3>4
    <2>3. QED
        BY <2>1, <2>2
<1>12. QED
    BY <1>3, <1>8, <1>9, <1>10, <1>11 DEF Consistent


-------------------------------------------------------------------------------
(* What follows from it by a second induction.                             *)

(* The orders list what has been found and what has been left so far.      *)
Ordered(vis, d) ==
    /\ d.pre_order # << >>
    /\ Range(d.pre_order) = FoundBy(vis, d)
    /\ \A i, j \in DOMAIN d.pre_order :
           i < j => Begin(d, d.pre_order[i]) < Begin(d, d.pre_order[j])
    /\ Range(d.post_order) = {v \in FoundBy(vis, d) : ~Running(d, v)}
    /\ \A i, j \in DOMAIN d.post_order :
           i < j => End(d, d.post_order[i]) < End(d, d.post_order[j])

(* Only what a path leads to is found.                                     *)
LedTo(g, vis, d) == FoundBy(vis, d) \subseteq Reach(g, Root(d), vis)

(* predecessor_ is the innermost of the calls that a call is within.       *)
Called(vis, d) ==
    /\ \A p, v \in FoundBy(vis, d) :
           p = d.info[v].predecessor =>
               /\ Begin(d, p) < Begin(d, v)
               /\ ~Running(d, p) => (~Running(d, v) /\ End(d, v) < End(d, p))
    /\ \A u, v \in FoundBy(vis, d) :
           /\ Begin(d, u) < Begin(d, v)
           /\ Running(d, u) \/ (~Running(d, v) /\ End(d, v) < End(d, u))
           => \E p \in FoundBy(vis, d) : p = d.info[v].predecessor /\ Begin(d, u) <= Begin(d, p)

Recorded(g, vis, d) == Ordered(vis, d) /\ LedTo(g, vis, d) /\ Called(vis, d)

LEMMA AppendFacts ==
    ASSUME NEW T, NEW seq \in Seq(T), NEW x \in T
    PROVE  /\ Append(seq, x) # << >>
           /\ Append(seq, x) \in Seq(T)
           /\ Range(Append(seq, x)) = Range(seq) \cup {x}
           /\ DOMAIN Append(seq, x) = 1 .. Len(seq) + 1
           /\ Len(Append(seq, x)) = Len(seq) + 1
           /\ DOMAIN seq = 1 .. Len(seq) /\ Len(seq) \in Nat
           /\ \A i \in DOMAIN seq : Append(seq, x)[i] = seq[i] /\ seq[i] \in T
           /\ Append(seq, x)[Len(seq) + 1] = x
<1>1. /\ DOMAIN Append(seq, x) = 1 .. Len(seq) + 1
      /\ DOMAIN seq = 1 .. Len(seq) /\ Len(seq) \in Nat
      /\ \A i \in DOMAIN seq : Append(seq, x)[i] = seq[i] /\ seq[i] \in T
      /\ Append(seq, x)[Len(seq) + 1] = x
      /\ Append(seq, x) # << >>
      /\ Append(seq, x) \in Seq(T)
      /\ Len(Append(seq, x)) = Len(seq) + 1
    OBVIOUS
<1>2. Range(Append(seq, x)) \subseteq Range(seq) \cup {x}
    <2> SUFFICES ASSUME NEW i \in DOMAIN Append(seq, x)
                 PROVE  Append(seq, x)[i] \in Range(seq) \cup {x}
        BY DEF Range
    <2>1. i \in DOMAIN seq \/ i = Len(seq) + 1
        BY <1>1
    <2>2. QED
        BY <1>1, <2>1 DEF Range
<1>3. Range(seq) \cup {x} \subseteq Range(Append(seq, x))
    <2>1. \A i \in DOMAIN seq : i \in DOMAIN Append(seq, x)
        BY <1>1
    <2>2. Len(seq) + 1 \in DOMAIN Append(seq, x)
        BY <1>1
    <2>3. QED
        BY <1>1, <2>1, <2>2 DEF Range
<1>4. QED
    BY <1>1, <1>2, <1>3

(* A sequence that increases still does when it is extended by something   *)
(* greater than all it lists.                                              *)
Increasing(seq, time) == \A i, j \in DOMAIN seq : i < j => time[seq[i]] < time[seq[j]]

LEMMA AppendIncreases ==
    ASSUME NEW T, NEW seq \in Seq(T), NEW x \in T, NEW time, Increasing(seq, time),
           \A y \in Range(seq) : time[y] < time[x]
    PROVE  Increasing(Append(seq, x), time)
<1> DEFINE longer == Append(seq, x)
<1> SUFFICES ASSUME NEW i \in DOMAIN longer, NEW j \in DOMAIN longer, i < j
             PROVE  time[longer[i]] < time[longer[j]]
    BY DEF Increasing
<1>1. i \in DOMAIN seq /\ (j \in DOMAIN seq \/ j = Len(seq) + 1) /\ longer[i] = seq[i]
    BY AppendFacts
<1>2. CASE j \in DOMAIN seq
    BY <1>1, <1>2, AppendFacts DEF Increasing
<1>3. CASE j = Len(seq) + 1
    <2>1. longer[j] = x /\ seq[i] \in Range(seq)
        BY <1>1, <1>3, AppendFacts DEF Range
    <2>2. QED
        BY <1>1, <2>1
<1>4. QED
    BY <1>1, <1>2, <1>3

LEMMA StartRecorded ==
    ASSUME NEW g, NEW vis, NEW d, Starts(g, vis, d)
    PROVE  Recorded(g, vis, d)
<1>1. Consistent(g, vis, d)
    BY StartConsistent
<1>2. PICK source \in Block : /\ vis \in SUBSET (Block \ {source})
                              /\ d = Started(source, vis)
    BY DEF Starts
<1> DEFINE before == [v \in vis |-> InfoNode(NoBlock, 0, 0)]
           info   == Stored(before, source, InfoNode(NoBlock, 0 + 1, 0))
<1>3. d = [info |-> info, pre_order |-> Append(<< >>, source), post_order |-> << >>,
             current |-> source, time |-> 0 + 1]
    BY <1>2 DEF Started, Enter
<1>4. Append(<< >>, source) = <<source>>
    OBVIOUS
<1>5. d.pre_order = <<source>> /\ d.post_order = << >> /\ d.info = info
    BY <1>3, <1>4
<1>6. DOMAIN info = vis \cup {source}
    BY DEF Stored
<1>7. FoundBy(vis, d) = {source} /\ info[source].finished_time = 0
    BY <1>2, <1>5, <1>6 DEF FoundBy, Stored, InfoNode
<1>8. Running(d, source)
    BY <1>5, <1>7 DEF Running, End
<1>9. Ordered(vis, d)
    <2>1. DOMAIN <<source>> = {1} /\ <<source>>[1] = source /\ DOMAIN << >> = {}
        OBVIOUS
    <2>2. Range(d.pre_order) = {source} /\ Range(d.post_order) = {}
        BY <1>5, <2>1 DEF Range
    <2>3. QED
        BY <1>5, <1>7, <1>8, <2>1, <2>2 DEF Ordered
<1>10. LedTo(g, vis, d)
    <2>1. Root(d) = source /\ source \notin vis
        BY <1>2, <1>5 DEF Root
    <2>2. {source} \ vis \subseteq Reach(g, source, vis)
        BY ReachIsLeast
    <2>3. QED
        BY <1>7, <2>1, <2>2 DEF LedTo
<1>11. Called(vis, d)
    <2>1. d.info[source].predecessor = NoBlock
        BY <1>2, <1>5, <1>6 DEF Stored, InfoNode
    <2>2. Begin(d, source) \in Nat /\ NoBlock \notin FoundBy(vis, d)
        BY <1>1, <1>7, TimeFacts DEF Consistent
    <2>3. QED
        BY <1>7, <2>1, <2>2 DEF Called
<1>12. QED
    BY <1>9, <1>10, <1>11 DEF Recorded

LEMMA CallRecorded ==
    ASSUME NEW g, NEW vis, NEW d, NEW e,
           Consistent(g, vis, d), Recorded(g, vis, d), Calls(g, d, e)
    PROVE  Recorded(g, vis, e)
<1> DEFINE child == Child(g, d)
<1>1. WellFormed(g, vis, d) /\ d.current \in FoundBy(vis, d)
    BY DEF Consistent, WellFormed, Calls
<1>2. child \in Block /\ child \notin DOMAIN d.info /\ Entered(d, child, e)
    BY <1>1, ChildFacts DEF Calls, Entered
<1>3. \E i \in DOMAIN g.succ[d.current] : child = g.succ[d.current][i]
    <2>1. d.current \in Block
        BY <1>1, TimeFacts
    <2>2. DOMAIN g.succ[d.current] \subseteq Nat
        BY <1>1, <2>1 DEF WellFormed
    <2>3. Min(Fresh(g, d)) \in Fresh(g, d)
        BY <2>2, SmallestNat DEF Fresh, Calls
    <2>4. QED
        BY <2>3 DEF Child, Fresh
<1>4. PICK w \in Block : w = child
    BY <1>2
<1> HIDE DEF child
<1>5. /\ WellFormed(g, vis, e)
      /\ FoundBy(vis, e) = FoundBy(vis, d) \cup {w}
      /\ w \notin FoundBy(vis, d)
      /\ e.pre_order = Append(d.pre_order, w)
      /\ e.post_order = d.post_order
      /\ Begin(e, w) = d.time + 1
      /\ End(e, w) = 0
      /\ e.info[w].predecessor = d.current
      /\ \A u \in FoundBy(vis, d) : e.info[u] = d.info[u]
    <2>1. w \notin DOMAIN d.info /\ Entered(d, w, e)
        BY <1>2, <1>4
    <2>2. WellFormed(g, vis, d)
        BY <1>1
    <2>3. BegunIn(g, vis, d, w, e)
        BY <2>1, <2>2, EnterEffect
    <2>4. QED
        BY <2>3 DEF BegunIn
<1>6. \A u \in FoundBy(vis, d) : /\ Begin(e, u) = Begin(d, u)
                       /\ End(e, u) = End(d, u)
                       /\ e.info[u].predecessor = d.info[u].predecessor
    BY <1>5 DEF Begin, End
<1>7. /\ d.time \in Nat
      /\ \A u \in FoundBy(vis, d) : /\ Begin(d, u) \in Nat /\ Begin(d, u) <= d.time
                          /\ End(d, u) \in Nat /\ End(d, u) <= d.time
      /\ NoBlock \notin FoundBy(vis, d) /\ w # NoBlock
      /\ \A u \in FoundBy(vis, d) : d.info[u].predecessor \in FoundBy(vis, d) \cup {NoBlock}
    BY <1>1, TimeFacts, BlockFacts
<1>8. /\ d.pre_order \in Seq(FoundBy(vis, e)) /\ d.post_order \in Seq(FoundBy(vis, d)) /\ w \in FoundBy(vis, e)
      /\ d.pre_order \in Seq(FoundBy(vis, d))
    BY <1>1, <1>5 DEF WellFormed
<1>9. Ordered(vis, e)
    <2> DEFINE time == [v \in FoundBy(vis, e) |-> Begin(e, v)]
    <2>1. \A i \in DOMAIN d.pre_order : d.pre_order[i] \in FoundBy(vis, d)
        BY <1>8
    <2>2. Increasing(d.pre_order, time)
        BY <1>5, <1>6, <2>1 DEF Recorded, Ordered, Increasing
    <2>3. \A v \in Range(d.pre_order) : time[v] < time[w]
        BY <1>5, <1>6, <1>7, <1>8 DEF Recorded, Ordered
    <2>4. \A i \in DOMAIN e.pre_order : e.pre_order[i] \in FoundBy(vis, e)
        <3>1. e.pre_order \in Seq(FoundBy(vis, e))
            BY <1>5, <1>8, AppendFacts
        <3>2. QED
            BY <3>1
    <2> HIDE DEF time
    <2>5. Increasing(e.pre_order, time)
        BY <1>5, <1>8, <2>2, <2>3, AppendIncreases
    <2>6. \A i, j \in DOMAIN e.pre_order :
              i < j => Begin(e, e.pre_order[i]) < Begin(e, e.pre_order[j])
        BY <2>4, <2>5 DEF time, Increasing
    <2>7. e.pre_order # << >> /\ Range(e.pre_order) = FoundBy(vis, e)
        <3>1. /\ Append(d.pre_order, w) # << >>
              /\ Range(Append(d.pre_order, w)) = Range(d.pre_order) \cup {w}
            BY <1>8, AppendFacts
        <3>2. QED
            BY <1>5, <3>1 DEF Recorded, Ordered
    <2>8. Range(e.post_order) = {v \in FoundBy(vis, e) : ~Running(e, v)}
        BY <1>5, <1>6 DEF Recorded, Ordered, Running
    <2>9. \A i \in DOMAIN d.post_order : d.post_order[i] \in FoundBy(vis, d)
        BY <1>8
    <2>10. \A i, j \in DOMAIN e.post_order :
               i < j => End(e, e.post_order[i]) < End(e, e.post_order[j])
        BY <1>5, <1>6, <2>9 DEF Recorded, Ordered
    <2>11. QED
        BY <2>6, <2>7, <2>8, <2>10 DEF Ordered
<1>10. Root(e) = Root(d) /\ Root(d) \in FoundBy(vis, d) /\ Root(d) \in Block
    <2>1. 1 \in DOMAIN d.pre_order
        BY <1>8 DEF Recorded, Ordered
    <2>2. e.pre_order[1] = d.pre_order[1] /\ d.pre_order[1] \in FoundBy(vis, d)
        BY <1>5, <1>8, <2>1, AppendFacts
    <2>3. QED
        BY <1>1, <2>2, TimeFacts DEF Root
<1>11. LedTo(g, vis, e)
    <2>1. PICK c \in FoundBy(vis, d) : c = d.current
        BY <1>1
    <2>2. w \in Range(g.succ[c]) /\ w \notin vis
        BY <1>1, <1>2, <1>3, <1>4, <2>1 DEF Range, WellFormed
    <2>3. PICK s \in Block : s = Root(d)
        BY <1>10
    <2>4. c \in Reach(g, s, vis)
        BY <2>1, <2>3 DEF Recorded, LedTo
    <2>5. Closed(g, vis, Reach(g, s, vis))
        BY ReachIsLeast
    <2>6. w \in Reach(g, s, vis)
        BY <2>2, <2>4, <2>5 DEF Closed
    <2>7. QED
        BY <1>1, <1>5, <1>10, <2>3, <2>6 DEF Recorded, LedTo
<1>12. Called(vis, e)
    <2>1. ASSUME NEW p \in FoundBy(vis, e), NEW v \in FoundBy(vis, e), p = e.info[v].predecessor
          PROVE  /\ Begin(e, p) < Begin(e, v)
                 /\ ~Running(e, p) => (~Running(e, v) /\ End(e, v) < End(e, p))
        <3>1. p \in FoundBy(vis, d)
            BY <1>1, <1>5, <1>6, <1>7, <2>1
        <3>2. CASE v = w
            <4>1. p = d.current /\ Running(d, p)
                BY <1>5, <2>1, <3>1, <3>2 DEF Consistent, CallStack
            <4>2. QED
                BY <1>5, <1>6, <1>7, <3>1, <3>2, <4>1 DEF Running
        <3>3. CASE v \in FoundBy(vis, d)
            BY <1>6, <2>1, <3>1, <3>3 DEF Recorded, Called, Running
        <3>4. QED
            BY <1>5, <3>2, <3>3
    <2>2. ASSUME NEW u \in FoundBy(vis, e), NEW v \in FoundBy(vis, e), Begin(e, u) < Begin(e, v),
                 Running(e, u) \/ (~Running(e, v) /\ End(e, v) < End(e, u))
          PROVE  \E p \in FoundBy(vis, e) : p = e.info[v].predecessor /\ Begin(e, u) <= Begin(e, p)
        <3>1. u \in FoundBy(vis, d)
            BY <1>5, <1>6, <1>7, <2>2
        <3>2. CASE v = w
            <4>1. Running(d, u)
                BY <1>5, <1>6, <2>2, <3>1, <3>2 DEF Running
            <4>2. Begin(d, u) <= Begin(d, d.current)
                BY <3>1, <4>1 DEF Consistent, CallStack
            <4>3. QED
                BY <1>1, <1>5, <1>6, <3>1, <3>2, <4>2
        <3>3. CASE v \in FoundBy(vis, d)
            <4>1. \E p \in FoundBy(vis, d) : p = d.info[v].predecessor /\ Begin(d, u) <= Begin(d, p)
                BY <1>6, <2>2, <3>1, <3>3 DEF Recorded, Called, Running
            <4>2. QED
                BY <1>5, <1>6, <3>1, <3>3, <4>1
        <3>4. QED
            BY <1>5, <3>2, <3>3
    <2>3. QED
        BY <2>1, <2>2 DEF Called
<1>13. QED
    BY <1>9, <1>11, <1>12 DEF Recorded

LEMMA ReturnRecorded ==
    ASSUME NEW g, NEW vis, NEW d, NEW e,
           Consistent(g, vis, d), Recorded(g, vis, d), Returns(g, d, e)
    PROVE  Recorded(g, vis, e)
<1>1. WellFormed(g, vis, d) /\ d.current \in FoundBy(vis, d)
    BY DEF Consistent, WellFormed, Returns
<1>2. PICK c \in FoundBy(vis, d) : c = d.current
    BY <1>1
<1>3. /\ WellFormed(g, vis, e)
      /\ FoundBy(vis, e) = FoundBy(vis, d)
      /\ e.pre_order = d.pre_order
      /\ e.post_order = Append(d.post_order, c)
      /\ End(e, c) = d.time + 1
      /\ \A u \in FoundBy(vis, d) : u # c => End(e, u) = End(d, u)
      /\ \A u \in FoundBy(vis, d) : /\ Begin(e, u) = Begin(d, u)
                          /\ e.info[u].predecessor = d.info[u].predecessor
    <2>1. Left(d, c, e)
        BY <1>2 DEF Returns, Left
    <2>2. QED
        BY <1>1, <2>1, LeaveEffect
<1>4. /\ d.time \in Nat
      /\ \A u \in FoundBy(vis, d) : /\ Begin(d, u) \in Nat /\ Begin(d, u) <= d.time
                          /\ End(d, u) \in Nat /\ End(d, u) <= d.time
      /\ NoBlock \notin FoundBy(vis, d)
    BY <1>1, TimeFacts
<1>5. /\ Running(d, c)
      /\ \A u \in FoundBy(vis, d) : Running(d, u) => Begin(d, u) <= Begin(d, c)
    BY <1>2 DEF Consistent, CallStack
<1>6. \A u \in FoundBy(vis, d) : Running(e, u) => u # c /\ Running(d, u)
    BY <1>3, <1>4 DEF Running
<1>7. \A u \in FoundBy(vis, d) : u # c => (Running(e, u) <=> Running(d, u))
    BY <1>3 DEF Running
<1>8. ~Running(e, c)
    BY <1>3, <1>4 DEF Running
<1>9. d.pre_order \in Seq(FoundBy(vis, d)) /\ d.post_order \in Seq(FoundBy(vis, d))
    BY <1>1 DEF WellFormed
<1>10. Ordered(vis, e)
    <2> DEFINE time == [v \in FoundBy(vis, d) |-> End(e, v)]
    <2>1. \A i \in DOMAIN d.post_order : d.post_order[i] \in FoundBy(vis, d) /\ d.post_order[i] # c
        BY <1>5, <1>9 DEF Recorded, Ordered, Range
    <2>2. Increasing(d.post_order, time)
        BY <1>3, <2>1 DEF Recorded, Ordered, Increasing
    <2>3. \A v \in Range(d.post_order) : time[v] < time[c]
        BY <1>3, <1>4, <2>1 DEF Range
    <2>4. \A i \in DOMAIN e.post_order : e.post_order[i] \in FoundBy(vis, d)
        <3>1. e.post_order \in Seq(FoundBy(vis, d))
            BY <1>3, <1>9, AppendFacts
        <3>2. QED
            BY <3>1
    <2> HIDE DEF time
    <2>5. Increasing(e.post_order, time)
        BY <1>3, <1>9, <2>2, <2>3, AppendIncreases
    <2>6. \A i, j \in DOMAIN e.post_order :
              i < j => End(e, e.post_order[i]) < End(e, e.post_order[j])
        BY <2>4, <2>5 DEF time, Increasing
    <2>7. Range(e.post_order) = Range(d.post_order) \cup {c}
        BY <1>3, <1>9, AppendFacts
    <2>8. Range(e.post_order) = {v \in FoundBy(vis, e) : ~Running(e, v)}
        BY <1>3, <1>5, <1>7, <1>8, <2>7 DEF Recorded, Ordered
    <2>9. \A i \in DOMAIN d.pre_order : d.pre_order[i] \in FoundBy(vis, d)
        BY <1>9
    <2>10. \A i, j \in DOMAIN e.pre_order :
               i < j => Begin(e, e.pre_order[i]) < Begin(e, e.pre_order[j])
        BY <1>3, <2>9 DEF Recorded, Ordered
    <2>11. e.pre_order # << >> /\ Range(e.pre_order) = FoundBy(vis, e)
        BY <1>3 DEF Recorded, Ordered
    <2>12. QED
        BY <2>6, <2>8, <2>10, <2>11 DEF Ordered
<1>11. LedTo(g, vis, e)
    BY <1>1, <1>3 DEF Recorded, LedTo, Root
<1>12. Called(vis, e)
    <2>1. ASSUME NEW p \in FoundBy(vis, d), NEW v \in FoundBy(vis, d), p = d.info[v].predecessor
          PROVE  /\ Begin(d, p) < Begin(d, v)
                 /\ ~Running(e, p) => (~Running(e, v) /\ End(e, v) < End(e, p))
        <3>1. /\ Begin(d, p) < Begin(d, v)
              /\ ~Running(d, p) => (~Running(d, v) /\ End(d, v) < End(d, p))
            BY <2>1 DEF Recorded, Called
        <3>2. CASE p = c
            <4>1. v # c /\ ~Running(d, v)
                BY <1>4, <1>5, <3>1, <3>2
            <4>2. QED
                BY <1>3, <1>4, <1>7, <3>1, <3>2, <4>1
        <3>3. CASE p # c /\ v = c
            <4>1. Running(d, p)
                BY <1>5, <2>1, <3>3 DEF Consistent, CallStack
            <4>2. QED
                BY <1>7, <3>1, <3>3, <4>1
        <3>4. CASE p # c /\ v # c
            BY <1>3, <1>7, <3>1, <3>4
        <3>5. QED
            BY <3>2, <3>3, <3>4
    <2>2. ASSUME NEW u \in FoundBy(vis, d), NEW v \in FoundBy(vis, d), Begin(d, u) < Begin(d, v),
                 Running(e, u) \/ (~Running(e, v) /\ End(e, v) < End(e, u))
          PROVE  \E p \in FoundBy(vis, d) : p = d.info[v].predecessor /\ Begin(d, u) <= Begin(d, p)
        <3>1. Running(d, u) \/ (~Running(d, v) /\ End(d, v) < End(d, u))
            <4>1. CASE u = c
                BY <1>5, <4>1
            <4>2. CASE u # c /\ v = c
                BY <1>3, <1>4, <1>7, <2>2, <4>2
            <4>3. CASE u # c /\ v # c
                BY <1>3, <1>7, <2>2, <4>3
            <4>4. QED
                BY <4>1, <4>2, <4>3
        <3>2. QED
            BY <2>2, <3>1 DEF Recorded, Called
    <2>3. \A u \in FoundBy(vis, d) : Begin(e, u) = Begin(d, u)
        BY <1>3
    <2>4. \A u \in FoundBy(vis, d) : e.info[u].predecessor = d.info[u].predecessor
        BY <1>3
    <2>5. QED
        BY <1>3, <2>1, <2>2, <2>3, <2>4 DEF Called
<1>13. QED
    BY <1>10, <1>11, <1>12 DEF Recorded

(* A search that is over has returned from every call, and its vertices    *)
(* are those that a path leads to.                                         *)
LEMMA AllFound ==
    ASSUME NEW g, NEW vis, NEW d, Consistent(g, vis, d), Recorded(g, vis, d),
           d.current = NoBlock
    PROVE  /\ FoundBy(vis, d) = Reach(g, Root(d), vis)
           /\ Range(d.post_order) = FoundBy(vis, d)
           /\ \A v \in FoundBy(vis, d) : End(d, v) # 0
           /\ Root(d) \in FoundBy(vis, d)
<1>1. WellFormed(g, vis, d)
    BY DEF Consistent
<1>2. \A v \in FoundBy(vis, d) : End(d, v) # 0
    BY <1>1, TimeFacts DEF Consistent, CallStack, Running
<1>3. Closed(g, vis, FoundBy(vis, d))
    BY <1>2 DEF Consistent, Forward, Closed
<1>4. d.pre_order[1] \in Range(d.pre_order)
    <2>1. 1 \in DOMAIN d.pre_order
        BY <1>1 DEF WellFormed, Recorded, Ordered
    <2>2. QED
        BY <2>1 DEF Range
<1>5. PICK s \in Block : s = Root(d) /\ s \in FoundBy(vis, d)
    BY <1>1, <1>4, TimeFacts DEF Recorded, Ordered, Root
<1>6. Reach(g, s, vis) \subseteq FoundBy(vis, d)
    <2>1. {s} \ vis \subseteq FoundBy(vis, d)
        BY <1>5
    <2>2. QED
        BY <1>3, <2>1, ReachIsLeast
<1>7. FoundBy(vis, d) = Reach(g, Root(d), vis)
    BY <1>5, <1>6 DEF Recorded, LedTo
<1>8. Range(d.post_order) = FoundBy(vis, d)
    BY <1>2 DEF Recorded, Ordered, Running
<1>9. QED
    BY <1>2, <1>5, <1>7, <1>8

-------------------------------------------------------------------------------
(* The walk of an st_iterator up the links.                                *)

Link(d, u) == d.info[u].predecessor

Climbed(d, path) ==
    LET u == Link(d, path[Len(path)])
    IN  IF u = NoBlock THEN path ELSE Append(path, u)

(* links that end, and along which the times decrease                      *)
Linked(d, S) ==
    \A u \in S : /\ Link(d, u) \in S \cup {NoBlock}
                 /\ d.info[u].discovery_time \in Nat
                 /\ Link(d, u) \in S => d.info[Link(d, u)].discovery_time < d.info[u].discovery_time

Climb(a, d, v) ==
    /\ a[0] = <<v>>
    /\ a[NumBlocks] = Ancestors(d, v)
    /\ \A k \in 1 .. NumBlocks : a[k] = Climbed(d, a[k - 1])

LEMMA ClimbedPath ==
    ASSUME NEW d, NEW S, Linked(d, S), NEW path \in Seq(S) \ {<< >>}
    PROVE  Climbed(d, path) \in Seq(S) \ {<< >>}
<1> DEFINE u == Link(d, path[Len(path)])
<1>1. path[Len(path)] \in S
    OBVIOUS
<1>2. u \in S \cup {NoBlock}
    BY <1>1 DEF Linked
<1>3. CASE u = NoBlock
    BY <1>3 DEF Climbed
<1>4. CASE u # NoBlock
    BY <1>2, <1>4, AppendFacts DEF Climbed
<1>5. QED
    BY <1>3, <1>4

LEMMA AncestorsClimb ==
    ASSUME NEW d, NEW S, NEW v \in S, Linked(d, S)
    PROVE  \E a \in [0 .. NumBlocks -> Seq(S) \ {<< >>}] : Climb(a, d, v)
<1> DEFINE N == NumBlocks
           X == Seq(S) \ {<< >>}
           base == <<v>>
           seq == Times(N)
           Op == [p \in X \X (1 .. N) |-> Climbed(d, p[1])]
<1>1. N \in Nat /\ N # 0
    BY FlowGraphAssumption
<1>2. Op \in [X \X (1 .. N) -> X] /\ base \in X
    <2>1. \A p \in X \X (1 .. N) : Climbed(d, p[1]) \in X
        BY ClimbedPath
    <2>2. base \in X
        OBVIOUS
    <2>3. QED
        BY <2>1, <2>2
<1>3. DOMAIN seq = 1 .. N
    BY DEF Times
<1>4. \A x \in X, k \in 1 .. N : Op[<<x, k>>] = Climbed(d, x)
    OBVIOUS
<1>5. PICK it \in [SUBSET (1 .. N) -> X] : FoldsBy(it, N, base, Op)
    <2> HIDE DEF Op, X, base
    <2>1. QED
        BY <1>1, <1>2, FoldExists
<1>6. it = [s \in SUBSET (1 .. N) |->
               IF s = {} THEN base ELSE Climbed(d, it[s \ {Max(s)}])]
    <2>1. ASSUME NEW s \in SUBSET (1 .. N)
          PROVE  it[s] = IF s = {} THEN base ELSE Climbed(d, it[s \ {Max(s)}])
        <3>1. CASE s = {}
            BY <1>5, <3>1 DEF FoldsBy
        <3>2. CASE s # {}
            <4>1. Max(s) \in 1 .. N
                BY <1>1, <3>2, LargestNat
            <4>2. it[s \ {Max(s)}] \in X
                BY <1>5
            <4> HIDE DEF Op, X, base
            <4>3. it[s] = Op[<<it[s \ {Max(s)}], Max(s)>>]
                BY <1>5, <3>2 DEF FoldsBy
            <4>4. QED
                BY <1>4, <3>2, <4>1, <4>2, <4>3
        <3>3. QED
            BY <3>1, <3>2
    <2>2. QED
        BY <2>1
<1> DEFINE fold == CHOOSE f : f = [s \in SUBSET (1 .. N) |->
                                      IF s = {} THEN base ELSE Climbed(d, f[s \ {Max(s)}])]
<1>7. fold = [s \in SUBSET (1 .. N) |->
                 IF s = {} THEN base ELSE Climbed(d, fold[s \ {Max(s)}])]
    BY <1>6
<1>8. Ancestors(d, v) = fold[1 .. N]
    BY <1>3 DEF Ancestors, FoldLeft, MapThenFoldSet, Climbed, Link
<1>9. fold[{}] = base /\ \A s \in SUBSET (1 .. N) : s # {} => fold[s] = Climbed(d, fold[s \ {Max(s)}])
    <2> HIDE DEF fold, base, N
    <2>1. {} \in SUBSET (1 .. N)
        OBVIOUS
    <2>2. QED
        BY <1>7, <2>1
<1>10. \A k \in 1 .. N : fold[1 .. k - 1] \in X => fold[1 .. k] = Op[<<fold[1 .. k - 1], k>>]
    <2> SUFFICES ASSUME NEW k \in 1 .. N, fold[1 .. k - 1] \in X
                 PROVE  fold[1 .. k] = Climbed(d, fold[1 .. k - 1])
        BY <1>4
    <2>1. k \in Nat \ {0} /\ k <= N /\ 1 .. k \in SUBSET (1 .. N) /\ k \in 1 .. k
        BY <1>1
    <2>2. Max(1 .. k) = k /\ (1 .. k) \ {k} = 1 .. k - 1
        BY <2>1, GreatestOfInterval
    <2> HIDE DEF fold
    <2>3. QED
        BY <1>9, <2>1, <2>2
<1> HIDE DEF fold, Op, X, base, N
<1>11. PICK a \in [0 .. N -> X] : PartialResults(a, N, base, Op, fold[1 .. N])
    <2>1. FoldsPrefixesBy(fold, N, X, base, Op)
        BY <1>9, <1>10 DEF FoldsPrefixesBy
    <2>2. QED
        BY <1>1, <1>2, <2>1, FoldValues
<1>12. \A k \in 1 .. N : a[k] = Climbed(d, a[k - 1])
    <2> SUFFICES ASSUME NEW k \in 1 .. N
                 PROVE  a[k] = Climbed(d, a[k - 1])
        OBVIOUS
    <2>1. k - 1 \in 0 .. N
        BY <1>1
    <2>2. a[k - 1] \in X /\ a[k] = Op[<<a[k - 1], k>>]
        BY <1>11, <2>1 DEF PartialResults
    <2>3. QED
        BY <1>4, <2>2
<1>13. QED
    BY <1>8, <1>11, <1>12 DEF X, base, N, PartialResults, Climb

LEMMA ClimbKeeps ==
    ASSUME NEW d, NEW v, NEW a, Climb(a, d, v),
           NEW kept, <<v>> \in kept, \A path \in kept : Climbed(d, path) \in kept
    PROVE  \A k \in 0 .. NumBlocks : a[k] \in kept
<1> DEFINE T == {k \in 0 .. NumBlocks : a[k] \in kept}
<1>1. NumBlocks \in Nat
    BY FlowGraphAssumption
<1>2. 0 \in T /\ \A k \in 1 .. NumBlocks : k - 1 \in T => k \in T
    BY <1>1 DEF Climb
<1> HIDE DEF T
<1>3. 0 .. NumBlocks \subseteq T
    BY <1>1, <1>2, UpTo
<1>4. QED
    BY <1>3 DEF T

(* The times decrease to the end of a path, and every vertex but the last  *)
(* is followed by the one it links to.                                     *)
PathsUp(d, S, v) ==
    {path \in Seq(S) \ {<< >>} :
        LET last == path[Len(path)]
        IN  /\ v \in Range(path)
            /\ \A x \in Range(path) :
                  /\ d.info[last].discovery_time <= d.info[x].discovery_time
                  /\ x # last => Link(d, x) \in Range(path)}

LEMMA ClimbedUp ==
    ASSUME NEW d, NEW S, Linked(d, S), NEW v \in S, NEW path \in PathsUp(d, S, v)
    PROVE  /\ Climbed(d, path) \in PathsUp(d, S, v)
           /\ path[Len(path)] \in S
           /\ Range(path) \subseteq S
           /\ Link(d, path[Len(path)]) # NoBlock =>
                  /\ Link(d, path[Len(path)]) \in S \ Range(path)
                  /\ Range(Climbed(d, path)) = Range(path) \cup {Link(d, path[Len(path)])}
<1> DEFINE last == path[Len(path)]
           time(x) == d.info[x].discovery_time
<1>1. path \in Seq(S) \ {<< >>}
    BY DEF PathsUp
<1>2. last \in S /\ Len(path) \in DOMAIN path /\ last \in Range(path) /\ Range(path) \subseteq S
    BY <1>1 DEF Range
<1>3. v \in Range(path) /\ \A x \in Range(path) : time(last) <= time(x) /\ (x # last => Link(d, x) \in Range(path))
    BY DEF PathsUp
<1>4. PICK u \in S \cup {NoBlock} : u = Link(d, last)
    BY <1>2 DEF Linked
<1>5. \A x \in S : time(x) \in Nat
    BY DEF Linked
<1> HIDE DEF last
<1>6. CASE u = NoBlock
    <2>1. Climbed(d, path) = path
        BY <1>4, <1>6 DEF Climbed, last
    <2>2. QED
        BY <1>2, <1>4, <1>6, <2>1 DEF last
<1>7. CASE u # NoBlock
    <2>1. u \in S /\ Climbed(d, path) = Append(path, u)
        BY <1>4, <1>7 DEF Climbed, last
    <2>2. time(u) < time(last)
        BY <1>2, <1>4, <2>1 DEF Linked
    <2>3. u \notin Range(path)
        BY <1>2, <1>3, <1>5, <2>1, <2>2
    <2>4. PICK longer : longer = Append(path, u)
        OBVIOUS
    <2>5. /\ longer \in Seq(S) \ {<< >>} /\ longer[Len(longer)] = u
          /\ Range(longer) = Range(path) \cup {u}
        BY <1>1, <2>1, <2>4, AppendFacts
    <2>6. ASSUME NEW x \in Range(longer)
          PROVE  time(u) <= time(x) /\ (x # u => Link(d, x) \in Range(longer))
        BY <1>2, <1>3, <1>4, <1>5, <2>1, <2>2, <2>5
    <2>7. longer \in PathsUp(d, S, v)
        BY <1>3, <2>5, <2>6 DEF PathsUp
    <2>8. QED
        BY <1>2, <1>4, <2>1, <2>3, <2>4, <2>5, <2>7 DEF last
<1>8. QED
    BY <1>6, <1>7

(* A path that no longer grows has come to a root, and there are not       *)
(* blocks enough for one that always grows.                                *)
LEMMA ClimbEnds ==
    ASSUME NEW d, NEW S \in SUBSET Block, Linked(d, S), NEW v \in S
    PROVE  /\ Ancestors(d, v) \in PathsUp(d, S, v)
           /\ Link(d, Ancestors(d, v)[Len(Ancestors(d, v))]) = NoBlock
<1> DEFINE N == NumBlocks
           last(path) == path[Len(path)]
<1>1. PICK a \in [0 .. N -> Seq(S) \ {<< >>}] : Climb(a, d, v)
    BY AncestorsClimb
<1>2. N \in Nat
    BY FlowGraphAssumption
<1>3. \A k \in 0 .. N : a[k] \in PathsUp(d, S, v)
    <2>1. <<v>> \in PathsUp(d, S, v)
        <3>1. <<v>> \in Seq(S) \ {<< >>} /\ Len(<<v>>) = 1 /\ DOMAIN <<v>> = {1} /\ <<v>>[1] = v
            OBVIOUS
        <3>2. Range(<<v>>) = {v} /\ d.info[v].discovery_time \in Nat
            BY <3>1 DEF Range, Linked
        <3>3. QED
            BY <3>1, <3>2 DEF PathsUp
    <2>2. \A path \in PathsUp(d, S, v) : Climbed(d, path) \in PathsUp(d, S, v)
        BY ClimbedUp
    <2>3. QED
        BY <1>1, <2>1, <2>2, ClimbKeeps
<1> DEFINE T == {k \in 0 .. N : Link(d, last(a[k])) = NoBlock \/ Cardinality(Range(a[k])) >= k + 1}
<1>4. \A set \in SUBSET Block : IsFiniteSet(set) /\ Cardinality(set) \in Nat /\ Cardinality(set) <= N
    <2>1. IsFiniteSet(Block) /\ Cardinality(Block) = N
        BY <1>2, FS_Interval DEF Block
    <2>2. QED
        BY <2>1, FS_Subset, FS_CardinalityType
<1>5. 0 \in T
    <2>1. a[0] = <<v>> /\ DOMAIN <<v>> = {1} /\ <<v>>[1] = v
        BY <1>1 DEF Climb
    <2>2. Range(a[0]) = {v}
        BY <2>1 DEF Range
    <2>3. Cardinality(Range(a[0])) = 1
        BY <2>2, FS_Singleton
    <2>4. QED
        BY <1>2, <2>3
<1>6. ASSUME NEW k \in 1 .. N, k - 1 \in T
      PROVE  k \in T
    <2>1. a[k] = Climbed(d, a[k - 1]) /\ k - 1 \in 0 .. N /\ k \in 0 .. N
        BY <1>1, <1>2 DEF Climb
    <2>2. PICK path \in PathsUp(d, S, v) : path = a[k - 1]
        BY <1>3, <2>1
    <2>3. CASE Link(d, last(path)) = NoBlock
        BY <2>1, <2>2, <2>3 DEF Climbed
    <2>4. CASE Link(d, last(path)) # NoBlock
        <3>1. Link(d, last(path)) \notin Range(path) /\ Range(a[k]) = Range(path) \cup {Link(d, last(path))}
            BY <2>1, <2>2, <2>4, ClimbedUp
        <3>2. Range(path) \in SUBSET Block
            BY ClimbedUp
        <3>3. Cardinality(Range(a[k])) = Cardinality(Range(path)) + 1
            BY <1>4, <3>1, <3>2, FS_AddElement
        <3>4. Cardinality(Range(path)) >= (k - 1) + 1
            BY <1>6, <2>2, <2>4
        <3>5. QED
            BY <1>4, <2>1, <3>2, <3>3, <3>4
    <2>5. QED
        BY <2>3, <2>4
<1>7. N \in T
    <2> HIDE DEF T, N
    <2>1. 0 .. N \subseteq T
        BY <1>2, <1>5, <1>6, UpTo
    <2>2. QED
        BY <1>2, <2>1
<1>8. a[N] = Ancestors(d, v) /\ a[N] \in PathsUp(d, S, v)
    BY <1>1, <1>2, <1>3 DEF Climb
<1>9. Range(a[N]) \in SUBSET Block
    BY <1>8, ClimbedUp
<1>10. Link(d, last(a[N])) = NoBlock
    <2>1. Cardinality(Range(a[N])) \in Nat /\ Cardinality(Range(a[N])) <= N
        BY <1>4, <1>9
    <2>2. ~ (Cardinality(Range(a[N])) >= N + 1)
        BY <1>2, <2>1
    <2>3. QED
        BY <1>7, <2>2
<1>11. QED
    BY <1>8, <1>10

LEMMA AncestorsWithin ==
    ASSUME NEW d, NEW S \in SUBSET Block, Linked(d, S), NEW v \in S,
           NEW set, v \in set,
           \A x \in S \cap set : Link(d, x) \in S => Link(d, x) \in set
    PROVE  Range(Ancestors(d, v)) \subseteq set
<1> DEFINE kept == {path \in PathsUp(d, S, v) : Range(path) \subseteq set}
<1>1. PICK a \in [0 .. NumBlocks -> Seq(S) \ {<< >>}] : Climb(a, d, v)
    BY AncestorsClimb
<1>2. <<v>> \in kept
    <2>1. <<v>> \in Seq(S) \ {<< >>} /\ Len(<<v>>) = 1 /\ DOMAIN <<v>> = {1} /\ <<v>>[1] = v
        OBVIOUS
    <2>2. Range(<<v>>) = {v} /\ d.info[v].discovery_time \in Nat
        BY <2>1 DEF Range, Linked
    <2>3. QED
        BY <2>1, <2>2 DEF PathsUp
<1>3. ASSUME NEW path \in kept
      PROVE  Climbed(d, path) \in kept
    <2> DEFINE last == path[Len(path)]
    <2>1. /\ Climbed(d, path) \in PathsUp(d, S, v)
          /\ last \in S /\ Range(path) \subseteq S
          /\ Link(d, last) # NoBlock =>
                 /\ Link(d, last) \in S
                 /\ Range(Climbed(d, path)) = Range(path) \cup {Link(d, last)}
        BY ClimbedUp
    <2>2. last \in Range(path)
        <3>1. Len(path) \in DOMAIN path
            BY DEF PathsUp
        <3>2. QED
            BY <3>1 DEF Range
    <2>3. CASE Link(d, last) = NoBlock
        BY <2>1, <2>3 DEF Climbed
    <2>4. CASE Link(d, last) # NoBlock
        BY <2>1, <2>2, <2>4
    <2>5. QED
        BY <2>3, <2>4
<1> HIDE DEF kept
<1>4. a[NumBlocks] \in kept
    <2>1. NumBlocks \in 0 .. NumBlocks
        BY FlowGraphAssumption
    <2>2. QED
        BY <1>1, <1>2, <1>3, <2>1, ClimbKeeps
<1>5. QED
    BY <1>1, <1>4 DEF Climb, kept

LEMMA TimesTellAncestors ==
    ASSUME NEW g, NEW vis, NEW d, Consistent(g, vis, d), Recorded(g, vis, d),
           d.current = NoBlock,
           NEW u \in FoundBy(vis, d), NEW v \in FoundBy(vis, d)
    PROVE  is_ancestor_of(d, v, u) <=> u \in Range(Ancestors(d, v))
<1>1. WellFormed(g, vis, d)
    BY DEF Consistent
<1>3. PICK S \in SUBSET Block : S = FoundBy(vis, d)
    BY <1>1, TimeFacts
<1> DEFINE from(x) == d.info[x].discovery_time
           to(x) == d.info[x].finished_time
           above(x, y) == from(y) <= from(x) /\ to(x) <= to(y)
<1>4. u \in S /\ v \in S /\ NoBlock \notin S
    BY <1>1, <1>3, TimeFacts
<1>5. \A x \in S : /\ from(x) \in Nat /\ to(x) \in Nat /\ to(x) # 0 /\ from(x) < to(x)
                   /\ Link(d, x) \in S \cup {NoBlock}
    BY <1>1, <1>3, TimeFacts DEF Consistent, CallStack, TimesApart, Running, Link, Begin, End
<1>6. \A x \in S : Link(d, x) \in S => from(Link(d, x)) < from(x) /\ to(x) < to(Link(d, x))
    BY <1>3, <1>5 DEF Recorded, Called, Running, Link, Begin, End
<1>7. \A x, y \in S : from(y) < from(x) /\ to(x) < to(y) => Link(d, x) \in S /\ from(y) <= from(Link(d, x))
    BY <1>3, <1>5 DEF Recorded, Called, Running, Link, Begin, End
<1>8. \A x, y \in S : from(x) < from(y) => to(x) < from(y) \/ to(y) < to(x)
    BY <1>3, <1>5 DEF Consistent, Nested, Begin, End
<1>9. \A x, y \in S : from(x) = from(y) => x = y
    BY <1>3 DEF Consistent, TimesApart, Begin
<1>10. Linked(d, S)
    BY <1>5, <1>6 DEF Linked
<1>11. is_ancestor_of(d, v, u) <=> above(v, u)
    BY DEF is_ancestor_of
<1> HIDE DEF from, to
<1>12. ASSUME u \in Range(Ancestors(d, v))
       PROVE  above(v, u)
    <2> DEFINE up == {y \in S : above(v, y)}
    <2>1. v \in up
        BY <1>4, <1>5
    <2>2. \A x \in S \cap up : Link(d, x) \in S => Link(d, x) \in up
        BY <1>4, <1>5, <1>6
    <2> HIDE DEF up
    <2>3. Range(Ancestors(d, v)) \subseteq up
        BY <1>4, <1>10, <2>1, <2>2, AncestorsWithin
    <2>4. QED
        BY <1>12, <2>3 DEF up
<1>13. ASSUME above(v, u)
       PROVE  u \in Range(Ancestors(d, v))
    <2> DEFINE path == Ancestors(d, v)
               last == path[Len(path)]
               below == {from(x) : x \in {y \in Range(path) : above(y, u)}}
    <2>1. path \in PathsUp(d, S, v) /\ Link(d, last) = NoBlock
        BY <1>4, <1>10, ClimbEnds
    <2>2. Range(path) \subseteq S
        BY <1>4, <1>10, <2>1, ClimbedUp
    <2>3. v \in Range(path) /\ \A x \in Range(path) : x # last => Link(d, x) \in Range(path)
        BY <2>1 DEF PathsUp
    <2> HIDE DEF path, last
    <2>4. from(v) \in below /\ below \in SUBSET Nat
        BY <1>5, <1>13, <2>2, <2>3
    <2>5. Min(below) \in below /\ \A y \in below : Min(below) <= y
        BY <2>4, SmallestNat
    <2>6. PICK x \in Range(path) : above(x, u) /\ \A y \in below : from(x) <= y
        BY <2>5
    <2>7. x \in S
        BY <2>2
    <2>8. ASSUME x # u PROVE FALSE
        <3>1. from(u) < from(x)
            BY <1>4, <1>5, <1>9, <2>6, <2>7, <2>8
        <3>2. to(x) < to(u)
            BY <1>4, <1>5, <1>8, <2>6, <2>7, <3>1
        <3>3. PICK p \in S : p = Link(d, x) /\ from(u) <= from(p) /\ from(p) < from(x) /\ to(x) < to(p)
            BY <1>4, <1>6, <1>7, <2>7, <3>1, <3>2
        <3>4. x # last
            BY <1>4, <2>1, <3>3
        <3>5. p \in Range(path)
            BY <2>3, <3>3, <3>4
        <3>6. to(p) <= to(u)
            <4>1. CASE p = u
                BY <1>4, <1>5, <4>1
            <4>2. CASE p # u
                <5>1. from(u) < from(p)
                    BY <1>4, <1>5, <1>9, <3>3, <4>2
                <5>2. from(p) < to(u)
                    BY <1>4, <1>5, <2>7, <3>2, <3>3
                <5>3. QED
                    BY <1>4, <1>5, <1>8, <5>1, <5>2
            <4>3. QED
                BY <4>1, <4>2
        <3>7. from(p) \in below
            BY <3>3, <3>5, <3>6
        <3>8. QED
            <4>1. from(x) <= from(p)
                BY <2>6, <3>7
            <4>2. QED
                BY <1>5, <2>7, <3>3, <4>1
    <2>9. QED
        BY <2>6, <2>8 DEF path
<1>14. QED
    BY <1>11, <1>12, <1>13

-------------------------------------------------------------------------------
(* The whole search, DFSOf: its steps are calls and returns, and there are *)
(* as many as it needs.                                                    *)

Returned(vis, d) == {v \in FoundBy(vis, d) : ~Running(d, v)}

(* predecessor_ is the other end of the edge that was followed, and only   *)
(* the source has none; a time was given to every call and every return.   *)
Traced(g, vis, s, d) ==
    /\ Root(d) = s
    /\ \A v \in FoundBy(vis, d) : Link(d, v) = NoBlock <=> v = s
    /\ \A p, v \in FoundBy(vis, d) : p = Link(d, v) => v \in Range(g.succ[p])
    /\ d.time = Cardinality(FoundBy(vis, d)) + Cardinality(Returned(vis, d))

Searched(g, vis, s, d) ==
    /\ Consistent(g, vis, d)
    /\ Recorded(g, vis, d)
    /\ Traced(g, vis, s, d)

LEMMA BlockSets ==
    /\ NumBlocks \in Nat
    /\ \A set \in SUBSET Block :
           IsFiniteSet(set) /\ Cardinality(set) \in Nat /\ Cardinality(set) <= NumBlocks
<1>1. NumBlocks \in Nat
    BY FlowGraphAssumption
<1>2. IsFiniteSet(Block) /\ Cardinality(Block) = NumBlocks
    BY <1>1, FS_Interval DEF Block
<1>3. QED
    BY <1>1, <1>2, FS_Subset, FS_CardinalityType

LEMMA StartSearched ==
    ASSUME NEW g, g.succ \in [Block -> Seq(Block)],
           NEW s \in Block, NEW vis \in SUBSET (Block \ {s})
    PROVE  Searched(g, vis, s, Started(s, vis)) /\ Started(s, vis).time = 1
<1> DEFINE before == [v \in vis |-> InfoNode(NoBlock, 0, 0)]
           node   == InfoNode(NoBlock, 0 + 1, 0)
           info   == Stored(before, s, node)
<1>1. PICK d : d = Started(s, vis)
    OBVIOUS
<1>2. Starts(g, vis, d)
    BY <1>1 DEF Starts
<1>3. Consistent(g, vis, d) /\ Recorded(g, vis, d)
    BY <1>2, StartConsistent, StartRecorded
<1>4. d = [info |-> info, pre_order |-> Append(<< >>, s), post_order |-> << >>,
           current |-> s, time |-> 0 + 1]
    BY <1>1 DEF Started, Enter
<1>5. d.info = info /\ d.pre_order = Append(<< >>, s) /\ d.time = 1
    BY <1>4
<1>6. DOMAIN info = vis \cup {s} /\ info[s] = node
    BY DEF Stored
<1> HIDE DEF info, node
<1>7. FoundBy(vis, d) = {s} /\ Root(d) = s
    <2>1. Append(<< >>, s)[1] = s
        OBVIOUS
    <2>2. QED
        BY <1>5, <1>6, <2>1 DEF FoundBy, Root
<1>8. Link(d, s) = NoBlock /\ Running(d, s)
    BY <1>5, <1>6 DEF Link, Running, End, node, InfoNode
<1>9. Cardinality(FoundBy(vis, d)) = 1 /\ Cardinality(Returned(vis, d)) = 0
    <2>1. Returned(vis, d) = {}
        BY <1>7, <1>8 DEF Returned
    <2>2. QED
        BY <1>7, <2>1, FS_EmptySet, FS_Singleton
<1>10. NoBlock \notin FoundBy(vis, d)
    BY <1>7, BlockFacts
<1>11. Traced(g, vis, s, d)
    BY <1>5, <1>7, <1>8, <1>9, <1>10 DEF Traced
<1>12. QED
    BY <1>1, <1>3, <1>5, <1>11 DEF Searched

LEMMA CallSearched ==
    ASSUME NEW g, NEW s \in Block, NEW vis, NEW d, NEW e,
           Searched(g, vis, s, d), Calls(g, d, e)
    PROVE  Searched(g, vis, s, e) /\ e.time = d.time + 1
<1> DEFINE child == Child(g, d)
<1>1. WellFormed(g, vis, d) /\ d.current \in FoundBy(vis, d)
    BY DEF Searched, Consistent, WellFormed, Calls
<1>2. child \in Block /\ child \notin DOMAIN d.info /\ Entered(d, child, e)
    BY <1>1, ChildFacts DEF Calls, Entered
<1>3. child \in Range(g.succ[d.current])
    <2>1. d.current \in Block
        BY <1>1, TimeFacts
    <2>2. DOMAIN g.succ[d.current] \subseteq Nat
        BY <1>1, <2>1 DEF WellFormed
    <2>3. Min(Fresh(g, d)) \in Fresh(g, d)
        BY <2>2, SmallestNat DEF Fresh, Calls
    <2>4. QED
        BY <2>3 DEF Child, Fresh, Range
<1>4. PICK w \in Block : w = child
    BY <1>2
<1>5. PICK c \in FoundBy(vis, d) : c = d.current
    BY <1>1
<1> HIDE DEF child
<1>6. /\ WellFormed(g, vis, e)
      /\ FoundBy(vis, e) = FoundBy(vis, d) \cup {w}
      /\ w \notin FoundBy(vis, d)
      /\ e.pre_order = Append(d.pre_order, w)
      /\ e.time = d.time + 1
      /\ End(e, w) = 0
      /\ e.info[w].predecessor = d.current
      /\ \A u \in FoundBy(vis, d) : e.info[u] = d.info[u]
    <2>1. w \notin DOMAIN d.info /\ Entered(d, w, e)
        BY <1>2, <1>4
    <2>2. WellFormed(g, vis, d)
        BY <1>1
    <2>3. BegunIn(g, vis, d, w, e)
        BY <2>1, <2>2, EnterEffect
    <2>4. QED
        BY <2>3 DEF BegunIn
<1>7. Consistent(g, vis, e) /\ Recorded(g, vis, e)
    BY CallConsistent, CallRecorded DEF Searched
<1>8. Root(e) = Root(d) /\ s \in FoundBy(vis, d)
    <2>1. d.pre_order \in Seq(FoundBy(vis, d)) /\ d.pre_order # << >>
        BY <1>1 DEF WellFormed, Searched, Recorded, Ordered
    <2>2. 1 \in DOMAIN d.pre_order /\ d.pre_order[1] \in FoundBy(vis, d)
        BY <2>1
    <2>3. d.pre_order \in Seq(FoundBy(vis, e)) /\ w \in FoundBy(vis, e)
        BY <1>6, <2>1
    <2>4. Append(d.pre_order, w)[1] = d.pre_order[1]
        BY <2>2, <2>3, AppendFacts
    <2>5. QED
        BY <1>6, <2>2, <2>4 DEF Root, Searched, Traced
<1>9. NoBlock \notin FoundBy(vis, d) /\ FoundBy(vis, d) \subseteq Block
    BY <1>1, TimeFacts
<1>10. \A v \in FoundBy(vis, e) : Link(e, v) = NoBlock <=> v = s
    BY <1>1, <1>6, <1>8, <1>9 DEF Link, Searched, Traced
<1>11. ASSUME NEW p \in FoundBy(vis, e), NEW v \in FoundBy(vis, e), p = Link(e, v)
       PROVE  v \in Range(g.succ[p])
    <2>1. CASE v = w
        BY <1>3, <1>4, <1>6, <1>11, <2>1 DEF Link
    <2>2. CASE v \in FoundBy(vis, d)
        <3>1. p = Link(d, v)
            BY <1>6, <1>11, <2>2 DEF Link
        <3>2. p \in FoundBy(vis, d)
            <4>1. d.info[v].predecessor \in FoundBy(vis, d) \cup {NoBlock}
                BY <1>1, <2>2, TimeFacts
            <4>2. p # NoBlock
                BY <1>6, <1>9, BlockFacts
            <4>3. QED
                BY <3>1, <4>1, <4>2 DEF Link
        <3>3. QED
            BY <2>2, <3>1, <3>2 DEF Searched, Traced
    <2>3. QED
        BY <1>6, <2>1, <2>2
<1>12. Cardinality(FoundBy(vis, e)) = Cardinality(FoundBy(vis, d)) + 1
    BY <1>6, <1>9, BlockSets, FS_AddElement
<1>13. Returned(vis, e) = Returned(vis, d)
    BY <1>6 DEF Returned, Running, End
<1>14. d.time = Cardinality(FoundBy(vis, d)) + Cardinality(Returned(vis, d))
    BY DEF Searched, Traced
<1>15. Cardinality(FoundBy(vis, d)) \in Nat /\ Cardinality(Returned(vis, d)) \in Nat
    BY <1>9, BlockSets DEF Returned
<1>16. e.time = Cardinality(FoundBy(vis, e)) + Cardinality(Returned(vis, e))
    BY <1>6, <1>12, <1>13, <1>14, <1>15
<1>17. Traced(g, vis, s, e)
    BY <1>8, <1>10, <1>11, <1>16 DEF Traced, Searched
<1>18. QED
    BY <1>6, <1>7, <1>17 DEF Searched

LEMMA ReturnSearched ==
    ASSUME NEW g, NEW s \in Block, NEW vis, NEW d, NEW e,
           Searched(g, vis, s, d), Returns(g, d, e)
    PROVE  Searched(g, vis, s, e) /\ e.time = d.time + 1
<1>1. WellFormed(g, vis, d) /\ d.current \in FoundBy(vis, d)
    BY DEF Searched, Consistent, WellFormed, Returns
<1>2. PICK c \in FoundBy(vis, d) : c = d.current
    BY <1>1
<1>3. Left(d, c, e)
    BY <1>2 DEF Returns, Left
<1>4. /\ WellFormed(g, vis, e)
      /\ FoundBy(vis, e) = FoundBy(vis, d)
      /\ e.pre_order = d.pre_order
      /\ e.time = d.time + 1
      /\ End(e, c) = d.time + 1
      /\ \A u \in FoundBy(vis, d) : u # c => End(e, u) = End(d, u)
      /\ \A u \in FoundBy(vis, d) : e.info[u].predecessor = d.info[u].predecessor
    BY <1>1, <1>3, LeaveEffect
<1>5. Consistent(g, vis, e) /\ Recorded(g, vis, e)
    BY ReturnConsistent, ReturnRecorded DEF Searched
<1>6. d.time \in Nat /\ FoundBy(vis, d) \subseteq Block
    BY <1>1, TimeFacts
<1>7. Running(d, c)
    BY <1>2 DEF Searched, Consistent, CallStack
<1>8. Returned(vis, e) = Returned(vis, d) \cup {c} /\ c \notin Returned(vis, d)
    BY <1>4, <1>6, <1>7 DEF Returned, Running
<1>9. Cardinality(FoundBy(vis, d)) \in Nat /\ Cardinality(Returned(vis, d)) \in Nat
      /\ Cardinality(Returned(vis, e)) = Cardinality(Returned(vis, d)) + 1
    <2>1. Returned(vis, d) \in SUBSET Block
        BY <1>6 DEF Returned
    <2>2. QED
        BY <1>6, <1>8, <2>1, BlockSets, FS_AddElement
<1>10. e.time = Cardinality(FoundBy(vis, e)) + Cardinality(Returned(vis, e))
    BY <1>4, <1>9 DEF Searched, Traced
<1>11. Traced(g, vis, s, e)
    BY <1>4, <1>10 DEF Searched, Traced, Root, Link
<1>12. QED
    BY <1>4, <1>5, <1>11 DEF Searched

Advanced(g, d) == IF d.current = NoBlock THEN d ELSE Step(g, d)

LEMMA AdvancedSearched ==
    ASSUME NEW g, NEW s \in Block, NEW vis, NEW d, Searched(g, vis, s, d)
    PROVE  /\ Searched(g, vis, s, Advanced(g, d))
           /\ d.current = NoBlock => Advanced(g, d) = d
           /\ d.current # NoBlock => Advanced(g, d).time = d.time + 1
<1>1. PICK e : e = Advanced(g, d)
    OBVIOUS
<1>2. CASE d.current = NoBlock
    BY <1>2 DEF Advanced
<1>3. CASE d.current # NoBlock /\ Fresh(g, d) # {}
    <2>1. Calls(g, d, e)
        BY <1>1, <1>3 DEF Advanced, Step, Calls
    <2>2. QED
        BY <1>1, <1>3, <2>1, CallSearched
<1>4. CASE d.current # NoBlock /\ Fresh(g, d) = {}
    <2>1. Returns(g, d, e)
        BY <1>1, <1>4 DEF Advanced, Step, Returns
    <2>2. QED
        BY <1>1, <1>4, <2>1, ReturnSearched
<1>5. QED
    BY <1>2, <1>3, <1>4

(* a set that holds the values of every search                             *)
Searches(g, vis, s) ==
    {d \in [info       : UNION {[D -> [predecessor    : Block \cup {NoBlock},
                                       discovery_time : Nat,
                                       finished_time  : Nat]] : D \in SUBSET Block},
            pre_order  : Seq(Block),
            post_order : Seq(Block),
            current    : Block \cup {NoBlock},
            time       : Nat] : Searched(g, vis, s, d)}

LEMMA SearchesHold ==
    ASSUME NEW g, NEW vis, NEW s, NEW d, Searched(g, vis, s, d)
    PROVE  d \in Searches(g, vis, s)
<1> DEFINE D == DOMAIN d.info
           N == [predecessor    : Block \cup {NoBlock},
                 discovery_time : Nat,
                 finished_time  : Nat]
<1>1. WellFormed(g, vis, d)
    BY DEF Searched, Consistent
<1>2. /\ D \in SUBSET Block /\ FoundBy(vis, d) \in SUBSET Block
      /\ d.info \in [D -> Nodes(vis, d)]
      /\ d.pre_order \in Seq(FoundBy(vis, d))
      /\ d.post_order \in Seq(FoundBy(vis, d))
      /\ d.current \in FoundBy(vis, d) \cup {NoBlock}
      /\ d.time \in Nat
      /\ d = [info |-> d.info, pre_order |-> d.pre_order, post_order |-> d.post_order,
              current |-> d.current, time |-> d.time]
    BY <1>1 DEF WellFormed, FoundBy
<1>3. Nodes(vis, d) \subseteq N
    BY <1>2 DEF Nodes
<1>4. d.info \in [D -> N]
    BY <1>2, <1>3
<1> HIDE DEF N, D
<1>5. d.info \in UNION {[E -> N] : E \in SUBSET Block}
    BY <1>2, <1>4
<1>6. /\ d.pre_order \in Seq(Block) /\ d.post_order \in Seq(Block)
      /\ d.current \in Block \cup {NoBlock}
    BY <1>2
<1>7. d \in [info       : UNION {[E -> N] : E \in SUBSET Block},
             pre_order  : Seq(Block),
             post_order : Seq(Block),
             current    : Block \cup {NoBlock},
             time       : Nat]
    BY <1>2, <1>5, <1>6, RecordOf
<1>8. QED
    BY <1>7 DEF Searches, N

SearchSteps(a, g, s, vis) ==
    /\ a[0] = Started(s, vis)
    /\ a[2 * NumBlocks] = DFSOf(g, s, vis)
    /\ \A k \in 1 .. 2 * NumBlocks : a[k] = Advanced(g, a[k - 1])

LEMMA SearchUnfolds ==
    ASSUME NEW g, g.succ \in [Block -> Seq(Block)],
           NEW s \in Block, NEW vis \in SUBSET (Block \ {s})
    PROVE  \E a \in [0 .. 2 * NumBlocks -> Searches(g, vis, s)] : SearchSteps(a, g, s, vis)
<1> DEFINE N == 2 * NumBlocks
           X == Searches(g, vis, s)
           base == Started(s, vis)
           seq == Times(N)
           Op == [p \in X \X (1 .. N) |-> Advanced(g, p[1])]
<1>1. N \in Nat /\ N # 0
    BY FlowGraphAssumption
<1>2. Op \in [X \X (1 .. N) -> X] /\ base \in X
    <2>1. \A p \in X \X (1 .. N) : Advanced(g, p[1]) \in X
        <3> SUFFICES ASSUME NEW d \in X PROVE Advanced(g, d) \in X
            OBVIOUS
        <3>1. Searched(g, vis, s, d)
            BY DEF Searches
        <3>2. QED
            BY <3>1, AdvancedSearched, SearchesHold
    <2>2. base \in X
        BY StartSearched, SearchesHold
    <2>3. QED
        BY <2>1, <2>2
<1>3. DOMAIN seq = 1 .. N
    BY DEF Times
<1>4. \A x \in X, k \in 1 .. N : Op[<<x, k>>] = Advanced(g, x)
    OBVIOUS
<1>5. PICK it \in [SUBSET (1 .. N) -> X] : FoldsBy(it, N, base, Op)
    <2> HIDE DEF Op, X, base, N
    <2>1. QED
        BY <1>1, <1>2, FoldExists
<1>6. it = [t \in SUBSET (1 .. N) |->
               IF t = {} THEN base ELSE Advanced(g, it[t \ {Max(t)}])]
    <2>1. ASSUME NEW t \in SUBSET (1 .. N)
          PROVE  it[t] = IF t = {} THEN base ELSE Advanced(g, it[t \ {Max(t)}])
        <3>1. CASE t = {}
            BY <1>5, <3>1 DEF FoldsBy
        <3>2. CASE t # {}
            <4> HIDE DEF N
            <4>1. Max(t) \in 1 .. N
                BY <1>1, <3>2, LargestNat
            <4>2. it[t \ {Max(t)}] \in X
                BY <1>5
            <4> HIDE DEF Op, X, base
            <4>3. it[t] = Op[<<it[t \ {Max(t)}], Max(t)>>]
                BY <1>5, <3>2 DEF FoldsBy
            <4>4. QED
                BY <1>4, <3>2, <4>1, <4>2, <4>3
        <3>3. QED
            BY <3>1, <3>2
    <2>2. QED
        BY <2>1
<1> DEFINE fold == CHOOSE f : f = [t \in SUBSET (1 .. N) |->
                                      IF t = {} THEN base ELSE Advanced(g, f[t \ {Max(t)}])]
<1>7. fold = [t \in SUBSET (1 .. N) |->
                 IF t = {} THEN base ELSE Advanced(g, fold[t \ {Max(t)}])]
    BY <1>6
<1>8. DFSOf(g, s, vis) = fold[1 .. N]
    BY <1>3 DEF DFSOf, FoldLeft, MapThenFoldSet, Advanced
<1>9. fold[{}] = base /\ \A t \in SUBSET (1 .. N) : t # {} => fold[t] = Advanced(g, fold[t \ {Max(t)}])
    <2> HIDE DEF fold, base, N
    <2>1. {} \in SUBSET (1 .. N)
        OBVIOUS
    <2>2. QED
        BY <1>7, <2>1
<1>10. \A k \in 1 .. N : fold[1 .. k - 1] \in X => fold[1 .. k] = Op[<<fold[1 .. k - 1], k>>]
    <2> SUFFICES ASSUME NEW k \in 1 .. N, fold[1 .. k - 1] \in X
                 PROVE  fold[1 .. k] = Advanced(g, fold[1 .. k - 1])
        BY <1>4
    <2>1. k \in Nat \ {0} /\ k <= N /\ 1 .. k \in SUBSET (1 .. N) /\ k \in 1 .. k
        BY <1>1
    <2>2. Max(1 .. k) = k /\ (1 .. k) \ {k} = 1 .. k - 1
        BY <2>1, GreatestOfInterval
    <2> HIDE DEF fold
    <2>3. QED
        BY <1>9, <2>1, <2>2
<1> HIDE DEF fold, Op, X, base, N
<1>11. PICK a \in [0 .. N -> X] : PartialResults(a, N, base, Op, fold[1 .. N])
    <2>1. FoldsPrefixesBy(fold, N, X, base, Op)
        BY <1>9, <1>10 DEF FoldsPrefixesBy
    <2>2. QED
        BY <1>1, <1>2, <2>1, FoldValues
<1>12. \A k \in 1 .. N : a[k] = Advanced(g, a[k - 1])
    <2> SUFFICES ASSUME NEW k \in 1 .. N
                 PROVE  a[k] = Advanced(g, a[k - 1])
        OBVIOUS
    <2>1. k - 1 \in 0 .. N
        BY <1>1
    <2>2. a[k - 1] \in X /\ a[k] = Op[<<a[k - 1], k>>]
        BY <1>11, <2>1 DEF PartialResults
    <2>3. QED
        BY <1>4, <2>2
<1>13. QED
    BY <1>8, <1>11, <1>12 DEF X, base, N, PartialResults, SearchSteps

(* What one step does to the clock of a search.                            *)
LEMMA AdvancedTicks ==
    ASSUME NEW g, NEW s \in Block, NEW vis
    PROVE  \A d : Searched(g, vis, s, d) =>
               /\ d.current = NoBlock => Advanced(g, d) = d
               /\ d.current # NoBlock => Advanced(g, d).time = d.time + 1
BY AdvancedSearched

(* Lines 89-96: the constructor returns, and what it has built is a search *)
(* that is over.                                                           *)
LEMMA SearchEnds ==
    ASSUME NEW g, g.succ \in [Block -> Seq(Block)],
           NEW s \in Block, NEW vis \in SUBSET (Block \ {s})
    PROVE  Searched(g, vis, s, DFSOf(g, s, vis)) /\ DFSOf(g, s, vis).current = NoBlock
<1> DEFINE N == 2 * NumBlocks
<1>1. PICK a \in [0 .. N -> Searches(g, vis, s)] : SearchSteps(a, g, s, vis)
    BY SearchUnfolds
<1>2. N \in Nat /\ NumBlocks \in Nat
    BY FlowGraphAssumption
<1>3. \A k \in 0 .. N : Searched(g, vis, s, a[k])
    BY DEF Searches
<1>10. \A d : Searched(g, vis, s, d) =>
           /\ d.current = NoBlock => Advanced(g, d) = d
           /\ d.current # NoBlock => Advanced(g, d).time = d.time + 1
    BY AdvancedTicks
<1> DEFINE T == {k \in 0 .. N : a[k].current = NoBlock \/ a[k].time = k + 1}
<1>4. 0 \in T
    <2>1. Started(s, vis).time = 1
        BY StartSearched
    <2>2. a[0].time = 0 + 1
        BY <1>1, <2>1 DEF SearchSteps
    <2>3. QED
        BY <1>2, <2>2
<1>5. ASSUME NEW k \in 1 .. N, k - 1 \in T
      PROVE  k \in T
    <2>1. k - 1 \in 0 .. N /\ k \in 0 .. N /\ a[k] = Advanced(g, a[k - 1])
        BY <1>1, <1>2 DEF SearchSteps
    <2>2. PICK d : d = a[k - 1] /\ Searched(g, vis, s, d)
        BY <1>3, <2>1
    <2>3. d.current = NoBlock => Advanced(g, d) = d
        BY <1>10, <2>2
    <2>4. d.current # NoBlock => Advanced(g, d).time = d.time + 1
        BY <1>10, <2>2
    <2>5. CASE d.current = NoBlock
        BY <2>1, <2>2, <2>3, <2>5
    <2>6. CASE d.current # NoBlock
        <3>1. d.time = (k - 1) + 1
            BY <1>5, <2>2, <2>6
        <3>2. QED
            BY <2>1, <2>2, <2>4, <2>6, <3>1
    <2>7. QED
        BY <2>5, <2>6
<1>6. N \in T
    <2> HIDE DEF T, N
    <2>1. 0 .. N \subseteq T
        BY <1>2, <1>4, <1>5, UpTo
    <2>2. QED
        BY <1>2, <2>1
<1>7. PICK d : d = a[N] /\ Searched(g, vis, s, d) /\ d = DFSOf(g, s, vis)
    <2>1. N \in 0 .. N
        BY <1>2
    <2>2. QED
        BY <1>1, <1>3, <2>1 DEF SearchSteps
<1>8. d.time # N + 1
    <2>1. FoundBy(vis, d) \in SUBSET Block /\ Returned(vis, d) \in SUBSET Block
        BY <1>7 DEF Searched, Consistent, WellFormed, FoundBy, Returned
    <2>2. /\ Cardinality(FoundBy(vis, d)) \in Nat /\ Cardinality(FoundBy(vis, d)) <= NumBlocks
          /\ Cardinality(Returned(vis, d)) \in Nat /\ Cardinality(Returned(vis, d)) <= NumBlocks
        BY <2>1, BlockSets
    <2>3. d.time = Cardinality(FoundBy(vis, d)) + Cardinality(Returned(vis, d))
        BY <1>7 DEF Searched, Traced
    <2>4. QED
        BY <1>2, <2>2, <2>3
<1>9. QED
    BY <1>6, <1>7, <1>8

-------------------------------------------------------------------------------
(* Dominance in a flow graph that a search from the entry has covered.     *)

(* What a search from the entry that is over says of the graph.            *)

(* u is an ancestor of v, or v *)
Above(d, u, v) == Begin(d, u) <= Begin(d, v) /\ End(d, v) <= End(d, u)

TreeTimes(d, S) ==
    /\ \A v \in S : /\ Begin(d, v) \in Nat /\ End(d, v) \in Nat /\ Begin(d, v) < End(d, v)
                    /\ Begin(d, Entry) <= Begin(d, v) /\ End(d, v) <= End(d, Entry)
    /\ \A u, v \in S : Begin(d, u) = Begin(d, v) => u = v
    /\ \A u, v \in S : Begin(d, u) < Begin(d, v) =>
                           End(d, u) < Begin(d, v) \/ End(d, v) < End(d, u)

TreeEdges(g, d, S) ==
    /\ \A u \in S : \A v \in Range(g.succ[u]) :
           v \in S /\ (Begin(d, u) < Begin(d, v) => End(d, v) < End(d, u))
    /\ \A u, v \in S : v \in Range(g.succ[u]) <=> u \in Range(g.pred[v])
    /\ \A v \in S : Range(g.pred[v]) \subseteq S

TreeLinks(g, d, S) ==
    /\ \A v \in S \ {Entry} : /\ Link(d, v) \in S
                              /\ v \in Range(g.succ[Link(d, v)])
                              /\ Begin(d, Link(d, v)) < Begin(d, v)
                              /\ End(d, v) < End(d, Link(d, v))
    /\ \A u, v \in S : Begin(d, u) < Begin(d, v) /\ End(d, v) < End(d, u) =>
                           v # Entry /\ Begin(d, u) <= Begin(d, Link(d, v))

SearchTree(g, d, S) ==
    /\ S \in SUBSET Block
    /\ Entry \in S
    /\ S = Reachable(g)
    /\ TreeTimes(d, S)
    /\ TreeEdges(g, d, S)
    /\ TreeLinks(g, d, S)

LEMMA AboveOrder ==
    ASSUME NEW g, NEW d, NEW S, SearchTree(g, d, S), NEW u \in S, NEW v \in S, NEW w \in S
    PROVE  /\ Above(d, u, u)
           /\ Above(d, u, v) /\ Above(d, v, w) => Above(d, u, w)
           /\ Above(d, u, w) /\ Above(d, v, w) => (Above(d, u, v) <=> Begin(d, u) <= Begin(d, v))
           /\ Above(d, u, w) /\ Above(d, v, w) => Above(d, u, v) \/ Above(d, v, u)
           /\ Above(d, u, v) /\ u # v => Begin(d, u) < Begin(d, v) /\ End(d, v) < End(d, u)
           /\ Above(d, u, v) /\ Begin(d, v) <= Begin(d, u) => u = v
           /\ Above(d, u, w) /\ Begin(d, u) <= Begin(d, v) /\ Begin(d, v) <= Begin(d, w) => Above(d, u, v)
<1>1. TreeTimes(d, S)
    BY DEF SearchTree
<1> DEFINE b(x) == Begin(d, x)
           e(x) == End(d, x)
<1>2. \A x \in S : b(x) \in Nat /\ e(x) \in Nat /\ b(x) < e(x)
    BY <1>1 DEF TreeTimes
<1>3. \A x, y \in S : b(x) = b(y) => x = y
    BY <1>1 DEF TreeTimes
<1>4. \A x, y \in S : b(x) < b(y) => e(x) < b(y) \/ e(y) < e(x)
    BY <1>1 DEF TreeTimes
<1>5. \A x, y \in S : Above(d, x, y) <=> b(x) <= b(y) /\ e(y) <= e(x)
    BY DEF Above
<1>6. \A x, y \in S : Above(d, x, y) /\ x # y => b(x) < b(y) /\ e(y) < e(x)
    BY <1>2, <1>3, <1>4, <1>5
<1> HIDE DEF b, e
<1>7. Above(d, u, u) /\ (Above(d, u, v) /\ Above(d, v, w) => Above(d, u, w))
    BY <1>2, <1>5
<1>8. \A x, y, z \in S : Above(d, x, z) /\ Above(d, y, z) /\ b(x) <= b(y) => Above(d, x, y)
    <2> SUFFICES ASSUME NEW x \in S, NEW y \in S, NEW z \in S,
                        Above(d, x, z), Above(d, y, z), b(x) <= b(y)
                 PROVE  Above(d, x, y)
        OBVIOUS
    <2>1. CASE x = y
        BY <1>2, <1>5, <2>1
    <2>2. CASE x # y
        <3>1. b(x) < b(y)
            BY <1>2, <1>3, <2>2
        <3>2. e(x) < b(y) \/ e(y) < e(x)
            BY <1>4, <3>1
        <3>3. b(y) <= b(z) /\ e(z) <= e(x) /\ b(z) < e(z)
            BY <1>2, <1>5
        <3>4. QED
            BY <1>2, <1>5, <3>1, <3>2, <3>3
    <2>3. QED
        BY <2>1, <2>2
<1>9. Above(d, u, w) /\ b(u) <= b(v) /\ b(v) <= b(w) => Above(d, u, v)
    <2> SUFFICES ASSUME Above(d, u, w), b(u) <= b(v), b(v) <= b(w) PROVE Above(d, u, v)
        OBVIOUS
    <2>1. CASE u = v
        BY <1>2, <1>5, <2>1
    <2>2. CASE u # v
        <3>1. e(u) < b(v) \/ e(v) < e(u)
            BY <1>2, <1>3, <1>4, <2>2
        <3>2. b(v) <= b(w) /\ b(w) < e(w) /\ e(w) <= e(u)
            BY <1>2, <1>5
        <3>3. QED
            BY <1>2, <1>5, <3>1, <3>2
    <2>3. QED
        BY <2>1, <2>2
<1>10. Above(d, u, w) /\ Above(d, v, w) => (Above(d, u, v) <=> b(u) <= b(v))
    BY <1>2, <1>5, <1>8
<1>11. Above(d, u, w) /\ Above(d, v, w) => Above(d, u, v) \/ Above(d, v, u)
    BY <1>2, <1>8
<1>12. Above(d, u, v) /\ b(v) <= b(u) => u = v
    BY <1>2, <1>3, <1>5
<1>13. QED
    BY <1>6, <1>7, <1>9, <1>10, <1>11, <1>12 DEF b, e

-------------------------------------------------------------------------------
(* Semidominators.                                                         *)

(* the vertices discovered no earlier than w *)
Late(d, S, w) == {x \in S : Begin(d, w) <= Begin(d, x)}

(* the vertices from which a path of such vertices leads to w *)
Behind(g, d, S, w) == Reach(ReverseGraph(g), w, Block \ Late(d, S, w))

LEMMA BehindIsLeast ==
    ASSUME NEW g, NEW d, NEW S, SearchTree(g, d, S), NEW w \in S
    PROVE  /\ w \in Behind(g, d, S, w)
           /\ Behind(g, d, S, w) \subseteq Late(d, S, w)
           /\ \A x \in Behind(g, d, S, w) : \A z \in Range(g.pred[x]) :
                  z \in S /\ (Begin(d, w) <= Begin(d, z) => z \in Behind(g, d, S, w))
           /\ \A set : /\ w \in set
                       /\ \A x \in set \cap Late(d, S, w) : \A z \in Range(g.pred[x]) :
                              Begin(d, w) <= Begin(d, z) => z \in set
                       => Behind(g, d, S, w) \subseteq set
<1> DEFINE R == ReverseGraph(g)
           early == Block \ Late(d, S, w)
           B == Behind(g, d, S, w)
<1>1. S \in SUBSET Block /\ TreeTimes(d, S) /\ TreeEdges(g, d, S)
    BY DEF SearchTree
<1>2. w \in Late(d, S, w) /\ Late(d, S, w) \subseteq S /\ w \in Block /\ w \notin early
    BY <1>1 DEF Late, TreeTimes
<1>3. \A x : R.succ[x] = g.pred[x]
    BY DEF ReverseGraph
<1> HIDE DEF R, early
<1>4. /\ Reach(R, w, early) \in SUBSET (Block \ early)
      /\ {w} \ early \subseteq Reach(R, w, early)
      /\ Closed(R, early, Reach(R, w, early))
      /\ \A set : {w} \ early \subseteq set /\ Closed(R, early, set) => Reach(R, w, early) \subseteq set
    BY <1>2, ReachIsLeast
<1>5. B = Reach(R, w, early)
    BY DEF Behind, R, early
<1> HIDE DEF B
<1>6. w \in B /\ B \subseteq Late(d, S, w)
    BY <1>2, <1>4, <1>5 DEF early
<1>7. ASSUME NEW x \in B, NEW z \in Range(g.pred[x])
      PROVE  z \in S /\ (Begin(d, w) <= Begin(d, z) => z \in B)
    <2>1. z \in S
        BY <1>1, <1>2, <1>6 DEF TreeEdges
    <2>2. Begin(d, w) <= Begin(d, z) => z \in Block \ early
        BY <1>1, <2>1 DEF Late, early
    <2>3. z \in Range(R.succ[x])
        BY <1>3
    <2>4. QED
        BY <1>4, <1>5, <2>1, <2>2, <2>3 DEF Closed
<1>8. ASSUME NEW set, w \in set,
             \A x \in set \cap Late(d, S, w) : \A z \in Range(g.pred[x]) :
                 Begin(d, w) <= Begin(d, z) => z \in set
      PROVE  B \subseteq set
    <2> DEFINE part == set \cap Late(d, S, w)
    <2>1. {w} \ early \subseteq part
        BY <1>2, <1>8
    <2>2. Closed(R, early, part)
        <3> SUFFICES ASSUME NEW x \in part, NEW z \in Range(R.succ[x]), z \in Block \ early
                     PROVE  z \in part
            BY DEF Closed
        <3>1. z \in Late(d, S, w) /\ z \in Range(g.pred[x])
            BY <1>3 DEF early
        <3>2. Begin(d, w) <= Begin(d, z)
            BY <3>1 DEF Late
        <3>3. QED
            BY <1>8, <3>1, <3>2
    <2>3. QED
        BY <1>4, <1>5, <2>1, <2>2
<1>9. QED
    BY <1>6, <1>7, <1>8 DEF B

(* An edge that leads there from a vertex discovered before w comes from   *)
(* an ancestor of w.                                                       *)
LEMMA EntersFromAbove ==
    ASSUME NEW g, NEW d, NEW S, SearchTree(g, d, S), NEW w \in S,
           NEW x \in Behind(g, d, S, w), NEW z \in Range(g.pred[x]),
           Begin(d, z) < Begin(d, w)
    PROVE  z \in S /\ Above(d, z, w)
<1> DEFINE B == Behind(g, d, S, w)
           set == {y \in S : ~Above(d, z, y)}
<1>1. TreeTimes(d, S) /\ TreeEdges(g, d, S)
    BY DEF SearchTree
<1>2. z \in S /\ x \in S /\ Begin(d, w) <= Begin(d, x) /\ B \subseteq Late(d, S, w)
    BY BehindIsLeast DEF Late
<1>3. Above(d, z, x)
    BY <1>1, <1>2 DEF TreeTimes, TreeEdges, Above
<1>4. ASSUME ~Above(d, z, w) PROVE FALSE
    <2>1. w \in set
        BY <1>4
    <2>2. ASSUME NEW y \in set \cap Late(d, S, w), NEW v \in Range(g.pred[y]),
                 Begin(d, w) <= Begin(d, v)
          PROVE  v \in set
        <3>1. v \in S /\ y \in S /\ y \in Range(g.succ[v]) /\ Begin(d, w) <= Begin(d, y)
            BY <1>1, <2>2 DEF TreeEdges, Late
        <3>2. ASSUME Above(d, z, v) PROVE FALSE
            <4>1. Begin(d, z) <= Begin(d, y)
                BY <1>1, <1>2, <3>1 DEF TreeTimes
            <4>2. CASE Begin(d, y) <= Begin(d, v)
                <5>1. Above(d, z, y)
                    BY <1>2, <3>1, <3>2, <4>1, <4>2, AboveOrder
                <5>2. QED
                    BY <5>1
            <4>3. CASE Begin(d, v) < Begin(d, y)
                <5>1. Above(d, v, y)
                    BY <1>1, <3>1, <4>3 DEF TreeEdges, TreeTimes, Above
                <5>2. Above(d, z, y)
                    BY <1>2, <3>1, <3>2, <5>1, AboveOrder
                <5>3. QED
                    BY <5>2
            <4>4. QED
                BY <1>1, <3>1, <4>2, <4>3 DEF TreeTimes
        <3>3. QED
            BY <3>1, <3>2
    <2> HIDE DEF set
    <2>3. B \subseteq set
        BY <2>1, <2>2, BehindIsLeast
    <2>4. QED
        BY <1>3, <2>3 DEF set
<1>5. QED
    BY <1>2, <1>4

(* of the vertices with an edge there, the one discovered first *)
IsSemiDominator(g, d, S, w, y) ==
    /\ \E x \in Behind(g, d, S, w) : y \in Range(g.pred[x])
    /\ \A x \in Behind(g, d, S, w) : \A z \in Range(g.pred[x]) : Begin(d, y) <= Begin(d, z)

LEMMA SemiDominatorAbove ==
    ASSUME NEW g, NEW d, NEW S, SearchTree(g, d, S), NEW w \in S \ {Entry},
           NEW y, IsSemiDominator(g, d, S, w, y)
    PROVE  /\ y \in S
           /\ Above(d, y, w)
           /\ Begin(d, y) < Begin(d, w)
<1>1. PICK x \in Behind(g, d, S, w) : y \in Range(g.pred[x])
    BY DEF IsSemiDominator
<1>2. Link(d, w) \in S /\ Begin(d, Link(d, w)) < Begin(d, w) /\ Link(d, w) \in Range(g.pred[w])
    BY DEF SearchTree, TreeLinks, TreeEdges
<1>3. Begin(d, y) <= Begin(d, Link(d, w))
    BY <1>2, BehindIsLeast DEF IsSemiDominator
<1>4. y \in S
    BY <1>1, BehindIsLeast
<1>5. Begin(d, y) < Begin(d, w)
    BY <1>2, <1>3, <1>4 DEF SearchTree, TreeTimes
<1>6. QED
    BY <1>1, <1>4, <1>5, EntersFromAbove
-------------------------------------------------------------------------------
(* Dominance.                                                              *)

(* what is reached around u *)
Around(g, u) == Reach(g, Entry, {u})

LEMMA AroundIsLeast ==
    ASSUME NEW g, NEW d, NEW S, SearchTree(g, d, S), NEW u
    PROVE  /\ Around(g, u) \subseteq S
           /\ u \notin Around(g, u)
           /\ u # Entry => Entry \in Around(g, u)
           /\ \A x \in Around(g, u) : \A y \in Range(g.succ[x]) : y # u => y \in Around(g, u)
           /\ \A set : /\ u # Entry => Entry \in set
                       /\ \A x \in set : \A y \in Range(g.succ[x]) : y # u => y \in set
                       => Around(g, u) \subseteq set
<1> DEFINE R == Around(g, u)
<1>1. Entry \in Block /\ S \in SUBSET Block /\ TreeEdges(g, d, S) /\ Entry \in S
    BY DEF SearchTree
<1> HIDE DEF R
<1>2. /\ R \in SUBSET (Block \ {u})
      /\ {Entry} \ {u} \subseteq R
      /\ Closed(g, {u}, R)
      /\ \A set : {Entry} \ {u} \subseteq set /\ Closed(g, {u}, set) => R \subseteq set
    BY <1>1, ReachIsLeast DEF R, Around
<1>3. R \subseteq S
    <2>1. Closed(g, {u}, S)
        BY <1>1 DEF Closed, TreeEdges
    <2>2. QED
        BY <1>1, <1>2, <2>1
<1>4. ASSUME NEW x \in R, NEW y \in Range(g.succ[x]), y # u
      PROVE  y \in R
    <2>1. y \in S
        BY <1>1, <1>3 DEF TreeEdges
    <2>2. QED
        BY <1>1, <1>2, <1>4, <2>1 DEF Closed
<1>5. ASSUME NEW set, u # Entry => Entry \in set,
             \A x \in set : \A y \in Range(g.succ[x]) : y # u => y \in set
      PROVE  R \subseteq set
    <2>1. Closed(g, {u}, set)
        BY <1>5 DEF Closed
    <2>2. QED
        BY <1>2, <1>5, <2>1
<1>6. QED
    BY <1>2, <1>3, <1>4, <1>5 DEF R

LEMMA SmallestBegin ==
    ASSUME NEW d, NEW T, \A x \in T : Begin(d, x) \in Nat, T # {}
    PROVE  \E x \in T : \A y \in T : Begin(d, x) <= Begin(d, y)
<1> DEFINE times == {Begin(d, x) : x \in T}
<1>1. times \in SUBSET Nat /\ times # {}
    OBVIOUS
<1>2. Min(times) \in times /\ \A y \in times : Min(times) <= y
    BY <1>1, SmallestNat
<1>3. PICK x \in T : Begin(d, x) = Min(times)
    BY <1>2
<1>4. \A y \in T : Begin(d, y) \in times
    OBVIOUS
<1> HIDE DEF times
<1>5. QED
    BY <1>2, <1>3, <1>4

(* A path down the tree is a path around what is not on it.                *)
LEMMA DownTheTree ==
    ASSUME NEW g, NEW d, NEW S, SearchTree(g, d, S),
           NEW u \in S, NEW v \in S, NEW w \in S,
           v \in Around(g, u), Above(d, v, w), ~(Above(d, v, u) /\ Above(d, u, w))
    PROVE  w \in Around(g, u)
<1> DEFINE left == {y \in S : Above(d, v, y) /\ Above(d, y, w) /\ y \notin Around(g, u)}
<1> SUFFICES ASSUME w \notin Around(g, u) PROVE FALSE
    OBVIOUS
<1>1. TreeTimes(d, S) /\ TreeLinks(g, d, S)
    BY DEF SearchTree
<1>2. w \in left
    BY AboveOrder
<1>3. PICK y \in left : \A z \in left : Begin(d, y) <= Begin(d, z)
    <2>1. \A x \in left : Begin(d, x) \in Nat
        BY <1>1 DEF TreeTimes
    <2> HIDE DEF left
    <2>2. QED
        BY <1>2, <2>1, SmallestBegin
<1>4. y \in S /\ Above(d, v, y) /\ Above(d, y, w) /\ y \notin Around(g, u)
    BY <1>3
<1>5. y # v
    BY <1>4
<1>6. Begin(d, v) < Begin(d, y) /\ End(d, y) < End(d, v)
    BY <1>4, <1>5, AboveOrder
<1>7. PICK p \in S : p = Link(d, y)
    BY <1>1, <1>4, <1>6 DEF TreeLinks
<1>8. /\ y # Entry
      /\ Begin(d, v) <= Begin(d, p)
      /\ Begin(d, p) < Begin(d, y)
      /\ End(d, y) < End(d, p)
      /\ y \in Range(g.succ[p])
    BY <1>1, <1>4, <1>6, <1>7 DEF TreeLinks
<1>9. Above(d, p, y)
    BY <1>1, <1>4, <1>8 DEF Above, TreeTimes
<1>10. Above(d, v, p) /\ Above(d, p, w)
    BY <1>4, <1>8, <1>9, AboveOrder
<1>11. p \in Around(g, u)
    <2>1. ~(Begin(d, y) <= Begin(d, p))
        BY <1>1, <1>4, <1>8 DEF TreeTimes
    <2>2. QED
        BY <1>3, <1>10, <2>1
<1>12. y # u
    BY <1>4
<1>13. QED
    BY <1>4, <1>8, <1>11, <1>12, AroundIsLeast

LEMMA EntryAbove ==
    ASSUME NEW g, NEW d, NEW S, SearchTree(g, d, S), NEW v \in S
    PROVE  Above(d, Entry, v)
BY DEF SearchTree, TreeTimes, Above

(* So what dominates a vertex is above it.                                 *)
LEMMA DominatorsAbove ==
    ASSUME NEW g, NEW d, NEW S, SearchTree(g, d, S), NEW u \in S, NEW w \in S,
           Dominates(g, u, w)
    PROVE  Above(d, u, w)
<1> SUFFICES ASSUME ~Above(d, u, w) PROVE FALSE
    OBVIOUS
<1>1. Entry \in S /\ Above(d, Entry, w)
    BY EntryAbove DEF SearchTree
<1>2. Entry \in Around(g, u)
    BY <1>1, AroundIsLeast
<1>3. w \in Around(g, u)
    BY <1>1, <1>2, DownTheTree
<1>4. QED
    BY <1>3 DEF Dominates, Around

(* A path through what is behind w leads to w.                             *)
LEMMA BehindLeadsTo ==
    ASSUME NEW g, NEW d, NEW S, SearchTree(g, d, S), NEW w \in S, NEW u,
           u \notin Behind(g, d, S, w),
           NEW x \in Behind(g, d, S, w), x \in Around(g, u)
    PROVE  w \in Around(g, u)
<1> DEFINE B == Behind(g, d, S, w)
           set == {y \in B : y \notin Around(g, u)}
<1> SUFFICES ASSUME w \notin Around(g, u) PROVE FALSE
    OBVIOUS
<1>1. w \in set
    BY BehindIsLeast
<1>2. ASSUME NEW y \in set \cap Late(d, S, w), NEW z \in Range(g.pred[y]),
             Begin(d, w) <= Begin(d, z)
      PROVE  z \in set
    <2>1. z \in B /\ z \in S
        BY <1>2, BehindIsLeast
    <2>2. y \in Range(g.succ[z])
        BY <1>2, <2>1 DEF SearchTree, TreeEdges, Late
    <2>3. y # u
        OBVIOUS
    <2>4. z \notin Around(g, u)
        BY <2>2, <2>3, AroundIsLeast
    <2>5. QED
        BY <2>1, <2>4
<1> HIDE DEF set
<1>3. B \subseteq set
    BY <1>1, <1>2, BehindIsLeast
<1>4. QED
    BY <1>3 DEF set

(* What strictly dominates w is above its semidominator, and dominates it. *)
LEMMA DominatesSemiDominator ==
    ASSUME NEW g, NEW d, NEW S, SearchTree(g, d, S), NEW w \in S \ {Entry},
           NEW y, IsSemiDominator(g, d, S, w, y), NEW u \in StrictDominators(g, w)
    PROVE  u \in S /\ Above(d, u, y) /\ Dominates(g, u, y)
<1>1. y \in S /\ Above(d, y, w) /\ Begin(d, y) < Begin(d, w)
    BY SemiDominatorAbove
<1>2. u \in S /\ u # w /\ w \notin Around(g, u)
    BY DEF StrictDominators, Dominates, Around, SearchTree
<1>3. Above(d, u, w)
    BY <1>2, DominatorsAbove DEF Dominates, Around
<1>4. Begin(d, u) < Begin(d, w)
    BY <1>2, <1>3, AboveOrder
<1>5. u \notin Behind(g, d, S, w)
    <2>1. u \notin Late(d, S, w)
        BY <1>2, <1>4 DEF Late, SearchTree, TreeTimes
    <2>2. QED
        BY <2>1, BehindIsLeast
<1>6. y \notin Around(g, u)
    <2> SUFFICES ASSUME y \in Around(g, u) PROVE FALSE
        OBVIOUS
    <2>1. PICK x \in Behind(g, d, S, w) : y \in Range(g.pred[x])
        BY DEF IsSemiDominator
    <2>2. x \in S /\ x # u
        BY <1>5, BehindIsLeast DEF Late
    <2>3. x \in Range(g.succ[y])
        BY <1>1, <2>1, <2>2 DEF SearchTree, TreeEdges
    <2>4. x \in Around(g, u)
        BY <2>2, <2>3, AroundIsLeast
    <2>5. QED
        BY <1>2, <1>5, <2>4, BehindLeadsTo
<1>7. Above(d, u, y)
    BY <1>1, <1>2, <1>6, DominatorsAbove DEF Dominates, Around
<1>8. QED
    BY <1>2, <1>6, <1>7 DEF Dominates, Around

IsIDom(g, w, x) ==
    /\ x \in StrictDominators(g, w)
    /\ \A u \in StrictDominators(g, w) : Dominates(g, u, x)

SemiDominatorsAre(g, d, S, sdom) ==
    \A v \in S \ {Entry} : IsSemiDominator(g, d, S, v, sdom[v])

(* the vertices above w, w too, that are below its semidominator           *)
Between(d, S, sdom, w) == {v \in S : Above(d, v, w) /\ Begin(d, sdom[w]) < Begin(d, v)}

LEMMA BetweenFacts ==
    ASSUME NEW g, NEW d, NEW S, SearchTree(g, d, S), NEW sdom, SemiDominatorsAre(g, d, S, sdom),
           NEW w \in S \ {Entry}
    PROVE  /\ sdom[w] \in S /\ Above(d, sdom[w], w) /\ Begin(d, sdom[w]) < Begin(d, w)
           /\ w \in Between(d, S, sdom, w)
           /\ \A v \in Between(d, S, sdom, w) :
                  /\ v \in S \ {Entry} /\ Above(d, v, w)
                  /\ Above(d, sdom[w], v) /\ Begin(d, sdom[w]) < Begin(d, v)
                  /\ sdom[v] \in S /\ Above(d, sdom[v], v) /\ Begin(d, sdom[v]) < Begin(d, v)
<1>1. TreeTimes(d, S) /\ Entry \in S
    BY DEF SearchTree
<1>2. \A v \in S \ {Entry} : sdom[v] \in S /\ Above(d, sdom[v], v) /\ Begin(d, sdom[v]) < Begin(d, v)
    BY SemiDominatorAbove DEF SemiDominatorsAre
<1>3. w \in Between(d, S, sdom, w)
    BY <1>2, AboveOrder DEF Between
<1>4. ASSUME NEW v \in Between(d, S, sdom, w)
      PROVE  /\ v \in S \ {Entry} /\ Above(d, v, w)
             /\ Above(d, sdom[w], v) /\ Begin(d, sdom[w]) < Begin(d, v)
    <2>1. v \in S /\ Above(d, v, w) /\ Begin(d, sdom[w]) < Begin(d, v)
        BY DEF Between
    <2>2. v # Entry
        BY <1>1, <1>2, <2>1 DEF TreeTimes
    <2>3. Begin(d, sdom[w]) <= Begin(d, v)
        BY <1>1, <1>2, <2>1 DEF TreeTimes
    <2>4. Above(d, sdom[w], v)
        BY <1>2, <2>1, <2>3, AboveOrder
    <2>5. QED
        BY <2>1, <2>2, <2>4
<1>5. QED
    BY <1>2, <1>3, <1>4

-------------------------------------------------------------------------------
(* Semidominators and immediate dominators.                                *)

(* A vertex whose semidominator is discovered first among those Between:   *)
(* the semidominator is the immediate dominator.                           *)
LEMMA SemiDominatorIsIDom ==
    ASSUME NEW g, NEW d, NEW S, SearchTree(g, d, S), NEW sdom, SemiDominatorsAre(g, d, S, sdom),
           NEW w \in S \ {Entry},
           \A v \in Between(d, S, sdom, w) : Begin(d, sdom[w]) <= Begin(d, sdom[v])
    PROVE  IsIDom(g, w, sdom[w])
<1> DEFINE T == Between(d, S, sdom, w)
           below == {x \in S : \E v \in T : x \in Behind(g, d, S, v)}
           rest == {x \in S : x # sdom[w] /\ x \notin below}
<1>1. TreeTimes(d, S) /\ TreeEdges(g, d, S) /\ Entry \in S /\ S = Reachable(g)
    BY DEF SearchTree
<1>2. PICK s \in S : s = sdom[w]
    BY BetweenFacts
<1>3. Above(d, s, w) /\ Begin(d, s) < Begin(d, w) /\ w \in T
    BY <1>2, BetweenFacts
<1>4. \A v \in T : /\ v \in S \ {Entry} /\ Above(d, v, w)
                   /\ Above(d, s, v) /\ Begin(d, s) < Begin(d, v)
                   /\ sdom[v] \in S /\ Begin(d, s) <= Begin(d, sdom[v])
    BY <1>2, BetweenFacts
<1>5. \A v \in T : v \in Behind(g, d, S, v) /\ Behind(g, d, S, v) \subseteq Late(d, S, v)
    BY <1>4, BehindIsLeast
<1>6. w \notin rest
    BY <1>3, <1>4, <1>5
<1>7. s # Entry => Entry \in rest
    <2>1. ASSUME Entry \in below PROVE FALSE
        <3>1. PICK v \in T : Entry \in Behind(g, d, S, v)
            BY <2>1
        <3>2. Begin(d, v) <= Begin(d, Entry)
            BY <1>5, <3>1 DEF Late
        <3>3. Begin(d, s) < Begin(d, v) /\ Begin(d, Entry) <= Begin(d, s) /\ v \in S
            BY <1>1, <1>4, <3>1 DEF TreeTimes
        <3>4. QED
            BY <1>1, <3>2, <3>3 DEF TreeTimes
    <2> HIDE DEF below
    <2>2. QED
        BY <1>1, <1>2, <2>1
<1>8. ASSUME NEW x \in rest, NEW y \in Range(g.succ[x]), y # s
      PROVE  y \in rest
    <2>1. x \in S /\ y \in S /\ x \in Range(g.pred[y]) /\ x # s
        BY <1>1, <1>2 DEF TreeEdges
    <2>2. ASSUME NEW u \in T, y \in Behind(g, d, S, u) PROVE FALSE
        <3>1. x \notin Behind(g, d, S, u)
            BY <2>1
        <3>2. u \in S \ {Entry} /\ Begin(d, s) <= Begin(d, sdom[u]) /\ sdom[u] \in S /\ Above(d, u, w)
            BY <1>4
        <3>3. Begin(d, x) < Begin(d, u)
            <4>1. ~(Begin(d, u) <= Begin(d, x))
                BY <2>1, <2>2, <3>1, <3>2, BehindIsLeast
            <4>2. QED
                BY <1>1, <2>1, <3>2, <4>1 DEF TreeTimes
        <3>4. Above(d, x, u)
            BY <2>1, <2>2, <3>2, <3>3, EntersFromAbove
        <3>5. Begin(d, sdom[u]) <= Begin(d, x)
            BY <2>1, <2>2, <3>2 DEF SemiDominatorsAre, IsSemiDominator
        <3>6. Begin(d, s) <= Begin(d, x)
            BY <1>1, <2>1, <3>2, <3>5 DEF TreeTimes
        <3>7. Begin(d, s) < Begin(d, x)
            BY <1>1, <2>1, <3>6 DEF TreeTimes
        <3>8. Above(d, x, w)
            BY <2>1, <3>2, <3>4, AboveOrder
        <3>9. x \in T
            BY <1>2, <2>1, <3>7, <3>8 DEF Between
        <3>10. QED
            BY <1>5, <2>1, <3>9
    <2> HIDE DEF T
    <2>3. QED
        BY <1>2, <1>8, <2>1, <2>2
<1>9. Around(g, s) \subseteq rest
    <2> HIDE DEF rest
    <2>1. QED
        BY <1>7, <1>8, AroundIsLeast
<1>10. s \in StrictDominators(g, w)
    <2>1. s # w
        BY <1>1, <1>3 DEF TreeTimes
    <2>2. QED
        BY <1>1, <1>6, <1>9, <2>1 DEF StrictDominators, Dominates, Around
<1>11. \A u \in StrictDominators(g, w) : Dominates(g, u, s)
    <2>1. IsSemiDominator(g, d, S, w, s)
        BY <1>2 DEF SemiDominatorsAre
    <2>2. QED
        BY <2>1, DominatesSemiDominator
<1>12. QED
    BY <1>2, <1>10, <1>11 DEF IsIDom

(* The vertex Between whose semidominator is discovered first is           *)
(* dominated by the same vertices.                                         *)
LEMMA RelativeDominates ==
    ASSUME NEW g, NEW d, NEW S, SearchTree(g, d, S), NEW sdom, SemiDominatorsAre(g, d, S, sdom),
           NEW w \in S \ {Entry}, NEW u \in Between(d, S, sdom, w),
           \A v \in Between(d, S, sdom, w) : Begin(d, sdom[u]) <= Begin(d, sdom[v])
    PROVE  StrictDominators(g, w) = StrictDominators(g, u)
<1>1. TreeTimes(d, S) /\ TreeEdges(g, d, S) /\ Entry \in S /\ S = Reachable(g)
    BY DEF SearchTree
<1>2. \A v \in S \ {Entry} : sdom[v] \in S /\ Above(d, sdom[v], v) /\ Begin(d, sdom[v]) < Begin(d, v)
    BY SemiDominatorAbove DEF SemiDominatorsAre
<1>3. /\ u \in S \ {Entry} /\ Above(d, u, w)
      /\ Above(d, sdom[w], u) /\ Begin(d, sdom[w]) < Begin(d, u)
    BY BetweenFacts
<1>4. Begin(d, sdom[u]) <= Begin(d, sdom[w])
    BY BetweenFacts
<1>5. ASSUME NEW x \in StrictDominators(g, w)
      PROVE  x \in StrictDominators(g, u)
    <2>1. x \in S /\ Above(d, x, sdom[w]) /\ w \notin Around(g, x)
        <3>1. IsSemiDominator(g, d, S, w, sdom[w])
            BY DEF SemiDominatorsAre
        <3>2. x \in S /\ Above(d, x, sdom[w])
            BY <3>1, DominatesSemiDominator
        <3>3. QED
            BY <3>2 DEF StrictDominators, Dominates, Around
    <2>2. Begin(d, x) < Begin(d, u)
        BY <1>1, <1>2, <1>3, <2>1 DEF TreeTimes, Above
    <2>3. u \notin Around(g, x)
        <3>1. ~Above(d, u, x)
            BY <1>1, <1>3, <2>1, <2>2 DEF TreeTimes, Above
        <3>2. QED
            BY <1>3, <2>1, <3>1, DownTheTree
    <2>4. x # u
        BY <1>1, <1>3, <2>2 DEF TreeTimes
    <2>5. QED
        BY <1>1, <2>1, <2>3, <2>4 DEF StrictDominators, Dominates, Around
<1>6. ASSUME NEW x \in StrictDominators(g, u)
      PROVE  x \in StrictDominators(g, w)
    <2>1. x \in S /\ x # u /\ Above(d, x, sdom[u]) /\ u \notin Around(g, x)
        <3>1. IsSemiDominator(g, d, S, u, sdom[u])
            BY <1>3 DEF SemiDominatorsAre
        <3>2. x \in S /\ Above(d, x, sdom[u])
            BY <1>3, <3>1, DominatesSemiDominator
        <3>3. QED
            BY <3>2 DEF StrictDominators, Dominates, Around
    <2> DEFINE bad == {y \in S : Begin(d, x) < Begin(d, y) /\ Above(d, y, w)}
               below == {y \in S : \E v \in bad : y \in Behind(g, d, S, v)}
               rest == {y \in Around(g, x) : y \notin below}
    <2>2. /\ Begin(d, x) < Begin(d, u) /\ Begin(d, x) < Begin(d, w)
          /\ Begin(d, x) <= Begin(d, sdom[u]) /\ Begin(d, u) <= Begin(d, w)
        BY <1>1, <1>2, <1>3, <2>1 DEF TreeTimes, Above
    <2>3. w \in bad /\ u \in bad
        BY <1>3, <2>2, AboveOrder
    <2>4. \A v \in bad : /\ v \in S /\ v # Entry /\ Above(d, v, w) /\ Begin(d, x) < Begin(d, v)
        BY <1>1, <2>1 DEF TreeTimes
    <2>5. \A v \in bad : v \in Behind(g, d, S, v) /\ Behind(g, d, S, v) \subseteq Late(d, S, v)
        BY <2>4, BehindIsLeast
    <2>6. x # Entry => Entry \in rest
        <3>1. ASSUME Entry \in below PROVE FALSE
            <4>1. PICK v \in bad : Entry \in Behind(g, d, S, v)
                BY <3>1
            <4>2. Begin(d, v) <= Begin(d, Entry)
                BY <2>5, <4>1 DEF Late
            <4>3. Begin(d, x) < Begin(d, v) /\ Begin(d, Entry) <= Begin(d, x) /\ v \in S
                BY <1>1, <2>1, <2>4, <4>1 DEF TreeTimes
            <4>4. QED
                BY <1>1, <2>1, <4>2, <4>3 DEF TreeTimes
        <3> HIDE DEF below
        <3>2. QED
            BY <3>1, AroundIsLeast
    <2>7. ASSUME NEW y \in rest, NEW z \in Range(g.succ[y]), z # x
          PROVE  z \in rest
        <3>1. y \in Around(g, x) /\ y \in S /\ z \in S /\ y \in Range(g.pred[z]) /\ z \in Around(g, x)
            <4>1. y \in Around(g, x)
                OBVIOUS
            <4>2. y \in S /\ z \in Around(g, x)
                BY <2>7, <4>1, AroundIsLeast
            <4>3. QED
                BY <1>1, <4>1, <4>2 DEF TreeEdges
        <3>2. ASSUME NEW v \in bad, z \in Behind(g, d, S, v) PROVE FALSE
            <4>1. v \in S \ {Entry} /\ Above(d, v, w) /\ Begin(d, x) < Begin(d, v)
                BY <2>4
            <4>2. y \notin Behind(g, d, S, v)
                BY <3>1
            <4>3. Begin(d, y) < Begin(d, v)
                <5>1. ~(Begin(d, v) <= Begin(d, y))
                    BY <3>1, <3>2, <4>1, <4>2, BehindIsLeast
                <5>2. QED
                    BY <1>1, <3>1, <4>1, <5>1 DEF TreeTimes
            <4>4. Above(d, y, v)
                BY <3>1, <3>2, <4>1, <4>3, EntersFromAbove
            <4>5. Above(d, y, w)
                BY <3>1, <4>1, <4>4, AboveOrder
            <4>6. y # x
                BY <3>1, AroundIsLeast
            <4>7. ~(Begin(d, x) < Begin(d, y))
                BY <2>5, <3>1, <4>5
            <4>8. Begin(d, y) < Begin(d, x)
                BY <1>1, <2>1, <3>1, <4>6, <4>7 DEF TreeTimes
            <4>9. v \in Around(g, x)
                <5>1. x \notin Behind(g, d, S, v)
                    <6>1. x \notin Late(d, S, v)
                        BY <1>1, <2>1, <4>1 DEF Late, TreeTimes
                    <6>2. QED
                        BY <2>5, <6>1
                <5>2. QED
                    BY <3>1, <3>2, <4>1, <5>1, BehindLeadsTo
            <4>10. CASE Above(d, v, u)
                <5>1. ~Above(d, v, x)
                    BY <1>1, <2>1, <4>1 DEF TreeTimes, Above
                <5>2. u \in Around(g, x)
                    BY <1>3, <2>1, <4>1, <4>9, <4>10, <5>1, DownTheTree
                <5>3. QED
                    BY <2>1, <5>2
            <4>11. CASE ~Above(d, v, u)
                <5>1. Begin(d, u) <= Begin(d, v)
                    <6>1. Above(d, v, u) <=> Begin(d, v) <= Begin(d, u)
                        BY <1>3, <4>1, AboveOrder
                    <6>2. QED
                        BY <1>1, <1>3, <4>1, <4>11, <6>1 DEF TreeTimes
                <5>2. Begin(d, sdom[w]) < Begin(d, v)
                    BY <1>1, <1>2, <1>3, <4>1, <5>1 DEF TreeTimes
                <5>3. v \in Between(d, S, sdom, w)
                    BY <4>1, <5>2 DEF Between
                <5>4. Begin(d, sdom[u]) <= Begin(d, sdom[v])
                    BY <5>3
                <5>5. Begin(d, sdom[v]) <= Begin(d, y)
                    BY <3>1, <3>2, <4>1 DEF SemiDominatorsAre, IsSemiDominator
                <5>6. sdom[u] \in S /\ sdom[v] \in S
                    BY <1>2, <1>3, <4>1
                <5>7. QED
                    BY <1>1, <2>1, <2>2, <3>1, <4>8, <5>4, <5>5, <5>6 DEF TreeTimes
            <4>12. QED
                BY <4>10, <4>11
        <3> HIDE DEF bad
        <3>3. QED
            BY <3>1, <3>2
    <2>8. Around(g, x) \subseteq rest
        <3> HIDE DEF rest
        <3>1. QED
            BY <2>6, <2>7, AroundIsLeast
    <2>9. w \notin Around(g, x)
        BY <2>3, <2>4, <2>5, <2>8
    <2>10. x # w
        BY <1>1, <2>2 DEF TreeTimes
    <2>11. QED
        BY <1>1, <2>1, <2>9, <2>10 DEF StrictDominators, Dominates, Around
<1>7. QED
    BY <1>5, <1>6

-------------------------------------------------------------------------------
(* compute_semidominators.                                                 *)

LEMMA EarliestIsFirst ==
    ASSUME NEW d, NEW T, \A x \in T : Begin(d, x) \in Nat, T # {}
    PROVE  Earliest(d, T) \in T /\ \A y \in T : Begin(d, Earliest(d, T)) <= Begin(d, y)
<1>1. \E x \in T : \A y \in T : Begin(d, x) <= Begin(d, y)
    BY SmallestBegin
<1>2. \A x : Time(d, x) = Begin(d, x)
    BY DEF Time, Begin
<1>3. \E x \in T : \A y \in T : Time(d, x) <= Time(d, y)
    BY <1>1, <1>2
<1>4. Earliest(d, T) \in T /\ \A y \in T : Time(d, Earliest(d, T)) <= Time(d, y)
    BY <1>3 DEF Earliest
<1>5. QED
    BY <1>2, <1>4

(* What is above a vertex behind w, and no earlier than w, is behind w.    *)
LEMMA BehindUp ==
    ASSUME NEW g, NEW d, NEW S, SearchTree(g, d, S), NEW w \in S,
           NEW x \in Behind(g, d, S, w), NEW u \in S, Above(d, u, x), Begin(d, w) <= Begin(d, u)
    PROVE  Behind(g, d, S, u) \subseteq Behind(g, d, S, w)
<1> DEFINE B == Behind(g, d, S, w)
           up == {y \in B : y \in S /\ Above(d, u, y)}
<1>1. TreeTimes(d, S) /\ TreeLinks(g, d, S) /\ TreeEdges(g, d, S)
    BY DEF SearchTree
<1>2. x \in up /\ \A y \in up : Begin(d, y) \in Nat
    BY <1>1, BehindIsLeast DEF Late, TreeTimes
<1>3. PICK y \in up : \A z \in up : Begin(d, y) <= Begin(d, z)
    <2> HIDE DEF up
    <2>1. QED
        BY <1>2, SmallestBegin
<1>4. ASSUME y # u PROVE FALSE
    <2>1. y \in S /\ y \in B /\ Above(d, u, y)
        BY <1>3
    <2>2. Begin(d, u) < Begin(d, y) /\ End(d, y) < End(d, u)
        BY <1>4, <2>1, AboveOrder
    <2>3. PICK p \in S : p = Link(d, y)
        BY <1>1, <2>1, <2>2 DEF TreeLinks
    <2>4. /\ y # Entry
          /\ Begin(d, u) <= Begin(d, p)
          /\ Begin(d, p) < Begin(d, y)
          /\ End(d, y) < End(d, p)
          /\ y \in Range(g.succ[p])
        BY <1>1, <2>1, <2>2, <2>3 DEF TreeLinks
    <2>5. Above(d, p, y)
        BY <1>1, <2>1, <2>4 DEF Above, TreeTimes
    <2>6. Above(d, u, p)
        BY <2>1, <2>4, <2>5, AboveOrder
    <2>7. p \in Range(g.pred[y]) /\ Begin(d, w) <= Begin(d, p)
        BY <1>1, <2>1, <2>4 DEF TreeEdges, TreeTimes
    <2>8. p \in B
        BY <2>1, <2>7, BehindIsLeast
    <2>9. ~(Begin(d, y) <= Begin(d, p))
        BY <1>1, <2>1, <2>4 DEF TreeTimes
    <2>10. QED
        BY <1>3, <2>6, <2>8, <2>9
<1>5. u \in B
    BY <1>3, <1>4
<1>6. ASSUME NEW z \in B \cap Late(d, S, u), NEW v \in Range(g.pred[z]), Begin(d, u) <= Begin(d, v)
      PROVE  v \in B
    <2>1. v \in S
        BY BehindIsLeast
    <2>2. Begin(d, w) <= Begin(d, v)
        BY <1>1, <1>6, <2>1 DEF TreeTimes
    <2>3. QED
        BY <2>2, BehindIsLeast
<1> HIDE DEF B
<1>7. QED
    BY <1>5, <1>6, BehindIsLeast DEF B

LEMMA SDomCandidatesAre ==
    ASSUME NEW g, NEW d, NEW S, SearchTree(g, d, S), NEW w \in S \ {Entry},
           NEW sdom, DOMAIN sdom \subseteq S, \A u \in DOMAIN sdom : sdom[u] \in S
    PROVE  /\ Link(d, w) \in SDomCandidates(g, d, sdom, w)
           /\ SDomCandidates(g, d, sdom, w) \subseteq S
           /\ \A c : c \in SDomCandidates(g, d, sdom, w) <=>
                  \/ c \in Range(g.pred[w]) /\ Begin(d, c) < Begin(d, w)
                  \/ \E u \in DOMAIN sdom : c = sdom[u] /\ \E v \in Range(g.pred[w]) : Above(d, u, v)
<1>1. TreeTimes(d, S) /\ TreeLinks(g, d, S) /\ TreeEdges(g, d, S)
    BY DEF SearchTree
<1>2. \A c : c \in SDomCandidates(g, d, sdom, w) <=>
                  \/ c \in Range(g.pred[w]) /\ Begin(d, c) < Begin(d, w)
                  \/ \E u \in DOMAIN sdom : c = sdom[u] /\ \E v \in Range(g.pred[w]) : Above(d, u, v)
    BY DEF SDomCandidates, Time, Begin, End, Above, is_ancestor_of
<1>3. Range(g.pred[w]) \subseteq S
    BY <1>1 DEF TreeEdges
<1>4. Link(d, w) \in Range(g.pred[w]) /\ Begin(d, Link(d, w)) < Begin(d, w)
    BY <1>1 DEF TreeEdges, TreeLinks
<1>5. QED
    BY <1>2, <1>3, <1>4

(* One turn of the loop: the semidominators of the vertices after w give   *)
(* that of w.                                                              *)
LEMMA SemiDominatorStep ==
    ASSUME NEW g, NEW d, NEW S, SearchTree(g, d, S), NEW w \in S \ {Entry},
           NEW sdom, DOMAIN sdom = {u \in S : Begin(d, w) < Begin(d, u)},
           \A u \in DOMAIN sdom : IsSemiDominator(g, d, S, u, sdom[u])
    PROVE  IsSemiDominator(g, d, S, w, Earliest(d, SDomCandidates(g, d, sdom, w)))
<1> DEFINE C == SDomCandidates(g, d, sdom, w)
           B == Behind(g, d, S, w)
           feeds(u) == u \in DOMAIN sdom /\ \E v \in Range(g.pred[w]) : Above(d, u, v)
<1>1. TreeTimes(d, S) /\ TreeLinks(g, d, S) /\ TreeEdges(g, d, S) /\ Entry \in S
    BY DEF SearchTree
<1>2. \A u \in DOMAIN sdom : /\ u \in S \ {Entry} /\ Begin(d, w) < Begin(d, u)
                             /\ sdom[u] \in S
    <2>1. \A u \in DOMAIN sdom : u \in S \ {Entry} /\ Begin(d, w) < Begin(d, u)
        BY <1>1 DEF TreeTimes
    <2>2. QED
        BY <2>1, SemiDominatorAbove
<1>3. /\ Link(d, w) \in C /\ C \subseteq S
      /\ \A c : c \in C <=>
             \/ c \in Range(g.pred[w]) /\ Begin(d, c) < Begin(d, w)
             \/ \E u \in DOMAIN sdom : c = sdom[u] /\ \E v \in Range(g.pred[w]) : Above(d, u, v)
    <2>1. DOMAIN sdom \subseteq S /\ \A u \in DOMAIN sdom : sdom[u] \in S
        BY <1>2
    <2>2. QED
        BY <2>1, SDomCandidatesAre
<1>4. \A x \in S : Begin(d, x) \in Nat
    BY <1>1 DEF TreeTimes
<1>5. ASSUME NEW u, feeds(u)
      PROVE  Behind(g, d, S, u) \subseteq B
    <2>1. PICK v \in Range(g.pred[w]) : Above(d, u, v)
        BY <1>5
    <2>2. v \in S /\ u \in S /\ Begin(d, w) < Begin(d, u)
        BY <1>1, <1>2, <1>5 DEF TreeEdges
    <2>3. Begin(d, w) <= Begin(d, v) /\ Begin(d, w) <= Begin(d, u)
        BY <1>4, <2>1, <2>2 DEF Above
    <2>4. v \in B
        BY <2>3, BehindIsLeast
    <2>5. QED
        BY <2>1, <2>2, <2>3, <2>4, BehindUp
<1>6. ASSUME NEW c \in C
      PROVE  \E x \in B : c \in Range(g.pred[x])
    <2>1. CASE c \in Range(g.pred[w])
        BY <2>1, BehindIsLeast
    <2>2. CASE \E u \in DOMAIN sdom : c = sdom[u] /\ \E v \in Range(g.pred[w]) : Above(d, u, v)
        <3>1. PICK u : feeds(u) /\ c = sdom[u]
            BY <2>2
        <3>2. IsSemiDominator(g, d, S, u, sdom[u])
            BY <3>1
        <3>3. PICK x \in Behind(g, d, S, u) : c \in Range(g.pred[x])
            BY <3>1, <3>2 DEF IsSemiDominator
        <3>4. QED
            BY <1>5, <3>1, <3>3
    <2>3. QED
        BY <1>3, <2>1, <2>2
<1> DEFINE covered == {x \in S : x = w \/ \E u : feeds(u) /\ x \in Behind(g, d, S, u)}
<1>7. B \subseteq covered
    <2>1. w \in covered
        OBVIOUS
    <2>2. ASSUME NEW x \in covered \cap Late(d, S, w), NEW z \in Range(g.pred[x]),
                 Begin(d, w) <= Begin(d, z), z # w
          PROVE  z \in covered
        <3>1. x \in S /\ z \in S
            BY <1>1 DEF TreeEdges
        <3>2. Begin(d, w) < Begin(d, z) /\ z \in DOMAIN sdom
            BY <1>1, <2>2, <3>1 DEF TreeTimes
        <3>3. z \in Behind(g, d, S, z) /\ Above(d, z, z)
            BY <3>1, BehindIsLeast, AboveOrder
        <3>4. CASE x = w
            <4>1. feeds(z)
                BY <3>2, <3>3, <3>4
            <4>2. QED
                BY <3>1, <3>3, <4>1
        <3>5. CASE x # w
            <4>1. PICK u : feeds(u) /\ x \in Behind(g, d, S, u)
                BY <3>5
            <4>2. PICK v \in Range(g.pred[w]) : Above(d, u, v)
                BY <4>1
            <4>3. u \in S /\ v \in S
                BY <1>1, <1>2, <4>1 DEF TreeEdges
            <4>4. CASE Begin(d, u) <= Begin(d, z)
                <5>1. z \in Behind(g, d, S, u)
                    BY <4>1, <4>3, <4>4, BehindIsLeast
                <5>2. QED
                    BY <3>1, <4>1, <5>1
            <4>5. CASE Begin(d, z) < Begin(d, u)
                <5>1. Above(d, z, u)
                    BY <4>1, <4>3, <4>5, EntersFromAbove
                <5>2. Above(d, z, v)
                    BY <3>1, <4>2, <4>3, <5>1, AboveOrder
                <5>3. feeds(z)
                    BY <3>2, <5>2
                <5>4. QED
                    BY <3>1, <3>3, <5>3
            <4>6. QED
                BY <1>4, <3>1, <4>3, <4>4, <4>5
        <3>6. QED
            BY <3>4, <3>5
    <2> HIDE DEF covered
    <2>3. QED
        BY <2>1, <2>2, BehindIsLeast
<1>8. ASSUME NEW x \in B, NEW z \in Range(g.pred[x])
      PROVE  z \in S /\ \E c \in C : Begin(d, c) <= Begin(d, z)
    <2>1. z \in S
        BY BehindIsLeast
    <2>2. CASE x = w
        <3>1. CASE Begin(d, z) < Begin(d, w)
            BY <1>3, <1>4, <2>1, <2>2, <3>1
        <3>2. CASE Begin(d, w) <= Begin(d, z)
            <4>1. Link(d, w) \in S /\ Begin(d, Link(d, w)) < Begin(d, w)
                BY <1>1 DEF TreeLinks
            <4>2. Begin(d, Link(d, w)) <= Begin(d, z)
                BY <1>4, <2>1, <3>2, <4>1
            <4>3. QED
                BY <1>3, <2>1, <4>2
        <3>3. QED
            BY <1>4, <2>1, <3>1, <3>2
    <2>3. CASE x # w
        <3>1. PICK u : feeds(u) /\ x \in Behind(g, d, S, u)
            BY <1>7, <2>3
        <3>2. IsSemiDominator(g, d, S, u, sdom[u])
            BY <3>1
        <3>3. Begin(d, sdom[u]) <= Begin(d, z)
            BY <3>1, <3>2 DEF IsSemiDominator
        <3>4. sdom[u] \in C
            BY <1>3, <3>1
        <3>5. QED
            BY <2>1, <3>3, <3>4
    <2>4. QED
        BY <2>2, <2>3
<1> DEFINE y == Earliest(d, C)
<1>9. y \in C /\ \A c \in C : Begin(d, y) <= Begin(d, c)
    <2> HIDE DEF C
    <2>1. C # {} /\ \A x \in C : Begin(d, x) \in Nat
        BY <1>3, <1>4
    <2>2. QED
        BY <2>1, EarliestIsFirst
<1> HIDE DEF y, C, B
<1>10. \A x \in B : \A z \in Range(g.pred[x]) : Begin(d, y) <= Begin(d, z)
    BY <1>3, <1>4, <1>8, <1>9
<1>11. QED
    BY <1>6, <1>9, <1>10 DEF IsSemiDominator, y, C, B

-------------------------------------------------------------------------------
(* compute_semidominators finds the semidominators.                        *)

(* the vertices in the order of their discovery                            *)
PreOrder(d, S) ==
    /\ d.pre_order \in Seq(S)
    /\ Len(d.pre_order) # 0
    /\ Head(d.pre_order) = Entry
    /\ Range(d.pre_order) = S
    /\ \A i, j \in DOMAIN d.pre_order : i < j => Begin(d, d.pre_order[i]) < Begin(d, d.pre_order[j])

(* the vertices but the entry: how many, and the k-th from the front       *)
Rest(d) == Len(d.pre_order) - 1

Nth(d, k) == d.pre_order[k + 1]

LEMMA RestFacts ==
    ASSUME NEW g, NEW d, NEW S, SearchTree(g, d, S), PreOrder(d, S)
    PROVE  /\ Rest(d) \in Nat
           /\ \A k \in 1 .. Rest(d) : Nth(d, k) \in S \ {Entry}
           /\ \A v \in S \ {Entry} : \E k \in 1 .. Rest(d) : v = Nth(d, k)
           /\ \A j, k \in 1 .. Rest(d) : j < k <=> Begin(d, Nth(d, j)) < Begin(d, Nth(d, k))
           /\ Tail(d.pre_order) \in Seq(S)
           /\ DOMAIN Tail(d.pre_order) = 1 .. Rest(d)
           /\ \A k \in 1 .. Rest(d) : Tail(d.pre_order)[k] = Nth(d, k)
           /\ DOMAIN Backwards(d) = 1 .. Rest(d)
           /\ \A k \in 1 .. Rest(d) : Backwards(d)[k] = Nth(d, Rest(d) + 1 - k)
<1> DEFINE N == Rest(d)
           b(v) == Begin(d, v)
<1>1. PICK q \in Seq(S) : q = d.pre_order
    BY DEF PreOrder
<1>2. /\ Len(q) # 0 /\ q[1] = Entry /\ Range(q) = S
      /\ \A i, j \in DOMAIN q : i < j => b(q[i]) < b(q[j])
    BY <1>1 DEF PreOrder
<1>3. /\ Len(q) \in Nat /\ DOMAIN q = 1 .. Len(q) /\ N = Len(q) - 1 /\ N \in Nat
      /\ \A k : Nth(d, k) = q[k + 1]
    BY <1>1, <1>2 DEF Rest, Nth
<1>4. \A i \in 1 .. Len(q) : q[i] \in S /\ b(q[i]) \in Nat
    BY <1>3 DEF SearchTree, TreeTimes
<1> HIDE DEF b, N
<1>5. \A k \in 1 .. N : k + 1 \in DOMAIN q /\ 1 \in DOMAIN q /\ 1 < k + 1
    BY <1>3
<1>6. ASSUME NEW j \in 1 .. N, NEW k \in 1 .. N
      PROVE  j < k <=> b(q[j + 1]) < b(q[k + 1])
    <2>1. j < k => b(q[j + 1]) < b(q[k + 1])
        BY <1>2, <1>3, <1>5
    <2>2. k < j => b(q[k + 1]) < b(q[j + 1])
        BY <1>2, <1>3, <1>5
    <2>3. b(q[j + 1]) \in Nat /\ b(q[k + 1]) \in Nat
        BY <1>3, <1>4, <1>5
    <2>4. j \in Nat /\ k \in Nat
        BY <1>3
    <2>5. j = k => q[j + 1] = q[k + 1]
        OBVIOUS
    <2>6. QED
        BY <2>1, <2>2, <2>3, <2>4, <2>5
<1>7. \A k \in 1 .. N : q[k + 1] \in S \ {Entry}
    <2> SUFFICES ASSUME NEW k \in 1 .. N PROVE q[k + 1] \in S \ {Entry}
        OBVIOUS
    <2>1. b(q[1]) < b(q[k + 1]) /\ q[k + 1] \in S
        BY <1>2, <1>3, <1>4, <1>5
    <2>2. b(q[1]) \in Nat /\ b(q[k + 1]) \in Nat
        BY <1>3, <1>4, <1>5
    <2>3. q[k + 1] # q[1]
        BY <2>1, <2>2
    <2>4. QED
        BY <1>2, <2>1, <2>3
<1>8. ASSUME NEW v \in S \ {Entry}
      PROVE  \E k \in 1 .. N : v = q[k + 1]
    <2>1. PICK i \in 1 .. Len(q) : v = q[i]
        BY <1>2, <1>3 DEF Range
    <2>2. i # 1
        BY <1>2, <2>1
    <2>3. i - 1 \in 1 .. N /\ (i - 1) + 1 = i
        BY <1>3, <2>2
    <2>4. QED
        BY <2>1, <2>3
<1>9. PICK t \in Seq(S) : t = Tail(q) /\ Len(t) = N /\ \A k \in 1 .. N : t[k] = q[k + 1]
    <2>1. q # << >>
        BY <1>2
    <2>2. Tail(q) \in Seq(S) /\ Len(Tail(q)) = Len(q) - 1 /\ \A k \in 1 .. Len(q) - 1 : Tail(q)[k] = q[k + 1]
        BY <2>1
    <2>3. QED
        BY <1>3, <2>2
<1>10. Len(t) = N /\ \A k \in 1 .. N : t[k] = q[k + 1]
    BY <1>9
<1>11. DOMAIN Reverse(t) = 1 .. N /\ \A k \in 1 .. N : Reverse(t)[k] = t[(N - k) + 1]
    BY <1>10 DEF Reverse
<1>13. ASSUME NEW k \in 1 .. N
       PROVE  Reverse(t)[k] = Nth(d, N + 1 - k)
    <2>1. N \in Nat
        BY <1>3
    <2>2. (N - k) + 1 \in 1 .. N /\ N + 1 - k = (N - k) + 1
        BY <2>1
    <2>3. PICK m \in 1 .. N : m = (N - k) + 1 /\ m = N + 1 - k
        BY <2>2
    <2>4. t[m] = Nth(d, m)
        BY <1>3, <1>10
    <2>5. Reverse(t)[k] = t[(N - k) + 1]
        BY <1>11
    <2>6. QED
        BY <2>3, <2>4, <2>5
<1>14. Backwards(d) = Reverse(t)
    BY <1>1, <1>9 DEF Backwards
<1>15. DOMAIN t = 1 .. N
    BY <1>10
<1>16. Tail(d.pre_order) = t
    BY <1>1, <1>9
<1>17. \A k \in 1 .. N : t[k] = Nth(d, k)
    BY <1>3, <1>10
<1>18. \A j, k \in 1 .. N : j < k <=> b(Nth(d, j)) < b(Nth(d, k))
    BY <1>3, <1>6
<1>19. \A k \in 1 .. N : Nth(d, k) \in S \ {Entry}
    BY <1>3, <1>7
<1>24. ASSUME NEW v \in S \ {Entry} PROVE \E k \in 1 .. N : v = Nth(d, k)
    <2>1. PICK k \in 1 .. N : v = q[k + 1]
        BY <1>8
    <2>2. Nth(d, k) = q[k + 1]
        BY <1>3
    <2>3. QED
        BY <2>1, <2>2
<1>20. N \in Nat
    BY <1>3
<1>21. DOMAIN Backwards(d) = 1 .. N
    BY <1>11, <1>14
<1>22. \A k \in 1 .. N : Backwards(d)[k] = Nth(d, N + 1 - k)
    BY <1>13, <1>14
<1> HIDE DEF Nth
<1>23. QED
    BY <1>9, <1>15, <1>16, <1>17, <1>18, <1>19, <1>20, <1>21, <1>22, <1>24 DEF N, b

SDomStep(g, d, sdom, w) == Stored(sdom, w, Earliest(d, SDomCandidates(g, d, sdom, w)))

SDomSteps(a, g, d) ==
    /\ a[0] = << >>
    /\ a[Rest(d)] = SemiDominators(g, d)
    /\ \A k \in 1 .. Rest(d) : a[k] = SDomStep(g, d, a[k - 1], Nth(d, Rest(d) + 1 - k))

Maps(S) == UNION {[D -> S] : D \in SUBSET S}

(* h is f with y stored under w                                            *)
Stores(h, f, w, y) ==
    /\ DOMAIN h = DOMAIN f \cup {w}
    /\ h[w] = y
    /\ \A u \in DOMAIN f : u # w => h[u] = f[u]

LEMMA StoredMap ==
    ASSUME NEW S, NEW f \in Maps(S), NEW w \in S, NEW y \in S
    PROVE  /\ Stored(f, w, y) \in Maps(S)
           /\ Stores(Stored(f, w, y), f, w, y)
<1>1. PICK D \in SUBSET S : f \in [D -> S]
    BY DEF Maps
<1>2. DOMAIN f = D /\ \A u \in D : f[u] \in S
    BY <1>1
<1>3. PICK h : h = Stored(f, w, y)
    OBVIOUS
<1>4. h = [u \in D \cup {w} |-> IF u = w THEN y ELSE f[u]]
    BY <1>2, <1>3 DEF Stored
<1>5. h \in [D \cup {w} -> S]
    BY <1>2, <1>4
<1>6. h \in Maps(S)
    BY <1>5 DEF Maps
<1>7. DOMAIN h = D \cup {w} /\ h[w] = y /\ \A u \in D : u # w => h[u] = f[u]
    BY <1>4
<1>8. Stores(h, f, w, y)
    BY <1>2, <1>7 DEF Stores
<1>9. QED
    BY <1>3, <1>6, <1>8

LEMMA SDomStepMap ==
    ASSUME NEW g, NEW d, NEW S, SearchTree(g, d, S), NEW sdom \in Maps(S), NEW w \in S \ {Entry}
    PROVE  SDomStep(g, d, sdom, w) \in Maps(S)
<1>1. DOMAIN sdom \subseteq S /\ \A u \in DOMAIN sdom : sdom[u] \in S
    BY DEF Maps
<1> DEFINE C == SDomCandidates(g, d, sdom, w)
<1>2. Link(d, w) \in C /\ C \subseteq S
    BY <1>1, SDomCandidatesAre
<1>3. C # {} /\ \A x \in C : Begin(d, x) \in Nat
    BY <1>2 DEF SearchTree, TreeTimes
<1> HIDE DEF C
<1>4. Earliest(d, C) \in S
    BY <1>2, <1>3, EarliestIsFirst
<1>5. QED
    BY <1>4, StoredMap DEF SDomStep, C

LEMMA SemiDominatorsUnfold ==
    ASSUME NEW g, NEW d, NEW S, SearchTree(g, d, S), PreOrder(d, S)
    PROVE  \E a \in [0 .. Rest(d) -> Maps(S)] : SDomSteps(a, g, d)
<1> DEFINE N == Rest(d)
           X == Maps(S)
           base == << >>
           seq == Backwards(d)
           Op == [p \in X \X (1 .. N) |-> SDomStep(g, d, p[1], seq[p[2]])]
<1>1. N \in Nat
    BY RestFacts
<1>2. DOMAIN seq = 1 .. N /\ \A k \in 1 .. N : seq[k] = Nth(d, N + 1 - k)
    BY RestFacts
<1>3. \A k \in 1 .. N : seq[k] \in S \ {Entry}
    <2> SUFFICES ASSUME NEW k \in 1 .. N PROVE Nth(d, N + 1 - k) \in S \ {Entry}
        BY <1>2
    <2>1. N + 1 - k \in 1 .. N
        BY <1>1
    <2> HIDE DEF N
    <2>2. QED
        BY <2>1, RestFacts DEF N
<1>4. Op \in [X \X (1 .. N) -> X] /\ base \in X
    <2>1. \A p \in X \X (1 .. N) : SDomStep(g, d, p[1], seq[p[2]]) \in X
        BY <1>3, SDomStepMap
    <2>2. base \in X
        <3>1. base \in [{} -> S]
            OBVIOUS
        <3>2. QED
            BY <3>1 DEF Maps
    <2>3. QED
        BY <2>1, <2>2
<1>5. \A x \in X, k \in 1 .. N : Op[<<x, k>>] = SDomStep(g, d, x, seq[k])
    OBVIOUS
<1>6. PICK it \in [SUBSET (1 .. N) -> X] : FoldsBy(it, N, base, Op)
    <2> HIDE DEF Op, X, base, N
    <2>1. QED
        BY <1>1, <1>4, FoldExists
<1>7. it = [t \in SUBSET (1 .. N) |->
               IF t = {} THEN base ELSE SDomStep(g, d, it[t \ {Max(t)}], seq[Max(t)])]
    <2>1. ASSUME NEW t \in SUBSET (1 .. N)
          PROVE  it[t] = IF t = {} THEN base ELSE SDomStep(g, d, it[t \ {Max(t)}], seq[Max(t)])
        <3>1. CASE t = {}
            BY <1>6, <3>1 DEF FoldsBy
        <3>2. CASE t # {}
            <4> HIDE DEF N
            <4>1. Max(t) \in 1 .. N
                BY <1>1, <3>2, LargestNat
            <4>2. it[t \ {Max(t)}] \in X
                BY <1>6
            <4> HIDE DEF Op, X, base, seq
            <4>3. it[t] = Op[<<it[t \ {Max(t)}], Max(t)>>]
                BY <1>6, <3>2 DEF FoldsBy
            <4>4. QED
                BY <1>5, <3>2, <4>1, <4>2, <4>3
        <3>3. QED
            BY <3>1, <3>2
    <2>2. QED
        BY <2>1
<1> DEFINE fold == CHOOSE f : f = [t \in SUBSET (1 .. N) |->
                       IF t = {} THEN base ELSE SDomStep(g, d, f[t \ {Max(t)}], seq[Max(t)])]
<1>8. fold = [t \in SUBSET (1 .. N) |->
                 IF t = {} THEN base ELSE SDomStep(g, d, fold[t \ {Max(t)}], seq[Max(t)])]
    BY <1>7
<1>9. SemiDominators(g, d) = fold[1 .. N]
    BY <1>2 DEF SemiDominators, FoldLeft, MapThenFoldSet, SDomStep
<1>10. /\ fold[{}] = base
       /\ \A t \in SUBSET (1 .. N) : t # {} =>
              fold[t] = SDomStep(g, d, fold[t \ {Max(t)}], seq[Max(t)])
    <2> HIDE DEF fold, base, N, seq
    <2>1. {} \in SUBSET (1 .. N)
        OBVIOUS
    <2>2. QED
        BY <1>8, <2>1
<1>11. \A k \in 1 .. N : fold[1 .. k - 1] \in X => fold[1 .. k] = Op[<<fold[1 .. k - 1], k>>]
    <2> SUFFICES ASSUME NEW k \in 1 .. N, fold[1 .. k - 1] \in X
                 PROVE  fold[1 .. k] = SDomStep(g, d, fold[1 .. k - 1], seq[k])
        BY <1>5
    <2>1. k \in Nat \ {0} /\ k <= N /\ 1 .. k \in SUBSET (1 .. N) /\ k \in 1 .. k
        BY <1>1
    <2>2. Max(1 .. k) = k /\ (1 .. k) \ {k} = 1 .. k - 1
        BY <2>1, GreatestOfInterval
    <2> HIDE DEF fold, seq
    <2>3. QED
        BY <1>10, <2>1, <2>2
<1> HIDE DEF fold, Op, X, base, N, seq
<1>12. PICK a \in [0 .. N -> X] : PartialResults(a, N, base, Op, fold[1 .. N])
    <2>1. FoldsPrefixesBy(fold, N, X, base, Op)
        BY <1>10, <1>11 DEF FoldsPrefixesBy
    <2>2. QED
        BY <1>1, <1>4, <2>1, FoldValues
<1>13. \A k \in 1 .. N : a[k] = SDomStep(g, d, a[k - 1], Nth(d, N + 1 - k))
    <2> SUFFICES ASSUME NEW k \in 1 .. N
                 PROVE  a[k] = SDomStep(g, d, a[k - 1], seq[k])
        BY <1>2
    <2>1. k - 1 \in 0 .. N
        BY <1>1
    <2>2. a[k - 1] \in X /\ a[k] = Op[<<a[k - 1], k>>]
        BY <1>12, <2>1 DEF PartialResults
    <2>3. QED
        BY <1>5, <2>2
<1>14. QED
    BY <1>9, <1>12, <1>13 DEF X, base, N, PartialResults, SDomSteps

(* The map that compute_semidominators fills.                              *)
LEMMA SemiDominatorsComputed ==
    ASSUME NEW g, NEW d, NEW S, SearchTree(g, d, S), PreOrder(d, S)
    PROVE  /\ SemiDominators(g, d) \in [S \ {Entry} -> S]
           /\ SemiDominatorsAre(g, d, S, SemiDominators(g, d))
<1> DEFINE N == Rest(d)
           X == Maps(S)
           done(k) == {v \in S : \E j \in 1 .. N : v = Nth(d, j) /\ N - k < j}
           good(f, k) == /\ DOMAIN f = done(k)
                         /\ \A u \in done(k) : IsSemiDominator(g, d, S, u, f[u])
<1>1. PICK a \in [0 .. N -> X] : SDomSteps(a, g, d)
    BY SemiDominatorsUnfold
<1>2. N \in Nat
    BY RestFacts
<1>3. \A k \in 1 .. N : Nth(d, k) \in S \ {Entry}
    BY RestFacts
<1>4. \A v \in S \ {Entry} : \E k \in 1 .. N : v = Nth(d, k)
    BY RestFacts
<1>5. \A j, k \in 1 .. N : j < k <=> Begin(d, Nth(d, j)) < Begin(d, Nth(d, k))
    BY RestFacts
<1>6. TreeTimes(d, S) /\ Entry \in S
    BY DEF SearchTree
<1> DEFINE T == {k \in 0 .. N : good(a[k], k)}
<1> HIDE DEF N
<1>7. 0 \in T
    <2>1. done(0) = {}
        BY <1>2
    <2>2. a[0] = << >> /\ DOMAIN a[0] = {}
        BY <1>1 DEF SDomSteps
    <2>3. QED
        BY <1>2, <2>1, <2>2
<1>8. ASSUME NEW k \in 1 .. N, k - 1 \in T
      PROVE  k \in T
    <2>1. /\ k - 1 \in 0 .. N /\ k \in 0 .. N /\ N + 1 - k \in 1 .. N
          /\ a[k] = SDomStep(g, d, a[k - 1], Nth(d, N + 1 - k))
        BY <1>1, <1>2 DEF SDomSteps, N
    <2>2. PICK w \in S \ {Entry} : w = Nth(d, N + 1 - k)
        BY <1>3, <2>1
    <2>3. PICK sdom \in X : sdom = a[k - 1] /\ good(sdom, k - 1)
        BY <1>8, <2>1
    <2>4. done(k) = done(k - 1) \cup {w}
        <3>1. \A j \in 1 .. N : N - k < j <=> (N - (k - 1) < j \/ j = N + 1 - k)
            BY <1>2
        <3>2. QED
            BY <2>1, <2>2, <3>1
    <2>5. done(k - 1) = {u \in S : Begin(d, w) < Begin(d, u)}
        <3>1. ASSUME NEW u \in S, NEW j \in 1 .. N, u = Nth(d, j)
              PROVE  N - (k - 1) < j <=> Begin(d, w) < Begin(d, u)
            <4>1. N - (k - 1) < j <=> N + 1 - k < j
                BY <1>2
            <4>2. QED
                BY <1>5, <2>1, <2>2, <3>1, <4>1
        <3>2. ASSUME NEW u \in S, Begin(d, w) < Begin(d, u)
              PROVE  u # Entry
            BY <1>6, <2>2, <3>2 DEF TreeTimes
        <3>3. QED
            BY <1>4, <3>1, <3>2
    <2> HIDE DEF done
    <2>6. /\ DOMAIN sdom = {u \in S : Begin(d, w) < Begin(d, u)}
          /\ \A u \in DOMAIN sdom : IsSemiDominator(g, d, S, u, sdom[u])
        BY <2>3, <2>5
    <2>7. PICK y : y = Earliest(d, SDomCandidates(g, d, sdom, w))
        OBVIOUS
    <2>8. IsSemiDominator(g, d, S, w, y)
        BY <2>6, <2>7, SemiDominatorStep
    <2>9. y \in S
        BY <2>8, SemiDominatorAbove
    <2>10. a[k] = Stored(sdom, w, y)
        BY <2>1, <2>2, <2>3, <2>7 DEF SDomStep
    <2>11. w \notin DOMAIN sdom
        BY <1>6, <2>6 DEF TreeTimes
    <2>12. Stores(a[k], sdom, w, y)
        <3>1. sdom \in Maps(S) /\ w \in S
            OBVIOUS
        <3>2. QED
            BY <2>9, <2>10, <3>1, StoredMap
    <2>13. good(a[k], k)
        BY <2>3, <2>4, <2>6, <2>8, <2>11, <2>12 DEF Stores
    <2>14. QED
        BY <2>1, <2>13
<1>9. N \in T
    <2> HIDE DEF T
    <2>1. 0 .. N \subseteq T
        BY <1>2, <1>7, <1>8, UpTo
    <2>2. QED
        BY <1>2, <2>1
<1>10. done(N) = S \ {Entry}
    <2>1. \A j \in 1 .. N : N - N < j
        BY <1>2
    <2>2. QED
        BY <1>3, <1>4, <2>1
<1>11. PICK sdom \in X : sdom = SemiDominators(g, d) /\ good(sdom, N)
    <2>1. N \in 0 .. N /\ a[N] = SemiDominators(g, d)
        BY <1>1, <1>2 DEF SDomSteps, N
    <2>2. QED
        BY <1>9, <2>1
<1> HIDE DEF done
<1>12. sdom \in [S \ {Entry} -> S]
    BY <1>10, <1>11 DEF Maps
<1>13. QED
    BY <1>10, <1>11, <1>12 DEF SemiDominatorsAre

-------------------------------------------------------------------------------
(* The relative dominators of the first pass of compute_idoms.             *)

(* the st_iterators of a search that is over                               *)
ClimbsTree(d, S) ==
    /\ S \in SUBSET Block
    /\ Linked(d, S)
    /\ \A v \in S : Range(Ancestors(d, v)) = {u \in S : Above(d, u, v)}

LEMMA AncestorPath ==
    ASSUME NEW d, NEW S \in SUBSET Block, Linked(d, S), NEW v \in S
    PROVE  /\ Ancestors(d, v) \in Seq(S) \ {<< >>}
           /\ Ancestors(d, v)[1] = v
           /\ \A i, j \in DOMAIN Ancestors(d, v) :
                  i < j => Begin(d, Ancestors(d, v)[j]) < Begin(d, Ancestors(d, v)[i])
<1> DEFINE X == Seq(S) \ {<< >>}
           b(x) == Begin(d, x)
           kept == {path \in X : /\ path[1] = v
                                 /\ \A i, j \in DOMAIN path : i < j => b(path[j]) < b(path[i])}
<1>2. PICK a \in [0 .. NumBlocks -> X] : Climb(a, d, v)
    BY AncestorsClimb
<1>3. \A x \in S : b(x) \in Nat /\ Link(d, x) \in S \cup {NoBlock} /\ (Link(d, x) \in S => b(Link(d, x)) < b(x))
    BY DEF Linked, Begin
<1> HIDE DEF b
<1>4. <<v>> \in kept
    <2>1. <<v>> \in X /\ DOMAIN <<v>> = {1} /\ <<v>>[1] = v
        OBVIOUS
    <2>2. QED
        BY <2>1
<1>5. ASSUME NEW path \in kept PROVE Climbed(d, path) \in kept
    <2>1. PICK n \in Nat \ {0} : n = Len(path) /\ DOMAIN path = 1 .. n /\ path[n] \in S /\ path \in Seq(S)
        OBVIOUS
    <2>2. PICK u \in S \cup {NoBlock} : u = Link(d, path[n])
        BY <1>3, <2>1
    <2>3. CASE u = NoBlock
        BY <2>1, <2>2, <2>3 DEF Climbed
    <2>4. CASE u # NoBlock
        <3>1. u \in S /\ b(u) < b(path[n])
            BY <1>3, <2>1, <2>2, <2>4
        <3>2. PICK longer : longer = Append(path, u)
            OBVIOUS
        <3>8. longer = Climbed(d, path)
            BY <2>1, <2>2, <2>4, <3>2 DEF Climbed
        <3>3. /\ longer \in X /\ DOMAIN longer = 1 .. n + 1 /\ longer[n + 1] = u
              /\ \A i \in 1 .. n : longer[i] = path[i]
            <4>1. path \in Seq(S) /\ u \in S /\ DOMAIN path = 1 .. n /\ n = Len(path)
                BY <2>1, <3>1
            <4>2. /\ longer # << >> /\ longer \in Seq(S)
                  /\ DOMAIN longer = 1 .. Len(path) + 1
                  /\ \A i \in DOMAIN path : longer[i] = path[i]
                  /\ longer[Len(path) + 1] = u
                BY <3>2, <4>1, AppendFacts
            <4>3. QED
                BY <4>1, <4>2
        <3>4. ASSUME NEW i \in 1 .. n, i < n + 1 PROVE b(u) < b(path[i])
            <4>1. path[i] \in S /\ (i # n => b(path[n]) < b(path[i]))
                BY <2>1
            <4>2. QED
                BY <1>3, <2>1, <3>1, <4>1
        <3>5. ASSUME NEW i \in DOMAIN longer, NEW j \in DOMAIN longer, i < j
              PROVE  b(longer[j]) < b(longer[i])
            <4>1. i \in 1 .. n
                BY <3>3, <3>5
            <4>2. CASE j = n + 1
                BY <3>3, <3>4, <4>1, <4>2
            <4>3. CASE j # n + 1
                <5>1. j \in 1 .. n
                    BY <3>3, <4>3
                <5>2. QED
                    BY <2>1, <3>3, <3>5, <4>1, <5>1
            <4>4. QED
                BY <4>2, <4>3
        <3>6. longer[1] = v
            BY <2>1, <3>3
        <3>7. QED
            BY <3>3, <3>5, <3>6, <3>8
    <2>5. QED
        BY <2>3, <2>4
<1> HIDE DEF kept
<1>6. a[NumBlocks] \in kept
    <2>1. NumBlocks \in 0 .. NumBlocks
        BY FlowGraphAssumption
    <2>2. QED
        BY <1>2, <1>4, <1>5, <2>1, ClimbKeeps
<1>7. Ancestors(d, v) \in kept
    BY <1>2, <1>6 DEF Climb
<1>8. QED
    BY <1>7 DEF kept, b

LEMMA BelowSDomIsBetween ==
    ASSUME NEW g, NEW d, NEW S, SearchTree(g, d, S), ClimbsTree(d, S),
           NEW sdom, SemiDominatorsAre(g, d, S, sdom), NEW w \in S \ {Entry}
    PROVE  /\ BelowSDom(d, sdom, w) \in Seq(S)
           /\ Range(BelowSDom(d, sdom, w)) = Between(d, S, sdom, w)
<1> DEFINE b(x) == Begin(d, x)
<1>1. PICK s \in S : s = sdom[w] /\ Above(d, s, w) /\ b(s) < b(w)
    BY BetweenFacts
<1>2. PICK path \in Seq(S) \ {<< >>} :
          /\ path = Ancestors(d, w) /\ path[1] = w
          /\ \A i, j \in DOMAIN path : i < j => b(path[j]) < b(path[i])
    BY AncestorPath DEF ClimbsTree
<1>3. Range(path) = {u \in S : Above(d, u, w)}
    BY <1>2 DEF ClimbsTree
<1>4. PICK n \in Nat \ {0} : n = Len(path) /\ DOMAIN path = 1 .. n
    BY <1>2
<1>5. \A i \in 1 .. n : path[i] \in S /\ b(path[i]) \in Nat
    BY <1>4 DEF SearchTree, TreeTimes
<1> HIDE DEF b
<1>6. PICK m \in 1 .. n : path[m] = s
    BY <1>1, <1>3, <1>4 DEF Range
<1>7. \A i \in 1 .. n : path[i] = s <=> i = m
    <2> SUFFICES ASSUME NEW i \in 1 .. n, path[i] = s, i # m PROVE FALSE
        BY <1>6
    <2>1. i < m \/ m < i
        BY <1>4
    <2>2. b(s) < b(s)
        BY <1>2, <1>4, <1>6, <2>1
    <2>3. QED
        BY <1>5, <1>6, <2>2
<1>8. {i \in 1 .. Len(path) : path[i] = s} = {m}
    BY <1>4, <1>7
<1>9. Min({m}) = m
    BY DEF Min
<1>10. BelowSDom(d, sdom, w) = SubSeq(path, 1, m - 1)
    BY <1>1, <1>2, <1>8, <1>9 DEF BelowSDom, SelectInSeq
<1>11. PICK below : below = SubSeq(path, 1, m - 1) /\ below = BelowSDom(d, sdom, w)
    BY <1>10
<1>12. m - 1 \in Nat /\ m - 1 <= n
    BY <1>4
<1>13. /\ below \in Seq(S) /\ DOMAIN below = 1 .. m - 1 /\ \A i \in 1 .. m - 1 : below[i] = path[i]
    BY <1>2, <1>4, <1>11, <1>12
<1>14. \A i \in 1 .. n : i < m <=> b(s) < b(path[i])
    <2> SUFFICES ASSUME NEW i \in 1 .. n PROVE i < m <=> b(s) < b(path[i])
        OBVIOUS
    <2>1. i < m => b(s) < b(path[i])
        BY <1>2, <1>4, <1>6
    <2>2. m < i => b(path[i]) < b(s)
        BY <1>2, <1>4, <1>6
    <2>3. i = m => path[i] = s
        BY <1>6
    <2>4. b(s) \in Nat /\ b(path[i]) \in Nat
        BY <1>5, <1>6
    <2>5. i \in Nat /\ m \in Nat
        BY <1>4
    <2>6. QED
        BY <2>1, <2>2, <2>3, <2>4, <2>5
<1>15. Range(below) = {u \in Range(path) : b(s) < b(u)}
    <2>1. ASSUME NEW i \in 1 .. m - 1 PROVE path[i] \in Range(path) /\ b(s) < b(path[i])
        <3>1. i \in 1 .. n /\ i < m
            BY <1>4
        <3>2. QED
            BY <1>4, <1>14, <3>1 DEF Range
    <2>2. ASSUME NEW i \in 1 .. n, b(s) < b(path[i]) PROVE i \in 1 .. m - 1
        BY <1>4, <1>14, <2>2
    <2>3. QED
        BY <1>4, <1>13, <2>1, <2>2 DEF Range
<1>16. QED
    BY <1>1, <1>3, <1>11, <1>13, <1>15 DEF Between, b

LEMMA RelativeDominatorIs ==
    ASSUME NEW g, NEW d, NEW S, SearchTree(g, d, S), ClimbsTree(d, S),
           NEW sdom, SemiDominatorsAre(g, d, S, sdom), NEW w \in S \ {Entry}
    PROVE  \E u \in Between(d, S, sdom, w) :
               /\ \A v \in Between(d, S, sdom, w) : Begin(d, sdom[u]) <= Begin(d, sdom[v])
               /\ RelativeDominator(d, sdom, w) = IF sdom[u] = sdom[w] THEN sdom[w] ELSE u
<1> DEFINE T == Between(d, S, sdom, w)
<1>1. PICK below \in Seq(S) : below = BelowSDom(d, sdom, w) /\ Range(below) = T
    BY BelowSDomIsBetween
<1>2. T # {} /\ \A v \in T : v \in S /\ sdom[v] \in S
    BY BetweenFacts
<1>3. \A x \in S : Begin(d, x) \in Nat
    BY DEF SearchTree, TreeTimes
<1> HIDE DEF T
<1>4. PICK u \in T : \A v \in T : Begin(d, sdom[u]) <= Begin(d, sdom[v])
    <2> DEFINE values == {sdom[v] : v \in T}
    <2>1. values # {} /\ \A x \in values : Begin(d, x) \in Nat
        BY <1>2, <1>3
    <2>2. \A v \in T : sdom[v] \in values
        OBVIOUS
    <2>3. PICK x \in values : \A y \in values : Begin(d, x) <= Begin(d, y)
        <3> HIDE DEF values
        <3>1. QED
            BY <2>1, SmallestBegin
    <2>4. PICK u \in T : x = sdom[u]
        OBVIOUS
    <2>5. QED
        BY <2>2, <2>3, <2>4
<1> DEFINE Test(x) == \A v \in Range(below) : Time(d, sdom[x]) <= Time(d, sdom[v])
           I == {i \in 1 .. Len(below) : Test(below[i])}
<1>5. PICK k \in DOMAIN below : below[k] = u
    BY <1>1 DEF Range
<1>6. k \in I
    <2>1. \A x : Time(d, x) = Begin(d, x)
        BY DEF Time, Begin
    <2>2. Test(u)
        BY <1>1, <1>4, <2>1
    <2>3. k \in 1 .. Len(below)
        BY <1>1, <1>5
    <2>4. QED
        BY <1>5, <2>2, <2>3
<1>7. I \in SUBSET Nat
    OBVIOUS
<1>8. PICK i \in I : i = Min(I)
    <2> HIDE DEF I
    <2>1. QED
        BY <1>6, <1>7, SmallestNat
<1>9. MinElement(d, sdom, below) = below[i]
    BY <1>6, <1>8 DEF MinElement, SelectInSeq
<1>10. PICK x \in T : x = below[i] /\ Test(x)
    BY <1>1 DEF Range
<1>11. \A v \in T : Begin(d, sdom[x]) <= Begin(d, sdom[v])
    BY <1>1, <1>10 DEF Time, Begin
<1>12. RelativeDominator(d, sdom, w) = IF sdom[x] = sdom[w] THEN sdom[w] ELSE x
    BY <1>1, <1>9, <1>10 DEF RelativeDominator
<1>13. QED
    BY <1>11, <1>12 DEF T

-------------------------------------------------------------------------------
(* compute_idoms finds the immediate dominators.                           *)

(* What holds of the base and the empty set, and of the next value and one *)
(* more index if it holds before, holds of every value of a solution.      *)
FoldStays(Fam, N, X, Op) ==
    \A t \in SUBSET (1 .. N), x \in X :
        t # {} /\ <<x, t \ {Max(t)}>> \in Fam => <<Op[<<x, Max(t)>>], t>> \in Fam

LEMMA FoldWithin ==
    ASSUME NEW N \in Nat, NEW X, NEW base \in X, NEW Op \in [X \X (1 .. N) -> X],
           NEW it \in [SUBSET (1 .. N) -> X], FoldsBy(it, N, base, Op),
           NEW Fam, <<base, {}>> \in Fam, FoldStays(Fam, N, X, Op)
    PROVE  \A t \in SUBSET (1 .. N) : <<it[t], t>> \in Fam
<1> DEFINE T == {n \in 0 .. N : \A t \in SUBSET (1 .. n) : <<it[t], t>> \in Fam}
<1>1. 0 \in T
    <2>1. \A t \in SUBSET (1 .. 0) : t = {}
        OBVIOUS
    <2>2. it[{}] = base
        BY DEF FoldsBy
    <2>3. \A t \in SUBSET (1 .. 0) : <<it[t], t>> \in Fam
        BY <2>1, <2>2
    <2>4. QED
        BY <2>3
<1>2. ASSUME NEW n \in 1 .. N, n - 1 \in T
      PROVE  n \in T
    <2> SUFFICES ASSUME NEW t \in SUBSET (1 .. n) PROVE <<it[t], t>> \in Fam
        OBVIOUS
    <2>1. t \in SUBSET (1 .. N)
        OBVIOUS
    <2>2. CASE t = {}
        BY <2>1, <2>2 DEF FoldsBy
    <2>3. CASE t # {}
        <3>1. Max(t) \in t /\ \A y \in t : Max(t) >= y
            BY <2>1, <2>3, LargestNat
        <3>2. PICK m \in 1 .. n : m = Max(t) /\ \A y \in t : m >= y
            BY <3>1
        <3>3. t \ {m} \in SUBSET (1 .. n - 1)
            <4>1. \A y \in t \ {m} : y \in 1 .. n /\ y <= m /\ y # m
                BY <3>2
            <4>2. QED
                BY <4>1
        <3>4. <<it[t \ {m}], t \ {m}>> \in Fam
            BY <1>2, <3>3
        <3>5. t \ {m} \in SUBSET (1 .. N) /\ it[t \ {m}] \in X
            BY <2>1
        <3>6. it[t] = Op[<<it[t \ {m}], m>>]
            BY <2>1, <2>3, <3>2 DEF FoldsBy
        <3>7. QED
            BY <2>1, <2>3, <3>2, <3>4, <3>5, <3>6 DEF FoldStays
    <2>4. QED
        BY <2>2, <2>3
<1>3. 0 .. N \subseteq T
    <2> HIDE DEF T
    <2>1. QED
        BY <1>1, <1>2, UpTo
<1>4. QED
    <2>1. N \in 0 .. N
        OBVIOUS
    <2>2. QED
        BY <1>3, <2>1

IDomStep(idom, sdom, w) == IF idom[w] = sdom[w] THEN idom ELSE [idom EXCEPT ![w] = idom[@]]

FirstPass(d, sdom) == [w \in DOMAIN sdom |-> RelativeDominator(d, sdom, w)]

IDomSteps(a, d, sdom) ==
    /\ a[0] = FirstPass(d, sdom)
    /\ a[Rest(d)] = IDoms(d, sdom)
    /\ \A k \in 1 .. Rest(d) : a[k] = IDomStep(a[k - 1], sdom, Nth(d, k))

(* h is what the turn for w makes of f                                    *)
TurnFor(h, f, sdom, w) ==
    /\ \A v \in DOMAIN f : v # w => h[v] = f[v]
    /\ f[w] = sdom[w] => h[w] = f[w]
    /\ f[w] # sdom[w] => h[w] = f[f[w]]

LEMMA IDomStepMap ==
    ASSUME NEW g, NEW d, NEW S, SearchTree(g, d, S), ClimbsTree(d, S),
           NEW sdom, SemiDominatorsAre(g, d, S, sdom), NEW w \in S \ {Entry},
           NEW f \in [S \ {Entry} -> S], f[w] = RelativeDominator(d, sdom, w)
    PROVE  /\ IDomStep(f, sdom, w) \in [S \ {Entry} -> S]
           /\ TurnFor(IDomStep(f, sdom, w), f, sdom, w)
<1>1. CASE f[w] = sdom[w]
    BY <1>1 DEF IDomStep, TurnFor
<1>2. CASE f[w] # sdom[w]
    <2>1. PICK u \in Between(d, S, sdom, w) :
              RelativeDominator(d, sdom, w) = IF sdom[u] = sdom[w] THEN sdom[w] ELSE u
        BY RelativeDominatorIs
    <2>2. f[w] = u /\ u \in S \ {Entry}
        BY <1>2, <2>1, BetweenFacts
    <2>3. f[u] \in S
        BY <2>2
    <2>4. IDomStep(f, sdom, w) = [f EXCEPT ![w] = f[u]]
        BY <1>2, <2>2 DEF IDomStep
    <2>5. QED
        BY <1>2, <2>2, <2>3, <2>4 DEF TurnFor
<1>3. QED
    BY <1>1, <1>2

LEMMA FirstPassMap ==
    ASSUME NEW g, NEW d, NEW S, SearchTree(g, d, S), ClimbsTree(d, S),
           NEW sdom \in [S \ {Entry} -> S], SemiDominatorsAre(g, d, S, sdom)
    PROVE  FirstPass(d, sdom) \in [S \ {Entry} -> S]
<1>1. ASSUME NEW w \in S \ {Entry} PROVE RelativeDominator(d, sdom, w) \in S
    <2>1. PICK u \in Between(d, S, sdom, w) :
              RelativeDominator(d, sdom, w) = IF sdom[u] = sdom[w] THEN sdom[w] ELSE u
        BY RelativeDominatorIs
    <2>2. u \in S
        BY <2>1, BetweenFacts
    <2>3. QED
        BY <2>1, <2>2
<1>2. QED
    BY <1>1 DEF FirstPass

LEMMA IDomsUnfold ==
    ASSUME NEW g, NEW d, NEW S, SearchTree(g, d, S), ClimbsTree(d, S), PreOrder(d, S),
           NEW sdom \in [S \ {Entry} -> S], SemiDominatorsAre(g, d, S, sdom)
    PROVE  \E a : IDomSteps(a, d, sdom)
<1> DEFINE N == Rest(d)
           X == [S \ {Entry} -> S]
           base == FirstPass(d, sdom)
           seq == Tail(d.pre_order)
           step(f, k) == IDomStep(f, sdom, seq[k])
           Op == [p \in X \X (1 .. N) |-> IF step(p[1], p[2]) \in X THEN step(p[1], p[2]) ELSE base]
           Fam == {p \in X \X SUBSET (1 .. N) : \A k \in (1 .. N) \ p[2] : p[1][seq[k]] = base[seq[k]]}
<1>1. N \in Nat /\ DOMAIN seq = 1 .. N /\ \A k \in 1 .. N : seq[k] = Nth(d, k)
    BY RestFacts
<1>2. /\ \A k \in 1 .. N : seq[k] \in S \ {Entry}
      /\ \A j, k \in 1 .. N : j # k => seq[j] # seq[k]
    <2>1. \A k \in 1 .. N : Nth(d, k) \in S \ {Entry}
        BY RestFacts
    <2>2. \A j, k \in 1 .. N : j < k <=> Begin(d, Nth(d, j)) < Begin(d, Nth(d, k))
        BY RestFacts
    <2>3. \A k \in 1 .. N : Begin(d, Nth(d, k)) \in Nat
        BY <2>1 DEF SearchTree, TreeTimes
    <2>4. ASSUME NEW j \in 1 .. N, NEW k \in 1 .. N, j # k PROVE Nth(d, j) # Nth(d, k)
        <3>1. j < k \/ k < j
            BY <1>1, <2>4
        <3>2. QED
            BY <2>2, <2>3, <3>1
    <2>5. QED
        BY <1>1, <2>1, <2>4
<1>3. base \in X
    BY FirstPassMap
<1>4. Op \in [X \X (1 .. N) -> X]
    BY <1>3
<1>5. ASSUME NEW f \in X, NEW k \in 1 .. N, f[seq[k]] = base[seq[k]]
      PROVE  /\ step(f, k) \in X /\ Op[<<f, k>>] = step(f, k)
             /\ \A j \in 1 .. N : j # k => step(f, k)[seq[j]] = f[seq[j]]
    <2>1. PICK w \in S \ {Entry} : w = seq[k]
        BY <1>2
    <2>2. f[w] = RelativeDominator(d, sdom, w)
        BY <1>5, <2>1 DEF FirstPass
    <2>3. /\ IDomStep(f, sdom, w) \in [S \ {Entry} -> S]
          /\ TurnFor(IDomStep(f, sdom, w), f, sdom, w)
        BY <2>2, IDomStepMap
    <2>4. step(f, k) \in X
        BY <2>1, <2>3
    <2>5. Op[<<f, k>>] = step(f, k)
        BY <2>4
    <2>6. \A j \in 1 .. N : j # k => step(f, k)[seq[j]] = f[seq[j]]
        BY <1>2, <2>1, <2>3 DEF TurnFor
    <2>7. QED
        BY <2>4, <2>5, <2>6
<1>6. PICK it \in [SUBSET (1 .. N) -> X] : FoldsBy(it, N, base, Op)
    <2> HIDE DEF Op, X, base, N
    <2>1. QED
        BY <1>1, <1>3, <1>4, FoldExists
<1>7. \A t \in SUBSET (1 .. N) : <<it[t], t>> \in Fam
    <2>1. <<base, {}>> \in Fam
        BY <1>3
    <2>2. ASSUME NEW t \in SUBSET (1 .. N), NEW x \in X, t # {}, <<x, t \ {Max(t)}>> \in Fam
          PROVE  <<Op[<<x, Max(t)>>], t>> \in Fam
        <3>1. Max(t) \in t
            <4> HIDE DEF N
            <4>1. QED
                BY <1>1, <2>2, LargestNat
        <3>2. PICK m \in 1 .. N : m = Max(t) /\ m \in t
            BY <3>1
        <3>3. \A k \in (1 .. N) \ (t \ {m}) : x[seq[k]] = base[seq[k]]
            BY <2>2, <3>2
        <3>4. m \in (1 .. N) \ (t \ {m})
            BY <3>2
        <3> HIDE DEF Op, X, base, seq, step, N
        <3>5. /\ step(x, m) \in X /\ Op[<<x, m>>] = step(x, m)
              /\ \A j \in 1 .. N : j # m => step(x, m)[seq[j]] = x[seq[j]]
            BY <1>5, <3>3, <3>4
        <3>6. \A k \in (1 .. N) \ t : k \in (1 .. N) \ (t \ {m}) /\ k # m
            BY <3>2
        <3>7. \A k \in (1 .. N) \ t : step(x, m)[seq[k]] = base[seq[k]]
            BY <3>3, <3>5, <3>6
        <3>8. QED
            BY <3>2, <3>5, <3>7
    <2> HIDE DEF Op, X, base, N, Fam
    <2>3. FoldStays(Fam, N, X, Op)
        BY <2>2 DEF FoldStays
    <2>4. QED
        BY <1>1, <1>3, <1>4, <1>6, <2>1, <2>3, FoldWithin
<1>8. it = [t \in SUBSET (1 .. N) |->
               IF t = {} THEN base ELSE IDomStep(it[t \ {Max(t)}], sdom, seq[Max(t)])]
    <2>1. ASSUME NEW t \in SUBSET (1 .. N)
          PROVE  it[t] = IF t = {} THEN base ELSE IDomStep(it[t \ {Max(t)}], sdom, seq[Max(t)])
        <3>1. CASE t = {}
            BY <1>6, <3>1 DEF FoldsBy
        <3>2. CASE t # {}
            <4>1. PICK m \in 1 .. N : m = Max(t) /\ m \in t
                <5> HIDE DEF N
                <5>1. Max(t) \in t
                    BY <1>1, <3>2, LargestNat
                <5>2. QED
                    BY <5>1
            <4>2. PICK f \in X : f = it[t \ {m}]
                BY <1>6
            <4>3. <<f, t \ {m}>> \in Fam
                BY <1>7, <4>2
            <4>4. f[seq[m]] = base[seq[m]]
                BY <4>1, <4>3
            <4> HIDE DEF Op, X, base, seq, Fam, N
            <4>5. Op[<<f, m>>] = step(f, m)
                BY <1>5, <4>4
            <4>6. it[t] = Op[<<f, m>>]
                BY <1>6, <3>2, <4>1, <4>2 DEF FoldsBy
            <4>7. QED
                BY <3>2, <4>1, <4>2, <4>5, <4>6
        <3>3. QED
            BY <3>1, <3>2
    <2>2. QED
        BY <2>1
<1> DEFINE fold == CHOOSE f : f = [t \in SUBSET (1 .. N) |->
                       IF t = {} THEN base ELSE IDomStep(f[t \ {Max(t)}], sdom, seq[Max(t)])]
<1>9. fold = [t \in SUBSET (1 .. N) |->
                 IF t = {} THEN base ELSE IDomStep(fold[t \ {Max(t)}], sdom, seq[Max(t)])]
    BY <1>8
<1>10. IDoms(d, sdom) = fold[1 .. N]
    BY <1>1 DEF IDoms, FoldLeft, MapThenFoldSet, IDomStep, FirstPass
<1>11. /\ fold[{}] = base
       /\ \A t \in SUBSET (1 .. N) : t # {} =>
              fold[t] = IDomStep(fold[t \ {Max(t)}], sdom, seq[Max(t)])
    <2> HIDE DEF fold, base, N, seq
    <2>1. {} \in SUBSET (1 .. N)
        OBVIOUS
    <2>2. QED
        BY <1>9, <2>1
<1> HIDE DEF fold, Op, X, base, Fam, seq, N
<1> DEFINE a == [k \in 0 .. N |-> fold[1 .. k]]
<1>12. a[0] = base /\ a[N] = fold[1 .. N]
    <2>1. 1 .. 0 = {}
        OBVIOUS
    <2>2. QED
        BY <1>1, <1>11, <2>1
<1>13. ASSUME NEW k \in 1 .. N
       PROVE  a[k] = IDomStep(a[k - 1], sdom, Nth(d, k))
    <2>1. /\ k \in Nat \ {0} /\ k <= N /\ 1 .. k \in SUBSET (1 .. N) /\ k \in 1 .. k
          /\ k - 1 \in 0 .. N /\ k \in 0 .. N
        BY <1>1
    <2>2. Max(1 .. k) = k /\ (1 .. k) \ {k} = 1 .. k - 1
        BY <2>1, GreatestOfInterval
    <2>3. fold[1 .. k] = IDomStep(fold[1 .. k - 1], sdom, Nth(d, k))
        BY <1>1, <1>11, <2>1, <2>2
    <2>4. QED
        BY <2>1, <2>3
<1> HIDE DEF a
<1>14. IDomSteps(a, d, sdom)
    BY <1>10, <1>12, <1>13 DEF IDomSteps, base, N
<1>15. QED
    BY <1>14

(* The map that compute_idoms fills.                                       *)
LEMMA IDomsComputed ==
    ASSUME NEW g, NEW d, NEW S, SearchTree(g, d, S), ClimbsTree(d, S), PreOrder(d, S),
           NEW sdom \in [S \ {Entry} -> S], SemiDominatorsAre(g, d, S, sdom)
    PROVE  /\ IDoms(d, sdom) \in [S \ {Entry} -> S]
           /\ \A w \in S \ {Entry} : IsIDom(g, w, IDoms(d, sdom)[w])
<1> DEFINE N == Rest(d)
           X == [S \ {Entry} -> S]
           good(f, k) == /\ f \in X
                         /\ \A j \in 1 .. N : j <= k => IsIDom(g, Nth(d, j), f[Nth(d, j)])
                         /\ \A j \in 1 .. N : k < j => f[Nth(d, j)] = RelativeDominator(d, sdom, Nth(d, j))
<1>1. PICK a : IDomSteps(a, d, sdom)
    BY IDomsUnfold
<1>2. N \in Nat
    BY RestFacts
<1>3. \A k \in 1 .. N : Nth(d, k) \in S \ {Entry}
    BY RestFacts
<1>4. \A v \in S \ {Entry} : \E k \in 1 .. N : v = Nth(d, k)
    BY RestFacts
<1>5. \A j, k \in 1 .. N : j < k <=> Begin(d, Nth(d, j)) < Begin(d, Nth(d, k))
    BY RestFacts
<1>6. \A x \in S : Begin(d, x) \in Nat
    BY DEF SearchTree, TreeTimes
<1> DEFINE T == {k \in 0 .. N : good(a[k], k)}
<1> HIDE DEF N
<1>7. 0 \in T
    <2>1. PICK f \in X : f = FirstPass(d, sdom)
        BY FirstPassMap
    <2>2. a[0] = f
        BY <1>1, <2>1 DEF IDomSteps
    <2>3. \A j \in 1 .. N : f[Nth(d, j)] = RelativeDominator(d, sdom, Nth(d, j))
        BY <1>3, <2>1 DEF FirstPass
    <2>4. \A j \in 1 .. N : ~(j <= 0)
        BY <1>2
    <2>5. good(f, 0)
        BY <2>3, <2>4
    <2>6. QED
        BY <1>2, <2>2, <2>5
<1>8. ASSUME NEW k \in 1 .. N, k - 1 \in T
      PROVE  k \in T
    <2>1. /\ k - 1 \in 0 .. N /\ k \in 0 .. N
          /\ a[k] = IDomStep(a[k - 1], sdom, Nth(d, k))
        BY <1>1, <1>2 DEF IDomSteps, N
    <2>2. PICK w \in S \ {Entry} : w = Nth(d, k)
        BY <1>3
    <2>3. PICK f \in X : f = a[k - 1] /\ good(f, k - 1)
        BY <1>8, <2>1
    <2>4. f[w] = RelativeDominator(d, sdom, w)
        <3>1. k - 1 < k
            BY <1>2
        <3>2. QED
            BY <2>2, <2>3, <3>1
    <2>5. PICK e : e = IDomStep(f, sdom, w)
        OBVIOUS
    <2>6. /\ e \in X
          /\ \A v \in S \ {Entry} : v # w => e[v] = f[v]
          /\ f[w] = sdom[w] => e[w] = f[w]
          /\ f[w] # sdom[w] => e[w] = f[f[w]]
        <3>1. e \in X /\ TurnFor(e, f, sdom, w)
            BY <2>4, <2>5, IDomStepMap
        <3>2. QED
            BY <3>1 DEF TurnFor
    <2>7. PICK u \in Between(d, S, sdom, w) :
              /\ \A v \in Between(d, S, sdom, w) : Begin(d, sdom[u]) <= Begin(d, sdom[v])
              /\ RelativeDominator(d, sdom, w) = IF sdom[u] = sdom[w] THEN sdom[w] ELSE u
        BY RelativeDominatorIs
    <2>8. IsIDom(g, w, e[w])
        <3>1. CASE sdom[u] = sdom[w]
            <4>1. e[w] = sdom[w]
                BY <2>4, <2>6, <2>7, <3>1
            <4>2. \A v \in Between(d, S, sdom, w) : Begin(d, sdom[w]) <= Begin(d, sdom[v])
                BY <2>7, <3>1
            <4>3. IsIDom(g, w, sdom[w])
                BY <4>2, SemiDominatorIsIDom
            <4>4. QED
                BY <4>1, <4>3
        <3>2. CASE sdom[u] # sdom[w]
            <4>1. f[w] = u /\ u # w
                BY <2>4, <2>7, <3>2
            <4>2. /\ u \in S \ {Entry} /\ Above(d, u, w) /\ sdom[w] \in S
                  /\ Begin(d, sdom[w]) < Begin(d, u)
                BY BetweenFacts
            <4>3. u # sdom[w]
                BY <1>6, <4>2
            <4>4. e[w] = f[u]
                BY <2>6, <4>1, <4>3
            <4>5. Begin(d, u) < Begin(d, w)
                BY <4>1, <4>2, AboveOrder
            <4>6. PICK j \in 1 .. N : u = Nth(d, j)
                BY <1>4, <4>2
            <4>7. j < k
                BY <1>5, <2>2, <4>5, <4>6
            <4>8. j <= k - 1
                BY <1>2, <4>7
            <4>9. IsIDom(g, u, f[u])
                BY <2>3, <4>6, <4>8
            <4>10. StrictDominators(g, w) = StrictDominators(g, u)
                BY <2>7, RelativeDominates
            <4>11. QED
                BY <4>4, <4>9, <4>10 DEF IsIDom
        <3>3. QED
            BY <3>1, <3>2
    <2>9. ASSUME NEW j \in 1 .. N, j # k
          PROVE  e[Nth(d, j)] = f[Nth(d, j)]
        <3>1. j < k \/ k < j
            BY <1>2, <2>9
        <3>2. Begin(d, Nth(d, j)) # Begin(d, w)
            BY <1>3, <1>5, <1>6, <2>2, <3>1
        <3>3. QED
            BY <1>3, <2>6, <3>2
    <2>10. good(e, k)
        <3>1. \A j \in 1 .. N : j # k /\ j <= k => j <= k - 1
            BY <1>2
        <3>2. \A j \in 1 .. N : k < j => k - 1 < j /\ j # k
            BY <1>2
        <3>3. QED
            BY <2>2, <2>3, <2>6, <2>8, <2>9, <3>1, <3>2
    <2>11. QED
        BY <2>1, <2>2, <2>3, <2>5, <2>10
<1>9. N \in T
    <2> HIDE DEF T
    <2>1. 0 .. N \subseteq T
        BY <1>2, <1>7, <1>8, UpTo
    <2>2. QED
        BY <1>2, <2>1
<1>10. PICK f \in X : f = IDoms(d, sdom) /\ good(f, N)
    <2>1. a[N] = IDoms(d, sdom)
        BY <1>1 DEF IDomSteps, N
    <2>2. QED
        BY <1>9, <2>1
<1>11. \A j \in 1 .. N : j <= N
    BY <1>2
<1>12. QED
    BY <1>4, <1>10, <1>11

-------------------------------------------------------------------------------
(* The loop of is_dominator_of meets the strict dominators.                *)

(* What dominates a dominator dominates.                                   *)
LEMMA StrictDominatorsNest ==
    ASSUME NEW g, NEW d, NEW S, SearchTree(g, d, S), NEW v \in S,
           NEW x \in StrictDominators(g, v), NEW y \in StrictDominators(g, x)
    PROVE  y \in StrictDominators(g, v)
<1>1. /\ x \in S /\ x # v /\ v \notin Around(g, x) /\ Dominates(g, x, v)
      /\ y \in S /\ y # x /\ x \notin Around(g, y) /\ Dominates(g, y, x)
    BY DEF StrictDominators, Dominates, Around, SearchTree
<1>2. Begin(d, y) < Begin(d, x) /\ Begin(d, x) < Begin(d, v)
    BY <1>1, DominatorsAbove, AboveOrder
<1>3. y # v
    BY <1>1, <1>2 DEF SearchTree, TreeTimes
<1> DEFINE both == Around(g, x) \cap Around(g, y)
<1>4. y # Entry => Entry \in both
    BY <1>1, AroundIsLeast
<1>5. \A p \in both : \A q \in Range(g.succ[p]) : q # y => q \in both
    <2> SUFFICES ASSUME NEW p \in both, NEW q \in Range(g.succ[p]), q # y PROVE q \in both
        OBVIOUS
    <2>1. q \in Around(g, y)
        BY AroundIsLeast
    <2>2. q \in Around(g, x)
        BY <1>1, <2>1, AroundIsLeast
    <2>3. QED
        BY <2>1, <2>2
<1> HIDE DEF both
<1>6. Around(g, y) \subseteq both
    BY <1>4, <1>5, AroundIsLeast
<1>7. v \notin Around(g, y)
    BY <1>1, <1>6 DEF both
<1>8. QED
    BY <1>1, <1>3, <1>7 DEF StrictDominators, Dominates, Around, SearchTree

(* the tree of immediate dominators, as links                              *)
Tree(d, S, idom) ==
    [info |-> [v \in S |-> [predecessor    |-> IF v \in DOMAIN idom THEN idom[v] ELSE NoBlock,
                            discovery_time |-> Begin(d, v)]]]

IDomsAre(g, S, idom) ==
    /\ idom \in [S \ {Entry} -> S]
    /\ \A w \in S \ {Entry} : IsIDom(g, w, idom[w])

LEMMA TreeLinked ==
    ASSUME NEW g, NEW d, NEW S, SearchTree(g, d, S), NEW idom, IDomsAre(g, S, idom)
    PROVE  /\ \A v \in S : Link(Tree(d, S, idom), v) = IF v # Entry THEN idom[v] ELSE NoBlock
           /\ \A v \in S : Begin(Tree(d, S, idom), v) = Begin(d, v)
           /\ \A v \in S \ {Entry} : idom[v] \in S \cap StrictDominators(g, v) /\ Begin(d, idom[v]) < Begin(d, v)
           /\ Linked(Tree(d, S, idom), S)
<1>1. \A v \in S : Link(Tree(d, S, idom), v) = IF v # Entry THEN idom[v] ELSE NoBlock
    BY DEF Link, Tree, IDomsAre
<1>2. \A v \in S : Tree(d, S, idom).info[v].discovery_time = Begin(d, v)
    BY DEF Tree
<1>3. ASSUME NEW v \in S \ {Entry}
      PROVE  idom[v] \in S \cap StrictDominators(g, v) /\ Begin(d, idom[v]) < Begin(d, v)
    <2>1. PICK x \in S : x = idom[v] /\ x \in StrictDominators(g, v)
        BY DEF IDomsAre, IsIDom
    <2>2. Dominates(g, x, v) /\ x # v
        BY <2>1 DEF StrictDominators
    <2>3. Above(d, x, v)
        BY <2>2, DominatorsAbove
    <2>4. Begin(d, x) < Begin(d, v)
        BY <2>2, <2>3, AboveOrder
    <2>5. QED
        BY <2>1, <2>4
<1>4. \A v \in S : Begin(d, v) \in Nat
    BY DEF SearchTree, TreeTimes
<1>5. NoBlock \notin S
    BY BlockFacts DEF SearchTree
<1>6. PICK e : e = Tree(d, S, idom)
    OBVIOUS
<1>7. ASSUME NEW v \in S
      PROVE  /\ Link(e, v) \in S \cup {NoBlock}
             /\ e.info[v].discovery_time \in Nat
             /\ Link(e, v) \in S => e.info[Link(e, v)].discovery_time < e.info[v].discovery_time
    <2>1. CASE v = Entry
        BY <1>1, <1>2, <1>4, <1>5, <1>6, <2>1
    <2>2. CASE v # Entry
        BY <1>1, <1>2, <1>3, <1>4, <1>6, <2>2
    <2>3. QED
        BY <2>1, <2>2
<1>8. Linked(e, S)
    BY <1>7 DEF Linked
<1>9. QED
    BY <1>1, <1>2, <1>3, <1>6, <1>8 DEF Begin

LEMMA DominatorsClimbed ==
    ASSUME NEW g, NEW d, NEW S, SearchTree(g, d, S), NEW idom, IDomsAre(g, S, idom), NEW v \in S
    PROVE  Range(Ancestors(Tree(d, S, idom), v)) = {v} \cup StrictDominators(g, v)
<1>1. S \in SUBSET Block /\ NoBlock \notin S /\ Entry \in S /\ S = Reachable(g)
    BY BlockFacts DEF SearchTree
<1>2. PICK e : e = Tree(d, S, idom)
    OBVIOUS
<1>3. /\ \A x \in S : Link(e, x) = IF x # Entry THEN idom[x] ELSE NoBlock
      /\ \A x \in S \ {Entry} : idom[x] \in S /\ idom[x] \in StrictDominators(g, x) /\ Begin(d, idom[x]) < Begin(d, x)
      /\ Linked(e, S)
    BY <1>2, TreeLinked
<1>4. \A x \in S : Begin(d, x) \in Nat
    BY DEF SearchTree, TreeTimes
<1> DEFINE up(x) == {x} \cup StrictDominators(g, x)
           path == Ancestors(e, v)
           last == path[Len(path)]
<1>5. Range(path) \subseteq up(v)
    <2>1. v \in up(v)
        OBVIOUS
    <2>2. ASSUME NEW x \in S \cap up(v), Link(e, x) \in S
          PROVE  Link(e, x) \in up(v)
        <3>1. x # Entry
            BY <1>1, <1>3, <2>2
        <3>2. Link(e, x) \in StrictDominators(g, x)
            BY <1>3, <3>1
        <3>3. QED
            BY <3>2, StrictDominatorsNest
    <2> HIDE DEF up
    <2>3. QED
        BY <1>1, <1>3, <2>1, <2>2, AncestorsWithin
<1>6. path \in PathsUp(e, S, v) /\ Link(e, last) = NoBlock
    BY <1>1, <1>3, ClimbEnds
<1>7. Range(path) \subseteq S
    BY <1>3, <1>6, ClimbedUp
<1>8. v \in Range(path) /\ \A x \in Range(path) : x # last => Link(e, x) \in Range(path)
    BY <1>6 DEF PathsUp
<1>9. \A x \in Range(path) : x # Entry => idom[x] \in Range(path)
    BY <1>1, <1>3, <1>6, <1>7, <1>8
<1> HIDE DEF path, last
<1>10. ASSUME NEW u \in up(v)
       PROVE  u \in Range(path)
    <2> DEFINE T == {x \in Range(path) : u \in up(x)}
    <2>1. T # {} /\ \A x \in T : Begin(d, x) \in Nat
        BY <1>4, <1>7, <1>8
    <2>2. PICK x \in T : \A y \in T : Begin(d, x) <= Begin(d, y)
        <3> HIDE DEF T
        <3>1. QED
            BY <2>1, SmallestBegin
    <2>3. x \in S /\ x \in Range(path) /\ u \in up(x)
        BY <1>7, <2>2
    <2>4. ASSUME u # x PROVE FALSE
        <3>1. u \in StrictDominators(g, x) /\ u \in S /\ Dominates(g, u, x)
            BY <1>1, <2>3, <2>4 DEF StrictDominators
        <3>2. Begin(d, u) < Begin(d, x)
            BY <2>3, <2>4, <3>1, DominatorsAbove, AboveOrder
        <3>3. x # Entry
            BY <1>4, <2>3, <3>1, <3>2 DEF SearchTree, TreeTimes
        <3>4. PICK p \in S : p = idom[x] /\ p \in Range(path) /\ Begin(d, p) < Begin(d, x)
            BY <1>3, <1>9, <2>3, <3>3
        <3>5. Dominates(g, u, p)
            BY <2>3, <3>1, <3>3, <3>4 DEF IDomsAre, IsIDom
        <3>6. u \in up(p)
            BY <1>1, <3>1, <3>5 DEF StrictDominators
        <3>7. Begin(d, x) <= Begin(d, p)
            BY <2>2, <3>4, <3>6
        <3>8. QED
            BY <1>4, <2>3, <3>4, <3>7
    <2>5. QED
        BY <2>3, <2>4
<1>11. QED
    BY <1>2, <1>5, <1>10 DEF path

ChainStep(idom, path) ==
    LET u == path[Len(path)]
    IN  IF u \in DOMAIN idom THEN Append(path, idom[u]) ELSE path

Chain(tree, v) ==
    FoldLeft(LAMBDA path, n :
                 LET u == path[Len(path)]
                 IN  IF u \in DOMAIN tree.idom THEN Append(path, tree.idom[u]) ELSE path,
             <<v>>,
             Times(NumBlocks))

ChainSteps(a, S, tree, v) ==
    /\ a \in [0 .. NumBlocks -> Seq(S) \ {<< >>}]
    /\ a[0] = <<v>> /\ a[NumBlocks] = Chain(tree, v)
    /\ \A k \in 1 .. NumBlocks : a[k] = ChainStep(tree.idom, a[k - 1])

LEMMA ChainClimbs ==
    ASSUME NEW S \in SUBSET Block, NEW tree, tree.idom \in [S \ {Entry} -> S], NEW v \in S
    PROVE  \E a : ChainSteps(a, S, tree, v)
<1> DEFINE N == NumBlocks
           X == Seq(S) \ {<< >>}
           base == <<v>>
           seq == Times(N)
           Op == [p \in X \X (1 .. N) |-> ChainStep(tree.idom, p[1])]
<1>1. N \in Nat /\ N # 0
    BY FlowGraphAssumption
<1>2. Op \in [X \X (1 .. N) -> X] /\ base \in X
    <2>1. ASSUME NEW path \in X PROVE ChainStep(tree.idom, path) \in X
        <3>1. PICK u \in S : u = path[Len(path)]
            OBVIOUS
        <3>2. CASE u \in DOMAIN tree.idom
            <4>1. PICK y \in S : y = tree.idom[u]
                BY <3>2
            <4>2. Append(path, y) \in X
                BY AppendFacts
            <4>3. QED
                BY <3>1, <3>2, <4>1, <4>2 DEF ChainStep
        <3>3. CASE u \notin DOMAIN tree.idom
            BY <3>1, <3>3 DEF ChainStep
        <3>4. QED
            BY <3>2, <3>3
    <2>2. base \in X
        OBVIOUS
    <2>3. QED
        BY <2>1, <2>2
<1>3. DOMAIN seq = 1 .. N
    BY DEF Times
<1>4. \A x \in X, k \in 1 .. N : Op[<<x, k>>] = ChainStep(tree.idom, x)
    OBVIOUS
<1>5. PICK it \in [SUBSET (1 .. N) -> X] : FoldsBy(it, N, base, Op)
    <2> HIDE DEF Op, X, base
    <2>1. QED
        BY <1>1, <1>2, FoldExists
<1>6. it = [s \in SUBSET (1 .. N) |->
               IF s = {} THEN base ELSE ChainStep(tree.idom, it[s \ {Max(s)}])]
    <2>1. ASSUME NEW s \in SUBSET (1 .. N)
          PROVE  it[s] = IF s = {} THEN base ELSE ChainStep(tree.idom, it[s \ {Max(s)}])
        <3>1. CASE s = {}
            BY <1>5, <3>1 DEF FoldsBy
        <3>2. CASE s # {}
            <4>1. Max(s) \in 1 .. N
                BY <1>1, <3>2, LargestNat
            <4>2. it[s \ {Max(s)}] \in X
                BY <1>5
            <4> HIDE DEF Op, X, base
            <4>3. it[s] = Op[<<it[s \ {Max(s)}], Max(s)>>]
                BY <1>5, <3>2 DEF FoldsBy
            <4>4. QED
                BY <1>4, <3>2, <4>1, <4>2, <4>3
        <3>3. QED
            BY <3>1, <3>2
    <2>2. QED
        BY <2>1
<1> DEFINE fold == CHOOSE f : f = [s \in SUBSET (1 .. N) |->
                       IF s = {} THEN base ELSE ChainStep(tree.idom, f[s \ {Max(s)}])]
<1>7. fold = [s \in SUBSET (1 .. N) |->
                 IF s = {} THEN base ELSE ChainStep(tree.idom, fold[s \ {Max(s)}])]
    BY <1>6
<1>8. Chain(tree, v) = fold[1 .. N]
    BY <1>3 DEF Chain, FoldLeft, MapThenFoldSet, ChainStep
<1>9. /\ fold[{}] = base
      /\ \A s \in SUBSET (1 .. N) : s # {} => fold[s] = ChainStep(tree.idom, fold[s \ {Max(s)}])
    <2> HIDE DEF fold, base, N
    <2>1. {} \in SUBSET (1 .. N)
        OBVIOUS
    <2>2. QED
        BY <1>7, <2>1
<1>10. \A k \in 1 .. N : fold[1 .. k - 1] \in X => fold[1 .. k] = Op[<<fold[1 .. k - 1], k>>]
    <2> SUFFICES ASSUME NEW k \in 1 .. N, fold[1 .. k - 1] \in X
                 PROVE  fold[1 .. k] = ChainStep(tree.idom, fold[1 .. k - 1])
        BY <1>4
    <2>1. k \in Nat \ {0} /\ k <= N /\ 1 .. k \in SUBSET (1 .. N) /\ k \in 1 .. k
        BY <1>1
    <2>2. Max(1 .. k) = k /\ (1 .. k) \ {k} = 1 .. k - 1
        BY <2>1, GreatestOfInterval
    <2> HIDE DEF fold
    <2>3. QED
        BY <1>9, <2>1, <2>2
<1> HIDE DEF fold, Op, X, base, N
<1>11. PICK a \in [0 .. N -> X] : PartialResults(a, N, base, Op, fold[1 .. N])
    <2>1. FoldsPrefixesBy(fold, N, X, base, Op)
        BY <1>9, <1>10 DEF FoldsPrefixesBy
    <2>2. QED
        BY <1>1, <1>2, <2>1, FoldValues
<1>12. \A k \in 1 .. N : a[k] = ChainStep(tree.idom, a[k - 1])
    <2> SUFFICES ASSUME NEW k \in 1 .. N
                 PROVE  a[k] = ChainStep(tree.idom, a[k - 1])
        OBVIOUS
    <2>1. k - 1 \in 0 .. N
        BY <1>1
    <2>2. a[k - 1] \in X /\ a[k] = Op[<<a[k - 1], k>>]
        BY <1>11, <2>1 DEF PartialResults
    <2>3. QED
        BY <1>4, <2>2
<1>13. ChainSteps(a, S, tree, v)
    BY <1>8, <1>11, <1>12 DEF X, base, N, PartialResults, ChainSteps
<1>14. QED
    BY <1>13

(* is_dominator_of meets the strict dominators and nothing else.           *)
LEMMA DominatorsMet ==
    ASSUME NEW g, NEW d, NEW S, SearchTree(g, d, S), NEW tree, IDomsAre(g, S, tree.idom), NEW v \in S
    PROVE  Range(IDomChain(tree, v)) = StrictDominators(g, v)
<1> DEFINE N == NumBlocks
           e == Tree(d, S, tree.idom)
           X == Seq(S) \ {<< >>}
<1>1. S \in SUBSET Block /\ tree.idom \in [S \ {Entry} -> S]
    BY DEF SearchTree, IDomsAre
<1>2. /\ \A x \in S : Link(e, x) = IF x # Entry THEN tree.idom[x] ELSE NoBlock
      /\ \A x \in S \ {Entry} : tree.idom[x] \in S
      /\ Linked(e, S)
    BY TreeLinked
<1> HIDE DEF e
<1>3. PICK a \in [0 .. N -> X] : /\ a[0] = <<v>> /\ a[N] = Chain(tree, v)
                                 /\ \A k \in 1 .. N : a[k] = ChainStep(tree.idom, a[k - 1])
    <2>1. PICK a : ChainSteps(a, S, tree, v)
        BY <1>1, ChainClimbs
    <2>2. QED
        BY <2>1 DEF ChainSteps
<1>4. PICK b \in [0 .. N -> X] : Climb(b, e, v)
    BY <1>2, AncestorsClimb
<1>5. ASSUME NEW path \in X
      PROVE  ChainStep(tree.idom, path) = Climbed(e, path)
    <2>1. PICK u \in S : u = path[Len(path)]
        OBVIOUS
    <2>2. u \in DOMAIN tree.idom <=> u # Entry
        BY <1>1
    <2>3. tree.idom[u] # NoBlock \/ u = Entry
        BY <1>1, <1>2, BlockFacts
    <2>4. QED
        BY <1>2, <2>1, <2>2, <2>3 DEF ChainStep, Climbed
<1>6. N \in Nat
    BY FlowGraphAssumption
<1> DEFINE T == {k \in 0 .. N : a[k] = b[k]}
<1>7. 0 \in T
    <2>1. b[0] = <<v>>
        BY <1>4 DEF Climb
    <2>2. a[0] = b[0]
        BY <1>3, <2>1
    <2>3. QED
        BY <1>6, <2>2
<1>8. ASSUME NEW k \in 1 .. N, k - 1 \in T PROVE k \in T
    <2>1. k - 1 \in 0 .. N /\ k \in 0 .. N
        BY <1>6
    <2>2. a[k - 1] \in X /\ a[k - 1] = b[k - 1]
        BY <1>3, <1>8, <2>1
    <2>3. a[k] = ChainStep(tree.idom, a[k - 1]) /\ b[k] = Climbed(e, b[k - 1])
        BY <1>3, <1>4 DEF Climb
    <2>4. QED
        BY <1>5, <2>1, <2>2, <2>3
<1>9. Chain(tree, v) = Ancestors(e, v)
    <2> HIDE DEF T, N
    <2>1. 0 .. N \subseteq T
        BY <1>6, <1>7, <1>8, UpTo
    <2>2. N \in T
        BY <1>6, <2>1
    <2>3. a[N] = b[N]
        BY <2>2 DEF T
    <2>4. b[N] = Ancestors(e, v)
        BY <1>4 DEF Climb, N
    <2>5. QED
        BY <1>3, <2>3, <2>4
<1>10. PICK path \in X : /\ path = Ancestors(e, v)
                         /\ path[1] = v
                         /\ \A i, j \in DOMAIN path : i < j => Begin(e, path[j]) < Begin(e, path[i])
    BY <1>1, <1>2, AncestorPath
<1>11. \A x \in S : Begin(e, x) \in Nat
    BY <1>2 DEF Linked, Begin
<1>12. PICK n \in Nat \ {0} : n = Len(path) /\ DOMAIN path = 1 .. n
    OBVIOUS
<1>13. \A i \in 2 .. n : path[i] # v
    <2> SUFFICES ASSUME NEW i \in 2 .. n PROVE path[i] # v
        OBVIOUS
    <2>1. 1 \in 1 .. n /\ i \in 1 .. n /\ 1 < i /\ path[i] \in S
        BY <1>12
    <2>2. Begin(e, path[i]) < Begin(e, v)
        BY <1>10, <1>12, <2>1
    <2>3. QED
        BY <1>11, <2>1, <2>2
<1>14. PICK rest : rest = Tail(path)
    OBVIOUS
<1>15. DOMAIN rest = 1 .. n - 1 /\ \A i \in 1 .. n - 1 : rest[i] = path[i + 1]
    <2>1. Len(rest) = n - 1 /\ rest \in Seq(S)
        BY <1>12, <1>14
    <2>2. \A i \in 1 .. n - 1 : rest[i] = path[i + 1]
        BY <1>12, <1>14
    <2>3. QED
        BY <2>1, <2>2
<1>16. Range(rest) = Range(path) \ {v}
    <2>1. \A i \in 1 .. n - 1 : i + 1 \in 1 .. n /\ i + 1 \in 2 .. n
        BY <1>12
    <2>2. \A i \in 1 .. n : i = 1 \/ (i - 1 \in 1 .. n - 1 /\ (i - 1) + 1 = i)
        BY <1>12
    <2>3. ASSUME NEW x \in Range(path), x # v PROVE x \in Range(rest)
        <3>1. PICK i \in 1 .. n : x = path[i]
            BY <1>12 DEF Range
        <3>2. i # 1
            BY <1>10, <2>3, <3>1
        <3>3. x = rest[i - 1] /\ i - 1 \in DOMAIN rest
            BY <1>15, <2>2, <3>1, <3>2
        <3>4. QED
            BY <3>3 DEF Range
    <2>4. ASSUME NEW x \in Range(rest) PROVE x \in Range(path) \ {v}
        <3>1. PICK i \in 1 .. n - 1 : x = path[i + 1]
            BY <1>15 DEF Range
        <3>2. QED
            BY <1>12, <1>13, <2>1, <3>1 DEF Range
    <2>5. QED
        BY <2>3, <2>4
<1>17. IDomChain(tree, v) = rest
    BY <1>9, <1>10, <1>14 DEF IDomChain, Chain
<1>18. Range(path) = {v} \cup StrictDominators(g, v)
    BY <1>10, DominatorsClimbed DEF e
<1>19. v \notin StrictDominators(g, v)
    BY DEF StrictDominators
<1>20. QED
    BY <1>16, <1>17, <1>18, <1>19

-------------------------------------------------------------------------------
(* The dominator tree of a flow graph.                                     *)

FilterStep(kept, x, set) == IF x \in set THEN Append(kept, x) ELSE kept

FilterSteps(a, list, set) ==
    /\ a[0] = << >>
    /\ a[Len(list)] = Filtered(list, set)
    /\ \A k \in 1 .. Len(list) : a[k] = FilterStep(a[k - 1], list[k], set)

LEMMA FilterUnfolds ==
    ASSUME NEW T, NEW list \in Seq(T), NEW set
    PROVE  \E a \in [0 .. Len(list) -> Seq(T)] : FilterSteps(a, list, set)
<1> DEFINE N == Len(list)
           X == Seq(T)
           base == << >>
           Op == [p \in X \X (1 .. N) |-> FilterStep(p[1], list[p[2]], set)]
<1>1. N \in Nat /\ DOMAIN list = 1 .. N /\ \A k \in 1 .. N : list[k] \in T
    OBVIOUS
<1>2. Op \in [X \X (1 .. N) -> X] /\ base \in X
    <2>1. ASSUME NEW x \in X, NEW k \in 1 .. N PROVE FilterStep(x, list[k], set) \in X
        <3>1. Append(x, list[k]) \in X
            BY <1>1, AppendFacts
        <3>2. QED
            BY <3>1 DEF FilterStep
    <2>2. base \in X
        OBVIOUS
    <2>3. QED
        BY <2>1, <2>2
<1>3. \A x \in X, k \in 1 .. N : Op[<<x, k>>] = FilterStep(x, list[k], set)
    OBVIOUS
<1>4. PICK it \in [SUBSET (1 .. N) -> X] : FoldsBy(it, N, base, Op)
    <2> HIDE DEF Op, X, base, N
    <2>1. QED
        BY <1>1, <1>2, FoldExists
<1>5. it = [t \in SUBSET (1 .. N) |->
               IF t = {} THEN base ELSE FilterStep(it[t \ {Max(t)}], list[Max(t)], set)]
    <2>1. ASSUME NEW t \in SUBSET (1 .. N)
          PROVE  it[t] = IF t = {} THEN base ELSE FilterStep(it[t \ {Max(t)}], list[Max(t)], set)
        <3>1. CASE t = {}
            BY <1>4, <3>1 DEF FoldsBy
        <3>2. CASE t # {}
            <4> HIDE DEF N
            <4>1. Max(t) \in 1 .. N
                BY <1>1, <3>2, LargestNat
            <4>2. it[t \ {Max(t)}] \in X
                BY <1>4
            <4> HIDE DEF Op, X, base
            <4>3. it[t] = Op[<<it[t \ {Max(t)}], Max(t)>>]
                BY <1>4, <3>2 DEF FoldsBy
            <4>4. QED
                BY <1>3, <3>2, <4>1, <4>2, <4>3
        <3>3. QED
            BY <3>1, <3>2
    <2>2. QED
        BY <2>1
<1> DEFINE fold == CHOOSE f : f = [t \in SUBSET (1 .. N) |->
                       IF t = {} THEN base ELSE FilterStep(f[t \ {Max(t)}], list[Max(t)], set)]
<1>6. fold = [t \in SUBSET (1 .. N) |->
                 IF t = {} THEN base ELSE FilterStep(fold[t \ {Max(t)}], list[Max(t)], set)]
    BY <1>5
<1>7. Filtered(list, set) = fold[1 .. N]
    BY <1>1 DEF Filtered, FoldLeft, MapThenFoldSet, FilterStep
<1>8. /\ fold[{}] = base
      /\ \A t \in SUBSET (1 .. N) : t # {} =>
             fold[t] = FilterStep(fold[t \ {Max(t)}], list[Max(t)], set)
    <2> HIDE DEF fold, base, N
    <2>1. {} \in SUBSET (1 .. N)
        OBVIOUS
    <2>2. QED
        BY <1>6, <2>1
<1>9. \A k \in 1 .. N : fold[1 .. k - 1] \in X => fold[1 .. k] = Op[<<fold[1 .. k - 1], k>>]
    <2> SUFFICES ASSUME NEW k \in 1 .. N, fold[1 .. k - 1] \in X
                 PROVE  fold[1 .. k] = FilterStep(fold[1 .. k - 1], list[k], set)
        BY <1>3
    <2>1. k \in Nat \ {0} /\ k <= N /\ 1 .. k \in SUBSET (1 .. N) /\ k \in 1 .. k
        BY <1>1
    <2>2. Max(1 .. k) = k /\ (1 .. k) \ {k} = 1 .. k - 1
        BY <2>1, GreatestOfInterval
    <2> HIDE DEF fold
    <2>3. QED
        BY <1>8, <2>1, <2>2
<1> HIDE DEF fold, Op, X, base, N
<1>10. PICK a \in [0 .. N -> X] : PartialResults(a, N, base, Op, fold[1 .. N])
    <2>1. FoldsPrefixesBy(fold, N, X, base, Op)
        BY <1>8, <1>9 DEF FoldsPrefixesBy
    <2>2. QED
        BY <1>1, <1>2, <2>1, FoldValues
<1>11. \A k \in 1 .. N : a[k] = FilterStep(a[k - 1], list[k], set)
    <2> SUFFICES ASSUME NEW k \in 1 .. N
                 PROVE  a[k] = FilterStep(a[k - 1], list[k], set)
        OBVIOUS
    <2>1. k - 1 \in 0 .. N
        BY <1>1
    <2>2. a[k - 1] \in X /\ a[k] = Op[<<a[k - 1], k>>]
        BY <1>10, <2>1 DEF PartialResults
    <2>3. QED
        BY <1>3, <2>2
<1>12. QED
    BY <1>7, <1>10, <1>11 DEF X, base, N, PartialResults, FilterSteps

LEMMA FilteredIs ==
    ASSUME NEW T, NEW list \in Seq(T), NEW set
    PROVE  /\ Filtered(list, set) \in Seq(T)
           /\ Range(Filtered(list, set)) = Range(list) \cap set
           /\ Len(Filtered(list, set)) <= Len(list)
<1> DEFINE N == Len(list)
<1>1. PICK a \in [0 .. N -> Seq(T)] : FilterSteps(a, list, set)
    BY FilterUnfolds
<1>2. N \in Nat /\ DOMAIN list = 1 .. N /\ \A k \in 1 .. N : list[k] \in T
    OBVIOUS
<1> DEFINE A == {k \in 0 .. N : /\ Range(a[k]) = {list[i] : i \in 1 .. k} \cap set
                             /\ Len(a[k]) <= k}
<1> HIDE DEF N
<1>3. 0 \in A
    <2>1. a[0] = << >>
        BY <1>1 DEF FilterSteps
    <2>2. Range(a[0]) = {} /\ 1 .. 0 = {} /\ Len(a[0]) <= 0
        BY <2>1 DEF Range
    <2>3. QED
        BY <1>2, <2>2
<1>4. ASSUME NEW k \in 1 .. N, k - 1 \in A PROVE k \in A
    <2>1. k - 1 \in 0 .. N /\ k \in 0 .. N
        BY <1>2
    <2>2. PICK b \in Seq(T) : b = a[k - 1]
        BY <2>1
    <2>3. PICK x \in T : x = list[k]
        BY <1>2
    <2>4. a[k] = FilterStep(b, x, set)
        BY <1>1, <2>2, <2>3 DEF FilterSteps, N
    <2>5. Range(b) = {list[i] : i \in 1 .. k - 1} \cap set /\ Len(b) \in Nat /\ Len(b) <= k - 1
        BY <1>4, <2>2
    <2>6. {list[i] : i \in 1 .. k} = {list[i] : i \in 1 .. k - 1} \cup {x}
        <3>1. 1 .. k = (1 .. k - 1) \cup {k}
            BY <1>2
        <3>2. QED
            BY <2>3, <3>1
    <2>7. CASE x \in set
        <3>1. a[k] = Append(b, x)
            BY <2>4, <2>7 DEF FilterStep
        <3>2. Range(Append(b, x)) = Range(b) \cup {x} /\ Len(Append(b, x)) = Len(b) + 1
            BY AppendFacts
        <3>3. Range(a[k]) = {list[i] : i \in 1 .. k} \cap set
            BY <2>5, <2>6, <2>7, <3>1, <3>2
        <3>4. Len(a[k]) <= k
            BY <1>2, <2>5, <3>1, <3>2
        <3>5. QED
            BY <2>1, <3>3, <3>4
    <2>8. CASE x \notin set
        <3>1. a[k] = b
            BY <2>4, <2>8 DEF FilterStep
        <3>2. Range(a[k]) = {list[i] : i \in 1 .. k} \cap set
            BY <2>5, <2>6, <2>8, <3>1
        <3>3. Len(a[k]) <= k
            BY <1>2, <2>5, <3>1
        <3>4. QED
            BY <2>1, <3>2, <3>3
    <2>9. QED
        BY <2>7, <2>8
<1>5. N \in A
    <2> HIDE DEF A
    <2>1. 0 .. N \subseteq A
        BY <1>2, <1>3, <1>4, UpTo
    <2>2. QED
        BY <1>2, <2>1
<1>6. a[N] = Filtered(list, set) /\ a[N] \in Seq(T)
    BY <1>1, <1>2 DEF FilterSteps, N
<1>7. Range(list) = {list[i] : i \in 1 .. N}
    BY <1>2 DEF Range
<1>8. QED
    BY <1>5, <1>6, <1>7 DEF N

LEMMA GraphFacts ==
    ASSUME NEW succ \in [Block -> Paths]
    PROVE  /\ GraphOf(succ).succ = succ
           /\ succ \in [Block -> Seq(Block)]
           /\ GraphOf(succ).pred \in [Block -> Seq(Block)]
           /\ \A v \in Block : Range(GraphOf(succ).pred[v]) = {u \in Block : v \in Range(succ[u])}
<1>1. NumBlocks \in Nat /\ Block = 1 .. NumBlocks
    BY FlowGraphAssumption DEF Block
<1>2. Times(NumBlocks) \in Seq(Block) /\ Range(Times(NumBlocks)) = Block
    BY <1>1 DEF Times, Range
<1>3. \A v \in Block : /\ Filtered(Times(NumBlocks), Predecessors(succ, v)) \in Seq(Block)
                       /\ Range(Filtered(Times(NumBlocks), Predecessors(succ, v)))
                              = Block \cap Predecessors(succ, v)
    BY <1>2, FilteredIs
<1>4. GraphOf(succ).pred = [v \in Block |-> Filtered(Times(NumBlocks), Predecessors(succ, v))]
    BY DEF GraphOf
<1>5. GraphOf(succ).pred \in [Block -> Seq(Block)]
    BY <1>3, <1>4
<1>6. \A v \in Block : Range(GraphOf(succ).pred[v]) = {u \in Block : v \in Range(succ[u])}
    BY <1>3, <1>4 DEF Predecessors
<1>7. GraphOf(succ).succ = succ /\ succ \in [Block -> Seq(Block)]
    BY PathsAreSequences DEF GraphOf
<1>8. QED
    BY <1>5, <1>6, <1>7

(* What a search from the entry gives the tree.                            *)
OverFrom(g, d, S) ==
    /\ Searched(g, {}, Entry, d)
    /\ d.current = NoBlock
    /\ S = DOMAIN d.info

LEMMA OverFacts ==
    ASSUME NEW g, NEW d, NEW S, OverFrom(g, d, S)
    PROVE  /\ S \in SUBSET Block /\ NoBlock \notin S /\ Entry \in S /\ S = Reachable(g)
           /\ \A v \in S : /\ Begin(d, v) \in Nat /\ End(d, v) \in Nat /\ End(d, v) # 0
                          /\ Begin(d, v) < End(d, v)
           /\ \A u, v \in S : Begin(d, u) = Begin(d, v) => u = v
           /\ \A u, v \in S : Begin(d, u) < Begin(d, v) =>
                                  End(d, u) < Begin(d, v) \/ End(d, v) < End(d, u)
           /\ \A u \in S : \A v \in Range(g.succ[u]) :
                  v \in S /\ (Begin(d, u) < Begin(d, v) => End(d, v) < End(d, u))
           /\ \A v \in S : Link(d, v) \in S \cup {NoBlock} /\ (Link(d, v) = NoBlock <=> v = Entry)
           /\ \A v \in S : Link(d, v) \in S =>
                  /\ v \in Range(g.succ[Link(d, v)])
                  /\ Begin(d, Link(d, v)) < Begin(d, v)
                  /\ End(d, v) < End(d, Link(d, v))
           /\ \A u, v \in S : Begin(d, u) < Begin(d, v) /\ End(d, v) < End(d, u) =>
                  Link(d, v) \in S /\ Begin(d, u) <= Begin(d, Link(d, v))
<1>1. /\ Consistent(g, {}, d) /\ Recorded(g, {}, d) /\ Traced(g, {}, Entry, d)
      /\ WellFormed(g, {}, d) /\ d.current = NoBlock
    BY DEF OverFrom, Searched, Consistent
<1>2. S = FoundBy({}, d)
    BY DEF OverFrom, FoundBy
<1>3. /\ S = Reach(g, Root(d), {}) /\ Root(d) = Entry /\ Entry \in S
      /\ \A v \in S : End(d, v) # 0
    BY <1>1, <1>2, AllFound DEF Traced
<1>4. S \in SUBSET Block /\ NoBlock \notin S
    BY <1>1, <1>2, TimeFacts
<1>5. \A v \in S : /\ Begin(d, v) \in Nat /\ End(d, v) \in Nat /\ Begin(d, v) < End(d, v)
                   /\ Link(d, v) \in S \cup {NoBlock}
    BY <1>1, <1>2, <1>3, TimeFacts DEF Consistent, TimesApart, Running, Link, Begin, End
<1>6. \A u, v \in S : Begin(d, u) = Begin(d, v) => u = v
    BY <1>1, <1>2 DEF Consistent, TimesApart
<1>7. \A u, v \in S : Begin(d, u) < Begin(d, v) =>
                          End(d, u) < Begin(d, v) \/ End(d, v) < End(d, u)
    BY <1>1, <1>2, <1>3 DEF Consistent, Nested
<1>8. ASSUME NEW u \in S, NEW v \in Range(g.succ[u])
      PROVE  v \in S /\ (Begin(d, u) < Begin(d, v) => End(d, v) < End(d, u))
    <2>1. v \in S
        BY <1>1, <1>2, <1>3 DEF Consistent, Forward
    <2>2. Begin(d, v) <= Begin(d, u) \/ End(d, v) < End(d, u)
        BY <1>1, <1>2, <1>3 DEF Consistent, Forward
    <2>3. QED
        BY <1>5, <2>1, <2>2
<1>9. \A v \in S : Link(d, v) = NoBlock <=> v = Entry
    BY <1>1, <1>2 DEF Traced
<1>10. \A p, v \in S : p = Link(d, v) => v \in Range(g.succ[p]) /\ Begin(d, p) < Begin(d, v) /\ End(d, v) < End(d, p)
    BY <1>1, <1>2, <1>3 DEF Traced, Recorded, Called, Running, Link
<1>11. \A u, v \in S : Begin(d, u) < Begin(d, v) /\ End(d, v) < End(d, u) =>
                  Link(d, v) \in S /\ Begin(d, u) <= Begin(d, Link(d, v))
    BY <1>1, <1>2, <1>3 DEF Recorded, Called, Running, Link
<1>12. S = Reachable(g)
    BY <1>3 DEF Reachable
<1>13. QED
    BY <1>3, <1>4, <1>5, <1>6, <1>7, <1>8, <1>9, <1>10, <1>11, <1>12

LEMMA WithinEntry ==
    ASSUME NEW g, NEW d, NEW S, OverFrom(g, d, S), NEW v \in S
    PROVE  Begin(d, Entry) <= Begin(d, v) /\ End(d, v) <= End(d, Entry)
<1> DEFINE b(x) == Begin(d, x)
           e(x) == End(d, x)
           out == {x \in S : ~(b(Entry) <= b(x) /\ e(x) <= e(Entry))}
<1>1. Entry \in S /\ NoBlock \notin S /\ \A x \in S : b(x) \in Nat /\ e(x) \in Nat
    BY OverFacts
<1>2. \A x \in S : Link(d, x) \in S \cup {NoBlock} /\ (Link(d, x) = NoBlock <=> x = Entry)
    BY OverFacts
<1>3. \A x \in S : Link(d, x) \in S => b(Link(d, x)) < b(x) /\ e(x) < e(Link(d, x))
    BY OverFacts
<1>4. ASSUME v \in out PROVE FALSE
    <2>1. PICK x \in out : \A y \in out : b(x) <= b(y)
        <3>1. out # {} /\ \A y \in out : b(y) \in Nat
            BY <1>1, <1>4
        <3> HIDE DEF out
        <3>2. QED
            BY <3>1, SmallestBegin
    <2> HIDE DEF b, e
    <2>2. x \in S /\ x # Entry
        BY <1>1, <2>1
    <2>3. PICK p \in S : p = Link(d, x) /\ b(p) < b(x) /\ e(x) < e(p)
        BY <1>2, <1>3, <2>2
    <2>4. ~(b(x) <= b(p))
        BY <1>1, <2>2, <2>3
    <2>5. b(Entry) <= b(p) /\ e(p) <= e(Entry)
        BY <2>1, <2>3, <2>4
    <2>6. b(Entry) <= b(x) /\ e(x) <= e(Entry)
        BY <1>1, <2>2, <2>3, <2>5
    <2>7. QED
        BY <2>1, <2>6
<1>5. QED
    BY <1>4

(* the graph of a function none of whose dead blocks leads to a live one   *)
FlowOf(g) ==
    /\ \E succ \in [Block -> Paths] : g = GraphOf(succ)
    /\ NoDeadPredecessor(g)

LEMMA OverIsSearchTree ==
    ASSUME NEW g, FlowOf(g), NEW d, NEW S, OverFrom(g, d, S)
    PROVE  SearchTree(g, d, S)
<1>1. S \in SUBSET Block /\ NoBlock \notin S /\ Entry \in S /\ S = Reachable(g)
    BY OverFacts
<1>2. TreeTimes(d, S)
    BY OverFacts, WithinEntry DEF TreeTimes
<1>3. TreeEdges(g, d, S)
    <2>1. \A u \in S : \A v \in Range(g.succ[u]) :
              v \in S /\ (Begin(d, u) < Begin(d, v) => End(d, v) < End(d, u))
        BY OverFacts
    <2>2. \A u, v \in Block : v \in Range(g.succ[u]) <=> u \in Range(g.pred[v])
        <3>1. PICK succ \in [Block -> Paths] : g = GraphOf(succ)
            BY DEF FlowOf
        <3>2. /\ GraphOf(succ).succ = succ
              /\ \A v \in Block : Range(GraphOf(succ).pred[v]) = {u \in Block : v \in Range(succ[u])}
            BY GraphFacts
        <3>3. QED
            BY <3>1, <3>2
    <2>3. \A v \in S : Range(g.pred[v]) \subseteq S
        BY <1>1 DEF FlowOf, NoDeadPredecessor
    <2>4. QED
        BY <1>1, <2>1, <2>2, <2>3 DEF TreeEdges
<1>4. TreeLinks(g, d, S)
    <2>1. \A v \in S : Link(d, v) \in S \cup {NoBlock} /\ (Link(d, v) = NoBlock <=> v = Entry)
        BY OverFacts
    <2>2. \A v \in S : Link(d, v) \in S =>
              /\ v \in Range(g.succ[Link(d, v)])
              /\ Begin(d, Link(d, v)) < Begin(d, v)
              /\ End(d, v) < End(d, Link(d, v))
        BY OverFacts
    <2>3. \A u, v \in S : Begin(d, u) < Begin(d, v) /\ End(d, v) < End(d, u) =>
              Link(d, v) \in S /\ Begin(d, u) <= Begin(d, Link(d, v))
        BY OverFacts
    <2>4. QED
        BY <1>1, <2>1, <2>2, <2>3 DEF TreeLinks
<1>5. QED
    BY <1>1, <1>2, <1>3, <1>4 DEF SearchTree

LEMMA OverIsListed ==
    ASSUME NEW g, NEW d, NEW S, OverFrom(g, d, S)
    PROVE  PreOrder(d, S) /\ ClimbsTree(d, S)
<1>1. /\ Consistent(g, {}, d) /\ Recorded(g, {}, d) /\ Traced(g, {}, Entry, d)
      /\ WellFormed(g, {}, d) /\ d.current = NoBlock
    BY DEF OverFrom, Searched, Consistent
<1>2. S = FoundBy({}, d)
    BY DEF OverFrom, FoundBy
<1>3. S \in SUBSET Block /\ NoBlock \notin S
    BY OverFacts
<1>4. PreOrder(d, S)
    <2>1. PICK q \in Seq(S) : q = d.pre_order
        BY <1>1, <1>2 DEF WellFormed
    <2>2. q # << >> /\ Range(q) = S /\ q[1] = Entry
        BY <1>1, <1>2, <2>1 DEF Recorded, Ordered, Traced, Root
    <2>3. \A i, j \in DOMAIN q : i < j => Begin(d, q[i]) < Begin(d, q[j])
        BY <1>1, <2>1 DEF Recorded, Ordered
    <2>4. Len(q) # 0 /\ Head(q) = Entry
        BY <2>2
    <2>5. QED
        BY <2>1, <2>2, <2>3, <2>4 DEF PreOrder
<1>5. Linked(d, S)
    <2>1. \A v \in S : Link(d, v) \in S \cup {NoBlock}
        BY OverFacts
    <2>2. \A v \in S : Link(d, v) \in S => Begin(d, Link(d, v)) < Begin(d, v)
        BY OverFacts
    <2>3. \A v \in S : Begin(d, v) \in Nat
        BY OverFacts
    <2>4. QED
        BY <2>1, <2>2, <2>3 DEF Linked, Begin
<1>6. ASSUME NEW v \in S PROVE Range(Ancestors(d, v)) = {u \in S : Above(d, u, v)}
    <2>1. \A u \in S : is_ancestor_of(d, v, u) <=> u \in Range(Ancestors(d, v))
        BY <1>1, <1>2, TimesTellAncestors
    <2>2. \A u \in S : is_ancestor_of(d, v, u) <=> Above(d, u, v)
        BY DEF is_ancestor_of, Above, Begin, End
    <2>3. Ancestors(d, v) \in PathsUp(d, S, v)
        BY <1>3, <1>5, ClimbEnds
    <2>4. Range(Ancestors(d, v)) \subseteq S
        BY <1>5, <2>3, ClimbedUp
    <2>5. QED
        BY <2>1, <2>2, <2>4
<1>7. QED
    BY <1>3, <1>4, <1>5, <1>6 DEF ClimbsTree

(* Lines 34-51: the tree that is built is the dominator tree.              *)
LEMMA DominatorTreeComputed ==
    ASSUME NEW g, FlowOf(g), NEW d, d = DFSOf(g, Entry, {})
    PROVE  /\ DOMAIN DominatorTreeOf(g, d).idom = Reachable(g) \ {Entry}
           /\ \A v \in Reachable(g) \ {Entry} : IsIDom(g, v, DominatorTreeOf(g, d).idom[v])
           /\ \A u, v \in Reachable(g) :
                  is_dominator_of(DominatorTreeOf(g, d), v, u) <=> u \in StrictDominators(g, v)
<1>1. g.succ \in [Block -> Seq(Block)]
    BY GraphFacts DEF FlowOf
<1>2. Entry \in Block /\ {} \in SUBSET (Block \ {Entry})
    BY FlowGraphAssumption DEF Entry, Block
<1>3. Searched(g, {}, Entry, DFSOf(g, Entry, {})) /\ DFSOf(g, Entry, {}).current = NoBlock
    BY <1>1, <1>2, SearchEnds
<1>4. PICK S : S = DOMAIN d.info
    OBVIOUS
<1>5. OverFrom(g, d, S)
    BY <1>3, <1>4 DEF OverFrom
<1>6. SearchTree(g, d, S) /\ PreOrder(d, S) /\ ClimbsTree(d, S) /\ S = Reachable(g)
    BY <1>5, OverIsSearchTree, OverIsListed, OverFacts
<1>7. PICK sdom \in [S \ {Entry} -> S] : sdom = SemiDominators(g, d) /\ SemiDominatorsAre(g, d, S, sdom)
    BY <1>6, SemiDominatorsComputed
<1>8. PICK tree : tree = DominatorTreeOf(g, d)
    OBVIOUS
<1>9. tree.idom = IDoms(d, sdom)
    BY <1>7, <1>8 DEF DominatorTreeOf
<1>10. IDomsAre(g, S, tree.idom)
    <2>1. /\ IDoms(d, sdom) \in [S \ {Entry} -> S]
          /\ \A w \in S \ {Entry} : IsIDom(g, w, IDoms(d, sdom)[w])
        BY <1>6, <1>7, IDomsComputed
    <2>2. IDomsAre(g, S, IDoms(d, sdom))
        BY <2>1 DEF IDomsAre
    <2>3. QED
        BY <1>9, <2>2
<1>11. \A v \in S : Range(IDomChain(tree, v)) = StrictDominators(g, v)
    BY <1>6, <1>10, DominatorsMet
<1>12. DOMAIN tree.idom = S \ {Entry} /\ \A v \in S \ {Entry} : IsIDom(g, v, tree.idom[v])
    BY <1>10 DEF IDomsAre
<1>13. QED
    BY <1>6, <1>8, <1>11, <1>12 DEF is_dominator_of

-------------------------------------------------------------------------------
(* Back edges, and the loop that each of them closes.                      *)

(* an edge that returns to a dominator, and the loop that it closes        *)
IsBackEdge(g, u, h) == u \in Reachable(g) /\ h \in Range(g.succ[u]) /\ Dominates(g, h, u)

LoopAround(g, latch, header) == {header} \cup Reach(ReverseGraph(g), latch, {header})

LEMMA RangeConcat ==
    ASSUME NEW T, NEW p \in Seq(T), NEW q \in Seq(T)
    PROVE  Range(p \o q) = Range(p) \cup Range(q)
<1>1. /\ DOMAIN p = 1 .. Len(p) /\ DOMAIN q = 1 .. Len(q) /\ Len(p) \in Nat /\ Len(q) \in Nat
      /\ DOMAIN (p \o q) = 1 .. Len(p) + Len(q)
      /\ \A i \in 1 .. Len(p) : (p \o q)[i] = p[i]
      /\ \A i \in 1 .. Len(q) : (p \o q)[Len(p) + i] = q[i]
    OBVIOUS
<1>2. PICK c : c = p \o q
    OBVIOUS
<1>3. \A i \in 1 .. Len(p) : i \in DOMAIN c
    BY <1>1, <1>2
<1>4. \A i \in 1 .. Len(q) : Len(p) + i \in DOMAIN c
    BY <1>1, <1>2
<1>5. \A i \in DOMAIN c : i \in 1 .. Len(p) \/ \E j \in 1 .. Len(q) : i = Len(p) + j
    <2> SUFFICES ASSUME NEW i \in DOMAIN c, i \notin 1 .. Len(p)
                 PROVE  i - Len(p) \in 1 .. Len(q) /\ i = Len(p) + (i - Len(p))
        OBVIOUS
    <2>1. QED
        BY <1>1, <1>2
<1>6. Range(c) \subseteq Range(p) \cup Range(q)
    <2> SUFFICES ASSUME NEW i \in DOMAIN c PROVE c[i] \in Range(p) \cup Range(q)
        BY DEF Range
    <2>1. CASE i \in 1 .. Len(p)
        BY <1>1, <1>2, <2>1 DEF Range
    <2>2. CASE \E j \in 1 .. Len(q) : i = Len(p) + j
        BY <1>1, <1>2, <2>2 DEF Range
    <2>3. QED
        BY <1>5, <2>1, <2>2
<1>7. Range(p) \subseteq Range(c)
    BY <1>1, <1>2, <1>3 DEF Range
<1>8. Range(q) \subseteq Range(c)
    BY <1>1, <1>2, <1>4 DEF Range
<1>9. QED
    BY <1>2, <1>6, <1>7, <1>8

LEMMA EdgesOf ==
    ASSUME NEW g, FlowOf(g)
    PROVE  /\ g.succ \in [Block -> Seq(Block)]
           /\ g.pred \in [Block -> Seq(Block)]
           /\ \A u, v \in Block : v \in Range(g.succ[u]) <=> u \in Range(g.pred[v])
           /\ ReverseGraph(g).succ = g.pred
           /\ Entry \in Block
           /\ Reachable(g) \in SUBSET Block
           /\ \A u \in Block : Range(g.succ[u]) \subseteq Block /\ Range(g.pred[u]) \subseteq Block
<1>1. PICK succ \in [Block -> Paths] : g = GraphOf(succ)
    BY DEF FlowOf
<1>2. /\ GraphOf(succ).succ = succ
      /\ succ \in [Block -> Seq(Block)]
      /\ GraphOf(succ).pred \in [Block -> Seq(Block)]
      /\ \A v \in Block : Range(GraphOf(succ).pred[v]) = {u \in Block : v \in Range(succ[u])}
    BY GraphFacts
<1>3. g.succ \in [Block -> Seq(Block)] /\ g.pred \in [Block -> Seq(Block)]
    BY <1>1, <1>2
<1>4. \A u \in Block : Range(g.succ[u]) \subseteq Block /\ Range(g.pred[u]) \subseteq Block
    BY <1>3 DEF Range
<1>5. \A u, v \in Block : v \in Range(g.succ[u]) <=> u \in Range(g.pred[v])
    BY <1>1, <1>2
<1>6. Entry \in Block
    BY FlowGraphAssumption DEF Entry, Block
<1>7. Reachable(g) \in SUBSET Block
    BY <1>6, ReachIsLeast DEF Reachable
<1>8. QED
    BY <1>3, <1>4, <1>5, <1>6, <1>7 DEF ReverseGraph

(* The call for the source returns last.                                   *)
LEMMA SourceReturnsLast ==
    ASSUME NEW g, NEW vis, NEW s, NEW d, Searched(g, vis, s, d), d.current = NoBlock,
           NEW v \in FoundBy(vis, d), v # s
    PROVE  s \in FoundBy(vis, d) /\ End(d, v) < End(d, s)
<1> DEFINE S == FoundBy(vis, d)
           b(x) == Begin(d, x)
           e(x) == End(d, x)
           out == {x \in S : x # s /\ ~(e(x) < e(s))}
<1>1. /\ Consistent(g, vis, d) /\ Recorded(g, vis, d) /\ Traced(g, vis, s, d)
      /\ WellFormed(g, vis, d)
    BY DEF Searched, Consistent
<1>2. s \in S /\ \A x \in S : e(x) # 0
    BY <1>1, AllFound DEF Traced
<1>3. \A x \in S : b(x) \in Nat /\ e(x) \in Nat /\ Link(d, x) \in S \cup {NoBlock}
    BY <1>1, TimeFacts DEF Link
<1>4. \A x \in S : Link(d, x) = NoBlock <=> x = s
    BY <1>1 DEF Traced
<1>5. \A p, x \in S : p = Link(d, x) => b(p) < b(x) /\ e(x) < e(p)
    BY <1>1, <1>2 DEF Recorded, Called, Running, Link
<1>6. ASSUME v \in out PROVE FALSE
    <2>1. PICK x \in out : \A y \in out : b(x) <= b(y)
        <3>1. out # {} /\ \A y \in out : b(y) \in Nat
            BY <1>3, <1>6
        <3> HIDE DEF out
        <3>2. QED
            BY <3>1, SmallestBegin
    <2> HIDE DEF b, e, S
    <2>2. x \in S /\ x # s
        BY <2>1
    <2>3. PICK p \in S : p = Link(d, x) /\ b(p) < b(x) /\ e(x) < e(p)
        BY <1>3, <1>4, <1>5, <2>2
    <2>4. ~(b(x) <= b(p))
        BY <1>3, <2>2, <2>3
    <2>5. p = s \/ e(p) < e(s)
        BY <2>1, <2>3, <2>4
    <2>6. e(x) < e(s)
        BY <1>2, <1>3, <2>2, <2>3, <2>5
    <2>7. QED
        BY <2>1, <2>6
<1>7. QED
    BY <1>2, <1>6

(* The post-order lists what was found, each once, the source last.        *)
LEMMA PostOrderLists ==
    ASSUME NEW g, g.succ \in [Block -> Seq(Block)], NEW s \in Block,
           NEW vis \in SUBSET (Block \ {s}), NEW q, q = DFSOf(g, s, vis).post_order
    PROVE  /\ q \in Seq(Block)
           /\ Len(q) \in Nat \ {0}
           /\ Range(q) = Reach(g, s, vis)
           /\ IsInjective(q)
           /\ q[Len(q)] = s
<1>1. PICK d : d = DFSOf(g, s, vis)
    OBVIOUS
<1>2. Searched(g, vis, s, d) /\ d.current = NoBlock
    BY <1>1, SearchEnds
<1>3. /\ Consistent(g, vis, d) /\ Recorded(g, vis, d) /\ Traced(g, vis, s, d)
      /\ WellFormed(g, vis, d)
    BY <1>2 DEF Searched, Consistent
<1>4. PICK S : S = FoundBy(vis, d)
    OBVIOUS
<1>5. q = d.post_order
    BY <1>1
<1>6. /\ S \subseteq Block /\ q \in Seq(S)
      /\ \A v \in S : End(d, v) \in Nat
    BY <1>3, <1>4, <1>5, TimeFacts DEF WellFormed
<1>7. q \in Seq(Block) /\ DOMAIN q = 1 .. Len(q) /\ Len(q) \in Nat /\ \A i \in DOMAIN q : q[i] \in S
    BY <1>6
<1>8. S = Reach(g, s, vis) /\ Range(q) = S /\ s \in S
    BY <1>2, <1>3, <1>4, <1>5, AllFound DEF Traced
<1>9. \A i, j \in DOMAIN q : i < j => End(d, q[i]) < End(d, q[j])
    BY <1>3, <1>5 DEF Recorded, Ordered
<1>10. IsInjective(q)
    <2> SUFFICES ASSUME NEW i \in DOMAIN q, NEW j \in DOMAIN q, q[i] = q[j] PROVE i = j
        BY DEF IsInjective
    <2>1. End(d, q[i]) \in Nat /\ i \in Nat /\ j \in Nat
        <3>1. q[i] \in S
            BY <1>7
        <3>2. End(d, q[i]) \in Nat
            BY <1>6, <3>1
        <3>3. i \in 1 .. Len(q) /\ j \in 1 .. Len(q)
            BY <1>7
        <3>4. QED
            BY <3>2, <3>3
    <2>2. ~(i < j) /\ ~(j < i)
        BY <1>9, <2>1
    <2>3. QED
        BY <2>1, <2>2
<1>11. PICK i \in DOMAIN q : q[i] = s
    BY <1>8 DEF Range
<1>12. i = Len(q)
    <2> SUFFICES ASSUME i # Len(q) PROVE FALSE
        OBVIOUS
    <2>1. Len(q) \in DOMAIN q /\ i < Len(q)
        BY <1>7, <1>11
    <2>2. End(d, s) < End(d, q[Len(q)]) /\ q[Len(q)] \in S
        BY <1>7, <1>9, <1>11, <2>1
    <2>3. q[Len(q)] # s
        BY <1>6, <1>8, <2>2
    <2>4. End(d, q[Len(q)]) < End(d, s)
        BY <1>2, <1>4, <2>2, <2>3, SourceReturnsLast
    <2>5. QED
        BY <1>6, <1>8, <2>2, <2>4
<1>13. QED
    BY <1>7, <1>8, <1>10, <1>11, <1>12

(* Lines 33-34: the reverse search from the latch.                         *)
LEMMA LoopBodyIs ==
    ASSUME NEW g, FlowOf(g), NEW latch \in Block, NEW header \in Block,
           NEW body, body = LoopBody(g, latch, header)
    PROVE  /\ body \in Seq(Block)
           /\ Range(body) = Reach(ReverseGraph(g), latch, {header})
           /\ IsInjective(body)
           /\ latch # header => Len(body) # 0 /\ body[Len(body)] = latch
           /\ latch = header => body = << >>
<1>1. CASE latch = header
    <2>1. body = << >>
        BY <1>1 DEF LoopBody
    <2>2. Range(body) = {} /\ body \in Seq(Block) /\ IsInjective(body)
        BY <2>1 DEF Range, IsInjective
    <2>3. {latch} \ {header} \subseteq {} /\ Closed(ReverseGraph(g), {header}, {})
        BY <1>1 DEF Closed
    <2>4. Reach(ReverseGraph(g), latch, {header}) \subseteq {}
        BY <2>3, ReachIsLeast
    <2>5. QED
        BY <1>1, <2>1, <2>2, <2>4
<1>2. CASE latch # header
    <2>1. body = DFSOf(ReverseGraph(g), latch, {header}).post_order
        BY <1>2 DEF LoopBody
    <2>2. ReverseGraph(g).succ \in [Block -> Seq(Block)]
        BY EdgesOf
    <2>3. {header} \in SUBSET (Block \ {latch})
        BY <1>2
    <2>4. /\ body \in Seq(Block) /\ Len(body) \in Nat \ {0}
          /\ Range(body) = Reach(ReverseGraph(g), latch, {header})
          /\ IsInjective(body) /\ body[Len(body)] = latch
        BY <2>1, <2>2, <2>3, PostOrderLists
    <2>5. QED
        BY <1>2, <2>4
<1>3. QED
    BY <1>1, <1>2

(* The header of a loop dominates the loop.                                *)
LEMMA HeaderDominates ==
    ASSUME NEW g, FlowOf(g), NEW latch, NEW header, IsBackEdge(g, latch, header),
           NEW v \in LoopAround(g, latch, header)
    PROVE  Dominates(g, header, v)
<1>1. latch \in Block /\ header \in Block
    BY EdgesOf DEF IsBackEdge
<1> DEFINE A == Around(g, header)
           set == Block \ (A \cup {header})
<1>2. /\ A \subseteq Block \ {header}
      /\ \A x \in A : \A y \in Range(g.succ[x]) : y \in Block \ {header} => y \in A
    <2>1. Entry \in Block
        BY EdgesOf
    <2>2. A \in SUBSET (Block \ {header}) /\ Closed(g, {header}, A)
        BY <2>1, ReachIsLeast DEF Around
    <2>3. QED
        BY <2>2 DEF Closed
<1>3. Closed(ReverseGraph(g), {header}, set)
    <2> SUFFICES ASSUME NEW x \in set, NEW w \in Range(g.pred[x]), w \in Block \ {header}
                 PROVE  w \notin A
        BY EdgesOf DEF Closed
    <2>1. x \in Range(g.succ[w])
        BY EdgesOf
    <2>2. QED
        BY <1>2, <2>1
<1>4. {latch} \ {header} \subseteq set
    BY <1>1 DEF IsBackEdge, Dominates, Around
<1>5. Reach(ReverseGraph(g), latch, {header}) \subseteq set
    <2> HIDE DEF set
    <2>1. QED
        BY <1>1, <1>3, <1>4, ReachIsLeast
<1>6. v \notin A
    BY <1>2, <1>5 DEF LoopAround
<1>7. QED
    BY <1>6 DEF Dominates, Around

-------------------------------------------------------------------------------
(* compute_back_edges lists the back edges, each once.                     *)

(* is_dominator_of meets the strict dominators                             *)
TellsDominators(g, tree) ==
    \A u, v \in Reachable(g) : is_dominator_of(tree, v, u) <=> u \in StrictDominators(g, v)

(* the back edges as compute_back_edges lists them                         *)
EdgeRecords(g) ==
    {e \in [latch : Reachable(g), header : Reachable(g)] : IsBackEdge(g, e.latch, e.header)}

LEMMA BackEdgesFromAre ==
    ASSUME NEW g, FlowOf(g), NEW tree, TellsDominators(g, tree), NEW latch \in Reachable(g),
           NEW edges, edges = BackEdgesFrom(g, tree, latch)
    PROVE  /\ edges \in Seq(EdgeRecords(g))
           /\ Range(edges) = {e \in EdgeRecords(g) : e.latch = latch}
           /\ Len(edges) <= 2
<1> DEFINE to == {h \in Range(g.succ[latch]) : h = latch \/ is_dominator_of(tree, latch, h)}
<1>1. latch \in Block /\ g.succ[latch] \in Seq(Block)
    BY EdgesOf
<1>2. \A h \in Range(g.succ[latch]) : h \in Reachable(g)
    <2>1. Entry \in Block
        BY EdgesOf
    <2>2. Closed(g, {}, Reachable(g))
        BY <2>1, ReachIsLeast DEF Reachable
    <2>3. Range(g.succ[latch]) \subseteq Block
        BY <1>1, EdgesOf
    <2>4. QED
        BY <2>2, <2>3 DEF Closed
<1>3. \A h : h \in to <=> IsBackEdge(g, latch, h)
    <2>1. latch \notin Reach(g, Entry, {latch})
        <3>1. Entry \in Block
            BY EdgesOf
        <3>2. QED
            BY <3>1, ReachIsLeast
    <2>2. ASSUME NEW h \in Range(g.succ[latch])
          PROVE  h \in to <=> Dominates(g, h, latch)
        <3>1. CASE h = latch
            BY <2>1, <3>1 DEF Dominates
        <3>2. CASE h # latch
            BY <1>2, <3>2 DEF TellsDominators, StrictDominators
        <3>3. QED
            BY <3>1, <3>2
    <2>3. QED
        BY <2>2 DEF IsBackEdge
<1>4. PICK headers : headers = Filtered(g.succ[latch], to)
    OBVIOUS
<1>5. /\ headers \in Seq(Block)
      /\ Range(headers) = Range(g.succ[latch]) \cap to
      /\ Len(headers) <= Len(g.succ[latch])
    BY <1>1, <1>4, FilteredIs
<1>6. Range(headers) = to /\ to \subseteq Reachable(g)
    BY <1>2, <1>5
<1>7. edges = [j \in DOMAIN headers |-> [latch |-> latch, header |-> headers[j]]]
    BY <1>4 DEF BackEdgesFrom
<1> HIDE DEF to
<1>8. \A h \in to : [latch |-> latch, header |-> h] \in EdgeRecords(g)
    BY <1>3, <1>6 DEF EdgeRecords
<1>9. DOMAIN headers = 1 .. Len(headers) /\ Len(headers) \in Nat /\ \A j \in DOMAIN headers : headers[j] \in to
    BY <1>5, <1>6 DEF Range
<1>10. edges \in Seq(EdgeRecords(g))
    BY <1>7, <1>8, <1>9
<1>11. Range(edges) \subseteq {e \in EdgeRecords(g) : e.latch = latch}
    <2> SUFFICES ASSUME NEW j \in DOMAIN edges
                 PROVE  edges[j] \in EdgeRecords(g) /\ edges[j].latch = latch
        BY DEF Range
    <2>1. QED
        BY <1>7, <1>8, <1>9
<1>12. ASSUME NEW e \in EdgeRecords(g), e.latch = latch PROVE e \in Range(edges)
    <2>1. e.header \in to
        BY <1>3, <1>12 DEF EdgeRecords
    <2>2. PICK j \in DOMAIN headers : headers[j] = e.header
        BY <1>6, <2>1 DEF Range
    <2>3. e = [latch |-> latch, header |-> e.header]
        BY <1>12 DEF EdgeRecords
    <2>4. e = edges[j] /\ j \in DOMAIN edges
        BY <1>7, <2>2, <2>3
    <2>5. QED
        BY <2>4 DEF Range
<1>13. Len(edges) <= 2
    <2>1. PICK succ \in [Block -> Paths] : g = GraphOf(succ)
        BY DEF FlowOf
    <2>2. g.succ[latch] \in Paths
        BY <1>1, <2>1 DEF GraphOf
    <2> DEFINE path == g.succ[latch]
    <2>3. PICK n \in 0 .. 2 : path \in [1 .. n -> Block]
        BY <2>2 DEF Paths
    <2>4. path \in Seq(Block) /\ DOMAIN path = 1 .. n
        BY <2>3
    <2> HIDE DEF path
    <2>5. Len(path) = n
        BY <2>3, <2>4
    <2>6. Len(g.succ[latch]) <= 2
        BY <2>3, <2>5 DEF path
    <2>7. Len(edges) = Len(headers) /\ Len(g.succ[latch]) \in Nat
        BY <1>1, <1>7, <1>9
    <2>8. QED
        BY <1>5, <1>9, <2>6, <2>7
<1>14. QED
    BY <1>10, <1>11, <1>12, <1>13

EdgeSteps(a, g, d, tree, N) ==
    /\ a[0] = << >>
    /\ a[N] = BackEdges(g, d, tree)
    /\ \A k \in 1 .. N : a[k] = a[k - 1] \o BackEdgesFrom(g, tree, d.pre_order[k])

LEMMA BackEdgesUnfold ==
    ASSUME NEW g, FlowOf(g), NEW tree, TellsDominators(g, tree), NEW d,
           d.pre_order \in Seq(Reachable(g))
    PROVE  \E a \in [0 .. Len(d.pre_order) -> Seq(EdgeRecords(g))] :
               EdgeSteps(a, g, d, tree, Len(d.pre_order))
<1>1. PICK list \in Seq(Reachable(g)) : list = d.pre_order
    OBVIOUS
<1> DEFINE N == Len(list)
           X == Seq(EdgeRecords(g))
           base == << >>
           More(k) == BackEdgesFrom(g, tree, list[k])
           Op == [p \in X \X (1 .. N) |-> p[1] \o More(p[2])]
<1>2. N \in Nat /\ DOMAIN list = 1 .. N /\ \A k \in 1 .. N : list[k] \in Reachable(g)
    OBVIOUS
<1>3. \A k \in 1 .. N : More(k) \in X
    BY <1>2, BackEdgesFromAre
<1> HIDE DEF More
<1>4. Op \in [X \X (1 .. N) -> X] /\ base \in X
    <2>1. \A x \in X, k \in 1 .. N : x \o More(k) \in X
        BY <1>3
    <2>2. base \in X
        OBVIOUS
    <2> HIDE DEF X
    <2>3. QED
        BY <2>1, <2>2
<1>5. \A x \in X, k \in 1 .. N : Op[<<x, k>>] = x \o More(k)
    OBVIOUS
<1>6. PICK it \in [SUBSET (1 .. N) -> X] : FoldsBy(it, N, base, Op)
    <2> HIDE DEF Op, X, base, N
    <2>1. QED
        BY <1>2, <1>4, FoldExists
<1>7. it = [t \in SUBSET (1 .. N) |->
               IF t = {} THEN base ELSE it[t \ {Max(t)}] \o More(Max(t))]
    <2>1. ASSUME NEW t \in SUBSET (1 .. N)
          PROVE  it[t] = IF t = {} THEN base ELSE it[t \ {Max(t)}] \o More(Max(t))
        <3>1. CASE t = {}
            BY <1>6, <3>1 DEF FoldsBy
        <3>2. CASE t # {}
            <4> HIDE DEF N
            <4>1. Max(t) \in 1 .. N
                BY <1>2, <3>2, LargestNat
            <4>2. it[t \ {Max(t)}] \in X
                BY <1>6
            <4> HIDE DEF Op, X, base
            <4>3. it[t] = Op[<<it[t \ {Max(t)}], Max(t)>>]
                BY <1>6, <3>2 DEF FoldsBy
            <4>4. QED
                BY <1>5, <3>2, <4>1, <4>2, <4>3
        <3>3. QED
            BY <3>1, <3>2
    <2>2. QED
        BY <2>1
<1> DEFINE fold == CHOOSE f : f = [t \in SUBSET (1 .. N) |->
                       IF t = {} THEN base ELSE f[t \ {Max(t)}] \o More(Max(t))]
<1>8. fold = [t \in SUBSET (1 .. N) |->
                 IF t = {} THEN base ELSE fold[t \ {Max(t)}] \o More(Max(t))]
    BY <1>7
<1>9. BackEdges(g, d, tree) = fold[1 .. N]
    BY <1>1, <1>2 DEF BackEdges, FoldLeft, MapThenFoldSet, More
<1>10. /\ fold[{}] = base
       /\ \A t \in SUBSET (1 .. N) : t # {} => fold[t] = fold[t \ {Max(t)}] \o More(Max(t))
    <2> HIDE DEF fold, base, N
    <2>1. {} \in SUBSET (1 .. N)
        OBVIOUS
    <2>2. QED
        BY <1>8, <2>1
<1>11. \A k \in 1 .. N : fold[1 .. k - 1] \in X => fold[1 .. k] = Op[<<fold[1 .. k - 1], k>>]
    <2> SUFFICES ASSUME NEW k \in 1 .. N, fold[1 .. k - 1] \in X
                 PROVE  fold[1 .. k] = fold[1 .. k - 1] \o More(k)
        BY <1>5
    <2>1. k \in Nat \ {0} /\ k <= N /\ 1 .. k \in SUBSET (1 .. N) /\ k \in 1 .. k
        BY <1>2
    <2>2. Max(1 .. k) = k /\ (1 .. k) \ {k} = 1 .. k - 1
        BY <2>1, GreatestOfInterval
    <2> HIDE DEF fold
    <2>3. QED
        BY <1>10, <2>1, <2>2
<1> HIDE DEF fold, Op, X, base, N
<1>12. PICK a \in [0 .. N -> X] : PartialResults(a, N, base, Op, fold[1 .. N])
    <2>1. FoldsPrefixesBy(fold, N, X, base, Op)
        BY <1>10, <1>11 DEF FoldsPrefixesBy
    <2>2. QED
        BY <1>2, <1>4, <2>1, FoldValues
<1>13. \A k \in 1 .. N : a[k] = a[k - 1] \o More(k)
    <2> SUFFICES ASSUME NEW k \in 1 .. N
                 PROVE  a[k] = a[k - 1] \o More(k)
        OBVIOUS
    <2>1. k - 1 \in 0 .. N
        BY <1>2
    <2>2. a[k - 1] \in X /\ a[k] = Op[<<a[k - 1], k>>]
        BY <1>12, <2>1 DEF PartialResults
    <2>3. QED
        BY <1>5, <2>2
<1>14. EdgeSteps(a, g, d, tree, N)
    BY <1>1, <1>9, <1>12, <1>13 DEF base, More, PartialResults, EdgeSteps
<1>15. QED
    BY <1>1, <1>12, <1>14 DEF X, N

(* Lines 66-77: all back edges, in the order in which their latches were   *)
(* discovered.                                                             *)
LEMMA BackEdgesAre ==
    ASSUME NEW g, FlowOf(g), NEW tree, TellsDominators(g, tree), NEW d,
           SearchTree(g, d, Reachable(g)), PreOrder(d, Reachable(g)),
           NEW edges, edges = BackEdges(g, d, tree)
    PROVE  /\ edges \in Seq(EdgeRecords(g))
           /\ Range(edges) = EdgeRecords(g)
           /\ \A i, j \in DOMAIN edges :
                  /\ i < j => Begin(d, edges[i].latch) <= Begin(d, edges[j].latch)
                  /\ i < j /\ edges[i] = edges[j] => j = i + 1
<1>1. PICK S : S = Reachable(g)
    OBVIOUS
<1>2. PICK list \in Seq(S) : list = d.pre_order
    BY <1>1 DEF PreOrder
<1> DEFINE N == Len(list)
           R == EdgeRecords(g)
<1>3. N \in Nat /\ DOMAIN list = 1 .. N /\ \A k \in 1 .. N : list[k] \in S
    OBVIOUS
<1>4. Range(list) = S /\ \A i, j \in 1 .. N : i < j => Begin(d, list[i]) < Begin(d, list[j])
    BY <1>1, <1>2, <1>3 DEF PreOrder
<1>13. \A v \in S : Begin(d, v) \in Nat
    BY <1>1 DEF SearchTree, TreeTimes
<1>5. PICK a \in [0 .. N -> Seq(R)] : EdgeSteps(a, g, d, tree, N)
    BY <1>1, <1>2, BackEdgesUnfold
<1> HIDE DEF R, N
<1> DEFINE A == {k \in 0 .. N :
                    /\ \A e \in R : e \in Range(a[k]) <=> \E i \in 1 .. k : e.latch = list[i]
                    /\ \A i, j \in DOMAIN a[k] :
                           /\ i < j => Begin(d, a[k][i].latch) <= Begin(d, a[k][j].latch)
                           /\ i < j /\ a[k][i] = a[k][j] => j = i + 1}
<1>6. 0 \in A
    <2>1. a[0] = << >>
        BY <1>5 DEF EdgeSteps
    <2>2. Range(a[0]) = {} /\ 1 .. 0 = {} /\ DOMAIN a[0] = {}
        BY <2>1 DEF Range
    <2>3. QED
        BY <1>3, <2>2
<1>7. ASSUME NEW k \in 1 .. N, k - 1 \in A PROVE k \in A
    <2>1. k - 1 \in 0 .. N /\ k \in 0 .. N
        BY <1>3
    <2>2. PICK b \in Seq(R) : b = a[k - 1]
        BY <2>1, <1>5
    <2>3. PICK more : more = BackEdgesFrom(g, tree, list[k])
        OBVIOUS
    <2>4. more \in Seq(R) /\ Range(more) = {e \in R : e.latch = list[k]} /\ Len(more) <= 2
        BY <1>1, <1>3, <2>3, BackEdgesFromAre DEF R
    <2>5. a[k] = b \o more
        BY <1>2, <1>5, <2>2, <2>3 DEF EdgeSteps
    <2>6. /\ \A e \in R : e \in Range(b) <=> \E i \in 1 .. k - 1 : e.latch = list[i]
          /\ \A i, j \in DOMAIN b :
                 /\ i < j => Begin(d, b[i].latch) <= Begin(d, b[j].latch)
                 /\ i < j /\ b[i] = b[j] => j = i + 1
        BY <1>7, <2>2
    <2>7. PICK c \in Seq(R) : c = b \o more
        <3>1. b \o more \in Seq(R)
            BY <2>2, <2>4
        <3>2. QED
            BY <3>1
    <2>8. /\ DOMAIN b = 1 .. Len(b) /\ DOMAIN more = 1 .. Len(more)
          /\ Len(b) \in Nat /\ Len(more) \in Nat
          /\ DOMAIN c = 1 .. Len(b) + Len(more)
          /\ \A i \in DOMAIN c : i <= Len(b) => i \in DOMAIN b /\ c[i] = b[i]
          /\ \A i \in DOMAIN c : i > Len(b) => i - Len(b) \in DOMAIN more /\ c[i] = more[i - Len(b)]
        BY <2>4, <2>7
    <2>9. Range(c) = Range(b) \cup Range(more)
        BY <2>4, <2>7, RangeConcat
    <2>10. \A e \in R : e \in Range(c) <=> \E i \in 1 .. k : e.latch = list[i]
        <3>1. 1 .. k = (1 .. k - 1) \cup {k}
            BY <1>3
        <3>2. QED
            BY <2>4, <2>6, <2>9, <3>1
    <2>11. ASSUME NEW i \in DOMAIN c, NEW j \in DOMAIN c, i < j
           PROVE  /\ Begin(d, c[i].latch) <= Begin(d, c[j].latch)
                  /\ c[i] = c[j] => j = i + 1
        <3>1. CASE j <= Len(b)
            <4>1. i <= Len(b)
                BY <2>8, <2>11, <3>1
            <4>2. QED
                BY <2>6, <2>8, <2>11, <3>1, <4>1
        <3>2. CASE i > Len(b)
            <4>1. j > Len(b)
                BY <2>8, <2>11, <3>2
            <4>2. c[i] \in Range(more) /\ c[j] \in Range(more)
                BY <2>8, <3>2, <4>1 DEF Range
            <4>3. c[i].latch = list[k] /\ c[j].latch = list[k]
                BY <2>4, <4>2
            <4>4. Begin(d, list[k]) <= Begin(d, list[k])
                BY <1>3, <1>13
            <4>5. j = i + 1
                BY <2>4, <2>8, <2>11, <3>2
            <4>6. QED
                BY <4>3, <4>4, <4>5
        <3>3. CASE i <= Len(b) /\ j > Len(b)
            <4>1. c[i] \in Range(b) /\ c[i] \in R
                BY <2>8, <3>3 DEF Range
            <4>2. c[j] \in Range(more)
                BY <2>8, <3>3 DEF Range
            <4>3. PICK m \in 1 .. k - 1 : c[i].latch = list[m]
                BY <2>6, <4>1
            <4>4. c[j].latch = list[k]
                BY <2>4, <4>2
            <4>5. m < k /\ m \in 1 .. N /\ k \in 1 .. N
                BY <1>3
            <4>6. Begin(d, list[m]) < Begin(d, list[k])
                BY <1>4, <4>5
            <4>7. QED
                BY <1>3, <1>13, <4>3, <4>4, <4>5, <4>6
        <3>4. QED
            BY <2>8, <3>1, <3>2, <3>3
    <2>12. QED
        BY <2>1, <2>5, <2>7, <2>10, <2>11
<1>8. N \in A
    <2> HIDE DEF A
    <2>1. 0 .. N \subseteq A
        BY <1>3, <1>6, <1>7, UpTo
    <2>2. QED
        BY <1>3, <2>1
<1>9. edges = a[N] /\ edges \in Seq(R)
    BY <1>3, <1>5 DEF EdgeSteps
<1>10. \A e \in R : \E i \in 1 .. N : e.latch = list[i]
    <2>1. \A e \in R : e.latch \in S
        BY <1>1 DEF R, EdgeRecords
    <2>2. QED
        BY <1>3, <1>4, <2>1 DEF Range
<1>11. Range(edges) \subseteq R
    BY <1>9 DEF Range
<1>12. QED
    BY <1>8, <1>9, <1>10, <1>11 DEF R

-------------------------------------------------------------------------------
(* The table of loops that LoopTree makes of the back edges.               *)

(* The tables of the loop of lines 29-47, one for every number of turns.   *)
LoopSteps(a, g, edges, loops) ==
    /\ a[0] = << >>
    /\ a[Len(edges)] = loops
    /\ \A k \in 1 .. Len(edges) : a[k] = AddedLoop(g, a[k - 1], edges[k])

LEMMA LoopsUnfold ==
    ASSUME NEW g, NEW d, NEW tree, NEW E, NEW edges \in Seq(E), edges = BackEdges(g, d, tree)
    PROVE  \E a : LoopSteps(a, g, edges, LoopTreeOf(g, d, tree))
<1> DEFINE N == Len(edges)
           base == << >>
           Turn(x, k) == AddedLoop(g, x, edges[k])
           Solves(it, n) ==
               \A s \in SUBSET (1 .. n) :
                   it[s] = IF s = {} THEN base ELSE Turn(it[s \ {Max(s)}], Max(s))
           Solvable(n) == \E it : it = [s \in SUBSET (1 .. n) |-> it[s]] /\ Solves(it, n)
           T == {n \in 0 .. N : Solvable(n)}
<1>1. N \in Nat /\ DOMAIN edges = 1 .. N
    OBVIOUS
<1> HIDE DEF Turn, base, N, Solvable
<1>2. 0 \in T
    <2> DEFINE it == [s \in SUBSET (1 .. 0) |-> base]
    <2>1. 1 .. 0 = {} /\ SUBSET (1 .. 0) = {{}}
        OBVIOUS
    <2>2. it = [s \in SUBSET (1 .. 0) |-> it[s]] /\ Solves(it, 0)
        BY <2>1
    <2> HIDE DEF it
    <2>3. Solvable(0)
        BY <2>2 DEF Solvable
    <2>4. QED
        BY <1>1, <2>3
<1>3. ASSUME NEW m \in 1 .. N, m - 1 \in T
      PROVE  m \in T
    <2>1. PICK it : it = [s \in SUBSET (1 .. m - 1) |-> it[s]] /\ Solves(it, m - 1)
        BY <1>3 DEF Solvable
    <2> DEFINE more == [s \in SUBSET (1 .. m) |-> IF m \in s THEN Turn(it[s \ {m}], m) ELSE it[s]]
    <2>2. m \in Nat /\ m \in 1 .. m /\ \A y \in 1 .. m : m >= y /\ (y # m => y \in 1 .. m - 1)
        BY <1>1
    <2>3. ASSUME NEW s \in SUBSET (1 .. m), m \in s
          PROVE  Max(s) = m /\ s \ {m} \in SUBSET (1 .. m - 1)
        <3>1. \A x \in s : (\A y \in s : x >= y) => x = m
            BY <2>2, <2>3
        <3>2. Max(s) = m
            BY <2>2, <2>3, <3>1 DEF Max
        <3>3. QED
            BY <2>2, <3>2
    <2>4. \A s \in SUBSET (1 .. m) : m \notin s => s \in SUBSET (1 .. m - 1)
        BY <2>2
    <2>5. \A s \in SUBSET (1 .. m) : s \ {Max(s)} \in SUBSET (1 .. m)
        OBVIOUS
    <2>6. ASSUME NEW s \in SUBSET (1 .. m)
          PROVE  more[s] = IF s = {} THEN base ELSE Turn(more[s \ {Max(s)}], Max(s))
        <3>1. CASE m \in s
            <4>1. Max(s) = m /\ s \ {m} \in SUBSET (1 .. m) /\ m \notin s \ {m} /\ s # {}
                BY <2>3, <3>1
            <4>2. more[s \ {m}] = it[s \ {m}]
                BY <4>1
            <4>3. more[s] = Turn(it[s \ {m}], m)
                BY <3>1
            <4>4. QED
                BY <4>1, <4>2, <4>3
        <3>2. CASE m \notin s
            <4>1. s \in SUBSET (1 .. m - 1) /\ more[s] = it[s]
                BY <2>4, <3>2
            <4>2. s \ {Max(s)} \in SUBSET (1 .. m) /\ m \notin s \ {Max(s)}
                BY <2>5, <3>2
            <4>3. more[s \ {Max(s)}] = it[s \ {Max(s)}]
                BY <4>2
            <4>4. QED
                BY <2>1, <4>1, <4>3
        <3>3. QED
            BY <3>1, <3>2
    <2>7. more = [s \in SUBSET (1 .. m) |-> more[s]]
        OBVIOUS
    <2> HIDE DEF more
    <2>8. Solvable(m)
        BY <2>6, <2>7 DEF Solvable
    <2>9. QED
        BY <1>1, <2>8
<1>4. N \in T
    <2> HIDE DEF T
    <2>1. 0 .. N \subseteq T
        BY <1>1, <1>2, <1>3, UpTo
    <2>2. QED
        BY <1>1, <2>1
<1> DEFINE fold == CHOOSE f : f = [s \in SUBSET (1 .. N) |->
                       IF s = {} THEN base ELSE Turn(f[s \ {Max(s)}], Max(s))]
<1>5. fold = [s \in SUBSET (1 .. N) |->
                 IF s = {} THEN base ELSE Turn(fold[s \ {Max(s)}], Max(s))]
    <2>1. PICK it : it = [s \in SUBSET (1 .. N) |-> it[s]] /\ Solves(it, N)
        BY <1>4 DEF Solvable
    <2>2. it = [s \in SUBSET (1 .. N) |-> IF s = {} THEN base ELSE Turn(it[s \ {Max(s)}], Max(s))]
        BY <2>1
    <2>3. QED
        BY <2>2
<1>6. LoopTreeOf(g, d, tree) = fold[1 .. N]
    BY <1>1 DEF LoopTreeOf, FoldLeft, MapThenFoldSet, Turn, base
<1>7. /\ fold[{}] = base
      /\ \A s \in SUBSET (1 .. N) : s # {} => fold[s] = Turn(fold[s \ {Max(s)}], Max(s))
    <2> HIDE DEF fold
    <2>1. {} \in SUBSET (1 .. N)
        OBVIOUS
    <2>2. QED
        BY <1>5, <2>1
<1> HIDE DEF fold
<1> DEFINE a == [k \in 0 .. N |-> fold[1 .. k]]
<1>8. a[0] = base
    <2>1. 1 .. 0 = {} /\ 0 \in 0 .. N
        BY <1>1
    <2>2. QED
        BY <1>7, <2>1
<1>9. ASSUME NEW k \in 1 .. N
      PROVE  a[k] = Turn(a[k - 1], k)
    <2>1. k \in Nat \ {0} /\ k <= N /\ 1 .. k \in SUBSET (1 .. N) /\ k \in 1 .. k
          /\ k \in 0 .. N /\ k - 1 \in 0 .. N
        BY <1>1
    <2>2. Max(1 .. k) = k /\ (1 .. k) \ {k} = 1 .. k - 1
        BY <2>1, GreatestOfInterval
    <2>3. fold[1 .. k] = Turn(fold[1 .. k - 1], k)
        BY <1>7, <2>1, <2>2
    <2>4. QED
        BY <2>1, <2>3
<1>10. a[N] = LoopTreeOf(g, d, tree)
    BY <1>1, <1>6
<1> HIDE DEF a
<1>11. LoopSteps(a, g, edges, LoopTreeOf(g, d, tree))
    BY <1>8, <1>9, <1>10 DEF LoopSteps, Turn, base, N
<1>12. QED
    BY <1>11

(* One turn, by what it does to the table.                                 *)
TurnDone(loops, next, header, body) ==
    /\ header \notin DOMAIN loops \ Range(body) =>
           /\ DOMAIN next = (DOMAIN loops \ Range(body)) \cup {header}
           /\ next[header].vertices = <<header>> \o body
    /\ header \in DOMAIN loops \ Range(body) => DOMAIN next = DOMAIN loops \ Range(body)
    /\ \A h \in DOMAIN loops \ Range(body) : next[h] = loops[h]

LEMMA AddedLoopIs ==
    ASSUME NEW g, NEW loops, NEW edge, NEW body, body = LoopBody(g, edge.latch, edge.header),
           NEW next, next = AddedLoop(g, loops, edge)
    PROVE  TurnDone(loops, next, edge.header, body)
<1> DEFINE inner == Range(body) \cap DOMAIN loops
           loop == [vertices |-> <<edge.header>> \o body, inner_loops |-> Restrict(loops, inner)]
           outer == Restrict(loops, DOMAIN loops \ inner)
<1>1. next = IF edge.header \in DOMAIN outer THEN outer ELSE Stored(outer, edge.header, loop)
    BY DEF AddedLoop
<1>2. /\ DOMAIN outer = DOMAIN loops \ Range(body)
      /\ \A h \in DOMAIN loops \ Range(body) : outer[h] = loops[h]
    BY DEF Restrict
<1>3. loop.vertices = <<edge.header>> \o body
    OBVIOUS
<1> HIDE DEF outer, loop
<1>4. CASE edge.header \in DOMAIN outer
    BY <1>1, <1>2, <1>4 DEF TurnDone
<1>5. CASE edge.header \notin DOMAIN outer
    <2>1. next = [u \in DOMAIN outer \cup {edge.header} |->
                      IF u = edge.header THEN loop ELSE outer[u]]
        BY <1>1, <1>5 DEF Stored
    <2>2. QED
        BY <1>2, <1>3, <1>5, <2>1 DEF TurnDone
<1>6. QED
    BY <1>4, <1>5

(* every loop of the table is made from a back edge                        *)
MadeFrom(g, loops, E) ==
    \A h \in DOMAIN loops : \E e \in E :
        /\ e.header = h
        /\ LoopVertices(loops, h) = <<h>> \o LoopBody(g, e.latch, h)

LEMMA LoopsMadeFrom ==
    ASSUME NEW g, NEW E, NEW edges \in Seq(E), NEW a, NEW loops, LoopSteps(a, g, edges, loops)
    PROVE  \A k \in 0 .. Len(edges) : MadeFrom(g, a[k], {edges[i] : i \in 1 .. k})
<1> DEFINE N == Len(edges)
           T == {k \in 0 .. N : MadeFrom(g, a[k], {edges[i] : i \in 1 .. k})}
<1>1. N \in Nat
    OBVIOUS
<1> HIDE DEF N
<1>2. 0 \in T
    <2>1. a[0] = << >> /\ DOMAIN << >> = {}
        BY DEF LoopSteps
    <2>2. QED
        BY <1>1, <2>1 DEF MadeFrom
<1>3. ASSUME NEW k \in 1 .. N, k - 1 \in T PROVE k \in T
    <2>1. a[k] = AddedLoop(g, a[k - 1], edges[k])
        BY DEF LoopSteps, N
    <2>2. PICK x : x = a[k - 1]
        OBVIOUS
    <2>3. PICK y : y = a[k]
        OBVIOUS
    <2>4. PICK e : e = edges[k]
        OBVIOUS
    <2>5. y = AddedLoop(g, x, e)
        BY <2>1, <2>2, <2>3, <2>4
    <2>6. PICK body : body = LoopBody(g, e.latch, e.header)
        OBVIOUS
    <2>7. /\ e.header \notin DOMAIN x \ Range(body) =>
                 /\ DOMAIN y = (DOMAIN x \ Range(body)) \cup {e.header}
                 /\ y[e.header].vertices = <<e.header>> \o body
          /\ e.header \in DOMAIN x \ Range(body) => DOMAIN y = DOMAIN x \ Range(body)
          /\ \A h \in DOMAIN x \ Range(body) : y[h] = x[h]
        <3>1. TurnDone(x, y, e.header, body)
            BY <2>5, <2>6, AddedLoopIs
        <3>2. QED
            BY <3>1 DEF TurnDone
    <2>8. {edges[i] : i \in 1 .. k - 1} \subseteq {edges[i] : i \in 1 .. k}
          /\ e \in {edges[i] : i \in 1 .. k}
        BY <1>1, <2>4
    <2>9. MadeFrom(g, x, {edges[i] : i \in 1 .. k - 1})
        BY <1>3, <2>2
    <2>10. ASSUME NEW h \in DOMAIN y
           PROVE  \E f \in {edges[i] : i \in 1 .. k} :
                      f.header = h /\ LoopVertices(y, h) = <<h>> \o LoopBody(g, f.latch, h)
        <3>1. CASE h \in DOMAIN x \ Range(body)
            <4>1. LoopVertices(y, h) = LoopVertices(x, h)
                BY <2>7, <3>1 DEF LoopVertices
            <4>2. QED
                BY <2>8, <2>9, <3>1, <4>1 DEF MadeFrom
        <3>2. CASE h \notin DOMAIN x \ Range(body)
            <4>1. h = e.header /\ y[h].vertices = <<h>> \o LoopBody(g, e.latch, h)
                BY <2>6, <2>7, <3>2
            <4>2. QED
                BY <2>8, <4>1 DEF LoopVertices
        <3>3. QED
            BY <3>1, <3>2
    <2>11. k \in 0 .. N
        BY <1>1
    <2>12. QED
        BY <2>3, <2>10, <2>11 DEF MadeFrom
<1>4. 0 .. N \subseteq T
    <2> HIDE DEF T
    <2>1. QED
        BY <1>1, <1>2, <1>3, UpTo
<1>5. QED
    BY <1>4 DEF N

(* What the vertices of a loop are.                                        *)
IsLoopOf(g, vertices, latch, header) ==
    /\ vertices \in Seq(Block)
    /\ Len(vertices) # 0
    /\ IsInjective(vertices)
    /\ Head(vertices) = header
    /\ Range(vertices) = LoopAround(g, latch, header)
    /\ vertices[Len(vertices)] = latch

LEMMA VerticesOf ==
    ASSUME NEW g, FlowOf(g), NEW latch \in Block, NEW header \in Block,
           NEW vertices, vertices = <<header>> \o LoopBody(g, latch, header)
    PROVE  IsLoopOf(g, vertices, latch, header)
<1>1. PICK body : body = LoopBody(g, latch, header)
    OBVIOUS
<1>2. /\ body \in Seq(Block)
      /\ Range(body) = Reach(ReverseGraph(g), latch, {header})
      /\ IsInjective(body)
      /\ latch # header => Len(body) # 0 /\ body[Len(body)] = latch
      /\ latch = header => body = << >>
    BY <1>1, LoopBodyIs
<1>3. header \notin Range(body)
    <2>1. Reach(ReverseGraph(g), latch, {header}) \in SUBSET (Block \ {header})
        BY ReachIsLeast
    <2>2. QED
        BY <1>2, <2>1
<1>4. /\ Len(body) \in Nat /\ DOMAIN body = 1 .. Len(body)
      /\ vertices \in Seq(Block) /\ Len(vertices) = Len(body) + 1
      /\ DOMAIN vertices = 1 .. Len(body) + 1
      /\ vertices[1] = header /\ Head(vertices) = header
      /\ \A i \in 1 .. Len(body) : vertices[i + 1] = body[i]
    BY <1>1, <1>2
<1>5. \A i \in DOMAIN vertices : i = 1 \/ (i - 1 \in DOMAIN body /\ vertices[i] = body[i - 1])
    <2> SUFFICES ASSUME NEW i \in DOMAIN vertices, i # 1
                 PROVE  i - 1 \in DOMAIN body /\ vertices[i] = body[i - 1]
        OBVIOUS
    <2>1. PICK j : j = i - 1
        OBVIOUS
    <2>2. j \in 1 .. Len(body) /\ i = j + 1
        BY <1>4, <2>1
    <2>3. QED
        BY <1>4, <2>1, <2>2
<1>6. IsInjective(vertices)
    <2> SUFFICES ASSUME NEW i \in DOMAIN vertices, NEW j \in DOMAIN vertices,
                        vertices[i] = vertices[j]
                 PROVE  i = j
        BY DEF IsInjective
    <2>1. i \in Nat /\ j \in Nat
        BY <1>4
    <2>2. CASE i = 1
        BY <1>3, <1>4, <1>5, <2>2 DEF Range
    <2>3. CASE j = 1
        BY <1>3, <1>4, <1>5, <2>3 DEF Range
    <2>4. CASE i # 1 /\ j # 1
        <3>1. i - 1 \in DOMAIN body /\ j - 1 \in DOMAIN body /\ body[i - 1] = body[j - 1]
            BY <1>5, <2>4
        <3>2. i - 1 = j - 1
            BY <1>2, <3>1 DEF IsInjective
        <3>3. QED
            BY <2>1, <3>2
    <2>5. QED
        BY <2>2, <2>3, <2>4
<1>7. Range(vertices) = {header} \cup Range(body)
    <2>1. PICK one \in Seq(Block) : one = <<header>>
        <3>1. <<header>> \in Seq(Block)
            OBVIOUS
        <3>2. QED
            BY <3>1
    <2>2. Range(one) = {header}
        BY <2>1 DEF Range
    <2>3. vertices = one \o body
        BY <1>1, <2>1
    <2>4. Range(one \o body) = Range(one) \cup Range(body)
        BY <1>2, RangeConcat
    <2>5. QED
        BY <2>2, <2>3, <2>4
<1>8. vertices[Len(vertices)] = latch
    <2>1. CASE latch = header
        <3>1. Len(body) = 0
            BY <1>2, <2>1
        <3>2. QED
            BY <1>4, <2>1, <3>1
    <2>2. CASE latch # header
        BY <1>2, <1>4, <2>2
    <2>3. QED
        BY <2>1, <2>2
<1>9. Len(vertices) # 0
    BY <1>4
<1>10. Range(vertices) = LoopAround(g, latch, header)
    BY <1>2, <1>7 DEF LoopAround
<1>11. vertices \in Seq(Block) /\ Head(vertices) = header
    BY <1>4
<1>12. QED
    BY <1>6, <1>8, <1>9, <1>10, <1>11 DEF IsLoopOf

(* the search and the dominator tree that the loops are made from          *)
AnalysedBy(g, d, tree) ==
    /\ SearchTree(g, d, Reachable(g))
    /\ PreOrder(d, Reachable(g))
    /\ TellsDominators(g, tree)

LEMMA AnalysesOf ==
    ASSUME NEW g, FlowOf(g), NEW d, d = DFSOf(g, Entry, {}), NEW tree, tree = DominatorTreeOf(g, d)
    PROVE  AnalysedBy(g, d, tree)
<1>1. g.succ \in [Block -> Seq(Block)] /\ Entry \in Block
    BY EdgesOf
<1>2. {} \in SUBSET (Block \ {Entry})
    OBVIOUS
<1>3. Searched(g, {}, Entry, DFSOf(g, Entry, {})) /\ DFSOf(g, Entry, {}).current = NoBlock
    BY <1>1, <1>2, SearchEnds
<1>4. PICK S : S = DOMAIN d.info
    OBVIOUS
<1>5. OverFrom(g, d, S)
    BY <1>3, <1>4 DEF OverFrom
<1>6. SearchTree(g, d, S) /\ PreOrder(d, S) /\ S = Reachable(g)
    BY <1>5, OverIsSearchTree, OverIsListed, OverFacts
<1>7. \A t : t = DominatorTreeOf(g, d) => TellsDominators(g, t)
    BY DominatorTreeComputed DEF TellsDominators
<1>8. QED
    BY <1>6, <1>7 DEF AnalysedBy

(* the vertices that line 35 gives a loop                                  *)
Gathered(g, vertices, latch, header) == vertices = <<header>> \o LoopBody(g, latch, header)

(* Lines 22-48: every loop in the table is the natural loop of a back      *)
(* edge, the header first and the latch last.                              *)
LEMMA LoopsOfTable ==
    ASSUME NEW g, FlowOf(g), NEW d, NEW tree, AnalysedBy(g, d, tree),
           NEW loops, loops = LoopTreeOf(g, d, tree)
    PROVE  \A h \in DOMAIN loops : \E latch \in Block :
               /\ IsBackEdge(g, latch, h)
               /\ IsLoopOf(g, LoopVertices(loops, h), latch, h)
               /\ Gathered(g, LoopVertices(loops, h), latch, h)
<1>1. PICK E : E = EdgeRecords(g)
    OBVIOUS
<1>2. PICK edges : edges = BackEdges(g, d, tree)
    OBVIOUS
<1>3. edges \in Seq(E)
    BY <1>1, <1>2, BackEdgesAre DEF AnalysedBy
<1>4. PICK a : LoopSteps(a, g, edges, LoopTreeOf(g, d, tree))
    BY <1>2, <1>3, LoopsUnfold
<1>5. LoopSteps(a, g, edges, loops)
    BY <1>4
<1>6. Len(edges) \in 0 .. Len(edges) /\ \A i \in 1 .. Len(edges) : edges[i] \in E
    BY <1>3
<1>7. MadeFrom(g, loops, {edges[i] : i \in 1 .. Len(edges)})
    <2>1. MadeFrom(g, a[Len(edges)], {edges[i] : i \in 1 .. Len(edges)})
        BY <1>3, <1>5, <1>6, LoopsMadeFrom
    <2>2. QED
        BY <1>5, <2>1 DEF LoopSteps
<1>8. ASSUME NEW h \in DOMAIN loops
      PROVE  \E latch \in Block :
                 /\ IsBackEdge(g, latch, h)
                 /\ IsLoopOf(g, LoopVertices(loops, h), latch, h)
                 /\ Gathered(g, LoopVertices(loops, h), latch, h)
    <2>1. PICK e \in E : e.header = h /\ LoopVertices(loops, h) = <<h>> \o LoopBody(g, e.latch, h)
        BY <1>6, <1>7 DEF MadeFrom
    <2>2. IsBackEdge(g, e.latch, h) /\ e.latch \in Block /\ h \in Block
        BY <1>1, <2>1, EdgesOf DEF EdgeRecords
    <2>3. IsLoopOf(g, LoopVertices(loops, h), e.latch, h)
        BY <2>1, <2>2, VerticesOf
    <2>4. QED
        BY <2>1, <2>2, <2>3 DEF Gathered
<1>9. QED
    BY <1>8

-------------------------------------------------------------------------------
(* Two natural loops are apart or one holds the other's header.            *)

LoopOf(g, e) == LoopAround(g, e.latch, e.header)

(* What a loop's search backwards finds: the latch, and of whatever it     *)
(* finds the predecessors but the header.                                  *)
Inside(g, e) == Reach(ReverseGraph(g), e.latch, {e.header})

LEMMA InsideIsLeast ==
    ASSUME NEW g, NEW d, NEW S, S = Reachable(g), FlowOf(g), SearchTree(g, d, S), NEW e \in EdgeRecords(g)
    PROVE  /\ e.latch \in S /\ e.header \in S /\ IsBackEdge(g, e.latch, e.header)
           /\ e.latch \in Range(g.pred[e.header])
           /\ LoopOf(g, e) = {e.header} \cup Inside(g, e)
           /\ LoopOf(g, e) \subseteq S
           /\ e.header \notin Inside(g, e)
           /\ e.latch # e.header => e.latch \in Inside(g, e)
           /\ e.latch = e.header => Inside(g, e) = {}
           /\ \A x \in Inside(g, e) : \A w \in Range(g.pred[x]) : w = e.header \/ w \in Inside(g, e)
           /\ \A set : /\ e.latch # e.header => e.latch \in set
                       /\ \A x \in set : \A w \in Range(g.pred[x]) : w # e.header => w \in set
                       => Inside(g, e) \subseteq set
           /\ \A v \in LoopOf(g, e) : Dominates(g, e.header, v)
<1> DEFINE B == Inside(g, e)
           R == ReverseGraph(g)
<1>1. /\ e.latch \in S /\ e.header \in S /\ IsBackEdge(g, e.latch, e.header)
      /\ S \in SUBSET Block
    BY EdgesOf DEF EdgeRecords
<1>2. e.latch \in Block /\ e.header \in Block
    BY <1>1
<1>3. R.succ = g.pred /\ \A x \in Block : Range(g.pred[x]) \subseteq Block
    BY EdgesOf
<1>4. /\ B \in SUBSET (Block \ {e.header})
      /\ {e.latch} \ {e.header} \subseteq B
      /\ Closed(R, {e.header}, B)
      /\ \A set : {e.latch} \ {e.header} \subseteq set /\ Closed(R, {e.header}, set) => B \subseteq set
    <2>1. B = Reach(R, e.latch, {e.header})
        BY DEF Inside
    <2>2. PICK l \in Block : l = e.latch
        BY <1>2
    <2>3. PICK h \in Block : h = e.header
        BY <1>2
    <2>4. PICK r : r = R
        OBVIOUS
    <2>5. /\ Reach(r, l, {h}) \in SUBSET (Block \ {h})
          /\ {l} \ {h} \subseteq Reach(r, l, {h})
          /\ Closed(r, {h}, Reach(r, l, {h}))
          /\ \A set : {l} \ {h} \subseteq set /\ Closed(r, {h}, set) => Reach(r, l, {h}) \subseteq set
        BY ReachIsLeast
    <2> HIDE DEF B, R
    <2>6. QED
        BY <2>1, <2>2, <2>3, <2>4, <2>5
<1>5. \A x \in B : \A w \in Range(g.pred[x]) : w = e.header \/ w \in B
    BY <1>3, <1>4 DEF Closed
<1>6. ASSUME NEW set,
             e.latch # e.header => e.latch \in set,
             \A x \in set : \A w \in Range(g.pred[x]) : w # e.header => w \in set
      PROVE  B \subseteq set
    <2>1. {e.latch} \ {e.header} \subseteq set
        BY <1>6
    <2>2. Closed(R, {e.header}, set)
        BY <1>3, <1>6 DEF Closed
    <2>3. QED
        BY <1>4, <2>1, <2>2
<1>7. e.latch = e.header => B = {}
    <2> SUFFICES ASSUME e.latch = e.header PROVE B \subseteq {}
        OBVIOUS
    <2>1. PICK none : none = {}
        OBVIOUS
    <2>2. /\ e.latch # e.header => e.latch \in none
          /\ \A x \in none : \A w \in Range(g.pred[x]) : w # e.header => w \in none
        BY <2>1
    <2> HIDE DEF B
    <2>3. B \subseteq none
        BY <1>6, <2>2
    <2>4. QED
        BY <2>1, <2>3
<1>8. B \subseteq S
    <2>1. \A x \in S : Range(g.pred[x]) \subseteq S
        BY DEF SearchTree, TreeEdges
    <2>2. QED
        BY <1>1, <1>6, <2>1
<1>9. LoopOf(g, e) = {e.header} \cup B
    BY DEF LoopOf, LoopAround, Inside
<1>10. \A v \in LoopOf(g, e) : Dominates(g, e.header, v)
    BY <1>1, HeaderDominates DEF LoopOf
<1>11. e.latch \in Range(g.pred[e.header])
    BY <1>1, <1>2, EdgesOf DEF IsBackEdge
<1> HIDE DEF B
<1>12. QED
    BY <1>1, <1>4, <1>5, <1>6, <1>7, <1>8, <1>9, <1>10, <1>11 DEF B

(* The tree's path from a block inside a loop up to the header is inside   *)
(* it.                                                                     *)
LEMMA AboveInside ==
    ASSUME NEW g, NEW d, NEW S, S = Reachable(g), FlowOf(g), SearchTree(g, d, S),
           NEW e \in EdgeRecords(g), NEW x \in Inside(g, e), NEW k \in S,
           Above(d, k, x), Begin(d, e.header) < Begin(d, k)
    PROVE  k \in Inside(g, e)
<1> DEFINE h == e.header
           B == Inside(g, e)
           T == {y \in B : Above(d, k, y)}
<1>1. /\ h \in S /\ LoopOf(g, e) = {h} \cup B /\ LoopOf(g, e) \subseteq S
      /\ \A y \in B : \A w \in Range(g.pred[y]) : w = h \/ w \in B
    BY InsideIsLeast
<1> HIDE DEF B
<1>2. \A v \in S : Begin(d, v) \in Nat
    BY DEF SearchTree, TreeTimes
<1>3. x \in T
    BY <1>1 DEF B
<1>4. PICK y \in T : \A z \in T : Begin(d, y) <= Begin(d, z)
    <2>1. T # {} /\ \A z \in T : Begin(d, z) \in Nat
        BY <1>1, <1>2, <1>3
    <2> HIDE DEF T
    <2>2. QED
        BY <2>1, SmallestBegin
<1>5. y \in B /\ y \in S /\ Above(d, k, y)
    BY <1>1, <1>4
<1>6. CASE y = k
    BY <1>5, <1>6 DEF B
<1>7. CASE y # k
    <2>1. Begin(d, k) < Begin(d, y) /\ End(d, y) < End(d, k)
        BY <1>5, <1>7, AboveOrder
    <2>2. y # Entry /\ Begin(d, k) <= Begin(d, Link(d, y))
        BY <1>5, <2>1 DEF SearchTree, TreeLinks
    <2>3. PICK p \in S : p = Link(d, y) /\ y \in Range(g.succ[p])
                         /\ Begin(d, p) < Begin(d, y) /\ End(d, y) < End(d, p)
        BY <1>5, <2>2 DEF SearchTree, TreeLinks
    <2>4. Above(d, p, y)
        BY <1>2, <1>5, <2>3 DEF Above, SearchTree, TreeTimes
    <2>5. Above(d, k, p)
        BY <1>5, <2>2, <2>3, <2>4, AboveOrder
    <2>6. p \in Range(g.pred[y])
        BY <1>5, <2>3 DEF SearchTree, TreeEdges
    <2>7. p # h
        BY <1>1, <1>2, <2>2, <2>3
    <2>8. p \in T
        BY <1>1, <1>5, <2>5, <2>6, <2>7
    <2>9. Begin(d, y) <= Begin(d, p)
        BY <1>4, <2>8
    <2>10. QED
        BY <1>2, <1>5, <2>3, <2>9
<1>8. QED
    BY <1>6, <1>7

(* Of two loops with different headers that meet, one has the header of    *)
(* the other: the headers are above a common block.                        *)
LEMMA MeetAtHeader ==
    ASSUME NEW g, NEW d, NEW S, S = Reachable(g), FlowOf(g), SearchTree(g, d, S),
           NEW e \in EdgeRecords(g), NEW f \in EdgeRecords(g), e.header # f.header,
           Above(d, e.header, f.header),
           NEW x \in LoopOf(g, e) \cap LoopOf(g, f)
    PROVE  f.header \in LoopOf(g, e)
<1>1. /\ e.header \in S /\ LoopOf(g, e) = {e.header} \cup Inside(g, e)
      /\ LoopOf(g, e) \subseteq S
    BY InsideIsLeast
<1>2. f.header \in S /\ Dominates(g, f.header, x)
    BY InsideIsLeast
<1>3. Above(d, f.header, x)
    BY <1>1, <1>2, DominatorsAbove
<1>4. Begin(d, e.header) < Begin(d, f.header)
    BY <1>1, <1>2, AboveOrder
<1>5. Begin(d, e.header) \in Nat /\ Begin(d, f.header) \in Nat
    BY <1>1, <1>2 DEF SearchTree, TreeTimes
<1>6. x # e.header
    BY <1>3, <1>4, <1>5 DEF Above
<1>7. x \in Inside(g, e)
    BY <1>1, <1>6
<1>8. f.header \in Inside(g, e)
    BY <1>2, <1>3, <1>4, <1>7, AboveInside
<1>9. QED
    BY <1>1, <1>8

(* The header of a loop strictly dominates what is inside it.              *)
LEMMA HeaderAbove ==
    ASSUME NEW g, NEW d, NEW S, S = Reachable(g), FlowOf(g), SearchTree(g, d, S),
           NEW e \in EdgeRecords(g), NEW x \in Inside(g, e)
    PROVE  /\ x \in S \ {Entry}
           /\ e.header \in StrictDominators(g, x)
           /\ Above(d, e.header, x)
           /\ Begin(d, e.header) < Begin(d, x)
<1>1. /\ e.header \in S /\ LoopOf(g, e) = {e.header} \cup Inside(g, e)
      /\ LoopOf(g, e) \subseteq S /\ e.header \notin Inside(g, e)
      /\ \A v \in LoopOf(g, e) : Dominates(g, e.header, v)
    BY InsideIsLeast
<1>2. x \in S /\ x # e.header /\ Dominates(g, e.header, x)
    BY <1>1
<1>3. Above(d, e.header, x)
    BY <1>1, <1>2, DominatorsAbove
<1>4. Begin(d, e.header) < Begin(d, x)
    BY <1>1, <1>2, <1>3, AboveOrder
<1>5. x # Entry
    <2>1. Begin(d, Entry) <= Begin(d, e.header) /\ Begin(d, Entry) \in Nat /\ Begin(d, e.header) \in Nat
        BY <1>1 DEF SearchTree, TreeTimes
    <2>2. QED
        BY <1>4, <2>1
<1>6. QED
    BY <1>1, <1>2, <1>3, <1>4, <1>5 DEF StrictDominators

(* The immediate dominator of a block inside a loop is in the loop.        *)
LEMMA IDomInLoop ==
    ASSUME NEW g, NEW d, NEW S, S = Reachable(g), FlowOf(g), SearchTree(g, d, S),
           NEW e \in EdgeRecords(g), NEW x \in Inside(g, e), NEW u, IsIDom(g, x, u)
    PROVE  u \in LoopOf(g, e)
<1>1. e.header \in S /\ LoopOf(g, e) = {e.header} \cup Inside(g, e)
    BY InsideIsLeast
<1>2. x \in S /\ e.header \in StrictDominators(g, x)
    BY HeaderAbove
<1>3. u \in S /\ u # x /\ Dominates(g, u, x) /\ Dominates(g, e.header, u)
    BY <1>2 DEF IsIDom, StrictDominators
<1>4. CASE u = e.header
    BY <1>1, <1>4
<1>5. CASE u # e.header
    <2>1. Above(d, e.header, u) /\ Above(d, u, x)
        BY <1>1, <1>2, <1>3, DominatorsAbove
    <2>2. Begin(d, e.header) < Begin(d, u)
        BY <1>1, <1>3, <1>5, <2>1, AboveOrder
    <2>3. u \in Inside(g, e)
        BY <1>3, <2>1, <2>2, AboveInside
    <2>4. QED
        BY <1>1, <2>3
<1>6. QED
    BY <1>4, <1>5

LEMMA LoopsMeet ==
    ASSUME NEW g, NEW d, NEW S, S = Reachable(g), FlowOf(g), SearchTree(g, d, S),
           NEW e \in EdgeRecords(g), NEW f \in EdgeRecords(g), e.header # f.header,
           LoopOf(g, e) \cap LoopOf(g, f) # {}
    PROVE  e.header \in LoopOf(g, f) \/ f.header \in LoopOf(g, e)
<1>1. PICK x : x \in LoopOf(g, e) \cap LoopOf(g, f)
    OBVIOUS
<1>2. /\ e.header \in S /\ f.header \in S /\ x \in S
      /\ Dominates(g, e.header, x) /\ Dominates(g, f.header, x)
    <2>1. /\ e.header \in S /\ LoopOf(g, e) \subseteq S
          /\ \A v \in LoopOf(g, e) : Dominates(g, e.header, v)
        BY InsideIsLeast
    <2>2. f.header \in S /\ \A v \in LoopOf(g, f) : Dominates(g, f.header, v)
        BY InsideIsLeast
    <2>3. QED
        BY <1>1, <2>1, <2>2
<1>3. Above(d, e.header, x) /\ Above(d, f.header, x)
    BY <1>2, DominatorsAbove
<1>4. Above(d, e.header, f.header) \/ Above(d, f.header, e.header)
    BY <1>2, <1>3, AboveOrder
<1>5. CASE Above(d, e.header, f.header)
    BY <1>1, <1>5, MeetAtHeader
<1>6. CASE Above(d, f.header, e.header)
    BY <1>1, <1>6, MeetAtHeader
<1>7. QED
    BY <1>4, <1>5, <1>6

(* A loop whose header is in another loop is inside it.                    *)
LEMMA LoopInside ==
    ASSUME NEW g, NEW d, NEW S, S = Reachable(g), FlowOf(g), SearchTree(g, d, S),
           NEW e \in EdgeRecords(g), NEW f \in EdgeRecords(g), e.header # f.header,
           f.header \in LoopOf(g, e)
    PROVE  LoopOf(g, f) \subseteq LoopOf(g, e)
<1> DEFINE B == Inside(g, e)
           C == Inside(g, f)
           set == B \cap C
<1>1. /\ e.header \in S /\ LoopOf(g, e) = {e.header} \cup B
      /\ \A y \in B : \A w \in Range(g.pred[y]) : w = e.header \/ w \in B
      /\ \A v \in LoopOf(g, e) : Dominates(g, e.header, v)
    BY InsideIsLeast
<1>2. /\ f.header \in S /\ LoopOf(g, f) = {f.header} \cup C /\ f.latch \in Range(g.pred[f.header])
      /\ \A y \in C : \A w \in Range(g.pred[y]) : w = f.header \/ w \in C
      /\ \A v \in LoopOf(g, f) : Dominates(g, f.header, v)
      /\ f.latch # f.header => f.latch \in C
    BY InsideIsLeast
<1>3. e.header \notin C
    <2> SUFFICES ASSUME e.header \in C PROVE FALSE
        OBVIOUS
    <2>1. Dominates(g, e.header, f.header) /\ Dominates(g, f.header, e.header)
        BY <1>1, <1>2
    <2>2. Above(d, e.header, f.header) /\ Above(d, f.header, e.header)
        BY <1>1, <1>2, <2>1, DominatorsAbove
    <2>3. Begin(d, e.header) < Begin(d, f.header) /\ Begin(d, f.header) < Begin(d, e.header)
        BY <1>1, <1>2, <2>2, AboveOrder
    <2>4. Begin(d, e.header) \in Nat /\ Begin(d, f.header) \in Nat
        BY <1>1, <1>2 DEF SearchTree, TreeTimes
    <2>5. QED
        BY <2>3, <2>4
<1>4. f.header \in B
    BY <1>1
<1>5. f.latch # f.header => f.latch \in set
    BY <1>1, <1>2, <1>3, <1>4
<1>6. \A x \in set : \A w \in Range(g.pred[x]) : w # f.header => w \in set
    BY <1>1, <1>2, <1>3
<1>7. C \subseteq set
    <2>1. \A s : /\ f.latch # f.header => f.latch \in s
                 /\ \A x \in s : \A w \in Range(g.pred[x]) : w # f.header => w \in s
                 => C \subseteq s
        BY InsideIsLeast
    <2> HIDE DEF set, C
    <2>2. QED
        BY <1>5, <1>6, <2>1
<1>8. QED
    BY <1>1, <1>2, <1>4, <1>7

-------------------------------------------------------------------------------
(* The outermost loops are apart, where inner latches come first.          *)

(* A loop has one latch, and the latch of a loop inside it comes earlier.  *)
EdgesNest(g, d) ==
    \A e, f \in EdgeRecords(g) :
        e # f /\ f.header \in LoopOf(g, e) =>
            f.header # e.header /\ Begin(d, f.latch) < Begin(d, e.latch)

(* The loops with a header in table are those of edges that have been      *)
(* seen, they are apart, and every header seen is in one of them.          *)
TableNests(g, table, seen) ==
    /\ \A h \in table : \E e \in seen : e.header = h
    /\ \A e, f \in seen :
           e # f /\ e.header \in table /\ f.header \in table => LoopOf(g, e) \cap LoopOf(g, f) = {}
    /\ \A e \in seen : \E f \in seen : f.header \in table /\ e.header \in LoopOf(g, f)

LEMMA TurnNests ==
    ASSUME NEW g, NEW d, NEW S, S = Reachable(g), FlowOf(g), SearchTree(g, d, S), EdgesNest(g, d),
           NEW seen \in SUBSET EdgeRecords(g), NEW e \in EdgeRecords(g),
           \A f \in seen : Begin(d, f.latch) <= Begin(d, e.latch),
           NEW table, TableNests(g, table, seen)
    PROVE  TableNests(g, (table \ Inside(g, e)) \cup {e.header}, seen \cup {e})
<1> DEFINE next == (table \ Inside(g, e)) \cup {e.header}
           more == seen \cup {e}
<1>1. /\ e.header \notin Inside(g, e)
      /\ LoopOf(g, e) = {e.header} \cup Inside(g, e)
      /\ e.latch \in S
    BY InsideIsLeast
<1>2. \A f \in EdgeRecords(g) : f # e => f.header # e.header
    BY <1>1 DEF EdgesNest
<1>3. \A h \in next : \E f \in more : f.header = h
    BY DEF TableNests
<1>4. ASSUME NEW f \in seen, f # e, f.header \in next
      PROVE  LoopOf(g, e) \cap LoopOf(g, f) = {}
    <2> SUFFICES ASSUME LoopOf(g, e) \cap LoopOf(g, f) # {} PROVE FALSE
        OBVIOUS
    <2>1. f \in EdgeRecords(g) /\ f.header # e.header
        BY <1>2, <1>4
    <2>2. f.header \notin LoopOf(g, e)
        BY <1>1, <1>4, <2>1
    <2>3. e.header \in LoopOf(g, f)
        BY <2>1, <2>2, LoopsMeet
    <2>4. Begin(d, e.latch) < Begin(d, f.latch)
        BY <1>4, <2>1, <2>3 DEF EdgesNest
    <2>5. f.latch \in S
        BY <2>1, InsideIsLeast
    <2>6. Begin(d, e.latch) \in Nat /\ Begin(d, f.latch) \in Nat
        BY <1>1, <2>5 DEF SearchTree, TreeTimes
    <2>7. QED
        BY <1>4, <2>4, <2>6
<1>5. ASSUME NEW e1 \in more, NEW f1 \in more, e1 # f1, e1.header \in next, f1.header \in next
      PROVE  LoopOf(g, e1) \cap LoopOf(g, f1) = {}
    <2>1. CASE e1 = e
        BY <1>4, <1>5, <2>1
    <2>2. CASE f1 = e
        BY <1>4, <1>5, <2>2
    <2>3. CASE e1 # e /\ f1 # e
        <3>1. e1 \in seen /\ f1 \in seen
            BY <2>3
        <3>2. e1.header \in table /\ f1.header \in table
            BY <1>2, <1>5, <2>3, <3>1
        <3>3. QED
            BY <1>5, <3>1, <3>2 DEF TableNests
    <2>4. QED
        BY <2>1, <2>2, <2>3
<1>6. ASSUME NEW e1 \in more
      PROVE  \E f \in more : f.header \in next /\ e1.header \in LoopOf(g, f)
    <2>1. CASE e1 = e
        BY <1>1, <2>1
    <2>2. CASE e1 \in seen
        <3>1. PICK f \in seen : f.header \in table /\ e1.header \in LoopOf(g, f)
            BY <2>2 DEF TableNests
        <3>2. CASE f.header \notin Inside(g, e)
            BY <3>1, <3>2
        <3>3. CASE f.header \in Inside(g, e)
            <4>1. f.header # e.header /\ f.header \in LoopOf(g, e) /\ f \in EdgeRecords(g)
                BY <1>1, <3>3
            <4>2. LoopOf(g, f) \subseteq LoopOf(g, e)
                BY <4>1, LoopInside
            <4>3. e1.header \in LoopOf(g, e)
                BY <3>1, <4>2
            <4>4. e \in more /\ e.header \in next
                OBVIOUS
            <4>5. QED
                BY <4>3, <4>4
        <3>4. QED
            BY <3>2, <3>3
    <2>3. QED
        BY <2>1, <2>2
<1>7. QED
    BY <1>3, <1>5, <1>6 DEF TableNests

(* Lines 37-46: when the latches come in the right order, the table's      *)
(* loops are apart and have every header in one of them.                   *)
LEMMA TableOfLoopsNests ==
    ASSUME NEW g, FlowOf(g), NEW d, NEW tree, AnalysedBy(g, d, tree), EdgesNest(g, d),
           NEW loops, loops = LoopTreeOf(g, d, tree)
    PROVE  TableNests(g, DOMAIN loops, EdgeRecords(g))
<1>1. PICK E : E = EdgeRecords(g)
    OBVIOUS
<1>2. PICK S : S = Reachable(g)
    OBVIOUS
<1>3. SearchTree(g, d, S)
    BY <1>2 DEF AnalysedBy
<1>4. PICK edges : edges = BackEdges(g, d, tree)
    OBVIOUS
<1>5. /\ edges \in Seq(E) /\ Range(edges) = E
      /\ \A i, j \in DOMAIN edges : i < j => Begin(d, edges[i].latch) <= Begin(d, edges[j].latch)
    BY <1>1, <1>4, BackEdgesAre DEF AnalysedBy
<1>6. PICK a : LoopSteps(a, g, edges, LoopTreeOf(g, d, tree))
    BY <1>4, <1>5, LoopsUnfold
<1>7. LoopSteps(a, g, edges, loops)
    BY <1>6
<1> DEFINE N == Len(edges)
           Seen(k) == {edges[i] : i \in 1 .. k}
           T == {k \in 0 .. N : TableNests(g, DOMAIN a[k], Seen(k))}
<1>8. N \in Nat /\ DOMAIN edges = 1 .. N /\ \A i \in 1 .. N : edges[i] \in E
    BY <1>5
<1> HIDE DEF N
<1>9. 0 \in T
    <2>1. DOMAIN a[0] = {} /\ Seen(0) = {}
        BY <1>7 DEF LoopSteps
    <2>2. TableNests(g, {}, {})
        BY DEF TableNests
    <2> HIDE DEF Seen
    <2>3. TableNests(g, DOMAIN a[0], Seen(0))
        BY <2>1, <2>2
    <2>4. QED
        BY <1>8, <2>3
<1>10. ASSUME NEW k \in 1 .. N, k - 1 \in T PROVE k \in T
    <2>1. a[k] = AddedLoop(g, a[k - 1], edges[k])
        BY <1>7 DEF LoopSteps, N
    <2>2. PICK x : x = a[k - 1]
        OBVIOUS
    <2>3. PICK y : y = a[k]
        OBVIOUS
    <2>4. PICK e \in E : e = edges[k]
        BY <1>8
    <2>5. y = AddedLoop(g, x, e)
        BY <2>1, <2>2, <2>3, <2>4
    <2>6. PICK body : body = LoopBody(g, e.latch, e.header)
        OBVIOUS
    <2>7. TurnDone(x, y, e.header, body)
        BY <2>5, <2>6, AddedLoopIs
    <2>8. e.latch \in Block /\ e.header \in Block
        BY <1>1, EdgesOf DEF EdgeRecords
    <2>9. Range(body) = Inside(g, e)
        BY <2>6, <2>8, LoopBodyIs DEF Inside
    <2>10. e.header \notin Range(body)
        BY <1>1, <1>2, <1>3, <2>9, InsideIsLeast
    <2>11. DOMAIN y = (DOMAIN x \ Inside(g, e)) \cup {e.header}
        BY <2>7, <2>9, <2>10 DEF TurnDone
    <2>12. Seen(k - 1) \in SUBSET E /\ \A i \in 1 .. k - 1 : i \in DOMAIN edges /\ i < k
        BY <1>8
    <2>13. \A f \in Seen(k - 1) : Begin(d, f.latch) <= Begin(d, e.latch)
        BY <1>5, <1>8, <2>4, <2>12
    <2>14. TableNests(g, DOMAIN x, Seen(k - 1))
        BY <1>10, <2>2
    <2>15. Seen(k) = Seen(k - 1) \cup {e}
        <3>1. 1 .. k = (1 .. k - 1) \cup {k}
            BY <1>8
        <3>2. QED
            BY <2>4, <3>1
    <2> HIDE DEF Seen
    <2>16. TableNests(g, (DOMAIN x \ Inside(g, e)) \cup {e.header}, Seen(k - 1) \cup {e})
        BY <1>1, <1>2, <1>3, <2>12, <2>13, <2>14, TurnNests
    <2>17. k \in 0 .. N
        BY <1>8
    <2>18. QED
        BY <2>3, <2>11, <2>15, <2>16, <2>17
<1>11. N \in T
    <2> HIDE DEF T
    <2>1. 0 .. N \subseteq T
        BY <1>8, <1>9, <1>10, UpTo
    <2>2. QED
        BY <1>8, <2>1
<1>12. Seen(N) = E
    BY <1>5, <1>8 DEF Range
<1>13. a[N] = loops
    BY <1>7 DEF LoopSteps, N
<1>14. QED
    BY <1>1, <1>11, <1>12, <1>13

-------------------------------------------------------------------------------
(* A header is lost from the table only with a second latch's loop.        *)

(* Of the edges seen, made are those whose loops are in the table: every   *)
(* header seen is in one of these loops, or in the body of a loop whose    *)
(* header has another latch.                                               *)
TableKeeps(g, made, seen) ==
    /\ made \subseteq seen
    /\ \A f \in seen :
           \/ \E e \in made : f.header \in LoopOf(g, e)
           \/ \E e, d \in seen : e # d /\ e.header = d.header /\ f.header \in Inside(g, e)

(* One turn: the loop of e takes over those that begin inside it.  If the  *)
(* table has a loop for its header already, it is destroyed, which is no   *)
(* harm when e has just been seen, for then nothing is left to take over.  *)
LEMMA TurnKeepsHeaders ==
    ASSUME NEW g, NEW d, NEW S, S = Reachable(g), FlowOf(g), SearchTree(g, d, S),
           NEW seen \in SUBSET EdgeRecords(g), NEW e \in EdgeRecords(g),
           NEW made, TableKeeps(g, made, seen),
           NEW kept, kept = {m \in made : m.header \notin Inside(g, e)},
           NEW next, next \subseteq seen \cup {e}, kept \subseteq next,
           \/ e \in next
           \/ (\E m \in kept : m.header = e.header) /\ (e \in seen => kept = made)
    PROVE  TableKeeps(g, next, seen \cup {e})
<1> DEFINE more == seen \cup {e}
           InLoop(f) == \E m \in next : f.header \in LoopOf(g, m)
           Lost(f) == \E m, n \in more : m # n /\ m.header = n.header /\ f.header \in Inside(g, m)
<1>1. LoopOf(g, e) = {e.header} \cup Inside(g, e) /\ e.header \notin Inside(g, e)
    BY InsideIsLeast
<1>2. made \subseteq seen /\ \A m \in made : m \in EdgeRecords(g)
    BY DEF TableKeeps
<1>3. \A m \in made : m.header \in LoopOf(g, m)
    BY <1>2, InsideIsLeast
<1>4. InLoop(e)
    BY <1>1, <1>3
<1>5. ASSUME NEW f \in seen, NEW m \in made, f.header \in LoopOf(g, m), m \notin kept
      PROVE  InLoop(f) \/ Lost(f)
    <2>1. m.header # e.header /\ m.header \in LoopOf(g, e) /\ m \in EdgeRecords(g)
        BY <1>1, <1>2, <1>5
    <2>2. f.header \in LoopOf(g, e)
        BY <1>5, <2>1, LoopInside
    <2>3. CASE e \in next
        BY <2>2, <2>3
    <2>4. CASE e \notin next
        <3>1. PICK n \in kept : n.header = e.header /\ e \notin seen
            BY <1>5, <2>4
        <3>2. n \in made /\ n # e /\ n \in more /\ n \in next
            BY <1>2, <3>1
        <3>3. CASE f.header = e.header
            BY <1>3, <3>1, <3>2, <3>3
        <3>4. CASE f.header \in Inside(g, e)
            BY <3>1, <3>2, <3>4
        <3>5. QED
            BY <1>1, <2>2, <3>3, <3>4
    <2>5. QED
        BY <2>3, <2>4
<1>6. ASSUME NEW f \in seen PROVE InLoop(f) \/ Lost(f)
    <2>1. CASE \E m \in made : f.header \in LoopOf(g, m)
        BY <1>5, <2>1
    <2>2. CASE \E m, n \in seen : m # n /\ m.header = n.header /\ f.header \in Inside(g, m)
        BY <2>2
    <2>3. QED
        BY <2>1, <2>2 DEF TableKeeps
<1> HIDE DEF InLoop, Lost
<1>7. \A f \in more : InLoop(f) \/ Lost(f)
    BY <1>4, <1>6
<1>8. QED
    BY <1>7 DEF TableKeeps, InLoop, Lost

(* the edges of E whose loops are in the table                             *)
MadeOf(g, loops, E) ==
    {e \in E : e.header \in DOMAIN loops /\ Gathered(g, LoopVertices(loops, e.header), e.latch, e.header)}

(* Lines 29-47, whatever the order of the latches.                         *)
LEMMA TableOfLoopsKeeps ==
    ASSUME NEW g, FlowOf(g), NEW d, NEW tree, AnalysedBy(g, d, tree),
           NEW loops, loops = LoopTreeOf(g, d, tree)
    PROVE  TableKeeps(g, MadeOf(g, loops, EdgeRecords(g)), EdgeRecords(g))
<1>1. PICK E : E = EdgeRecords(g)
    OBVIOUS
<1>2. PICK S : S = Reachable(g)
    OBVIOUS
<1>3. SearchTree(g, d, S)
    BY <1>2 DEF AnalysedBy
<1>4. PICK edges : edges = BackEdges(g, d, tree)
    OBVIOUS
<1>5. /\ edges \in Seq(E) /\ Range(edges) = E
      /\ \A i, j \in DOMAIN edges : i < j /\ edges[i] = edges[j] => j = i + 1
    BY <1>1, <1>4, BackEdgesAre DEF AnalysedBy
<1>6. PICK a : LoopSteps(a, g, edges, LoopTreeOf(g, d, tree))
    BY <1>4, <1>5, LoopsUnfold
<1>7. LoopSteps(a, g, edges, loops)
    BY <1>6
<1> DEFINE N == Len(edges)
           Seen(k) == {edges[i] : i \in 1 .. k}
           Made(k) == MadeOf(g, a[k], Seen(k))
           T == {k \in 0 .. N : TableKeeps(g, Made(k), Seen(k))}
<1>8. N \in Nat /\ DOMAIN edges = 1 .. N /\ \A i \in 1 .. N : edges[i] \in E
    BY <1>5
<1>9. \A k \in 0 .. N : MadeFrom(g, a[k], Seen(k))
    BY <1>5, <1>7, LoopsMadeFrom
<1>10. ASSUME NEW k \in 1 .. N
       PROVE  TurnDone(a[k - 1], a[k], edges[k].header, LoopBody(g, edges[k].latch, edges[k].header))
    BY <1>7, AddedLoopIs DEF LoopSteps
<1> HIDE DEF N
<1>11. ASSUME NEW e \in E
       PROVE  /\ Range(LoopBody(g, e.latch, e.header)) = Inside(g, e)
              /\ e.header \notin Inside(g, e)
    <2>1. e.latch \in Block /\ e.header \in Block
        BY <1>1, EdgesOf DEF EdgeRecords
    <2>2. e.header \notin Inside(g, e)
        BY <1>1, <1>2, <1>3, InsideIsLeast
    <2>3. QED
        BY <2>1, <2>2, LoopBodyIs DEF Inside
<1>12. 0 \in T
    <2>1. Seen(0) = {}
        OBVIOUS
    <2> HIDE DEF Seen
    <2>2. TableKeeps(g, Made(0), Seen(0))
        BY <2>1 DEF TableKeeps, MadeOf
    <2>3. QED
        BY <1>8, <2>2
<1>13. ASSUME NEW k \in 1 .. N, k - 1 \in T PROVE k \in T
    <2>1. PICK e \in E : e = edges[k]
        BY <1>8
    <2>2. PICK x : x = a[k - 1]
        OBVIOUS
    <2>3. PICK y : y = a[k]
        OBVIOUS
    <2>4. PICK body : body = LoopBody(g, e.latch, e.header)
        OBVIOUS
    <2>5. Range(body) = Inside(g, e) /\ e.header \notin Inside(g, e)
        BY <1>11, <2>4
    <2>6. TurnDone(x, y, e.header, body)
        BY <1>10, <2>1, <2>2, <2>3, <2>4
    <2>7. PICK seen \in SUBSET E : seen = Seen(k - 1)
        <3>1. \A i \in 1 .. k - 1 : i \in 1 .. N
            BY <1>8
        <3>2. QED
            BY <1>8, <3>1
    <2>8. Seen(k) = seen \cup {e}
        <3>1. 1 .. k = (1 .. k - 1) \cup {k}
            BY <1>8
        <3>2. QED
            BY <2>1, <2>7, <3>1
    <2>9. k - 1 \in 0 .. N /\ k \in 0 .. N
        BY <1>8
    <2>10. MadeFrom(g, x, seen)
        BY <1>9, <2>2, <2>7, <2>9
    <2>11. PICK made : made = MadeOf(g, x, seen)
        OBVIOUS
    <2>12. TableKeeps(g, made, seen)
        BY <1>13, <2>2, <2>7, <2>11
    <2>13. PICK next : next = MadeOf(g, y, seen \cup {e})
        OBVIOUS
    <2>14. PICK kept : kept = {m \in made : m.header \notin Inside(g, e)}
        OBVIOUS
    <2>15. next \subseteq seen \cup {e}
        BY <2>13 DEF MadeOf
    <2>16. ASSUME NEW m \in kept PROVE m \in next
        <3>1. /\ m \in seen /\ m.header \in DOMAIN x \ Range(body)
              /\ Gathered(g, LoopVertices(x, m.header), m.latch, m.header)
            BY <2>5, <2>11, <2>14 DEF MadeOf
        <3>2. m.header \in DOMAIN y /\ y[m.header] = x[m.header]
            BY <2>6, <3>1 DEF TurnDone
        <3>3. QED
            BY <2>13, <3>1, <3>2 DEF MadeOf, LoopVertices
    <2>17. ASSUME e.header \notin DOMAIN x \ Range(body)
           PROVE  TableKeeps(g, next, seen \cup {e})
        <3>1. e.header \in DOMAIN y /\ y[e.header].vertices = <<e.header>> \o body
            BY <2>6, <2>17 DEF TurnDone
        <3>2. e \in next
            BY <2>4, <2>13, <3>1 DEF MadeOf, LoopVertices, Gathered
        <3>3. QED
            BY <1>1, <1>2, <1>3, <2>12, <2>14, <2>15, <2>16, <3>2,
               TurnKeepsHeaders
    <2>18. ASSUME e.header \in DOMAIN x \ Range(body)
           PROVE  TableKeeps(g, next, seen \cup {e})
        <3>1. \E m \in kept : m.header = e.header
            <4>1. PICK m \in seen : /\ m.header = e.header
                                    /\ LoopVertices(x, e.header) = <<e.header>> \o LoopBody(g, m.latch, e.header)
                BY <2>10, <2>18 DEF MadeFrom
            <4>2. m \in made
                BY <2>11, <2>18, <4>1 DEF MadeOf, Gathered
            <4>3. QED
                BY <2>5, <2>14, <4>1, <4>2
        <3>2. ASSUME e \in seen PROVE kept = made
            <4>1. PICK i \in 1 .. k - 1 : edges[i] = e
                BY <2>7, <3>2
            <4>2. i \in 1 .. N /\ i < k
                BY <1>8
            <4>3. k = i + 1
                BY <1>5, <1>8, <2>1, <4>1, <4>2
            <4>4. i = k - 1
                BY <1>8, <4>3
            <4>5. TurnDone(a[i - 1], x, e.header, body)
                BY <1>10, <2>2, <2>4, <4>1, <4>2, <4>4
            <4>6. DOMAIN x \subseteq (DOMAIN a[i - 1] \ Range(body)) \cup {e.header}
                BY <4>5 DEF TurnDone
            <4>7. \A m \in made : m.header \in DOMAIN x
                BY <2>11 DEF MadeOf
            <4>8. QED
                BY <2>5, <2>14, <4>6, <4>7
        <3>3. QED
            BY <1>1, <1>2, <1>3, <2>12, <2>14, <2>15, <2>16, <3>1, <3>2,
               TurnKeepsHeaders
    <2>19. TableKeeps(g, next, seen \cup {e})
        BY <2>17, <2>18
    <2>20. QED
        BY <2>3, <2>8, <2>9, <2>13, <2>19
<1>14. N \in T
    <2> HIDE DEF T
    <2>1. 0 .. N \subseteq T
        BY <1>8, <1>12, <1>13, UpTo
    <2>2. QED
        BY <1>8, <2>1
<1>15. Seen(N) = E
    BY <1>5, <1>8 DEF Range
<1>16. a[N] = loops
    BY <1>7 DEF LoopSteps, N
<1>17. QED
    BY <1>1, <1>14, <1>15, <1>16

-------------------------------------------------------------------------------
(* Sequences without repetition, filtered, reversed and joined.            *)

LEMMA AppendedOnce ==
    ASSUME NEW T, NEW q \in Seq(T), NEW x \in T, NEW c, c = Append(q, x),
           IsInjective(q), x \notin Range(q)
    PROVE  IsInjective(c)
<1> SUFFICES ASSUME NEW i \in DOMAIN c, NEW j \in DOMAIN c, c[i] = c[j] PROVE i = j
    BY DEF IsInjective
<1>1. /\ DOMAIN q = 1 .. Len(q) /\ Len(q) \in Nat /\ DOMAIN c = 1 .. Len(q) + 1
      /\ \A k \in DOMAIN q : c[k] = q[k]
      /\ c[Len(q) + 1] = x
    BY AppendFacts
<1>2. i \in DOMAIN q \/ i = Len(q) + 1
    BY <1>1
<1>3. j \in DOMAIN q \/ j = Len(q) + 1
    BY <1>1
<1>4. QED
    BY <1>1, <1>2, <1>3 DEF IsInjective, Range

LEMMA InjectiveConcat ==
    ASSUME NEW T, NEW p \in Seq(T), NEW q \in Seq(T), IsInjective(p), IsInjective(q),
           Range(p) \cap Range(q) = {}
    PROVE  IsInjective(p \o q)
<1>1. PICK c : c = p \o q
    OBVIOUS
<1>2. /\ DOMAIN p = 1 .. Len(p) /\ DOMAIN q = 1 .. Len(q) /\ Len(p) \in Nat /\ Len(q) \in Nat
      /\ DOMAIN c = 1 .. Len(p) + Len(q)
      /\ \A i \in DOMAIN c : i <= Len(p) => i \in DOMAIN p /\ c[i] = p[i]
      /\ \A i \in DOMAIN c : i > Len(p) => i - Len(p) \in DOMAIN q /\ c[i] = q[i - Len(p)]
    BY <1>1
<1>3. ASSUME NEW i \in DOMAIN c, NEW j \in DOMAIN c, c[i] = c[j] PROVE i = j
    <2>1. i \in Nat /\ j \in Nat
        BY <1>2
    <2>2. CASE i <= Len(p) /\ j <= Len(p)
        BY <1>2, <1>3, <2>2 DEF IsInjective
    <2>3. CASE i > Len(p) /\ j > Len(p)
        <3>1. i - Len(p) = j - Len(p)
            BY <1>2, <1>3, <2>3 DEF IsInjective
        <3>2. QED
            BY <1>2, <2>1, <3>1
    <2>4. CASE i <= Len(p) /\ j > Len(p)
        BY <1>2, <1>3, <2>4 DEF Range
    <2>5. CASE i > Len(p) /\ j <= Len(p)
        BY <1>2, <1>3, <2>5 DEF Range
    <2>6. QED
        BY <1>2, <2>1, <2>2, <2>3, <2>4, <2>5
<1>4. QED
    BY <1>1, <1>3 DEF IsInjective

LEMMA TailFacts ==
    ASSUME NEW T, NEW q \in Seq(T), q # << >>
    PROVE  /\ Head(q) \in Range(q) /\ Head(q) \in T
           /\ Tail(q) \in Seq(T)
           /\ Range(q) = {Head(q)} \cup Range(Tail(q))
           /\ IsInjective(q) => IsInjective(Tail(q)) /\ Head(q) \notin Range(Tail(q))
<1>0. Tail(q) \in Seq(T)
    OBVIOUS
<1>1. PICK t \in Seq(T) : t = Tail(q)
    BY <1>0
<1>2. PICK h \in T : h = Head(q) /\ h = q[1]
    OBVIOUS
<1>3. /\ Len(q) \in Nat /\ Len(q) >= 1 /\ DOMAIN q = 1 .. Len(q)
      /\ DOMAIN t = 1 .. Len(q) - 1
      /\ \A i \in DOMAIN t : i + 1 \in DOMAIN q /\ t[i] = q[i + 1]
    BY <1>1
<1>4. 1 \in DOMAIN q /\ \A i \in DOMAIN q : i # 1 => i - 1 \in DOMAIN t /\ q[i] = t[i - 1]
    <2>1. ASSUME NEW i \in DOMAIN q, i # 1
          PROVE  i - 1 \in DOMAIN t /\ q[i] = t[i - 1]
        <3>1. PICK j : j = i - 1
            OBVIOUS
        <3>2. j \in DOMAIN t /\ i = j + 1
            BY <1>3, <2>1, <3>1
        <3>3. QED
            BY <1>3, <3>1, <3>2
    <2>2. QED
        BY <1>3, <2>1
<1>5. Range(t) \subseteq Range(q) /\ h \in Range(q)
    BY <1>2, <1>3, <1>4 DEF Range
<1>6. Range(q) \subseteq {h} \cup Range(t)
    BY <1>2, <1>3, <1>4 DEF Range
<1>7. ASSUME IsInjective(q) PROVE IsInjective(t) /\ h \notin Range(t)
    <2>1. IsInjective(t)
        <3> SUFFICES ASSUME NEW i \in DOMAIN t, NEW j \in DOMAIN t, t[i] = t[j] PROVE i = j
            BY DEF IsInjective
        <3>1. i + 1 = j + 1
            BY <1>3, <1>7 DEF IsInjective
        <3>2. QED
            BY <1>3, <3>1
    <2>2. h \notin Range(t)
        <3> SUFFICES ASSUME NEW i \in DOMAIN t, t[i] = h PROVE FALSE
            BY DEF Range
        <3>1. i + 1 = 1
            BY <1>2, <1>3, <1>4, <1>7 DEF IsInjective
        <3>2. QED
            BY <1>3, <3>1
    <2>3. QED
        BY <2>1, <2>2
<1>8. QED
    BY <1>1, <1>2, <1>5, <1>6, <1>7

LEMMA FilteredInjective ==
    ASSUME NEW T, NEW list \in Seq(T), NEW set, IsInjective(list)
    PROVE  IsInjective(Filtered(list, set))
<1> DEFINE N == Len(list)
<1>1. PICK a \in [0 .. N -> Seq(T)] : FilterSteps(a, list, set)
    BY FilterUnfolds
<1>2. N \in Nat /\ DOMAIN list = 1 .. N /\ \A k \in 1 .. N : list[k] \in T
    OBVIOUS
<1> DEFINE A == {k \in 0 .. N : IsInjective(a[k]) /\ Range(a[k]) \subseteq {list[i] : i \in 1 .. k}}
<1> HIDE DEF N
<1>3. 0 \in A
    <2>1. a[0] = << >>
        BY <1>1 DEF FilterSteps
    <2>2. Range(a[0]) = {} /\ IsInjective(a[0])
        BY <2>1 DEF Range, IsInjective
    <2>3. QED
        BY <1>2, <2>2
<1>4. ASSUME NEW k \in 1 .. N, k - 1 \in A PROVE k \in A
    <2>1. k - 1 \in 0 .. N /\ k \in 0 .. N
        BY <1>2
    <2>2. PICK b \in Seq(T) : b = a[k - 1]
        BY <2>1
    <2>3. PICK x \in T : x = list[k]
        BY <1>2
    <2>4. a[k] = FilterStep(b, x, set)
        BY <1>1, <2>2, <2>3 DEF FilterSteps, N
    <2>5. IsInjective(b) /\ Range(b) \subseteq {list[i] : i \in 1 .. k - 1}
        BY <1>4, <2>2
    <2>6. x \notin Range(b)
        <3>1. \A i \in 1 .. k - 1 : i \in DOMAIN list /\ k \in DOMAIN list /\ i # k
            BY <1>2
        <3>2. \A i \in 1 .. k - 1 : list[i] # x
            BY <2>3, <3>1 DEF IsInjective
        <3>3. QED
            BY <2>5, <3>2
    <2>7. \A i \in 1 .. k - 1 : i \in 1 .. k
        BY <1>2
    <2>8. x \in {list[i] : i \in 1 .. k}
        BY <1>2, <2>3
    <2>9. CASE x \in set
        <3>1. PICK c : c = Append(b, x)
            OBVIOUS
        <3>2. a[k] = c
            BY <2>4, <2>9, <3>1 DEF FilterStep
        <3>3. Range(c) = Range(b) \cup {x}
            BY <3>1, AppendFacts
        <3>4. IsInjective(c)
            BY <2>5, <2>6, <3>1, AppendedOnce
        <3>5. QED
            BY <2>1, <2>5, <2>7, <2>8, <3>2, <3>3, <3>4
    <2>10. CASE x \notin set
        <3>1. a[k] = b
            BY <2>4, <2>10 DEF FilterStep
        <3>2. QED
            BY <2>1, <2>5, <2>7, <3>1
    <2>11. QED
        BY <2>9, <2>10
<1>5. N \in A
    <2> HIDE DEF A
    <2>1. 0 .. N \subseteq A
        BY <1>2, <1>3, <1>4, UpTo
    <2>2. QED
        BY <1>2, <2>1
<1>6. a[N] = Filtered(list, set)
    BY <1>1 DEF FilterSteps, N
<1>7. QED
    BY <1>5, <1>6

LEMMA ReverseFacts ==
    ASSUME NEW T, NEW q \in Seq(T)
    PROVE  /\ Reverse(q) \in Seq(T)
           /\ Len(Reverse(q)) = Len(q)
           /\ Range(Reverse(q)) = Range(q)
           /\ IsInjective(q) => IsInjective(Reverse(q))
           /\ \A i \in 1 .. Len(q) : Reverse(q)[i] = q[Len(q) - i + 1]
<1>1. PICK r : r = Reverse(q)
    OBVIOUS
<1>2. Len(q) \in Nat /\ DOMAIN q = 1 .. Len(q) /\ r = [i \in 1 .. Len(q) |-> q[(Len(q) - i) + 1]]
    BY <1>1 DEF Reverse
<1>3. \A i \in 1 .. Len(q) : (Len(q) - i) + 1 \in 1 .. Len(q) /\ (Len(q) - ((Len(q) - i) + 1)) + 1 = i
    BY <1>2
<1>4. r \in Seq(T) /\ DOMAIN r = 1 .. Len(q) /\ Len(r) = Len(q)
    BY <1>2, <1>3
<1>5. Range(r) = Range(q)
    <2>1. Range(r) \subseteq Range(q)
        BY <1>2, <1>3 DEF Range
    <2>2. ASSUME NEW i \in 1 .. Len(q) PROVE q[i] \in Range(r)
        <3>1. PICK j \in 1 .. Len(q) : j = (Len(q) - i) + 1
            BY <1>3
        <3>2. r[j] = q[i]
            BY <1>2, <1>3, <3>1
        <3>3. QED
            BY <1>4, <3>2 DEF Range
    <2>3. Range(q) \subseteq Range(r)
        <3>1. \A x \in Range(q) : \E i \in 1 .. Len(q) : x = q[i]
            BY <1>2 DEF Range
        <3>2. QED
            BY <2>2, <3>1
    <2>4. QED
        BY <2>1, <2>3
<1>6. ASSUME IsInjective(q) PROVE IsInjective(r)
    <2> SUFFICES ASSUME NEW i \in 1 .. Len(q), NEW j \in 1 .. Len(q), r[i] = r[j] PROVE i = j
        BY <1>4 DEF IsInjective
    <2>1. (Len(q) - i) + 1 = (Len(q) - j) + 1
        BY <1>2, <1>3, <1>6 DEF IsInjective
    <2>2. QED
        BY <1>2, <2>1
<1>7. QED
    BY <1>1, <1>2, <1>4, <1>5, <1>6

(* Lines 47-49: the blocks that a block immediately dominates, each once.  *)
LEMMA ChildrenAre ==
    ASSUME NEW g, FlowOf(g), NEW d, d = DFSOf(g, Entry, {}), NEW tree, tree = DominatorTreeOf(g, d),
           NEW u \in Reachable(g)
    PROVE  /\ tree.successors[u] \in Seq(Block)
           /\ IsInjective(tree.successors[u])
           /\ Range(tree.successors[u]) = {v \in Reachable(g) \ {Entry} : tree.idom[v] = u}
<1>1. PICK S : S = Reachable(g)
    OBVIOUS
<1>2. PICK q : q = d.post_order
    OBVIOUS
<1>3. q \in Seq(Block) /\ Range(q) = S /\ IsInjective(q)
    <2>1. g.succ \in [Block -> Seq(Block)] /\ Entry \in Block
        BY EdgesOf
    <2>2. PICK none : none = {}
        OBVIOUS
    <2>3. none \in SUBSET (Block \ {Entry}) /\ q = DFSOf(g, Entry, none).post_order
        BY <1>2, <2>2
    <2>4. q \in Seq(Block) /\ Range(q) = Reach(g, Entry, none) /\ IsInjective(q)
        BY <2>1, <2>3, PostOrderLists
    <2>5. QED
        BY <1>1, <2>2, <2>4 DEF Reachable
<1>4. PICK r : r = Reverse(q)
    OBVIOUS
<1>5. r \in Seq(Block) /\ Range(r) = S /\ IsInjective(r)
    BY <1>3, <1>4, ReverseFacts
<1>6. DOMAIN tree.idom = S \ {Entry}
    <2>1. DOMAIN DominatorTreeOf(g, d).idom = Reachable(g) \ {Entry}
        BY DominatorTreeComputed
    <2>2. QED
        BY <1>1, <2>1
<1>7. Head(d.pre_order) = Entry
    <2>1. AnalysedBy(g, d, tree)
        BY AnalysesOf
    <2>2. QED
        BY <2>1 DEF AnalysedBy, PreOrder
<1>8. tree.successors[u] = Filtered(r, {v \in S \ {Entry} : tree.idom[v] = u})
    <2>1. PICK idom : idom = IDoms(d, SemiDominators(g, d))
        OBVIOUS
    <2>2. /\ tree.idom = idom
          /\ tree.successors = [w \in {Head(d.pre_order)} \cup DOMAIN idom |->
                                   Filtered(Reverse(d.post_order), {v \in DOMAIN idom : idom[v] = w})]
        BY <2>1 DEF DominatorTreeOf
    <2>3. u \in {Head(d.pre_order)} \cup DOMAIN idom
        BY <1>1, <1>6, <1>7, <2>2
    <2>4. QED
        BY <1>2, <1>4, <1>6, <2>2, <2>3
<1>9. PICK set : set = {v \in S \ {Entry} : tree.idom[v] = u}
    OBVIOUS
<1>10. /\ Filtered(r, set) \in Seq(Block)
       /\ Range(Filtered(r, set)) = Range(r) \cap set
       /\ IsInjective(Filtered(r, set))
    BY <1>5, FilteredIs, FilteredInjective
<1>11. QED
    BY <1>1, <1>5, <1>8, <1>9, <1>10

-------------------------------------------------------------------------------
(* Every block that a turn of the order's loop paints is listed once.      *)

(* the vertices that stand behind the header in its loop                   *)
Body(loops, h) == Range(LoopVertices(loops, h)) \ {h}

Children(g, tree, u) == {v \in Reachable(g) \ {Entry} : tree.idom[v] = u}

(* The loop of lines 62-85 has listed order and queue: each block that is  *)
(* black stands in one of them, once, a loop whose header is not taken is  *)
(* white but for the header, and what a taken block dominates immediately  *)
(* is black.                                                               *)
TurnsListed(g, tree, loops, order, queue, black) ==
    /\ order \in Seq(Block) /\ queue \in Seq(Block)
    /\ IsInjective(order) /\ IsInjective(queue)
    /\ Range(order) \cap Range(queue) = {}
    /\ Range(order) \cup Range(queue) = black
    /\ Entry \in black /\ black \subseteq Reachable(g)
    /\ \A h \in DOMAIN loops : h \notin Range(order) => Body(loops, h) \cap black = {}
    /\ \A u \in Range(order) : Children(g, tree, u) \subseteq black

LEMMA TakenNext ==
    ASSUME NEW g, NEW tree, NEW loops, NEW order, NEW queue, NEW black,
           TurnsListed(g, tree, loops, order, queue, black), queue # << >>,
           NEW body \in Seq(Block), IsInjective(body),
           Range(body) = IF Head(queue) \in DOMAIN loops THEN Body(loops, Head(queue)) ELSE {},
           Range(body) \subseteq Reachable(g),
           NEW new \in Seq(Block), IsInjective(new),
           Range(new) = Children(g, tree, Head(queue)) \ (black \cup Range(body)),
           \A h \in DOMAIN loops : Head(queue) \in DOMAIN loops /\ h # Head(queue) =>
               Body(loops, h) \cap Body(loops, Head(queue)) = {},
           \A h \in DOMAIN loops : \A v \in Body(loops, h) :
               v \in Reachable(g) \ {Entry} => tree.idom[v] \in Body(loops, h) \cup {h}
    PROVE  TurnsListed(g, tree, loops, Append(order, Head(queue)), body \o Tail(queue) \o new,
                 black \cup Range(body) \cup Range(new))
<1> DEFINE S == Reachable(g)
<1>1. /\ order \in Seq(Block) /\ queue \in Seq(Block)
      /\ IsInjective(order) /\ IsInjective(queue)
      /\ Range(order) \cap Range(queue) = {}
      /\ Range(order) \cup Range(queue) = black
      /\ Entry \in black /\ black \subseteq S
      /\ \A h \in DOMAIN loops : h \notin Range(order) => Body(loops, h) \cap black = {}
      /\ \A x \in Range(order) : Children(g, tree, x) \subseteq black
    BY DEF TurnsListed
<1>2. PICK u : u = Head(queue)
    OBVIOUS
<1>3. PICK t : t = Tail(queue)
    OBVIOUS
<1>4. /\ u \in Range(queue) /\ u \in Block /\ t \in Seq(Block)
      /\ Range(queue) = {u} \cup Range(t) /\ IsInjective(t) /\ u \notin Range(t)
    BY <1>1, <1>2, <1>3, TailFacts
<1>5. u \in black /\ u \in S /\ u \notin Range(order) /\ Range(t) \subseteq black
    BY <1>1, <1>4
<1>6. Range(body) \cap black = {}
    BY <1>1, <1>2, <1>5
<1>7. PICK o : o = Append(order, u)
    OBVIOUS
<1>8. o \in Seq(Block) /\ Range(o) = Range(order) \cup {u}
    BY <1>1, <1>4, <1>7, AppendFacts
<1>9. IsInjective(o)
    BY <1>1, <1>4, <1>5, <1>7, AppendedOnce
<1>10. PICK q : q = body \o t
    OBVIOUS
<1>11. q \in Seq(Block) /\ Range(q) = Range(body) \cup Range(t) /\ IsInjective(q)
    <2>1. body \o t \in Seq(Block)
        BY <1>4
    <2>2. Range(body \o t) = Range(body) \cup Range(t)
        BY <1>4, RangeConcat
    <2>3. IsInjective(body \o t)
        BY <1>4, <1>5, <1>6, InjectiveConcat
    <2>4. QED
        BY <1>10, <2>1, <2>2, <2>3
<1>12. PICK r : r = q \o new
    OBVIOUS
<1>13. r \in Seq(Block) /\ Range(r) = Range(q) \cup Range(new) /\ IsInjective(r)
    <2>1. q \o new \in Seq(Block)
        BY <1>11
    <2>2. Range(q \o new) = Range(q) \cup Range(new)
        BY <1>11, RangeConcat
    <2>3. Range(q) \cap Range(new) = {}
        BY <1>5, <1>11
    <2>4. IsInjective(q \o new)
        BY <1>11, <2>3, InjectiveConcat
    <2>5. QED
        BY <1>12, <2>1, <2>2, <2>4
<1>14. PICK b : b = black \cup Range(body) \cup Range(new)
    OBVIOUS
<1>15. Range(o) \cap Range(r) = {}
    <2>1. Range(new) \cap black = {}
        OBVIOUS
    <2>2. QED
        BY <1>1, <1>4, <1>5, <1>6, <1>8, <1>11, <1>13, <2>1
<1>16. Range(o) \cup Range(r) = b
    BY <1>1, <1>4, <1>8, <1>11, <1>13, <1>14
<1>17. Entry \in b /\ b \subseteq S
    BY <1>1, <1>14 DEF Children
<1>18. ASSUME NEW h \in DOMAIN loops, h \notin Range(o) PROVE Body(loops, h) \cap b = {}
    <2>1. h # u /\ h \notin Range(order)
        BY <1>8, <1>18
    <2>2. Body(loops, h) \cap black = {}
        BY <1>1, <2>1
    <2>3. Body(loops, h) \cap Range(body) = {}
        BY <1>2, <2>1
    <2>4. ASSUME NEW v \in Range(new) \cap Body(loops, h) PROVE FALSE
        <3>1. v \in S \ {Entry} /\ tree.idom[v] = u
            BY <1>2, <2>4 DEF Children
        <3>2. u \in Body(loops, h) \cup {h}
            BY <2>4, <3>1
        <3>3. QED
            BY <1>5, <2>1, <2>2, <3>2
    <2>5. QED
        BY <1>14, <2>2, <2>3, <2>4
<1>19. ASSUME NEW x \in Range(o) PROVE Children(g, tree, x) \subseteq b
    <2>1. CASE x \in Range(order)
        BY <1>1, <1>14, <2>1
    <2>2. CASE x = u
        BY <1>2, <1>14, <2>2
    <2>3. QED
        BY <1>8, <1>19, <2>1, <2>2
<1>20. TurnsListed(g, tree, loops, o, r, b)
    BY <1>8, <1>9, <1>13, <1>15, <1>16, <1>17, <1>18, <1>19 DEF TurnsListed
<1>21. QED
    BY <1>2, <1>3, <1>7, <1>10, <1>12, <1>14, <1>20

(* When no block is left in the queue, none has been missed: the first     *)
(* block of the pre-order that is white has an immediate dominator, which  *)
(* has been taken.                                                         *)
LEMMA NoneMissed ==
    ASSUME NEW g, NEW d, NEW S, S = Reachable(g), SearchTree(g, d, S),
           NEW tree, \A v \in S \ {Entry} : IsIDom(g, v, tree.idom[v]),
           NEW loops, NEW order, NEW queue, NEW black,
           TurnsListed(g, tree, loops, order, queue, black), queue = << >>
    PROVE  Range(order) = S
<1> DEFINE white == S \ black
<1>1. Range(order) = black /\ black \subseteq S /\ Entry \in black
    <2>1. PICK q : q = queue
        OBVIOUS
    <2>2. Range(q) = {}
        BY <2>1 DEF Range
    <2>3. QED
        BY <2>1, <2>2 DEF TurnsListed
<1>2. \A v \in S : Begin(d, v) \in Nat
    BY DEF SearchTree, TreeTimes
<1>3. SUFFICES ASSUME white # {} PROVE FALSE
    BY <1>1
<1>4. PICK w \in white : \A x \in white : Begin(d, w) <= Begin(d, x)
    <2>1. \A x \in white : Begin(d, x) \in Nat
        BY <1>2
    <2> HIDE DEF white
    <2>2. QED
        BY <1>3, <2>1, SmallestBegin
<1>5. w \in S \ {Entry} /\ w \notin black
    BY <1>1, <1>4
<1>6. PICK p : p = tree.idom[w]
    OBVIOUS
<1>7. p \in S /\ p # w /\ Dominates(g, p, w)
    BY <1>5, <1>6 DEF IsIDom, StrictDominators
<1>8. Begin(d, p) < Begin(d, w)
    <2>1. Above(d, p, w)
        BY <1>5, <1>7, DominatorsAbove
    <2>2. QED
        BY <1>5, <1>7, <2>1, AboveOrder
<1>9. p \in black
    BY <1>2, <1>4, <1>5, <1>7, <1>8
<1>10. w \in Children(g, tree, p)
    BY <1>5, <1>6 DEF Children
<1>11. QED
    BY <1>1, <1>5, <1>9, <1>10 DEF TurnsListed

(* A loop in the table is one back edge's, and its body is what the search *)
(* backwards from the latch finds.                                         *)
LEMMA EdgeOfHeader ==
    ASSUME NEW g, FlowOf(g), NEW d, NEW tree, AnalysedBy(g, d, tree),
           NEW loops, loops = LoopTreeOf(g, d, tree), NEW h \in DOMAIN loops
    PROVE  \E e \in EdgeRecords(g) :
               /\ e.header = h
               /\ Range(LoopVertices(loops, h)) = LoopOf(g, e)
               /\ Body(loops, h) = Inside(g, e)
               /\ Gathered(g, LoopVertices(loops, h), e.latch, h)
<1>1. PICK latch \in Block :
          /\ IsBackEdge(g, latch, h)
          /\ IsLoopOf(g, LoopVertices(loops, h), latch, h)
          /\ Gathered(g, LoopVertices(loops, h), latch, h)
    BY LoopsOfTable
<1>2. PICK e : e = [latch |-> latch, header |-> h]
    OBVIOUS
<1>3. SearchTree(g, d, Reachable(g))
    BY DEF AnalysedBy
<1>4. h \in Reachable(g)
    BY <1>1, <1>3 DEF IsBackEdge, SearchTree, TreeEdges
<1>5. e \in EdgeRecords(g)
    BY <1>1, <1>2, <1>4 DEF EdgeRecords, IsBackEdge
<1>6. Range(LoopVertices(loops, h)) = LoopOf(g, e) /\ e.header = h
    BY <1>1, <1>2 DEF IsLoopOf, LoopOf
<1>7. LoopOf(g, e) = {e.header} \cup Inside(g, e) /\ e.header \notin Inside(g, e)
    BY <1>3, <1>5, InsideIsLeast
<1>8. QED
    BY <1>1, <1>2, <1>5, <1>6, <1>7 DEF Body

LEMMA EntryListed ==
    ASSUME NEW g, FlowOf(g), NEW d, NEW tree, AnalysedBy(g, d, tree),
           NEW loops, loops = LoopTreeOf(g, d, tree),
           NEW order, order = << >>, NEW queue, queue = <<Entry>>, NEW black, black = {Entry}
    PROVE  TurnsListed(g, tree, loops, order, queue, black)
<1>1. Entry \in Block /\ Entry \in Reachable(g)
    BY EdgesOf DEF AnalysedBy, SearchTree
<1>2. order \in Seq(Block) /\ Range(order) = {} /\ IsInjective(order)
    BY DEF Range, IsInjective
<1>3. queue \in Seq(Block) /\ Range(queue) = {Entry} /\ IsInjective(queue)
    BY <1>1 DEF Range, IsInjective
<1>4. ASSUME NEW h \in DOMAIN loops PROVE Body(loops, h) \cap black = {}
    <2>1. PICK e \in EdgeRecords(g) : Body(loops, h) = Inside(g, e)
        BY EdgeOfHeader
    <2>2. SearchTree(g, d, Reachable(g))
        BY DEF AnalysedBy
    <2>3. \A x \in Inside(g, e) : x # Entry
        BY <2>2, HeaderAbove
    <2>4. QED
        BY <2>1, <2>3
<1>5. QED
    BY <1>1, <1>2, <1>3, <1>4 DEF TurnsListed

LEMMA SearchIsRecord ==
    ASSUME NEW g, FlowOf(g)
    PROVE  DFSOf(g, Entry, {}) # << >>
<1>1. PICK d : d = DFSOf(g, Entry, {})
    OBVIOUS
<1>2. PICK none : none = {}
    OBVIOUS
<1>3. g.succ \in [Block -> Seq(Block)] /\ Entry \in Block /\ none \in SUBSET (Block \ {Entry})
    BY <1>2, EdgesOf
<1>4. Searched(g, none, Entry, DFSOf(g, Entry, none))
    BY <1>3, SearchEnds
<1>5. WellFormed(g, none, d)
    BY <1>1, <1>2, <1>4 DEF Searched, Consistent
<1>6. DOMAIN d = {"info", "pre_order", "post_order", "current", "time"}
    BY <1>5 DEF WellFormed
<1>7. "info" \in DOMAIN d
    BY <1>6
<1>8. PICK empty : empty = << >>
    OBVIOUS
<1>9. DOMAIN empty = {}
    BY <1>8
<1>10. QED
    BY <1>1, <1>7, <1>8, <1>9

-------------------------------------------------------------------------------
(* The search of a loop's body against its edges finishes dominators first. *)

(* What a search around vis that is over has of its source's calls.        *)
LEMMA SearchFacts ==
    ASSUME NEW g, NEW vis, NEW s, NEW d, Searched(g, vis, s, d), d.current = NoBlock,
           NEW S, S = FoundBy(vis, d)
    PROVE  /\ \A v \in S : Begin(d, v) \in Nat /\ End(d, v) \in Nat /\ Begin(d, v) < End(d, v)
           /\ \A u, v \in S : Begin(d, u) = Begin(d, v) => u = v
           /\ \A u, v \in S : Begin(d, u) < Begin(d, v) =>
                                  End(d, u) < Begin(d, v) \/ End(d, v) < End(d, u)
           /\ \A u \in S : \A v \in Range(g.succ[u]) \ vis :
                  v \in S /\ (End(d, v) < End(d, u) \/
                              (Begin(d, v) <= Begin(d, u) /\ End(d, u) <= End(d, v)))
           /\ \A p, v \in S : p = Link(d, v) => v \in Range(g.succ[p]) /\ Begin(d, p) < Begin(d, v)
           /\ \A u, v \in S : Begin(d, u) < Begin(d, v) /\ End(d, v) < End(d, u) =>
                  Link(d, v) \in S /\ Begin(d, u) <= Begin(d, Link(d, v))
<1>1. /\ Consistent(g, vis, d) /\ Recorded(g, vis, d) /\ Traced(g, vis, s, d)
      /\ WellFormed(g, vis, d)
    BY DEF Searched, Consistent
<1>2. \A v \in S : End(d, v) # 0
    BY <1>1, AllFound
<1>3. \A v \in S : Begin(d, v) \in Nat /\ End(d, v) \in Nat /\ Begin(d, v) < End(d, v)
    BY <1>1, <1>2, TimeFacts DEF Consistent, TimesApart, Running
<1>4. \A u, v \in S : Begin(d, u) = Begin(d, v) => u = v
    BY <1>1 DEF Consistent, TimesApart
<1>5. \A u, v \in S : Begin(d, u) < Begin(d, v) =>
                          End(d, u) < Begin(d, v) \/ End(d, v) < End(d, u)
    BY <1>1, <1>2 DEF Consistent, Nested
<1>6. \A u \in S : \A v \in Range(g.succ[u]) \ vis :
          v \in S /\ (End(d, v) < End(d, u) \/
                      (Begin(d, v) <= Begin(d, u) /\ End(d, u) <= End(d, v)))
    BY <1>1, <1>2 DEF Consistent, Forward, Running
<1>7. \A p, v \in S : p = Link(d, v) => v \in Range(g.succ[p]) /\ Begin(d, p) < Begin(d, v)
    BY <1>1 DEF Traced, Recorded, Called, Link
<1>8. \A u, v \in S : Begin(d, u) < Begin(d, v) /\ End(d, v) < End(d, u) =>
          Link(d, v) \in S /\ Begin(d, u) <= Begin(d, Link(d, v))
    BY <1>1, <1>2 DEF Recorded, Called, Running, Link
<1>9. QED
    BY <1>3, <1>4, <1>5, <1>6, <1>7, <1>8

(* The links of a call lead to every call that it is in.                   *)
LEMMA LinksLead ==
    ASSUME NEW g, NEW vis, NEW s, NEW d, Searched(g, vis, s, d), d.current = NoBlock,
           NEW S, S = FoundBy(vis, d), NEW u \in S, NEW v \in S,
           Begin(d, u) <= Begin(d, v), End(d, v) <= End(d, u),
           NEW set, v \in set, \A z \in set \cap S : Link(d, z) \in S => Link(d, z) \in set
    PROVE  u \in set
<1> DEFINE b(x) == Begin(d, x)
           e(x) == End(d, x)
           T == {z \in set \cap S : b(u) <= b(z) /\ e(z) <= e(u)}
<1>1. /\ \A x \in S : b(x) \in Nat /\ e(x) \in Nat /\ b(x) < e(x)
      /\ \A x, y \in S : b(x) = b(y) => x = y
      /\ \A x, y \in S : b(x) < b(y) => e(x) < b(y) \/ e(y) < e(x)
      /\ \A p, x \in S : p = Link(d, x) => b(p) < b(x)
      /\ \A x, y \in S : b(x) < b(y) /\ e(y) < e(x) => Link(d, y) \in S /\ b(x) <= b(Link(d, y))
    BY SearchFacts
<1>2. PICK z \in T : \A y \in T : b(z) <= b(y)
    <2>1. T # {} /\ \A y \in T : b(y) \in Nat
        BY <1>1
    <2> HIDE DEF T
    <2>2. QED
        BY <2>1, SmallestBegin
<1> HIDE DEF b, e
<1>3. z \in set /\ z \in S /\ b(u) <= b(z) /\ e(z) <= e(u)
    BY <1>2
<1>4. CASE z = u
    BY <1>3, <1>4
<1>5. CASE z # u
    <2>1. b(u) < b(z) /\ e(z) < e(u)
        BY <1>1, <1>3, <1>5
    <2>2. PICK p \in S : p = Link(d, z) /\ b(u) <= b(p) /\ b(p) < b(z)
        BY <1>1, <1>3, <2>1
    <2>3. p \in set
        BY <1>3, <2>2
    <2>4. e(p) <= e(u)
        BY <1>1, <1>3, <2>1, <2>2
    <2>5. p \in T
        BY <2>2, <2>3, <2>4
    <2>6. b(z) <= b(p)
        BY <1>2, <2>5
    <2>7. QED
        BY <1>1, <1>3, <2>2, <2>6
<1>6. QED
    BY <1>4, <1>5

-------------------------------------------------------------------------------
(* Graphs that are reducible and whose loops are apart.                    *)

ForwardPairs(g) ==
    {e \in Reachable(g) \X Block : e[2] \in Range(g.succ[e[1]])}
    \ {e \in Reachable(g) \X Block : e[2] \in Range(g.succ[e[1]]) /\ Dominates(g, e[2], e[1])}

ForwardGraph(g) ==
    [succ |-> [u \in Block |-> Filtered(g.succ[u], {v \in Block : <<u, v>> \in ForwardPairs(g)})]]

NoForwardCycle(g) ==
    \A e \in ForwardPairs(g) : e[1] \notin Reach(ForwardGraph(g), e[2], {})

EdgesApart(g) ==
    \A e, f \in EdgeRecords(g) : e # f => LoopOf(g, e) \cap LoopOf(g, f) = {}

LEMMA ForwardInside ==
    ASSUME NEW g, NEW d, NEW S, S = Reachable(g), FlowOf(g), SearchTree(g, d, S), EdgesApart(g),
           NEW e \in EdgeRecords(g), NEW x \in Inside(g, e), NEW w \in Range(g.pred[x])
    PROVE  /\ w \in S /\ x \in Block
           /\ <<w, x>> \in ForwardPairs(g)
           /\ x \in Range(ForwardGraph(g).succ[w])
<1>1. x \in S /\ x # e.header /\ x \in LoopOf(g, e)
    BY InsideIsLeast
<1>2. S \in SUBSET Block /\ w \in S /\ x \in Range(g.succ[w])
    BY <1>1 DEF SearchTree, TreeEdges
<1>3. ~Dominates(g, x, w)
    <2> SUFFICES ASSUME Dominates(g, x, w) PROVE FALSE
        OBVIOUS
    <2>1. PICK f : f = [latch |-> w, header |-> x]
        OBVIOUS
    <2>2. f \in EdgeRecords(g)
        BY <1>1, <1>2, <2>1 DEF EdgeRecords, IsBackEdge
    <2>3. x \in LoopOf(g, f)
        BY <2>1 DEF LoopOf, LoopAround
    <2>4. f # e
        BY <1>1, <2>1
    <2>5. QED
        BY <1>1, <2>2, <2>3, <2>4 DEF EdgesApart
<1>4. <<w, x>> \in ForwardPairs(g)
    BY <1>1, <1>2, <1>3 DEF ForwardPairs
<1>5. PICK q \in Seq(Block) : q = g.succ[w]
    BY <1>2, EdgesOf
<1>6. PICK set : set = {v \in Block : <<w, v>> \in ForwardPairs(g)}
    OBVIOUS
<1>7. ForwardGraph(g).succ[w] = Filtered(q, set)
    BY <1>2, <1>5, <1>6 DEF ForwardGraph
<1>8. Range(Filtered(q, set)) = Range(q) \cap set
    BY FilteredIs
<1>9. QED
    BY <1>1, <1>2, <1>4, <1>5, <1>6, <1>7, <1>8

(* In a loop's body the predecessors of a block come before it.            *)
LEMMA PredecessorsFinish ==
    ASSUME NEW g, NEW d, NEW S, S = Reachable(g), FlowOf(g), SearchTree(g, d, S),
           EdgesApart(g), NoForwardCycle(g),
           NEW e \in EdgeRecords(g), NEW x \in Inside(g, e), NEW w \in Inside(g, e),
           w \in Range(g.pred[x]),
           NEW c, Searched(ReverseGraph(g), {e.header}, e.latch, c), c.current = NoBlock,
           FoundBy({e.header}, c) = Inside(g, e)
    PROVE  End(c, w) < End(c, x)
<1>1. PICK R : R = ReverseGraph(g)
    OBVIOUS
<1>2. PICK B : B = Inside(g, e)
    OBVIOUS
<1>3. R.succ = g.pred /\ Searched(R, {e.header}, e.latch, c) /\ B = FoundBy({e.header}, c)
    BY <1>1, <1>2, EdgesOf
<1>4. w # e.header
    BY InsideIsLeast
<1>5. End(c, w) < End(c, x) \/ (Begin(c, w) <= Begin(c, x) /\ End(c, x) <= End(c, w))
    BY <1>2, <1>3, <1>4, SearchFacts
<1>6. ASSUME Begin(c, w) <= Begin(c, x), End(c, x) <= End(c, w) PROVE FALSE
    <2>1. PICK F : F = ForwardGraph(g)
        OBVIOUS
    <2>2. PICK none : none = {}
        OBVIOUS
    <2>3. PICK A : A = Reach(F, x, none)
        OBVIOUS
    <2>4. x \in Block /\ <<w, x>> \in ForwardPairs(g)
        BY ForwardInside
    <2>5. x \in A /\ \A u \in A : \A v \in Range(F.succ[u]) : v \in Block => v \in A
        <3>1. {x} \ none \subseteq Reach(F, x, none) /\ Closed(F, none, Reach(F, x, none))
            BY <2>4, ReachIsLeast
        <3>2. x \in A /\ Closed(F, none, A)
            BY <2>2, <2>3, <3>1
        <3>3. \A v \in Block : v \in Block \ none
            BY <2>2
        <3>4. QED
            BY <3>2, <3>3, Zenon DEF Closed
    <2>6. ASSUME NEW z \in A \cap B, Link(c, z) \in B PROVE Link(c, z) \in A
        <3>1. PICK p \in B : p = Link(c, z)
            BY <2>6
        <3>2. z \in Range(R.succ[p])
            BY <1>3, <3>1, SearchFacts
        <3>3. p \in Block /\ p \in Range(F.succ[z])
            BY <1>2, <1>3, <2>1, <3>2, ForwardInside
        <3>4. QED
            BY <2>5, <2>6, <3>1, <3>3
    <2>7. w \in A
        <3>1. PICK vis : vis = {e.header}
            OBVIOUS
        <3>2. PICK s : s = e.latch
            OBVIOUS
        <3>3. Searched(R, vis, s, c) /\ B = FoundBy(vis, c)
            BY <1>3, <3>1, <3>2
        <3>4. w \in B /\ x \in B /\ x \in A
            BY <1>2, <2>5
        <3>5. \A z \in A \cap B : Link(c, z) \in B => Link(c, z) \in A
            BY <2>6
        <3>6. QED
            BY <1>6, <3>3, <3>4, <3>5, LinksLead
    <2>8. w \notin Reach(F, x, {})
        <3>1. PICK pair : pair = <<w, x>>
            OBVIOUS
        <3>2. pair[1] \notin Reach(ForwardGraph(g), pair[2], {})
            BY <2>4, <3>1 DEF NoForwardCycle
        <3>3. QED
            BY <2>1, <3>1, <3>2
    <2>9. QED
        BY <2>2, <2>3, <2>7, <2>8
<1>7. QED
    BY <1>5, <1>6

(* So do the blocks above it in the tree of the search from the entry.     *)
LEMMA AboveFinishes ==
    ASSUME NEW g, NEW d, NEW S, S = Reachable(g), FlowOf(g), SearchTree(g, d, S),
           EdgesApart(g), NoForwardCycle(g),
           NEW e \in EdgeRecords(g), NEW x \in Inside(g, e), NEW y \in Inside(g, e),
           Above(d, y, x), y # x,
           NEW c, Searched(ReverseGraph(g), {e.header}, e.latch, c), c.current = NoBlock,
           FoundBy({e.header}, c) = Inside(g, e)
    PROVE  End(c, y) < End(c, x)
<1> DEFINE B == Inside(g, e)
           T == {z \in B : Above(d, y, z) /\ End(c, z) <= End(c, x)}
<1>1. PICK R : R = ReverseGraph(g)
    OBVIOUS
<1>2. PICK vis : vis = {e.header}
    OBVIOUS
<1>3. Searched(R, vis, e.latch, c) /\ B = FoundBy(vis, c)
    BY <1>1, <1>2
<1>4. /\ \A v \in B : Begin(c, v) \in Nat /\ End(c, v) \in Nat /\ Begin(c, v) < End(c, v)
      /\ \A u, v \in B : Begin(c, u) = Begin(c, v) => u = v
      /\ \A u, v \in B : Begin(c, u) < Begin(c, v) =>
                             End(c, u) < Begin(c, v) \/ End(c, v) < End(c, u)
    <2> HIDE DEF B
    <2>1. QED
        BY <1>3, SearchFacts
<1>5. \A v \in B : v \in S /\ Begin(d, v) \in Nat /\ Begin(d, e.header) < Begin(d, v)
    BY HeaderAbove DEF SearchTree, TreeTimes
<1>6. PICK z \in T : \A v \in T : Begin(d, z) <= Begin(d, v)
    <2>1. x \in T
        BY <1>4
    <2>2. T # {} /\ \A v \in T : Begin(d, v) \in Nat
        BY <1>5, <2>1
    <2> HIDE DEF T
    <2>3. QED
        BY <2>2, SmallestBegin
<1>7. z \in B /\ z \in S /\ Above(d, y, z) /\ End(c, z) <= End(c, x)
    BY <1>5, <1>6
<1>8. CASE z = y
    <2>1. Begin(c, y) # Begin(c, x)
        BY <1>4
    <2>2. End(c, y) # End(c, x)
        BY <1>4, <2>1
    <2>3. QED
        BY <1>4, <1>7, <1>8, <2>2
<1>9. CASE z # y
    <2>1. y \in S /\ Begin(d, y) < Begin(d, z) /\ End(d, z) < End(d, y)
        BY <1>5, <1>7, <1>9, AboveOrder
    <2>2. z # Entry /\ Begin(d, y) <= Begin(d, Link(d, z))
        BY <1>7, <2>1 DEF SearchTree, TreeLinks
    <2>3. PICK p \in S : p = Link(d, z) /\ z \in Range(g.succ[p])
                         /\ Begin(d, p) < Begin(d, z) /\ End(d, z) < End(d, p)
        BY <1>7, <2>2 DEF SearchTree, TreeLinks
    <2>4. Begin(d, p) \in Nat /\ Begin(d, e.header) \in Nat
        BY InsideIsLeast DEF SearchTree, TreeTimes
    <2>5. Above(d, p, z)
        BY <1>5, <1>7, <2>3, <2>4 DEF Above, SearchTree, TreeTimes
    <2>6. Above(d, y, p)
        BY <1>7, <2>1, <2>2, <2>3, <2>5, AboveOrder
    <2>7. Begin(d, e.header) < Begin(d, p)
        BY <1>5, <2>2, <2>3, <2>4
    <2>8. p \in Inside(g, e)
        BY <1>7, <2>5, <2>7, AboveInside
    <2>9. p \in Range(g.pred[z])
        BY <1>7, <2>3 DEF SearchTree, TreeEdges
    <2>10. End(c, p) < End(c, z)
        BY <1>7, <2>8, <2>9, PredecessorsFinish
    <2>11. p \in T
        BY <1>4, <1>7, <2>6, <2>8, <2>10
    <2>12. Begin(d, z) <= Begin(d, p)
        BY <1>6, <2>11
    <2>13. QED
        BY <1>5, <1>7, <2>3, <2>4, <2>12
<1>10. QED
    BY <1>8, <1>9

(* Each block of q is the entry, or its immediate dominator is in set or   *)
(* stands before it in q.                                                  *)
Follows(idom, set, q) ==
    \A j \in DOMAIN q :
        \/ q[j] = Entry
        \/ idom[q[j]] \in set
        \/ \E i \in DOMAIN q : i < j /\ q[i] = idom[q[j]]

LEMMA BodyFollows ==
    ASSUME NEW g, NEW d, NEW S, S = Reachable(g), FlowOf(g), SearchTree(g, d, S),
           EdgesApart(g), NoForwardCycle(g), NEW e \in EdgeRecords(g),
           NEW body, body = LoopBody(g, e.latch, e.header),
           NEW idom, \A v \in S \ {Entry} : IsIDom(g, v, idom[v])
    PROVE  Follows(idom, {e.header}, body)
<1>1. e.latch \in Block /\ e.header \in Block
    BY InsideIsLeast DEF SearchTree
<1>2. body \in Seq(Block) /\ Range(body) = Inside(g, e)
    BY <1>1, LoopBodyIs DEF Inside
<1>3. SUFFICES ASSUME NEW j \in DOMAIN body, idom[body[j]] # e.header
               PROVE  \E i \in DOMAIN body : i < j /\ body[i] = idom[body[j]]
    BY DEF Follows
<1>4. PICK x \in Inside(g, e) : x = body[j]
    BY <1>2 DEF Range
<1>5. PICK y : y = idom[x]
    OBVIOUS
<1>6. x \in S \ {Entry}
    BY HeaderAbove
<1>7. IsIDom(g, x, y)
    BY <1>5, <1>6
<1>8. y \in Inside(g, e)
    <2>1. y \in LoopOf(g, e)
        BY <1>7, IDomInLoop
    <2>2. LoopOf(g, e) = {e.header} \cup Inside(g, e)
        BY InsideIsLeast
    <2>3. QED
        BY <1>3, <1>4, <1>5, <2>1, <2>2
<1>9. y \in S /\ y # x /\ Above(d, y, x)
    BY <1>6, <1>7, DominatorsAbove DEF IsIDom, StrictDominators
<1>10. e.latch # e.header
    BY <1>8, InsideIsLeast
<1>11. PICK c : c = DFSOf(ReverseGraph(g), e.latch, {e.header})
    OBVIOUS
<1>12. body = c.post_order
    BY <1>10, <1>11 DEF LoopBody
<1>13. Searched(ReverseGraph(g), {e.header}, e.latch, c) /\ c.current = NoBlock
    <2>1. PICK R : R = ReverseGraph(g)
        OBVIOUS
    <2>2. R.succ \in [Block -> Seq(Block)] /\ {e.header} \in SUBSET (Block \ {e.latch})
        BY <1>1, <1>10, <2>1, EdgesOf
    <2>3. QED
        BY <1>1, <1>11, <2>1, <2>2, SearchEnds
<1>14. FoundBy({e.header}, c) = Inside(g, e)
    <2>1. Range(c.post_order) = FoundBy({e.header}, c)
        BY <1>13, AllFound DEF Searched
    <2>2. QED
        BY <1>2, <1>12, <2>1
<1>15. End(c, y) < End(c, x)
    BY <1>8, <1>9, <1>13, <1>14, AboveFinishes
<1>16. \A i, k \in DOMAIN body : i < k => End(c, body[i]) < End(c, body[k])
    BY <1>12, <1>13 DEF Searched, Recorded, Ordered
<1>17. PICK i \in DOMAIN body : body[i] = y
    BY <1>2, <1>8 DEF Range
<1>18. End(c, x) \in Nat /\ End(c, y) \in Nat
    BY <1>8, <1>13, <1>14, SearchFacts
<1>19. i \in Nat /\ j \in Nat
    BY <1>2
<1>20. i < j
    BY <1>4, <1>15, <1>16, <1>17, <1>18, <1>19
<1>21. QED
    BY <1>4, <1>5, <1>17, <1>20

-------------------------------------------------------------------------------
(* Orders in which immediate dominators come first.                        *)

LEMMA FollowsConcat ==
    ASSUME NEW T, NEW p \in Seq(T), NEW q \in Seq(T), NEW idom, NEW set,
           Follows(idom, set, p), Follows(idom, set, q), NEW c, c = p \o q
    PROVE  Follows(idom, set, c)
<1>1. /\ DOMAIN p = 1 .. Len(p) /\ DOMAIN q = 1 .. Len(q) /\ Len(p) \in Nat /\ Len(q) \in Nat
      /\ DOMAIN c = 1 .. Len(p) + Len(q)
      /\ \A i \in DOMAIN p : i \in DOMAIN c /\ c[i] = p[i]
      /\ \A i \in DOMAIN q : i + Len(p) \in DOMAIN c /\ c[i + Len(p)] = q[i]
    <2>1. PICK r : r = p \o q
        OBVIOUS
    <2>2. /\ DOMAIN p = 1 .. Len(p) /\ DOMAIN q = 1 .. Len(q) /\ Len(p) \in Nat /\ Len(q) \in Nat
          /\ DOMAIN r = 1 .. Len(p) + Len(q)
          /\ \A i \in DOMAIN p : i \in DOMAIN r /\ r[i] = p[i]
          /\ \A i \in DOMAIN q : i + Len(p) \in DOMAIN r /\ r[i + Len(p)] = q[i]
        BY <2>1
    <2>3. QED
        BY <2>1, <2>2
<1> SUFFICES ASSUME NEW j \in DOMAIN c
             PROVE  \/ c[j] = Entry
                    \/ idom[c[j]] \in set
                    \/ \E i \in DOMAIN c : i < j /\ c[i] = idom[c[j]]
    BY DEF Follows
<1>2. CASE j <= Len(p)
    <2>1. j \in DOMAIN p /\ c[j] = p[j]
        BY <1>1, <1>2
    <2>2. \/ p[j] = Entry
          \/ idom[p[j]] \in set
          \/ \E i \in DOMAIN p : i < j /\ p[i] = idom[p[j]]
        BY <2>1 DEF Follows
    <2>3. QED
        BY <1>1, <2>1, <2>2
<1>3. CASE j > Len(p)
    <2>1. PICK k \in DOMAIN q : j = k + Len(p)
        <3>1. PICK k : k = j - Len(p)
            OBVIOUS
        <3>2. k \in DOMAIN q /\ j = k + Len(p)
            BY <1>1, <1>3, <3>1
        <3>3. QED
            BY <3>2
    <2>2. c[j] = q[k]
        BY <1>1, <2>1
    <2>3. \/ q[k] = Entry
          \/ idom[q[k]] \in set
          \/ \E i \in DOMAIN q : i < k /\ q[i] = idom[q[k]]
        BY DEF Follows
    <2>4. ASSUME NEW i \in DOMAIN q, i < k, q[i] = idom[q[k]]
          PROVE  \E n \in DOMAIN c : n < j /\ c[n] = idom[c[j]]
        <3>1. PICK n : n = i + Len(p)
            OBVIOUS
        <3>2. n \in DOMAIN c /\ c[n] = q[i]
            BY <1>1, <3>1
        <3>3. n < j
            BY <1>1, <2>1, <2>4, <3>1
        <3>4. QED
            BY <2>2, <2>4, <3>2, <3>3
    <2>5. QED
        BY <2>2, <2>3, <2>4
<1>4. QED
    BY <1>1, <1>2, <1>3

LEMMA FollowsMore ==
    ASSUME NEW q, NEW idom, NEW set, NEW more, Follows(idom, set, q), set \subseteq more
    PROVE  Follows(idom, more, q)
BY DEF Follows

LEMMA FollowsHead ==
    ASSUME NEW T, NEW q \in Seq(T), q # << >>, NEW idom, NEW set, Follows(idom, set, q)
    PROVE  q[1] = Entry \/ idom[q[1]] \in set
<1>1. 1 \in DOMAIN q /\ \A i \in DOMAIN q : ~(i < 1)
    OBVIOUS
<1>2. QED
    BY <1>1 DEF Follows

LEMMA FollowsTail ==
    ASSUME NEW T, NEW q \in Seq(T), q # << >>, NEW idom, NEW set, Follows(idom, set, q),
           NEW u, u = Head(q), NEW t, t = Tail(q)
    PROVE  Follows(idom, set \cup {u}, t)
<1>1. /\ Len(q) \in Nat /\ Len(q) >= 1 /\ DOMAIN q = 1 .. Len(q) /\ q[1] = u
      /\ DOMAIN t = 1 .. Len(q) - 1
      /\ \A i \in DOMAIN t : i + 1 \in DOMAIN q /\ t[i] = q[i + 1]
    <2>0. Tail(q) \in Seq(T)
        OBVIOUS
    <2>1. PICK r \in Seq(T) : r = Tail(q)
        BY <2>0
    <2>2. PICK h : h = Head(q) /\ h = q[1]
        OBVIOUS
    <2>3. /\ Len(q) \in Nat /\ Len(q) >= 1 /\ DOMAIN q = 1 .. Len(q)
          /\ DOMAIN r = 1 .. Len(q) - 1
          /\ \A i \in DOMAIN r : i + 1 \in DOMAIN q /\ r[i] = q[i + 1]
        BY <2>1
    <2>4. QED
        BY <2>1, <2>2, <2>3
<1>3. ASSUME NEW j \in DOMAIN t
      PROVE  \/ t[j] = Entry
             \/ idom[t[j]] \in set \cup {u}
             \/ \E i \in DOMAIN t : i < j /\ t[i] = idom[t[j]]
    <2>1. PICK k \in DOMAIN q : k = j + 1 /\ q[k] = t[j]
        BY <1>1
    <2>2. \/ q[k] = Entry
          \/ idom[q[k]] \in set
          \/ \E i \in DOMAIN q : i < k /\ q[i] = idom[q[k]]
        BY DEF Follows
    <2>3. ASSUME NEW i \in DOMAIN q, i < k, q[i] = idom[q[k]], i # 1
          PROVE  \E n \in DOMAIN t : n < j /\ t[n] = idom[t[j]]
        <3>1. PICK n : n = i - 1
            OBVIOUS
        <3>2. n \in DOMAIN t /\ n < j /\ i = n + 1
            BY <1>1, <2>1, <2>3, <3>1
        <3>3. t[n] = q[i]
            BY <1>1, <3>2
        <3>4. QED
            BY <2>1, <2>3, <3>2, <3>3
    <2>4. QED
        BY <1>1, <2>1, <2>2, <2>3
<1>4. QED
    BY <1>3 DEF Follows

LEMMA FollowsAppend ==
    ASSUME NEW T, NEW q \in Seq(T), NEW x \in T, NEW idom, Follows(idom, {}, q),
           x = Entry \/ idom[x] \in Range(q), NEW c, c = Append(q, x)
    PROVE  Follows(idom, {}, c)
<1>1. /\ DOMAIN q = 1 .. Len(q) /\ Len(q) \in Nat /\ DOMAIN c = 1 .. Len(q) + 1
      /\ \A k \in DOMAIN q : c[k] = q[k]
      /\ c[Len(q) + 1] = x
    BY AppendFacts
<1> SUFFICES ASSUME NEW j \in DOMAIN c
             PROVE  c[j] = Entry \/ \E i \in DOMAIN c : i < j /\ c[i] = idom[c[j]]
    BY DEF Follows
<1>2. CASE j \in DOMAIN q
    BY <1>1, <1>2 DEF Follows
<1>3. CASE j = Len(q) + 1
    BY <1>1, <1>3 DEF Range
<1>4. QED
    BY <1>1, <1>2, <1>3

(* What is taken and what is queued follows the dominators.                *)
KeepsOrder(idom, order, queue) ==
    /\ Follows(idom, {}, order)
    /\ Follows(idom, Range(order), queue)

LEMMA TakenFollows ==
    ASSUME NEW order \in Seq(Block), NEW queue \in Seq(Block), queue # << >>, NEW idom,
           KeepsOrder(idom, order, queue), NEW u, u = Head(queue),
           NEW body \in Seq(Block), Follows(idom, {u}, body),
           NEW new \in Seq(Block), \A v \in Range(new) : idom[v] \in Range(order) \cup {u},
           NEW next, next = Append(order, u), NEW rest, rest = body \o Tail(queue) \o new
    PROVE  KeepsOrder(idom, next, rest)
<1>1. PICK t : t = Tail(queue)
    OBVIOUS
<1>2. u \in Block /\ t \in Seq(Block)
    BY <1>1, TailFacts
<1>3. PICK seen : seen = Range(order) \cup {u}
    OBVIOUS
<1>4. Range(next) = seen
    BY <1>2, <1>3, AppendFacts
<1>5. (u = Entry \/ idom[u] \in Range(order)) /\ Follows(idom, seen, t)
    <2>1. PICK set : set = Range(order)
        OBVIOUS
    <2>2. Follows(idom, set, queue)
        BY <2>1 DEF KeepsOrder
    <2>3. u = Entry \/ idom[u] \in set
        <3>1. queue[1] = Entry \/ idom[queue[1]] \in set
            BY <2>2, FollowsHead
        <3>2. u = queue[1]
            OBVIOUS
        <3>3. QED
            BY <3>1, <3>2
    <2>4. Follows(idom, set \cup {u}, t)
        BY <1>1, <2>2, FollowsTail
    <2>5. QED
        BY <1>3, <2>1, <2>3, <2>4
<1>6. Follows(idom, {}, next)
    BY <1>2, <1>5, FollowsAppend DEF KeepsOrder
<1>7. Follows(idom, seen, body)
    BY <1>3, FollowsMore
<1>8. Follows(idom, seen, new)
    BY <1>3 DEF Follows, Range
<1>9. PICK q : q = body \o t
    OBVIOUS
<1>10. q \in Seq(Block)
    BY <1>2, <1>9
<1>11. Follows(idom, seen, q)
    BY <1>2, <1>5, <1>7, <1>9, FollowsConcat
<1>12. Follows(idom, seen, rest)
    <2>1. rest = q \o new
        BY <1>1, <1>9
    <2>2. QED
        BY <1>8, <1>10, <1>11, <2>1, FollowsConcat
<1>13. QED
    BY <1>4, <1>6, <1>12 DEF KeepsOrder

LEMMA TailOfConcat ==
    ASSUME NEW T, NEW x \in T, NEW q \in Seq(T), NEW c, c = <<x>> \o q
    PROVE  Tail(c) = q
<1>1. PICK p : p = <<x>> \o q
    OBVIOUS
<1>2. p \in Seq(T) /\ Len(p) = Len(q) + 1 /\ \A i \in 1 .. Len(q) : p[i + 1] = q[i]
    BY <1>1
<1>3. Len(q) \in Nat /\ q = [i \in 1 .. Len(q) |-> q[i]]
    OBVIOUS
<1>4. p # << >> /\ Tail(p) \in Seq(T)
    BY <1>2, <1>3
<1>5. PICK t \in Seq(T) : t = Tail(p)
    BY <1>4
<1>6. Len(t) = Len(q) /\ \A i \in 1 .. Len(q) : t[i] = p[i + 1]
    BY <1>2, <1>3, <1>5
<1>7. t = [i \in 1 .. Len(t) |-> t[i]]
    OBVIOUS
<1>8. t = q
    BY <1>2, <1>3, <1>6, <1>7
<1>9. QED
    BY <1>1, <1>5, <1>8

LEMMA EntryFollows ==
    ASSUME NEW idom, NEW order, order = << >>, NEW queue, queue = <<Entry>>
    PROVE  KeepsOrder(idom, order, queue)
<1>1. DOMAIN order = {} /\ DOMAIN queue = {1} /\ queue[1] = Entry
    OBVIOUS
<1>2. QED
    BY <1>1 DEF KeepsOrder, Follows
===============================================================================
