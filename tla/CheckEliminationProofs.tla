------------------------ MODULE CheckEliminationProofs ------------------------
(***************************************************************************)
(* Proofs about module CheckElimination, for every number of blocks, every *)
(* set of functions and all checks in them: a check that goes is behind    *)
(* one that stays, and none that could go stays.                           *)
(***************************************************************************)
EXTENDS CheckElimination, GraphProofs

(* every check stands in its block, once                                   *)
Standing(code) ==
    /\ DOMAIN code = Block
    /\ \A b \in Block :
          /\ code[b] \in Seq(Range(code[b]))
          /\ IsInjective(code[b])
          /\ \A check \in Range(code[b]) : Parent(check) = b

ChecksIn(code) == UNION {Range(code[b]) : b \in Block}

Precedes(code, c, check) ==
    /\ Parent(c) = Parent(check)
    /\ \E i, j \in DOMAIN code[Parent(c)] :
          i < j /\ code[Parent(c)][i] = c /\ code[Parent(c)][j] = check

(* Whatever comes to check has passed c.                                   *)
Ahead(g, code, c, check) ==
    Precedes(code, c, check) \/ Parent(c) \in StrictDominators(g, Parent(check))

-------------------------------------------------------------------------------
(* The walk over the blocks in reverse post-order.                         *)

WalkSteps(a, list, code, walk) ==
    /\ a[0] = << >>
    /\ a[Len(list)] = walk
    /\ \A k \in 1 .. Len(list) : a[k] = a[k - 1] \o code[list[k]]

LEMMA WalkUnfold ==
    ASSUME NEW d, NEW list \in Seq(Block), list = Reverse(d.post_order),
           NEW C, NEW code, \A b \in Block : code[b] \in Seq(C)
    PROVE  \E a \in [0 .. Len(list) -> Seq(C)] : WalkSteps(a, list, code, Walked(d, code))
<1> DEFINE N == Len(list)
           X == Seq(C)
           base == << >>
           More(k) == code[list[k]]
           Op == [p \in X \X (1 .. N) |-> p[1] \o More(p[2])]
<1>2. N \in Nat /\ DOMAIN list = 1 .. N /\ \A k \in 1 .. N : list[k] \in Block
    OBVIOUS
<1>3. \A k \in 1 .. N : More(k) \in X
    BY <1>2
<1> HIDE DEF More
<1>4. Op \in [X \X (1 .. N) -> X] /\ base \in X
    <2>1. \A x \in X, k \in 1 .. N : x \o More(k) \in X
        BY <1>3
    <2>2. base \in X
        OBVIOUS
    <2> HIDE DEF X
    <2>3. QED
        BY <2>1, <2>2
<1>5. \A x \in X, k \in 1 .. N : Op[<<x, k>>] = x \o More(k)
    OBVIOUS
<1>6. PICK it \in [SUBSET (1 .. N) -> X] : FoldsBy(it, N, base, Op)
    <2> HIDE DEF Op, X, base, N
    <2>1. QED
        BY <1>2, <1>4, FoldExists
<1>7. it = [t \in SUBSET (1 .. N) |->
               IF t = {} THEN base ELSE it[t \ {Max(t)}] \o More(Max(t))]
    <2>1. ASSUME NEW t \in SUBSET (1 .. N)
          PROVE  it[t] = IF t = {} THEN base ELSE it[t \ {Max(t)}] \o More(Max(t))
        <3>1. CASE t = {}
            BY <1>6, <3>1 DEF FoldsBy
        <3>2. CASE t # {}
            <4> HIDE DEF N
            <4>1. Max(t) \in 1 .. N
                BY <1>2, <3>2, LargestNat
            <4>2. it[t \ {Max(t)}] \in X
                BY <1>6
            <4> HIDE DEF Op, X, base
            <4>3. it[t] = Op[<<it[t \ {Max(t)}], Max(t)>>]
                BY <1>6, <3>2 DEF FoldsBy
            <4>4. QED
                BY <1>5, <3>2, <4>1, <4>2, <4>3
        <3>3. QED
            BY <3>1, <3>2
    <2>2. QED
        BY <2>1
<1> DEFINE fold == CHOOSE f : f = [t \in SUBSET (1 .. N) |->
                       IF t = {} THEN base ELSE f[t \ {Max(t)}] \o More(Max(t))]
<1>8. fold = [t \in SUBSET (1 .. N) |->
                 IF t = {} THEN base ELSE fold[t \ {Max(t)}] \o More(Max(t))]
    BY <1>7
<1>9. Walked(d, code) = fold[1 .. N]
    BY <1>2 DEF Walked, FoldLeft, MapThenFoldSet, More
<1>10. /\ fold[{}] = base
       /\ \A t \in SUBSET (1 .. N) : t # {} => fold[t] = fold[t \ {Max(t)}] \o More(Max(t))
    <2> HIDE DEF fold, base, N
    <2>1. {} \in SUBSET (1 .. N)
        OBVIOUS
    <2>2. QED
        BY <1>8, <2>1
<1>11. \A k \in 1 .. N : fold[1 .. k - 1] \in X => fold[1 .. k] = Op[<<fold[1 .. k - 1], k>>]
    <2> SUFFICES ASSUME NEW k \in 1 .. N, fold[1 .. k - 1] \in X
                 PROVE  fold[1 .. k] = fold[1 .. k - 1] \o More(k)
        BY <1>5
    <2>1. k \in Nat \ {0} /\ k <= N /\ 1 .. k \in SUBSET (1 .. N) /\ k \in 1 .. k
        BY <1>2
    <2>2. Max(1 .. k) = k /\ (1 .. k) \ {k} = 1 .. k - 1
        BY <2>1, GreatestOfInterval
    <2> HIDE DEF fold
    <2>3. QED
        BY <1>10, <2>1, <2>2
<1> HIDE DEF fold, Op, X, base, N
<1>12. PICK a \in [0 .. N -> X] : PartialResults(a, N, base, Op, fold[1 .. N])
    <2>1. FoldsPrefixesBy(fold, N, X, base, Op)
        BY <1>10, <1>11 DEF FoldsPrefixesBy
    <2>2. QED
        BY <1>2, <1>4, <2>1, FoldValues
<1>13. \A k \in 1 .. N : a[k] = a[k - 1] \o More(k)
    <2> SUFFICES ASSUME NEW k \in 1 .. N
                 PROVE  a[k] = a[k - 1] \o More(k)
        OBVIOUS
    <2>1. k - 1 \in 0 .. N
        BY <1>2
    <2>2. a[k - 1] \in X /\ a[k] = Op[<<a[k - 1], k>>]
        BY <1>12, <2>1 DEF PartialResults
    <2>3. QED
        BY <1>5, <2>2
<1>14. WalkSteps(a, list, code, Walked(d, code))
    BY <1>9, <1>12, <1>13 DEF base, More, PartialResults, WalkSteps, N
<1>15. QED
    BY <1>12, <1>14 DEF X, N

(* Of two blocks, the later in reverse post-order does not strictly        *)
(* dominate the earlier.                                                   *)
LEMMA DominatorsWalkedFirst ==
    ASSUME NEW g, FlowOf(g), NEW d, d = DFSOf(g, Entry, {}), NEW list, list = Reverse(d.post_order)
    PROVE  /\ list \in Seq(Block) /\ IsInjective(list) /\ Range(list) = Reachable(g)
           /\ \A i, j \in DOMAIN list : i < j => list[j] \notin StrictDominators(g, list[i])
<1>1. g.succ \in [Block -> Seq(Block)] /\ Entry \in Block /\ Reachable(g) \in SUBSET Block
    BY EdgesOf
<1>2. Searched(g, {}, Entry, d) /\ d.current = NoBlock
    BY <1>1, SearchEnds
<1>3. PICK S : S = DOMAIN d.info
    OBVIOUS
<1>4. OverFrom(g, d, S)
    BY <1>2, <1>3 DEF OverFrom
<1>5. SearchTree(g, d, S) /\ S = Reachable(g)
    BY <1>4, OverIsSearchTree, OverFacts
<1>6. PICK q : q = d.post_order
    OBVIOUS
<1>7. q \in Seq(Block) /\ Range(q) = Reachable(g) /\ IsInjective(q)
    BY <1>1, <1>6, PostOrderLists DEF Reachable
<1>8. \A i, j \in DOMAIN q : i < j => End(d, q[i]) < End(d, q[j])
    BY <1>2, <1>6 DEF Searched, Recorded, Ordered
<1>9. /\ list \in Seq(Block) /\ Len(list) = Len(q) /\ Range(list) = Range(q) /\ IsInjective(list)
      /\ \A i \in 1 .. Len(q) : list[i] = q[Len(q) - i + 1]
    BY <1>6, <1>7, ReverseFacts
<1>10. ASSUME NEW i \in DOMAIN list, NEW j \in DOMAIN list, i < j,
              list[j] \in StrictDominators(g, list[i])
       PROVE  FALSE
    <2>1. list[i] \in S /\ list[j] \in S /\ Dominates(g, list[j], list[i])
        BY <1>5, <1>7, <1>9, <1>10 DEF Range, StrictDominators
    <2>2. End(d, list[i]) <= End(d, list[j])
        BY <1>5, <2>1, DominatorsAbove DEF Above
    <2>3. /\ i \in 1 .. Len(q) /\ j \in 1 .. Len(q) /\ Len(q) \in Nat
          /\ DOMAIN q = 1 .. Len(q)
        BY <1>7, <1>9
    <2>4. /\ Len(q) - i + 1 \in DOMAIN q /\ Len(q) - j + 1 \in DOMAIN q
          /\ Len(q) - j + 1 < Len(q) - i + 1
        BY <1>10, <2>3
    <2>5. End(d, list[j]) < End(d, list[i])
        BY <1>8, <1>9, <2>3, <2>4
    <2>6. End(d, list[i]) \in Nat /\ End(d, list[j]) \in Nat
        BY <1>5, <2>1 DEF SearchTree, TreeTimes
    <2>7. QED
        BY <2>2, <2>5, <2>6
<1>11. QED
    BY <1>7, <1>9, <1>10

LEMMA StandingFacts ==
    ASSUME NEW code, Standing(code), NEW C, C = ChecksIn(code)
    PROVE  /\ \A b \in Block : code[b] \in Seq(C) /\ IsInjective(code[b])
           /\ \A b \in Block : Range(code[b]) = {x \in C : Parent(x) = b}
           /\ \A x \in C : Parent(x) \in Block
<1>1. \A b \in Block : /\ code[b] \in Seq(Range(code[b])) /\ IsInjective(code[b])
                       /\ \A x \in Range(code[b]) : Parent(x) = b
    BY DEF Standing
<1>2. \A b \in Block : Range(code[b]) \subseteq C
    BY DEF ChecksIn
<1>3. \A b \in Block : code[b] \in Seq(C)
    <2> SUFFICES ASSUME NEW b \in Block PROVE code[b] \in Seq(C)
        OBVIOUS
    <2>1. PICK q : q = code[b]
        OBVIOUS
    <2>2. PICK R : R = Range(q)
        OBVIOUS
    <2>3. q \in Seq(R) /\ R \subseteq C
        BY <1>1, <1>2, <2>1, <2>2
    <2>4. QED
        BY <2>1, <2>3
<1>4. \A x \in C : \E b \in Block : x \in Range(code[b])
    BY DEF ChecksIn
<1>5. QED
    BY <1>1, <1>2, <1>3, <1>4

LEMMA WalkedFacts ==
    ASSUME NEW g, FlowOf(g), NEW d, d = DFSOf(g, Entry, {}), NEW code, Standing(code),
           NEW C, C = ChecksIn(code), NEW walk, walk = Walked(d, code)
    PROVE  /\ walk \in Seq(C)
           /\ IsInjective(walk)
           /\ Range(walk) = {x \in C : Parent(x) \in Reachable(g)}
           /\ \A i, j \in DOMAIN walk : i < j => ~Ahead(g, code, walk[j], walk[i])
<1>1. PICK list : list = Reverse(d.post_order)
    OBVIOUS
<1>2. /\ list \in Seq(Block) /\ IsInjective(list) /\ Range(list) = Reachable(g)
      /\ \A i, j \in DOMAIN list : i < j => list[j] \notin StrictDominators(g, list[i])
    BY <1>1, DominatorsWalkedFirst
<1>3. /\ \A b \in Block : code[b] \in Seq(C) /\ IsInjective(code[b])
      /\ \A b \in Block : Range(code[b]) = {x \in C : Parent(x) = b}
      /\ \A x \in C : Parent(x) \in Block
    BY StandingFacts
<1>4. PICK a \in [0 .. Len(list) -> Seq(C)] : WalkSteps(a, list, code, walk)
    BY <1>1, <1>2, <1>3, WalkUnfold
<1> DEFINE N == Len(list)
           InOrder(q) == \A i, j \in DOMAIN q : i < j => ~Ahead(g, code, q[j], q[i])
           A == {k \in 0 .. N :
                    /\ IsInjective(a[k])
                    /\ \A x \in C : x \in Range(a[k]) <=> \E i \in 1 .. k : Parent(x) = list[i]
                    /\ InOrder(a[k])}
<1>5. N \in Nat /\ DOMAIN list = 1 .. N /\ \A k \in 1 .. N : list[k] \in Block
    BY <1>2
<1>6. a \in [0 .. N -> Seq(C)] /\ a[0] = << >> /\ a[N] = walk
      /\ \A k \in 1 .. N : a[k] = a[k - 1] \o code[list[k]]
    BY <1>4 DEF WalkSteps
<1> HIDE DEF N
<1>7. 0 \in A
    <2>1. Range(a[0]) = {} /\ 1 .. 0 = {} /\ DOMAIN a[0] = {}
        BY <1>6 DEF Range
    <2>2. QED
        BY <1>5, <2>1 DEF IsInjective
<1>8. ASSUME NEW k \in 1 .. N, k - 1 \in A PROVE k \in A
    <2>1. k - 1 \in 0 .. N /\ k \in 0 .. N
        BY <1>5
    <2>2. PICK p \in Seq(C) : p = a[k - 1]
        BY <1>6, <2>1
    <2>3. PICK b \in Block : b = list[k]
        BY <1>5
    <2>4. PICK q \in Seq(C) : q = code[b]
        BY <1>3
    <2>5. a[k] = p \o q
        BY <1>6, <2>2, <2>3, <2>4
    <2>6. PICK c \in Seq(C) : c = p \o q
        <3>1. p \o q \in Seq(C)
            BY <2>2, <2>4
        <3>2. QED
            BY <3>1
    <2>7. /\ IsInjective(p) /\ InOrder(p)
          /\ \A x \in C : x \in Range(p) <=> \E i \in 1 .. k - 1 : Parent(x) = list[i]
        BY <1>8, <2>2
    <2>8. IsInjective(q) /\ Range(q) = {x \in C : Parent(x) = b}
        BY <1>3, <2>4
    <2>9. \A i \in 1 .. k - 1 : i \in DOMAIN list /\ i < k /\ k \in DOMAIN list
        BY <1>5
    <2>10. \A i \in 1 .. k - 1 : list[i] # b
        BY <1>2, <2>3, <2>9 DEF IsInjective
    <2>11. Range(p) \cap Range(q) = {}
        BY <2>7, <2>8, <2>10
    <2>12. IsInjective(c)
        BY <2>6, <2>7, <2>8, <2>11, InjectiveConcat
    <2>13. Range(c) = Range(p) \cup Range(q)
        BY <2>6, RangeConcat
    <2>14. \A x \in C : x \in Range(c) <=> \E i \in 1 .. k : Parent(x) = list[i]
        <3>1. 1 .. k = (1 .. k - 1) \cup {k}
            BY <1>5
        <3>2. QED
            BY <2>3, <2>7, <2>8, <2>13, <3>1
    <2>15. InOrder(c)
        <3> SUFFICES ASSUME NEW i \in DOMAIN c, NEW j \in DOMAIN c, i < j,
                            Ahead(g, code, c[j], c[i])
                     PROVE  FALSE
            OBVIOUS
        <3>1. /\ DOMAIN p = 1 .. Len(p) /\ DOMAIN q = 1 .. Len(q)
              /\ Len(p) \in Nat /\ Len(q) \in Nat
              /\ DOMAIN c = 1 .. Len(p) + Len(q)
              /\ \A m \in DOMAIN c : m <= Len(p) => m \in DOMAIN p /\ c[m] = p[m]
              /\ \A m \in DOMAIN c : m > Len(p) => m - Len(p) \in DOMAIN q /\ c[m] = q[m - Len(p)]
            BY <2>6
        <3>2. CASE j <= Len(p)
            <4>1. i <= Len(p)
                BY <3>1, <3>2
            <4>2. QED
                BY <2>7, <3>1, <3>2, <4>1
        <3>3. CASE j > Len(p)
            <4>1. c[j] = q[j - Len(p)] /\ j - Len(p) \in DOMAIN q
                BY <3>1, <3>3
            <4>2. c[j] \in Range(q)
                BY <4>1 DEF Range
            <4>3. Parent(c[j]) = b
                BY <2>8, <4>2
            <4>4. CASE i <= Len(p)
                <5>1. c[i] \in Range(p) /\ c[i] \in C
                    BY <3>1, <4>4 DEF Range
                <5>2. PICK m \in 1 .. k - 1 : Parent(c[i]) = list[m]
                    BY <2>7, <5>1
                <5>3. b # list[m] /\ b \notin StrictDominators(g, list[m])
                    BY <1>2, <2>3, <2>9, <2>10, <5>2
                <5>4. QED
                    BY <4>3, <5>2, <5>3 DEF Ahead, Precedes
            <4>5. CASE i > Len(p)
                <5>1. c[i] = q[i - Len(p)] /\ i - Len(p) \in DOMAIN q
                    BY <3>1, <4>5
                <5>2. c[i] \in Range(q)
                    BY <5>1 DEF Range
                <5>3. Parent(c[i]) = b
                    BY <2>8, <5>2
                <5>4. Precedes(code, c[j], c[i])
                    BY <4>3, <5>3 DEF Ahead, StrictDominators
                <5>5. PICK m \in DOMAIN q, n \in DOMAIN q : m < n /\ q[m] = c[j] /\ q[n] = c[i]
                    BY <2>4, <4>3, <5>4 DEF Precedes
                <5>6. m = j - Len(p) /\ n = i - Len(p)
                    BY <2>8, <4>1, <5>1, <5>5 DEF IsInjective
                <5>7. QED
                    BY <3>1, <5>5, <5>6
            <4>6. QED
                BY <3>1, <4>4, <4>5
        <3>4. QED
            BY <3>1, <3>2, <3>3
    <2>16. QED
        BY <2>1, <2>5, <2>6, <2>12, <2>14, <2>15
<1>9. N \in A
    <2> HIDE DEF A
    <2>1. 0 .. N \subseteq A
        BY <1>5, <1>7, <1>8, UpTo
    <2>2. QED
        BY <1>5, <2>1
<1>10. Range(walk) = {x \in C : Parent(x) \in Reachable(g)}
    <2>1. Range(walk) \subseteq C
        BY <1>5, <1>6 DEF Range
    <2>2. \A x \in C : x \in Range(walk) <=> \E i \in 1 .. N : Parent(x) = list[i]
        BY <1>6, <1>9
    <2>3. \A u : u \in Reachable(g) <=> \E i \in 1 .. N : u = list[i]
        BY <1>2, <1>5 DEF Range
    <2>4. QED
        BY <2>1, <2>2, <2>3
<1>11. QED
    BY <1>5, <1>6, <1>9, <1>10

-------------------------------------------------------------------------------
(* The inductive invariant.                                                *)

(* before the pass has made its trees                                      *)
Waiting ==
    /\ dom_tree = NotBuilt
    /\ body = original
    /\ todo = << >>
    /\ input_to_check = {}
    /\ to_remove = << >>

(* Of the checks that were visited those in input_to_check stay, apart     *)
(* from each other, and the rest goes, each behind one of them.            *)
Judged(seen) ==
    /\ input_to_check \subseteq seen
    /\ to_remove \in Seq(seen \ input_to_check)
    /\ \A x \in ChecksIn(original) : Stays(x) <=> x \notin seen \ input_to_check
    /\ \A x \in seen \ input_to_check :
           \E c \in input_to_check : Input(c) = Input(x) /\ Ahead(graph, original, c, x)
    /\ \A c, x \in input_to_check : Input(c) = Input(x) => ~Ahead(graph, original, c, x)

FirstOf(walk, n) == {walk[i] : i \in 1 .. n}

(* The walk is past its first n checks.                                    *)
Past(walk, n) ==
    /\ todo \in Seq(Range(walk))
    /\ Len(todo) = Len(walk) - n
    /\ \A i \in DOMAIN todo : todo[i] = walk[n + i]

Walking ==
    LET d == DFSOf(graph, Entry, {})
        walk == Walked(d, original)
    IN  /\ dom_tree # NotBuilt
        /\ dom_tree = DominatorTreeOf(graph, d)
        /\ \E n \in 0 .. Len(walk) : Past(walk, n) /\ Judged(FirstOf(walk, n))

IInv ==
    /\ FlowOf(graph)
    /\ Standing(original)
    /\ DOMAIN body = Block
    /\ \A b \in Block : body[b] \in Seq(Range(original[b]))
    /\ Waiting \/ Walking

LEMMA InvariantStarts == Init => IInv
<1> SUFFICES ASSUME Init PROVE IInv
    OBVIOUS
<1>1. PICK succ \in Functions :
          graph = GraphOf(succ) /\ NoDeadPredecessor(graph) /\ original \in Checks(succ)
    BY DEF Init
<1>2. FlowOf(graph)
    BY <1>1, FunctionsAssumption DEF FlowOf
<1>3. Standing(original)
    BY <1>1, ChecksAssumption DEF Standing, Parent
<1>4. DOMAIN body = Block /\ \A b \in Block : body[b] \in Seq(Range(original[b]))
    BY <1>3 DEF Init, Standing
<1>5. Waiting
    BY DEF Init, Waiting
<1>6. QED
    BY <1>2, <1>3, <1>4, <1>5 DEF IInv

LEMMA BuildKeeps ==
    ASSUME IInv, Build
    PROVE  IInv'
<1>1. /\ dom_tree = NotBuilt
      /\ dom_tree' = DominatorTreeOf(graph, DFSOf(graph, Entry, {}))
      /\ todo' = Walked(DFSOf(graph, Entry, {}), body)
      /\ graph' = graph /\ original' = original /\ body' = body
      /\ input_to_check' = input_to_check /\ to_remove' = to_remove
    BY DEF Build
<1>2. Waiting /\ FlowOf(graph) /\ Standing(original)
    BY <1>1 DEF IInv, Walking
<1>3. PICK d : d = DFSOf(graph, Entry, {})
    OBVIOUS
<1>4. PICK walk : walk = Walked(d, original)
    OBVIOUS
<1>5. walk \in Seq(ChecksIn(original))
    BY <1>2, <1>3, <1>4, WalkedFacts
<1>6. todo' = walk
    BY <1>1, <1>2, <1>3, <1>4 DEF Waiting
<1>7. Past(walk, 0)'
    <2>1. walk \in Seq(Range(walk)) /\ Len(walk) \in Nat
        BY <1>5 DEF Range
    <2>2. \A i \in DOMAIN walk : 0 + i = i
        BY <1>5
    <2>3. QED
        BY <1>6, <2>1, <2>2 DEF Past
<1>8. Judged({})'
    <2>1. \A x \in ChecksIn(original) : x \in Range(body[Parent(x)]) \ Range(to_remove)
        <3>1. Range(to_remove) = {}
            BY <1>2 DEF Waiting, Range
        <3>2. QED
            BY <1>2, <3>1, StandingFacts DEF Waiting
    <2>2. \A x \in ChecksIn(original') : Stays(x)'
        BY <1>1, <2>1 DEF Stays
    <2>3. input_to_check' = {} /\ to_remove' = << >>
        BY <1>1, <1>2 DEF Waiting
    <2>4. QED
        BY <2>2, <2>3 DEF Judged
<1>9. dom_tree' # NotBuilt
    BY <1>1 DEF DominatorTreeOf, NotBuilt
<1>10. FirstOf(walk, 0) = {} /\ 0 \in 0 .. Len(walk)
    BY <1>5 DEF FirstOf
<1>11. Walking'
    BY <1>1, <1>3, <1>4, <1>7, <1>8, <1>9, <1>10 DEF Walking
<1>12. QED
    BY <1>1, <1>11 DEF IInv

LEMMA WalkOfState ==
    ASSUME FlowOf(graph), Standing(original), NEW walk, walk = Walked(DFSOf(graph, Entry, {}), original)
    PROVE  /\ walk \in Seq(ChecksIn(original))
           /\ IsInjective(walk)
           /\ Range(walk) = {x \in ChecksIn(original) : Parent(x) \in Reachable(graph)}
           /\ \A i, j \in DOMAIN walk : i < j => ~Ahead(graph, original, walk[j], walk[i])
<1>1. PICK d : d = DFSOf(graph, Entry, {})
    OBVIOUS
<1>2. PICK C : C = ChecksIn(original)
    OBVIOUS
<1>3. walk = Walked(d, original)
    BY <1>1
<1>4. QED
    BY <1>1, <1>2, <1>3, WalkedFacts

(* The next check comes after all that were visited, and whether it is     *)
(* dominated is whether one of them that stays is ahead of it.             *)
LEMMA NextCheck ==
    ASSUME FlowOf(graph), Standing(original), NEW walk,
           walk = Walked(DFSOf(graph, Entry, {}), original),
           dom_tree = DominatorTreeOf(graph, DFSOf(graph, Entry, {})),
           NEW n \in 0 .. Len(walk), Past(walk, n), todo # << >>,
           NEW seen, seen = FirstOf(walk, n), input_to_check \subseteq seen,
           NEW check, check = Head(todo)
    PROVE  /\ n + 1 \in 0 .. Len(walk)
           /\ check \in ChecksIn(original) \ seen
           /\ FirstOf(walk, n + 1) = seen \cup {check}
           /\ seen \subseteq ChecksIn(original)
           /\ \A x \in seen : ~Ahead(graph, original, check, x)
           /\ IsDominated(check) <=>
                  \E c \in input_to_check : Input(c) = Input(check) /\ Ahead(graph, original, c, check)
<1>1. /\ walk \in Seq(ChecksIn(original)) /\ IsInjective(walk)
      /\ Range(walk) = {x \in ChecksIn(original) : Parent(x) \in Reachable(graph)}
      /\ \A i, j \in DOMAIN walk : i < j => ~Ahead(graph, original, walk[j], walk[i])
    BY WalkOfState
<1>2. /\ todo \in Seq(Range(walk)) /\ Len(todo) = Len(walk) - n
      /\ \A i \in DOMAIN todo : todo[i] = walk[n + i]
    BY DEF Past
<1>3. Len(todo) \in Nat \ {0} /\ DOMAIN todo = 1 .. Len(todo) /\ Head(todo) = todo[1]
    BY <1>2
<1>4. Len(walk) \in Nat /\ DOMAIN walk = 1 .. Len(walk)
    BY <1>1
<1>5. n + 1 \in 0 .. Len(walk) /\ n + 1 \in DOMAIN walk /\ n \in Nat
    BY <1>2, <1>3, <1>4
<1>6. check = walk[n + 1]
    BY <1>2, <1>3
<1>7. check \in Range(walk) /\ seen \subseteq Range(walk)
    BY <1>4, <1>5, <1>6 DEF Range, FirstOf
<1>8. \A i \in 1 .. n : i \in DOMAIN walk /\ i < n + 1
    BY <1>4, <1>5
<1>9. check \notin seen
    BY <1>1, <1>5, <1>6, <1>8 DEF IsInjective, FirstOf
<1>10. FirstOf(walk, n + 1) = seen \cup {check}
    <2>1. 1 .. n + 1 = (1 .. n) \cup {n + 1}
        BY <1>5
    <2>2. QED
        BY <1>6, <2>1 DEF FirstOf
<1>11. \A x \in seen : ~Ahead(graph, original, check, x)
    BY <1>1, <1>5, <1>6, <1>8 DEF FirstOf
<1>12. ASSUME NEW c \in input_to_check, Input(c) = Input(check)
       PROVE  (Parent(c) = Parent(check) \/ is_dominator_of(dom_tree, Parent(check), Parent(c)))
                  <=> Ahead(graph, original, c, check)
    <2>1. c \in Range(walk) /\ c \in seen /\ c # check
        BY <1>7, <1>9
    <2>2. Parent(c) \in Reachable(graph) /\ Parent(check) \in Reachable(graph)
        BY <1>1, <1>7, <2>1
    <2>3. is_dominator_of(dom_tree, Parent(check), Parent(c)) <=>
              Parent(c) \in StrictDominators(graph, Parent(check))
        <3>1. PICK d : d = DFSOf(graph, Entry, {})
            OBVIOUS
        <3>2. \A u, v \in Reachable(graph) :
                  is_dominator_of(DominatorTreeOf(graph, d), v, u) <=> u \in StrictDominators(graph, v)
            BY <3>1, DominatorTreeComputed
        <3>3. QED
            BY <2>2, <3>1, <3>2
    <2>4. Parent(c) = Parent(check) => Precedes(original, c, check)
        <3> SUFFICES ASSUME Parent(c) = Parent(check) PROVE Precedes(original, c, check)
            OBVIOUS
        <3>1. PICK b \in Block : b = Parent(c) /\ b = Parent(check)
            BY <1>1, <1>7, StandingFacts
        <3>2. PICK q \in Seq(ChecksIn(original)) : q = original[b]
            BY <3>1, StandingFacts
        <3>3. c \in Range(q) /\ check \in Range(q)
            <4>1. Range(original[b]) = {x \in ChecksIn(original) : Parent(x) = b}
                BY <3>1, StandingFacts
            <4>2. QED
                BY <1>1, <1>7, <2>1, <3>1, <3>2, <4>1
        <3>4. PICK i \in DOMAIN q, j \in DOMAIN q : q[i] = c /\ q[j] = check
            BY <3>3 DEF Range
        <3>5. i # j
            BY <2>1, <3>4
        <3>6. ~(j < i)
            <4>1. ~Precedes(original, check, c)
                BY <1>11, <2>1 DEF Ahead
            <4>2. QED
                BY <3>1, <3>2, <3>4, <4>1 DEF Precedes
        <3>7. i < j
            <4>1. DOMAIN q = 1 .. Len(q)
                BY <3>2
            <4>2. i \in Nat /\ j \in Nat
                BY <4>1
            <4>3. QED
                BY <3>5, <3>6, <4>2
        <3>8. QED
            BY <3>1, <3>2, <3>4, <3>7 DEF Precedes
    <2>5. Precedes(original, c, check) => Parent(c) = Parent(check)
        BY DEF Precedes
    <2>6. QED
        BY <2>3, <2>4, <2>5 DEF Ahead
<1>13. IsDominated(check) <=>
           \E c \in input_to_check : Input(c) = Input(check) /\ Ahead(graph, original, c, check)
    BY <1>12 DEF IsDominated
<1>14. QED
    BY <1>1, <1>5, <1>7, <1>9, <1>10, <1>11, <1>13

LEMMA VisitKeeps ==
    ASSUME IInv, Visit
    PROVE  IInv'
<1>1. PICK check : check = Head(todo)
    OBVIOUS
<1>2. /\ todo # << >> /\ todo' = Tail(todo)
      /\ graph' = graph /\ original' = original /\ body' = body /\ dom_tree' = dom_tree
      /\ IF IsDominated(check)
         THEN to_remove' = Append(to_remove, check) /\ input_to_check' = input_to_check
         ELSE input_to_check' = input_to_check \cup {check} /\ to_remove' = to_remove
    BY <1>1 DEF Visit
<1>3. FlowOf(graph) /\ Standing(original) /\ Walking
    BY <1>2 DEF IInv, Waiting
<1>4. PICK walk : walk = Walked(DFSOf(graph, Entry, {}), original)
    OBVIOUS
<1>5. /\ dom_tree # NotBuilt
      /\ dom_tree = DominatorTreeOf(graph, DFSOf(graph, Entry, {}))
      /\ \E n \in 0 .. Len(walk) : Past(walk, n) /\ Judged(FirstOf(walk, n))
    BY <1>3, <1>4 DEF Walking
<1>6. PICK n \in 0 .. Len(walk) : Past(walk, n) /\ Judged(FirstOf(walk, n))
    BY <1>5
<1>7. PICK seen : seen = FirstOf(walk, n)
    OBVIOUS
<1>8. Judged(seen)
    BY <1>6, <1>7
<1>9. /\ n + 1 \in 0 .. Len(walk)
      /\ check \in ChecksIn(original) \ seen
      /\ FirstOf(walk, n + 1) = seen \cup {check}
      /\ seen \subseteq ChecksIn(original)
      /\ \A x \in seen : ~Ahead(graph, original, check, x)
      /\ IsDominated(check) <=>
             \E c \in input_to_check : Input(c) = Input(check) /\ Ahead(graph, original, c, check)
    <2>1. input_to_check \subseteq seen
        BY <1>8 DEF Judged
    <2>2. QED
        BY <1>1, <1>2, <1>3, <1>4, <1>5, <1>6, <1>7, <2>1, NextCheck
<1>10. Past(walk, n + 1)'
    <2>1. /\ todo \in Seq(Range(walk)) /\ Len(todo) = Len(walk) - n
          /\ \A i \in DOMAIN todo : todo[i] = walk[n + i]
        BY <1>6 DEF Past
    <2>2. PICK t : t = Tail(todo)
        OBVIOUS
    <2>3. /\ t \in Seq(Range(walk)) /\ Len(t) = Len(todo) - 1 /\ Len(t) \in Nat
          /\ DOMAIN t = 1 .. Len(t) /\ DOMAIN todo = 1 .. Len(todo)
          /\ \A i \in DOMAIN t : t[i] = todo[i + 1]
        BY <1>2, <2>1, <2>2
    <2>4. walk \in Seq(ChecksIn(original))
        BY <1>3, <1>4, WalkOfState
    <2>5. /\ Len(walk) \in Nat /\ n \in Nat /\ Len(todo) \in Nat
          /\ Len(t) = Len(walk) - (n + 1)
        BY <2>1, <2>3, <2>4
    <2>6. \A i \in DOMAIN t : i + 1 \in DOMAIN todo /\ n + (i + 1) = (n + 1) + i
        <3>1. PICK m \in Nat : m = Len(todo)
            BY <2>5
        <3>2. DOMAIN t = 1 .. m - 1 /\ DOMAIN todo = 1 .. m
            BY <2>3, <3>1
        <3>3. \A i \in 1 .. m - 1 : i + 1 \in 1 .. m /\ n + (i + 1) = (n + 1) + i
            BY <2>5
        <3>4. QED
            BY <3>2, <3>3
    <2>7. \A i \in DOMAIN t : t[i] = walk[(n + 1) + i]
        BY <2>1, <2>3, <2>6
    <2>8. QED
        BY <1>2, <2>2, <2>3, <2>5, <2>7 DEF Past
<1>11. Judged(seen \cup {check})'
    <2> DEFINE C == ChecksIn(original)
    <2>1. /\ input_to_check \subseteq seen
          /\ to_remove \in Seq(seen \ input_to_check)
          /\ \A x \in C : Stays(x) <=> x \notin seen \ input_to_check
          /\ \A x \in seen \ input_to_check :
                 \E c \in input_to_check : Input(c) = Input(x) /\ Ahead(graph, original, c, x)
          /\ \A c, x \in input_to_check : Input(c) = Input(x) => ~Ahead(graph, original, c, x)
        BY <1>8 DEF Judged
    <2>2. check \in C /\ check \notin seen /\ seen \subseteq C
        BY <1>9
    <2> HIDE DEF C
    <2>3. CASE IsDominated(check)
        <3>1. to_remove' = Append(to_remove, check) /\ input_to_check' = input_to_check
            BY <1>2, <2>3
        <3>2. (seen \cup {check}) \ input_to_check = (seen \ input_to_check) \cup {check}
            BY <2>1, <2>2
        <3>3. to_remove' \in Seq((seen \ input_to_check) \cup {check})
            <4>1. PICK G : G = seen \ input_to_check
                OBVIOUS
            <4>2. to_remove \in Seq(G \cup {check}) /\ check \in G \cup {check}
                BY <2>1, <4>1
            <4>3. QED
                BY <3>1, <4>1, <4>2
        <3>4. Range(to_remove') = Range(to_remove) \cup {check}
            <4>1. PICK T : T = (seen \ input_to_check) \cup {check}
                OBVIOUS
            <4>2. to_remove \in Seq(T) /\ check \in T
                BY <2>1, <4>1
            <4>3. QED
                BY <3>1, <4>2, AppendFacts
        <3>5. \A x \in C : Stays(x)' <=> x \notin (seen \cup {check}) \ input_to_check
            <4>1. \A x : Stays(x)' <=> Stays(x) /\ x # check
                BY <1>2, <3>4 DEF Stays
            <4>2. QED
                BY <2>1, <3>2, <4>1
        <3>6. \A x \in (seen \cup {check}) \ input_to_check :
                  \E c \in input_to_check : Input(c) = Input(x) /\ Ahead(graph, original, c, x)
            BY <1>9, <2>1, <2>3, <3>2
        <3>7. QED
            BY <1>2, <2>1, <3>1, <3>2, <3>3, <3>5, <3>6 DEF Judged, C
    <2>4. CASE ~IsDominated(check)
        <3>1. input_to_check' = input_to_check \cup {check} /\ to_remove' = to_remove
            BY <1>2, <2>4
        <3>2. (seen \cup {check}) \ (input_to_check \cup {check}) = seen \ input_to_check
            BY <2>1, <2>2
        <3>3. \A x \in C : Stays(x)' <=> x \notin seen \ input_to_check
            BY <1>2, <2>1, <3>1 DEF Stays
        <3>4. \A c, x \in input_to_check \cup {check} :
                  Input(c) = Input(x) => ~Ahead(graph, original, c, x)
            <4>1. \A x \in input_to_check : ~Ahead(graph, original, check, x)
                BY <1>9, <2>1
            <4>2. \A c \in input_to_check :
                      Input(c) = Input(check) => ~Ahead(graph, original, c, check)
                BY <1>9, <2>4
            <4>3. ~Ahead(graph, original, check, check)
                <5>1. ~Precedes(original, check, check)
                    <6>1. PICK b \in Block : b = Parent(check)
                        BY <1>3, <1>9, StandingFacts
                    <6>2. PICK q \in Seq(ChecksIn(original)) : q = original[b]
                        BY <1>3, <6>1, StandingFacts
                    <6>3. IsInjective(q) /\ DOMAIN q = 1 .. Len(q)
                        BY <1>3, <6>1, <6>2, StandingFacts
                    <6>4. QED
                        BY <6>1, <6>2, <6>3 DEF Precedes, IsInjective
                <5>2. QED
                    BY <5>1 DEF Ahead, StrictDominators
            <4>4. QED
                BY <2>1, <4>1, <4>2, <4>3
        <3>5. QED
            BY <1>2, <2>1, <3>1, <3>2, <3>3, <3>4 DEF Judged, C
    <2>5. QED
        BY <2>3, <2>4
<1>12. Walking'
    <2>1. Judged(FirstOf(walk, n + 1))'
        BY <1>9, <1>11
    <2>2. QED
        BY <1>2, <1>4, <1>5, <1>9, <1>10, <2>1 DEF Walking
<1>13. QED
    BY <1>2, <1>12 DEF IInv

LEMMA RemovalKeeps ==
    ASSUME IInv, RemoveCheck
    PROVE  IInv'
<1>1. PICK check : check = Head(to_remove)
    OBVIOUS
<1>2. PICK b : b = Parent(check)
    OBVIOUS
<1>3. /\ dom_tree # NotBuilt /\ to_remove # << >>
      /\ body' = [body EXCEPT ![b] = Filtered(body[b], Range(body[b]) \ {check})]
      /\ to_remove' = Tail(to_remove)
      /\ graph' = graph /\ original' = original /\ dom_tree' = dom_tree
      /\ todo' = todo /\ input_to_check' = input_to_check
    BY <1>1, <1>2 DEF RemoveCheck
<1>4. /\ FlowOf(graph) /\ Standing(original) /\ Walking
      /\ DOMAIN body = Block /\ \A v \in Block : body[v] \in Seq(Range(original[v]))
    BY <1>3 DEF IInv, Waiting
<1>5. PICK walk : walk = Walked(DFSOf(graph, Entry, {}), original)
    OBVIOUS
<1>6. /\ dom_tree = DominatorTreeOf(graph, DFSOf(graph, Entry, {}))
      /\ \E n \in 0 .. Len(walk) : Past(walk, n) /\ Judged(FirstOf(walk, n))
    BY <1>4, <1>5 DEF Walking
<1>7. PICK n \in 0 .. Len(walk) : Past(walk, n) /\ Judged(FirstOf(walk, n))
    BY <1>6
<1>8. PICK seen : seen = FirstOf(walk, n)
    OBVIOUS
<1>9. seen \subseteq ChecksIn(original)
    <2>1. walk \in Seq(ChecksIn(original))
        BY <1>4, <1>5, WalkOfState
    <2>2. \A i \in 1 .. n : i \in DOMAIN walk
        BY <1>7, <2>1
    <2>3. QED
        BY <1>8, <2>1, <2>2 DEF FirstOf
<1>10. PICK gone : gone = seen \ input_to_check
    OBVIOUS
<1>11. /\ input_to_check \subseteq seen
       /\ to_remove \in Seq(gone)
       /\ \A x \in ChecksIn(original) : Stays(x) <=> x \notin gone
       /\ \A x \in gone :
              \E c \in input_to_check : Input(c) = Input(x) /\ Ahead(graph, original, c, x)
       /\ \A c, x \in input_to_check : Input(c) = Input(x) => ~Ahead(graph, original, c, x)
    BY <1>7, <1>8, <1>10 DEF Judged
<1>12. PICK t : t = Tail(to_remove)
    OBVIOUS
<1>13. /\ t \in Seq(gone) /\ check \in gone
       /\ \A x : x # check => (x \in Range(t) <=> x \in Range(to_remove))
    <2>1. PICK q \in Seq(gone) : q = to_remove
        BY <1>11
    <2>2. /\ t \in Seq(gone) /\ Len(q) \in Nat \ {0} /\ DOMAIN q = 1 .. Len(q)
          /\ check = q[1] /\ DOMAIN t = 1 .. Len(q) - 1
          /\ \A i \in DOMAIN t : t[i] = q[i + 1]
        BY <1>1, <1>3, <1>12, <2>1
    <2>3. check \in gone
        BY <2>1, <2>2
    <2>4. ASSUME NEW x \in Range(t) PROVE x \in Range(q)
        <3>1. PICK i \in DOMAIN t : x = t[i]
            BY <2>4 DEF Range
        <3>2. i + 1 \in DOMAIN q
            BY <2>2
        <3>3. QED
            BY <2>2, <3>1, <3>2 DEF Range
    <2>5. ASSUME NEW x \in Range(q), x # check PROVE x \in Range(t)
        <3>1. PICK i \in DOMAIN q : x = q[i]
            BY <2>5 DEF Range
        <3>2. i # 1
            BY <2>2, <2>5, <3>1
        <3>3. i - 1 \in DOMAIN t /\ (i - 1) + 1 = i
            BY <2>2, <3>2
        <3>4. QED
            BY <2>2, <3>1, <3>3 DEF Range
    <2>6. QED
        BY <2>1, <2>2, <2>3, <2>4, <2>5
<1>14. b \in Block /\ body[b] \in Seq(Range(original[b]))
    BY <1>2, <1>4, <1>9, <1>10, <1>13, StandingFacts
<1>15. PICK kept : kept = Filtered(body[b], Range(body[b]) \ {check})
    OBVIOUS
<1>16. kept \in Seq(Range(original[b])) /\ Range(kept) = Range(body[b]) \ {check}
    <2>1. PICK T : T = Range(original[b])
        OBVIOUS
    <2>2. PICK q \in Seq(T) : q = body[b]
        BY <1>14, <2>1
    <2>3. PICK set : set = Range(q) \ {check}
        OBVIOUS
    <2>4. Filtered(q, set) \in Seq(T) /\ Range(Filtered(q, set)) = Range(q) \cap set
        BY FilteredIs
    <2>5. QED
        BY <1>15, <2>1, <2>2, <2>3, <2>4
<1>17. /\ DOMAIN body' = Block
       /\ \A v \in Block : body'[v] = IF v = b THEN kept ELSE body[v]
    BY <1>3, <1>4, <1>15
<1>18. \A v \in Block : body'[v] \in Seq(Range(original[v]))
    BY <1>4, <1>16, <1>17
<1>19. \A x \in ChecksIn(original) : Stays(x)' <=> x \notin gone
    <2> SUFFICES ASSUME NEW x \in ChecksIn(original)
                 PROVE  x \in Range(body'[Parent(x)]) \ Range(t) <=> x \notin gone
        BY <1>3, <1>12 DEF Stays
    <2>1. x \in Range(body[Parent(x)]) \ Range(to_remove) <=> x \notin gone
        BY <1>11 DEF Stays
    <2>2. Parent(x) \in Block
        BY <1>4, StandingFacts
    <2>3. CASE x = check
        BY <1>2, <1>13, <1>14, <1>16, <1>17, <2>3
    <2>4. CASE x # check
        BY <1>13, <1>16, <1>17, <2>1, <2>2, <2>4
    <2>5. QED
        BY <2>3, <2>4
<1>20. Judged(seen)'
    BY <1>3, <1>10, <1>11, <1>12, <1>13, <1>19 DEF Judged
<1>21. Past(walk, n)'
    BY <1>3, <1>7 DEF Past
<1>22. Walking'
    BY <1>3, <1>5, <1>6, <1>8, <1>20, <1>21 DEF Walking
<1>23. QED
    BY <1>3, <1>4, <1>17, <1>18, <1>22 DEF IInv

LEMMA InvariantHolds == Spec => []IInv
<1>1. ASSUME IInv, [Next]_vars PROVE IInv'
    <2>1. CASE UNCHANGED vars
        BY <1>1, <2>1
           DEF vars, IInv, Waiting, Walking, Past, Judged, Stays
    <2>2. QED
        BY <1>1, <2>1, BuildKeeps, VisitKeeps, RemovalKeeps DEF Next
<1>2. QED
    BY <1>1, InvariantStarts, PTL DEF Spec

-------------------------------------------------------------------------------
(* Of two blocks that the entry reaches one after the other on every path, *)
(* the first is reached around the second.                                 *)
LEMMA FirstReachedAround ==
    ASSUME NEW g, g.succ \in [Block -> Seq(Block)], Entry \in Block,
           NEW p \in Reachable(g), NEW u \in Block \ {p}, Dominates(g, u, p)
    PROVE  u \in Reach(g, Entry, {p})
<1> DEFINE T == Reach(g, Entry, {p})
           S == Reach(g, Entry, {u})
           R == Reach(g, Entry, {})
<1> SUFFICES ASSUME u \notin T PROVE FALSE
    OBVIOUS
<1>1. /\ T \in SUBSET (Block \ {p}) /\ {Entry} \ {p} \subseteq T /\ Closed(g, {p}, T)
      /\ \A set : {Entry} \ {p} \subseteq set /\ Closed(g, {p}, set) => T \subseteq set
    <2>1. PICK one : one = {p}
        OBVIOUS
    <2>2. /\ Reach(g, Entry, one) \in SUBSET (Block \ one)
          /\ {Entry} \ one \subseteq Reach(g, Entry, one)
          /\ Closed(g, one, Reach(g, Entry, one))
          /\ \A set : {Entry} \ one \subseteq set /\ Closed(g, one, set)
                          => Reach(g, Entry, one) \subseteq set
        BY ReachIsLeast
    <2>3. QED
        BY <2>1, <2>2
<1>2. S \in SUBSET (Block \ {u}) /\ {Entry} \ {u} \subseteq S /\ Closed(g, {u}, S)
    BY ReachIsLeast
<1>3. /\ R \in SUBSET Block
      /\ \A set : {Entry} \subseteq set /\ Closed(g, {}, set) => R \subseteq set
    <2>1. PICK none : none = {}
        OBVIOUS
    <2>2. /\ Reach(g, Entry, none) \in SUBSET (Block \ none)
          /\ \A set : {Entry} \ none \subseteq set /\ Closed(g, none, set)
                          => Reach(g, Entry, none) \subseteq set
        BY ReachIsLeast
    <2>3. QED
        BY <2>1, <2>2
<1>4. p \in R /\ p \notin S
    BY DEF Reachable, Dominates
<1> HIDE DEF T, S, R
<1>5. Entry # p
    BY <1>2, <1>4
<1>6. T \subseteq S
    <2>1. Closed(g, {p}, T \cap S)
        BY <1>1, <1>2 DEF Closed
    <2>2. {Entry} \ {p} \subseteq T \cap S
        BY <1>1, <1>2, <1>5
    <2>3. T \subseteq T \cap S
        BY <1>1, <2>1, <2>2
    <2>4. QED
        BY <2>3
<1>7. \A v \in T : p \notin Range(g.succ[v])
    BY <1>2, <1>3, <1>4, <1>6 DEF Closed
<1>8. Closed(g, {}, T)
    BY <1>1, <1>7 DEF Closed
<1>9. QED
    BY <1>1, <1>3, <1>4, <1>5, <1>8

(* check_elimination.cpp, lines 66-75: whatever block defines the input of *)
(* a check that goes, however an execution comes from there to it, around  *)
(* loops too, it passes a check of the input that stays.                   *)
THEOREM CheckEliminationStillChecked == Spec => []StillChecked
<1>1. IInv => StillChecked
    <2> SUFFICES ASSUME IInv, NEW b \in Block, NEW check \in Range(original[b]), ~Stays(check),
                        NEW equal, equal = {c \in ChecksOf(Input(check)) : Stays(c)},
                        ~\E c \in equal : Before(c, check),
                        NEW definition \in Block,
                        \A c \in ChecksOf(Input(check)) : Dominates(graph, definition, Parent(c)),
                        b \in Reach(graph, definition, {Parent(c) : c \in equal})
                 PROVE  FALSE
        BY DEF StillChecked
    <2>1. FlowOf(graph) /\ Standing(original) /\ DOMAIN body = Block
        BY DEF IInv
    <2>2. check \in ChecksIn(original) /\ Parent(check) = b
        <3>1. check \in ChecksIn(original)
            BY DEF ChecksIn
        <3>2. QED
            BY <2>1, <3>1, StandingFacts
    <2>3. \A x \in ChecksIn(original) : x \in Range(original[Parent(x)]) /\ Parent(x) \in Block
        BY <2>1, StandingFacts
    <2>4. Walking
        <3>1. ~Waiting
            <4> SUFFICES ASSUME Waiting PROVE FALSE
                OBVIOUS
            <4>1. body = original /\ Range(to_remove) = {}
                BY DEF Waiting, Range
            <4>2. QED
                BY <2>2, <2>3, <4>1 DEF Stays
        <3>2. QED
            BY <3>1 DEF IInv
    <2>5. PICK walk : walk = Walked(DFSOf(graph, Entry, {}), original)
        OBVIOUS
    <2>6. PICK n \in 0 .. Len(walk) : Judged(FirstOf(walk, n))
        BY <2>4, <2>5 DEF Walking
    <2>7. PICK seen : seen = FirstOf(walk, n)
        OBVIOUS
    <2>8. /\ walk \in Seq(ChecksIn(original))
          /\ seen \subseteq ChecksIn(original)
        <3>1. walk \in Seq(ChecksIn(original))
            BY <2>1, <2>5, WalkOfState
        <3>2. \A i \in 1 .. n : i \in DOMAIN walk
            BY <2>6, <3>1
        <3>3. QED
            BY <2>7, <3>1, <3>2 DEF FirstOf
    <2>9. /\ input_to_check \subseteq seen
          /\ \A x \in ChecksIn(original) : Stays(x) <=> x \notin seen \ input_to_check
          /\ \A x \in seen \ input_to_check :
                 \E c \in input_to_check : Input(c) = Input(x) /\ Ahead(graph, original, c, x)
        BY <2>6, <2>7 DEF Judged
    <2>10. PICK c \in input_to_check : Input(c) = Input(check) /\ Ahead(graph, original, c, check)
        BY <2>2, <2>9
    <2>11. c \in ChecksIn(original) /\ Stays(c)
        BY <2>8, <2>9, <2>10
    <2>12. c \in ChecksOf(Input(check)) /\ c \in equal
        BY <2>10, <2>11 DEF ChecksOf, ChecksIn
    <2>13. ~Precedes(original, c, check)
        BY <2>12 DEF Before, Precedes
    <2>14. PICK p \in Block : p = Parent(c)
        BY <2>3, <2>11
    <2>15. p \in Reachable(graph) /\ p # b /\ b \notin Reach(graph, Entry, {p})
        BY <2>2, <2>10, <2>13, <2>14 DEF Ahead, StrictDominators, Dominates
    <2>16. /\ graph.succ \in [Block -> Seq(Block)] /\ Entry \in Block
        BY <2>1, EdgesOf
    <2>17. b \in Reach(graph, definition, {p})
        <3>1. PICK all : all = {Parent(x) : x \in equal}
            OBVIOUS
        <3>2. p \in all
            BY <2>12, <2>14, <3>1
        <3>3. Closed(graph, all, Reach(graph, definition, {p}))
            <4>1. Closed(graph, {p}, Reach(graph, definition, {p}))
                BY ReachIsLeast
            <4>2. QED
                BY <3>2, <4>1 DEF Closed
        <3>4. {definition} \ all \subseteq Reach(graph, definition, {p})
            <4>1. {definition} \ {p} \subseteq Reach(graph, definition, {p})
                BY ReachIsLeast
            <4>2. QED
                BY <3>2, <4>1
        <3>5. Reach(graph, definition, all) \subseteq Reach(graph, definition, {p})
            BY <3>3, <3>4, ReachIsLeast
        <3>6. QED
            BY <3>1, <3>5
    <2>18. definition # p
        <3> SUFFICES ASSUME definition = p PROVE FALSE
            OBVIOUS
        <3>1. Closed(graph, {p}, {})
            BY DEF Closed
        <3>2. {p} \ {p} \subseteq {}
            OBVIOUS
        <3>3. Reach(graph, p, {p}) \subseteq {}
            BY <3>1, <3>2, ReachIsLeast
        <3>4. QED
            BY <2>17, <3>3
    <2>19. definition \in Reach(graph, Entry, {p})
        BY <2>12, <2>14, <2>15, <2>16, <2>18, FirstReachedAround
    <2>20. Reach(graph, definition, {p}) \subseteq Reach(graph, Entry, {p})
        <3>1. Closed(graph, {p}, Reach(graph, Entry, {p}))
            BY <2>16, ReachIsLeast
        <3>2. PICK one : one = {p}
            OBVIOUS
        <3>3. {definition} \ one \subseteq Reach(graph, Entry, one)
            BY <2>19, <3>2
        <3>4. PICK set : set = Reach(graph, Entry, one)
            OBVIOUS
        <3>5. {definition} \ one \subseteq set /\ Closed(graph, one, set)
            BY <3>1, <3>2, <3>3, <3>4
        <3>6. Reach(graph, definition, one) \subseteq set
            BY <3>5, ReachIsLeast
        <3>7. QED
            BY <3>2, <3>4, <3>6
    <2>21. QED
        BY <2>15, <2>17, <2>20
<1>2. QED
    BY <1>1, InvariantHolds, PTL

(* check_elimination.cpp, lines 97-112: the walk in reverse post-order     *)
(* sees a dominating check first, so one pass removes all it can.          *)
THEOREM CheckEliminationNoneTooMany == Spec => []NoneTooMany
<1>1. IInv => NoneTooMany
    <2> SUFFICES ASSUME IInv, Finished,
                        NEW b \in Reachable(graph), NEW check \in Range(body[b]),
                        NEW c \in ChecksOf(Input(check)) \ {check},
                        Stays(c), Parent(c) \in Reachable(graph),
                        Before(c, check) \/ (Parent(c) # b /\ Dominates(graph, Parent(c), b))
                 PROVE  FALSE
        BY DEF NoneTooMany
    <2>1. FlowOf(graph) /\ Standing(original) /\ Walking
        BY DEF IInv, Finished, Waiting
    <2>2. b \in Block
        BY <2>1, EdgesOf
    <2>3. check \in Range(original[b])
        <3>1. body[b] \in Seq(Range(original[b]))
            BY <2>2 DEF IInv
        <3>2. QED
            BY <3>1 DEF Range
    <2>4. check \in ChecksIn(original) /\ Parent(check) = b
        <3>1. check \in ChecksIn(original)
            BY <2>2, <2>3 DEF ChecksIn
        <3>2. QED
            BY <2>1, <2>2, <2>3, <3>1, StandingFacts
    <2>5. c \in ChecksIn(original) /\ Input(c) = Input(check)
        BY DEF ChecksOf, ChecksIn
    <2>6. Stays(check)
        <3>1. Range(to_remove) = {}
            BY DEF Finished, Range
        <3>2. QED
            BY <2>4, <3>1 DEF Stays
    <2>7. PICK walk : walk = Walked(DFSOf(graph, Entry, {}), original)
        OBVIOUS
    <2>8. PICK n \in 0 .. Len(walk) : Past(walk, n) /\ Judged(FirstOf(walk, n))
        BY <2>1, <2>7 DEF Walking
    <2>9. /\ walk \in Seq(ChecksIn(original))
          /\ Range(walk) = {x \in ChecksIn(original) : Parent(x) \in Reachable(graph)}
        BY <2>1, <2>7, WalkOfState
    <2>10. n = Len(walk)
        <3>1. Len(todo) = 0
            BY DEF Finished
        <3>2. QED
            BY <2>8, <2>9, <3>1 DEF Past
    <2>11. FirstOf(walk, n) = Range(walk)
        BY <2>9, <2>10 DEF FirstOf, Range
    <2>12. check \in input_to_check /\ c \in input_to_check
        BY <2>4, <2>5, <2>6, <2>8, <2>9, <2>11 DEF Judged
    <2>13. ~Ahead(graph, original, c, check)
        BY <2>5, <2>8, <2>12 DEF Judged
    <2>14. QED
        BY <2>4, <2>13 DEF Ahead, Before, Precedes, StrictDominators
<1>2. QED
    BY <1>1, InvariantHolds, PTL
===============================================================================
