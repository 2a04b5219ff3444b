-------------------------------- MODULE IRProofs --------------------------------
(***************************************************************************)
(* Proofs about module IR, for any sets of blocks, instructions and        *)
(* callees.                                                                *)
(***************************************************************************)
EXTENDS IR, FiniteSetTheorems, SequenceTheorems, WellFoundedInduction, TLAPS

-------------------------------------------------------------------------------
(* Natural numbers, and folds.                                             *)

(* Min is the least element of a set of natural numbers, finite or not.    *)
LEMMA SmallestNat ==
    ASSUME NEW S \in SUBSET Nat, S # {}
    PROVE  Min(S) \in S /\ \A y \in S : Min(S) <= y
<1> DEFINE R == OpToRel(<, Nat)
<1>1. \A x, y \in Nat : x < y <=> <<x, y>> \in R
    BY DEF OpToRel
<1>2. \E x \in S : \A y \in S : ~ (<<y, x>> \in R)
    <2> HIDE DEF R
    <2>1. IsWellFoundedOn(R, Nat)
        BY NatLessThanWellFounded DEF R
    <2>2. QED
        BY <2>1, WFMin
<1> HIDE DEF R
<1>3. \E x \in S : \A y \in S : x <= y
    <2>1. PICK x \in S : \A y \in S : ~ (<<y, x>> \in R)
        BY <1>2
    <2>2. \A y \in S : x \in Nat /\ y \in Nat
        OBVIOUS
    <2>3. \A y \in S : ~ (y < x)
        BY <1>1, <2>1, <2>2
    <2>4. QED
        BY <2>2, <2>3
<1>4. QED
    BY <1>3 DEF Min

(* What holds of 0 and of a number if it holds of the one before it, holds *)
(* of all.                                                                 *)
LEMMA UpTo ==
    ASSUME NEW N \in Nat, NEW T, 0 \in T, \A k \in 1 .. N : k - 1 \in T => k \in T
    PROVE  0 .. N \subseteq T
<1> DEFINE rest == (0 .. N) \ T
<1> SUFFICES ASSUME rest # {} PROVE FALSE
    OBVIOUS
<1>1. Min(rest) \in rest /\ \A y \in rest : Min(rest) <= y
    BY SmallestNat
<1>2. PICK n \in 0 .. N : n = Min(rest) /\ n \notin T
    BY <1>1
<1>3. n # 0
    BY <1>2
<1>4. n \in 1 .. N /\ n - 1 \in 0 .. N /\ n - 1 < n
    BY <1>3
<1>5. n - 1 \in T
    BY <1>1, <1>2, <1>4
<1>6. QED
    BY <1>2, <1>4, <1>5

(* Max is the greatest element of an interval.                             *)
LEMMA GreatestOfInterval ==
    ASSUME NEW k \in Nat \ {0}
    PROVE  Max(1 .. k) = k /\ (1 .. k) \ {k} = 1 .. k - 1
<1>1. k \in 1 .. k /\ \A y \in 1 .. k : k >= y
    OBVIOUS
<1>2. \A x \in 1 .. k : (\A y \in 1 .. k : x >= y) => x = k
    BY <1>1
<1>3. Max(1 .. k) = k
    BY <1>1, <1>2 DEF Max
<1>4. QED
    BY <1>3

LEMMA LargestNat ==
    ASSUME NEW N \in Nat, NEW S \in SUBSET (1 .. N), S # {}
    PROVE  Max(S) \in S /\ \A y \in S : Max(S) >= y
<1> DEFINE bounds == {n \in Nat : \A y \in S : n >= y}
<1>1. bounds \in SUBSET Nat /\ N \in bounds
    OBVIOUS
<1>2. PICK m \in bounds : \A n \in bounds : m <= n
    BY <1>1, SmallestNat
<1>3. m \in S
    <2> SUFFICES ASSUME m \notin S PROVE FALSE
        OBVIOUS
    <2>1. m \in Nat /\ \A y \in S : y \in Nat \ {0} /\ m >= y /\ m # y
        BY <1>2
    <2>2. \A y \in S : m - 1 >= y
        BY <2>1
    <2>3. m - 1 \in Nat
        <3>1. PICK y : y \in S
            OBVIOUS
        <3>2. QED
            BY <2>1, <3>1
    <2>4. m - 1 \in bounds
        BY <2>2, <2>3
    <2>5. QED
        BY <1>2, <2>1, <2>4
<1>4. \A y \in S : m >= y
    BY <1>2
<1>5. QED
    BY <1>3, <1>4 DEF Max

(* The recursion of MapThenFoldSet in FoldLeft, over the indices 1 .. N of *)
(* a sequence ...                                                          *)
FoldsBy(it, N, base, Op) ==
    \A s \in SUBSET (1 .. N) :
        it[s] = IF s = {} THEN base ELSE Op[<<it[s \ {Max(s)}], Max(s)>>]

(* ... has a solution,                                                     *)
LEMMA FoldExists ==
    ASSUME NEW N \in Nat, NEW X, NEW base \in X, NEW Op \in [X \X (1 .. N) -> X]
    PROVE  \E it \in [SUBSET (1 .. N) -> X] : FoldsBy(it, N, base, Op)
<1> DEFINE Solves(it, n) ==
               \A s \in SUBSET (1 .. n) :
                   it[s] = IF s = {} THEN base ELSE Op[<<it[s \ {Max(s)}], Max(s)>>]
           Solvable(n) == \E it \in [SUBSET (1 .. n) -> X] : Solves(it, n)
           bad == {n \in 0 .. N : ~Solvable(n)}
<1>1. Solvable(0)
    <2> DEFINE it == [s \in SUBSET (1 .. 0) |-> base]
    <2>1. 1 .. 0 = {} /\ SUBSET (1 .. 0) = {{}}
        OBVIOUS
    <2>2. it \in [SUBSET (1 .. 0) -> X] /\ Solves(it, 0)
        BY <2>1
    <2>3. QED
        BY <2>2
<1>2. ASSUME NEW m \in 1 .. N, Solvable(m - 1)
      PROVE  Solvable(m)
    <2>1. PICK it \in [SUBSET (1 .. m - 1) -> X] : Solves(it, m - 1)
        BY <1>2
    <2> DEFINE more == [s \in SUBSET (1 .. m) |-> IF m \in s THEN Op[<<it[s \ {m}], m>>] ELSE it[s]]
    <2>2. m \in Nat /\ m \in 1 .. m /\ \A y \in 1 .. m : m >= y /\ (y # m => y \in 1 .. m - 1)
        OBVIOUS
    <2>3. ASSUME NEW s \in SUBSET (1 .. m), m \in s
          PROVE  Max(s) = m /\ s \ {m} \in SUBSET (1 .. m - 1)
        <3>1. \A x \in s : (\A y \in s : x >= y) => x = m
            BY <2>2, <2>3
        <3>2. Max(s) = m
            BY <2>2, <2>3, <3>1 DEF Max
        <3>3. QED
            BY <2>2, <3>2
    <2>4. \A s \in SUBSET (1 .. m) : m \notin s => s \in SUBSET (1 .. m - 1)
        BY <2>2
    <2>5. \A s \in SUBSET (1 .. m) : s \ {Max(s)} \in SUBSET (1 .. m)
        OBVIOUS
    <2>6. ASSUME NEW s \in SUBSET (1 .. m)
          PROVE  more[s] \in X
        <3>1. CASE m \in s
            <4>1. it[s \ {m}] \in X
                BY <2>3, <3>1
            <4>2. QED
                BY <2>2, <3>1, <4>1
        <3>2. CASE m \notin s
            BY <2>4, <3>2
        <3>3. QED
            BY <3>1, <3>2
    <2>7. ASSUME NEW s \in SUBSET (1 .. m)
          PROVE  more[s] = IF s = {} THEN base ELSE Op[<<more[s \ {Max(s)}], Max(s)>>]
        <3>1. CASE m \in s
            <4>1. Max(s) = m /\ s \ {m} \in SUBSET (1 .. m) /\ m \notin s \ {m} /\ s # {}
                BY <2>3, <3>1
            <4>2. more[s \ {m}] = it[s \ {m}]
                BY <4>1
            <4>3. more[s] = Op[<<it[s \ {m}], m>>]
                BY <3>1
            <4>4. QED
                BY <4>1, <4>2, <4>3
        <3>2. CASE m \notin s
            <4>1. s \in SUBSET (1 .. m - 1) /\ more[s] = it[s]
                BY <2>4, <3>2
            <4>2. s \ {Max(s)} \in SUBSET (1 .. m) /\ m \notin s \ {Max(s)}
                BY <2>5, <3>2
            <4>3. more[s \ {Max(s)}] = it[s \ {Max(s)}]
                BY <4>2
            <4>4. QED
                BY <2>1, <4>1, <4>3
        <3>3. QED
            BY <3>1, <3>2
    <2>8. more \in [SUBSET (1 .. m) -> X]
        BY <2>6
    <2> HIDE DEF more
    <2>9. QED
        BY <2>7, <2>8
<1> HIDE DEF Solvable
<1>3. bad = {}
    <2> SUFFICES ASSUME bad # {} PROVE FALSE
        OBVIOUS
    <2>1. Min(bad) \in bad /\ \A y \in bad : Min(bad) <= y
        BY SmallestNat
    <2>2. PICK m \in 0 .. N : m = Min(bad) /\ ~Solvable(m)
        BY <2>1
    <2>3. m # 0
        BY <1>1, <2>2
    <2>4. m \in 1 .. N /\ m - 1 \in 0 .. N /\ m - 1 < m
        BY <2>3
    <2>5. Solvable(m - 1)
        BY <2>1, <2>2, <2>4
    <2>6. QED
        BY <1>2, <2>2, <2>4, <2>5
<1>4. Solvable(N)
    BY <1>3
<1>5. QED
    BY <1>4 DEF Solvable, FoldsBy

(* ... and the values of a solution on the prefixes are the partial        *)
(* results.                                                                *)
FoldsPrefixesBy(it, N, X, base, Op) ==
    /\ it[{}] = base
    /\ \A k \in 1 .. N : it[1 .. k - 1] \in X => it[1 .. k] = Op[<<it[1 .. k - 1], k>>]

PartialResults(a, N, base, Op, result) ==
    /\ a[0] = base /\ a[N] = result
    /\ \A k \in 1 .. N : a[k] = Op[<<a[k - 1], k>>]

LEMMA FoldValues ==
    ASSUME NEW N \in Nat, NEW X, NEW base \in X, NEW Op \in [X \X (1 .. N) -> X], NEW it,
           FoldsPrefixesBy(it, N, X, base, Op)
    PROVE  \E a \in [0 .. N -> X] : PartialResults(a, N, base, Op, it[1 .. N])
<1> DEFINE a == [k \in 0 .. N |-> it[1 .. k]]
           bad == {n \in 0 .. N : a[n] \notin X}
<1>1. 1 .. 0 = {} /\ a[0] = base
    BY DEF FoldsPrefixesBy
<1>2. \A k \in 1 .. N : a[k - 1] \in X => a[k] = Op[<<a[k - 1], k>>]
    <2> SUFFICES ASSUME NEW k \in 1 .. N, a[k - 1] \in X
                 PROVE  a[k] = Op[<<a[k - 1], k>>]
        OBVIOUS
    <2>1. k - 1 \in 0 .. N /\ k \in 0 .. N
        OBVIOUS
    <2>2. a[k - 1] = it[1 .. k - 1] /\ a[k] = it[1 .. k]
        BY <2>1
    <2>3. QED
        BY <2>2 DEF FoldsPrefixesBy
<1>3. a[N] = it[1 .. N] /\ DOMAIN a = 0 .. N /\ a = [k \in 0 .. N |-> a[k]]
    OBVIOUS
<1> HIDE DEF a
<1>4. bad = {}
    <2> SUFFICES ASSUME bad # {} PROVE FALSE
        OBVIOUS
    <2>1. Min(bad) \in bad /\ \A y \in bad : Min(bad) <= y
        BY SmallestNat
    <2>2. PICK m \in 0 .. N : m = Min(bad) /\ a[m] \notin X
        BY <2>1
    <2>3. m # 0
        BY <1>1, <2>2
    <2>4. m \in 1 .. N /\ m - 1 \in 0 .. N /\ m - 1 < m
        BY <2>3
    <2>5. a[m - 1] \in X
        <3>1. m - 1 \notin bad
            BY <2>1, <2>2, <2>4
        <3>2. QED
            BY <2>4, <3>1
    <2>6. Op[<<a[m - 1], m>>] \in X
        BY <2>4, <2>5
    <2>7. QED
        BY <1>2, <2>2, <2>4, <2>5, <2>6
<1>5. a \in [0 .. N -> X]
    BY <1>3, <1>4
<1>6. \A k \in 1 .. N : a[k] = Op[<<a[k - 1], k>>]
    <2> SUFFICES ASSUME NEW k \in 1 .. N
                 PROVE  a[k] = Op[<<a[k - 1], k>>]
        OBVIOUS
    <2>1. k - 1 \in 0 .. N
        OBVIOUS
    <2>2. QED
        BY <1>2, <1>5, <2>1
<1>7. QED
    BY <1>1, <1>3, <1>5, <1>6 DEF PartialResults

(* q lists the elements of S, each once.                                   *)
Lists(q, N, S) ==
    /\ q \in [1 .. N -> S]
    /\ \A x \in S : \E k \in 1 .. N : q[k] = x
    /\ \A j, k \in 1 .. N : q[j] = q[k] => j = k

FoldKeeps(Inv, N, X, S, q, Op) ==
    \A x \in X, done \in SUBSET S, k \in 1 .. N :
        q[k] \notin done /\ <<x, done>> \in Inv => <<Op[<<x, k>>], done \cup {q[k]}>> \in Inv

(* What holds of the first value and no element done, and of the next      *)
(* value and one more element done, holds of the result and all elements.  *)
LEMMA FoldInvariant ==
    ASSUME NEW N \in Nat, NEW X, NEW base \in X, NEW Op \in [X \X (1 .. N) -> X], NEW it,
           FoldsPrefixesBy(it, N, X, base, Op), NEW S, NEW q, Lists(q, N, S),
           NEW Inv, <<base, {}>> \in Inv,
           FoldKeeps(Inv, N, X, S, q, Op)
    PROVE  it[1 .. N] \in X /\ <<it[1 .. N], S>> \in Inv
<1>1. PICK a \in [0 .. N -> X] : PartialResults(a, N, base, Op, it[1 .. N])
    BY FoldValues
<1> DEFINE Done(k) == {q[j] : j \in 1 .. k}
           T == {k \in 0 .. N : <<a[k], Done(k)>> \in Inv}
<1>2. 0 \in T
    <2>1. Done(0) = {} /\ a[0] = base /\ 0 \in 0 .. N
        BY <1>1 DEF PartialResults
    <2> HIDE DEF Done
    <2>2. QED
        BY <2>1
<1>3. ASSUME NEW k \in 1 .. N, k - 1 \in T
      PROVE  k \in T
    <2>1. k - 1 \in 0 .. N /\ k \in 0 .. N /\ a[k - 1] \in X /\ a[k] = Op[<<a[k - 1], k>>]
        BY <1>1 DEF PartialResults
    <2>2. Done(k) = Done(k - 1) \cup {q[k]} /\ Done(k - 1) \in SUBSET S
        <3>1. 1 .. k = (1 .. k - 1) \cup {k} /\ 1 .. k - 1 \in SUBSET (1 .. N)
            OBVIOUS
        <3>2. QED
            BY <3>1 DEF Lists
    <2>3. q[k] \notin Done(k - 1)
        <3> SUFFICES ASSUME NEW j \in 1 .. k - 1, q[j] = q[k] PROVE FALSE
            OBVIOUS
        <3>1. j \in 1 .. N /\ j # k
            OBVIOUS
        <3>2. QED
            BY <3>1 DEF Lists
    <2>4. <<a[k - 1], Done(k - 1)>> \in Inv
        BY <1>3
    <2> HIDE DEF Done
    <2>5. <<a[k], Done(k)>> \in Inv
        BY <2>1, <2>2, <2>3, <2>4 DEF FoldKeeps
    <2>6. QED
        BY <2>1, <2>5
<1>4. 0 .. N \subseteq T
    <2> HIDE DEF T
    <2>1. QED
        BY <1>2, <1>3, UpTo
<1>5. Done(N) = S
    BY DEF Lists
<1>6. QED
    <2>1. N \in T /\ a[N] = it[1 .. N] /\ a[N] \in X
        <3> HIDE DEF T
        <3>1. QED
            BY <1>1, <1>4 DEF PartialResults
    <2> HIDE DEF Done
    <2>2. QED
        BY <1>5, <2>1


-------------------------------------------------------------------------------
(* The inductive invariant.                                                *)

Slot == {"lhs", "rhs", "value", "condition", "input", "argument"} \cup Block

Ref == Instr \cup {Freed}

OperandMap == UNION {[slots -> Ref] : slots \in SUBSET Slot}

UserBag == UNION {[refs -> Nat \ {0}] : refs \in SUBSET Ref}

NodeType ==
    [opcode : Opcodes, type : {"void", "value"}, attr : Callee \cup {""},
     operands : OperandMap, paths : Seq(Block), parent : Block]

IRType ==
    [body          : [Block -> Seq(Instr)],
     node          : UNION {[instrs -> NodeType] : instrs \in SUBSET Instr},
     users         : UNION {[instrs -> UserBag] : instrs \in SUBSET Instr},
     first_non_phi : [Block -> Instr \cup {End}],
     predecessors  : [Block -> SUBSET Block],
     rets          : SUBSET Instr,
     callees       : SUBSET (Callee \cup {""}),
     undefined     : BOOLEAN]

SlotsBy(f, u) == DOMAIN f.node[u].operands

(* Every instruction that exists has users_ and is in one place, and there *)
(* are finitely many of them, with finitely many operands.                 *)
Accounted(f) ==
    /\ DOMAIN f.users = Exists(f)
    /\ IsFiniteSet(Exists(f))
    /\ \A u \in Exists(f) : IsFiniteSet(SlotsBy(f, u))
    /\ \A b \in Block : \A p \in DOMAIN f.body[b] : f.body[b][p] \in Exists(f)
    /\ \A i \in Exists(f) : \E b \in Block : \E p \in DOMAIN f.body[b] : f.body[b][p] = i
    /\ \A b, c \in Block : \A p \in DOMAIN f.body[b], q \in DOMAIN f.body[c] :
           f.body[b][p] = f.body[c][q] => b = c /\ p = q

IsPhi(f, b, p) == Opcode(f, f.body[b][p]) = "phi"

(* first_non_phi_ of a block is the first instruction that is no PHI, and  *)
(* all behind it are none.                                                 *)
Parted(f, b) ==
    \E first \in 1 .. Len(f.body[b]) + 1 :
        /\ f.first_non_phi[b] = IF first = Len(f.body[b]) + 1 THEN End ELSE f.body[b][first]
        /\ \A p \in DOMAIN f.body[b] : IsPhi(f, b, p) <=> p < first

(* Only instructions of the classes that register are users; their         *)
(* operands are values that exist; and a ret, a br and a constant have the *)
(* operands they can have.                                                 *)
Registered(f) ==
    /\ \A v \in Exists(f) : \A u \in UsersOf(f, v) :
           u = Freed \/ (u \in Exists(f) /\ Opcode(f, u) \in Registers)
    /\ \A u \in Exists(f) :
           /\ Opcode(f, u) = "ret" => SlotsBy(f, u) \subseteq {"value"}
           /\ Opcode(f, u) = "br" => SlotsBy(f, u) \subseteq {"condition"}
           /\ Opcode(f, u) = "const" => SlotsBy(f, u) = {}
           /\ Opcode(f, u) \in Registers =>
                  \A s \in SlotsBy(f, u) : Operand(f, u, s) \in Exists(f) /\ ~IsVoid(f, Operand(f, u, s))

Sound(f) ==
    /\ f \in IRType
    /\ Accounted(f)
    /\ \A b \in Block : Parted(f, b)
    /\ Registered(f)

IInv == Sound(ir)

-------------------------------------------------------------------------------
(* users_, and what the setters do.                                        *)

UsersType(instrs) == [instrs -> UserBag]

(* how often u is in a bag                                                 *)
Copies(bag, u) == IF u \in BagToSet(bag) THEN bag[u] ELSE 0

LEMMA BagCopies ==
    ASSUME NEW bag \in UserBag
    PROVE  \A w : Copies(bag, w) \in Nat /\ (Copies(bag, w) = 0 <=> w \notin BagToSet(bag))
<1>1. PICK refs \in SUBSET Ref : bag \in [refs -> Nat \ {0}]
    BY DEF UserBag
<1>2. QED
    BY <1>1 DEF Copies, BagToSet

BagWith(bag, after, u) ==
    /\ after \in UserBag /\ DOMAIN after = DOMAIN bag \cup {u}
    /\ \A w : Copies(after, w) = Copies(bag, w) + IF w = u THEN 1 ELSE 0

BagWithout(bag, after, u) ==
    /\ after \in UserBag /\ DOMAIN after = DOMAIN bag \ {u}
    /\ \A w : Copies(after, w) = IF w = u THEN 0 ELSE Copies(bag, w)

LEMMA BagFacts ==
    ASSUME NEW bag \in UserBag, NEW u \in Ref
    PROVE  /\ BagWith(bag, bag (+) SetToBag({u}), u)
           /\ BagWithout(bag, [w \in BagToSet(bag) \ {u} |-> bag[w]], u)
           /\ EmptyBag \in UserBag /\ DOMAIN EmptyBag = {}
<1>1. PICK refs \in SUBSET Ref : bag \in [refs -> Nat \ {0}]
    BY DEF UserBag
<1> DEFINE with == bag (+) SetToBag({u})
           without == [w \in BagToSet(bag) \ {u} |-> bag[w]]
<1>2. with = [w \in refs \cup {u} |-> (IF w \in refs THEN bag[w] ELSE 0) + (IF w = u THEN 1 ELSE 0)]
    BY <1>1 DEF (+), SetToBag
<1>3. with \in [refs \cup {u} -> Nat \ {0}]
    <2>1. \A w \in refs \cup {u} :
              (IF w \in refs THEN bag[w] ELSE 0) + (IF w = u THEN 1 ELSE 0) \in Nat \ {0}
        BY <1>1
    <2> HIDE DEF with
    <2>2. QED
        BY <1>2, <2>1
<1>4. without \in [refs \ {u} -> Nat \ {0}] /\ \A w \in refs \ {u} : without[w] = bag[w]
    BY <1>1 DEF BagToSet
<1>5. EmptyBag \in [{} -> Nat \ {0}]
    BY DEF EmptyBag, SetToBag
<1>6. refs \cup {u} \in SUBSET Ref /\ refs \ {u} \in SUBSET Ref /\ {} \in SUBSET Ref
    OBVIOUS
<1>7. \A w : Copies(bag, w) = IF w \in refs THEN bag[w] ELSE 0
    BY <1>1 DEF Copies, BagToSet
<1> HIDE DEF with, without
<1>8. \A w : Copies(with, w) = Copies(bag, w) + IF w = u THEN 1 ELSE 0
    <2> SUFFICES ASSUME NEW w PROVE Copies(with, w) = Copies(bag, w) + IF w = u THEN 1 ELSE 0
        OBVIOUS
    <2>1. Copies(with, w) = IF w \in refs \cup {u} THEN with[w] ELSE 0
        BY <1>3 DEF Copies, BagToSet
    <2>2. QED
        BY <1>2, <1>7, <2>1
<1>9. \A w : Copies(without, w) = IF w = u THEN 0 ELSE Copies(bag, w)
    <2> SUFFICES ASSUME NEW w PROVE Copies(without, w) = IF w = u THEN 0 ELSE Copies(bag, w)
        OBVIOUS
    <2>1. Copies(without, w) = IF w \in refs \ {u} THEN without[w] ELSE 0
        BY <1>4 DEF Copies, BagToSet
    <2>2. QED
        BY <1>4, <1>7, <2>1
<1>10. BagWith(bag, with, u)
    BY <1>1, <1>3, <1>6, <1>8 DEF UserBag, BagWith
<1>11. BagWithout(bag, without, u)
    BY <1>1, <1>4, <1>6, <1>9 DEF UserBag, BagWithout
<1>12. EmptyBag \in UserBag /\ DOMAIN EmptyBag = {}
    BY <1>5, <1>6 DEF UserBag
<1>13. QED
    BY <1>10, <1>11, <1>12 DEF with, without

UsersAfterAdding(instrs, users, after, v, u) ==
    /\ after \in UsersType(instrs)
    /\ \A w \in instrs : BagToSet(after[w]) = IF w = v THEN BagToSet(users[w]) \cup {u}
                                              ELSE BagToSet(users[w])
    /\ \A w \in instrs : \A x :
           Copies(after[w], x) = Copies(users[w], x) + IF w = v /\ x = u THEN 1 ELSE 0

UsersAfterRemoving(instrs, users, after, v, u) ==
    /\ after \in UsersType(instrs)
    /\ \A w \in instrs : BagToSet(after[w]) = IF w = v THEN BagToSet(users[w]) \ {u}
                                              ELSE BagToSet(users[w])
    /\ \A w \in instrs : \A x :
           Copies(after[w], x) = IF w = v /\ x = u THEN 0 ELSE Copies(users[w], x)

LEMMA UserFacts ==
    ASSUME NEW instrs, NEW users \in UsersType(instrs), NEW v, NEW u \in Ref
    PROVE  /\ UsersAfterAdding(instrs, users, WithUser(users, v, u), v, u)
           /\ UsersAfterRemoving(instrs, users, LosingUser(users, v, u), v, u)
<1> USE DEF UsersType
<1>1. \A w \in instrs :
          /\ users[w] \in UserBag
          /\ \A x : Copies(users[w], x) \in Nat
          /\ BagWith(users[w], users[w] (+) SetToBag({u}), u)
          /\ BagWithout(users[w], [x \in BagToSet(users[w]) \ {u} |-> users[w][x]], u)
    BY BagFacts, BagCopies
<1>2. WithUser(users, v, u) = [w \in instrs |-> IF w = v THEN users[w] (+) SetToBag({u}) ELSE users[w]]
    BY DEF WithUser
<1>3. LosingUser(users, v, u) =
          [w \in instrs |-> IF w = v THEN [x \in BagToSet(users[w]) \ {u} |-> users[w][x]] ELSE users[w]]
    BY DEF LosingUser
<1>4. UsersAfterAdding(instrs, users, WithUser(users, v, u), v, u)
    <2> DEFINE after == WithUser(users, v, u)
    <2>1. \A w \in instrs : after[w] = IF w = v THEN users[w] (+) SetToBag({u}) ELSE users[w]
        BY <1>2
    <2>2. after \in UsersType(instrs)
        BY <1>1, <1>2 DEF BagWith
    <2> HIDE DEF after
    <2>3. \A w \in instrs : BagToSet(after[w]) = IF w = v THEN BagToSet(users[w]) \cup {u}
                                                 ELSE BagToSet(users[w])
        BY <1>1, <2>1 DEF BagWith, BagToSet
    <2>4. ASSUME NEW w \in instrs, NEW x
          PROVE  Copies(after[w], x) = Copies(users[w], x) + IF w = v /\ x = u THEN 1 ELSE 0
        <3>1. CASE w = v
            BY <1>1, <2>1, <3>1 DEF BagWith
        <3>2. CASE w # v
            <4>1. after[w] = users[w] /\ Copies(users[w], x) \in Nat
                BY <1>1, <2>1, <3>2
            <4>2. QED
                BY <3>2, <4>1
        <3>3. QED
            BY <3>1, <3>2
    <2>5. QED
        BY <2>2, <2>3, <2>4 DEF UsersAfterAdding, after
<1>5. UsersAfterRemoving(instrs, users, LosingUser(users, v, u), v, u)
    <2> DEFINE after == LosingUser(users, v, u)
    <2>1. \A w \in instrs :
              after[w] = IF w = v THEN [x \in BagToSet(users[w]) \ {u} |-> users[w][x]] ELSE users[w]
        BY <1>3
    <2>2. after \in UsersType(instrs)
        BY <1>1, <1>3 DEF BagWithout
    <2> HIDE DEF after
    <2>3. \A w \in instrs : BagToSet(after[w]) = IF w = v THEN BagToSet(users[w]) \ {u}
                                                 ELSE BagToSet(users[w])
        BY <1>1, <2>1 DEF BagWithout, BagToSet
    <2>4. ASSUME NEW w \in instrs, NEW x
          PROVE  Copies(after[w], x) = IF w = v /\ x = u THEN 0 ELSE Copies(users[w], x)
        <3>1. CASE w = v
            BY <1>1, <2>1, <3>1 DEF BagWithout
        <3>2. CASE w # v
            BY <2>1, <3>2
        <3>3. QED
            BY <3>1, <3>2
    <2>5. QED
        BY <2>2, <2>3, <2>4 DEF UsersAfterRemoving, after
<1>6. QED
    BY <1>4, <1>5

(* what a setter leaves as it is                                           *)
SameIR(f, g) ==
    /\ g.body = f.body /\ g.first_non_phi = f.first_non_phi /\ g.undefined = f.undefined
    /\ g.rets = f.rets /\ g.callees = f.callees /\ g.predecessors = f.predecessors
    /\ Exists(g) = Exists(f)
    /\ DOMAIN g.users = DOMAIN f.users
    /\ \A u \in Exists(f) :
           /\ Opcode(g, u) = Opcode(f, u)
           /\ g.node[u].type = f.node[u].type
           /\ SlotsBy(g, u) = SlotsBy(f, u)

LEMMA NodeFacts ==
    ASSUME NEW f \in IRType
    PROVE  /\ Exists(f) \in SUBSET Instr
           /\ f.node \in [Exists(f) -> NodeType]
           /\ \A u \in Exists(f) :
                  /\ f.node[u] \in NodeType
                  /\ SlotsBy(f, u) \in SUBSET Slot
                  /\ f.node[u].operands \in [SlotsBy(f, u) -> Ref]
           /\ f.users \in UsersType(DOMAIN f.users) /\ DOMAIN f.users \in SUBSET Instr
<1>1. PICK instrs \in SUBSET Instr : f.node \in [instrs -> NodeType]
    BY DEF IRType
<1>2. PICK used \in SUBSET Instr : f.users \in [used -> UserBag]
    BY DEF IRType
<1>3. \A u \in instrs : f.node[u] \in NodeType /\ f.node[u].operands \in OperandMap
    BY <1>1 DEF NodeType
<1>4. ASSUME NEW u \in instrs
      PROVE  SlotsBy(f, u) \in SUBSET Slot /\ f.node[u].operands \in [SlotsBy(f, u) -> Ref]
    <2>1. PICK slots \in SUBSET Slot : f.node[u].operands \in [slots -> Ref]
        BY <1>3, <1>4 DEF OperandMap
    <2>2. QED
        BY <2>1 DEF SlotsBy
<1>5. QED
    BY <1>1, <1>2, <1>3, <1>4 DEF Exists, UsersType

(* a function with other operands and users_                               *)
Rewiring(f, node, users) == [f EXCEPT !.node = node, !.users = users]

LEMMA Rewired ==
    ASSUME NEW f \in IRType, NEW node \in [Exists(f) -> NodeType],
           NEW users \in UsersType(DOMAIN f.users),
           NEW g, g = Rewiring(f, node, users)
    PROVE  /\ g \in IRType
           /\ g.node = node /\ g.users = users
           /\ g.body = f.body /\ g.first_non_phi = f.first_non_phi /\ g.undefined = f.undefined
           /\ g.rets = f.rets /\ g.callees = f.callees /\ g.predecessors = f.predecessors
<1>1. Exists(f) \in SUBSET Instr /\ DOMAIN f.users \in SUBSET Instr
    BY NodeFacts
<1>2. /\ node \in UNION {[instrs -> NodeType] : instrs \in SUBSET Instr}
      /\ users \in UNION {[instrs -> UserBag] : instrs \in SUBSET Instr}
    BY <1>1 DEF UsersType
<1>3. QED
    BY <1>2 DEF IRType, Rewiring

LEMMA OperandSetEffect ==
    ASSUME NEW f \in IRType, NEW i \in Exists(f), NEW s \in SlotsBy(f, i), NEW v \in Ref,
           NEW g, g = OperandSet(f, i, s, v)
    PROVE  /\ g \in IRType
           /\ SameIR(f, g)
           /\ \A u \in Exists(f) : \A t \in SlotsBy(f, u) :
                  Operand(g, u, t) = IF u = i /\ t = s THEN v ELSE Operand(f, u, t)
           /\ g.users = WithUser(LosingUser(f.users, Operand(f, i, s), i), v, i)
<1> DEFINE operands == [f.node[i].operands EXCEPT ![s] = v]
           node == [u \in Exists(f) |-> IF u = i THEN [f.node[i] EXCEPT !.operands = operands] ELSE f.node[u]]
           users == WithUser(LosingUser(f.users, Operand(f, i, s), i), v, i)
<1>1. /\ f.node \in [Exists(f) -> NodeType] /\ f.node[i] \in NodeType /\ i \in Ref
      /\ f.node[i].operands \in [SlotsBy(f, i) -> Ref] /\ SlotsBy(f, i) \in SUBSET Slot
      /\ f.users \in UsersType(DOMAIN f.users)
    BY NodeFacts DEF Ref
<1>2. operands \in [SlotsBy(f, i) -> Ref] /\ operands \in OperandMap
    BY <1>1 DEF OperandMap
<1>3. [f.node[i] EXCEPT !.operands = operands] \in NodeType
    BY <1>1, <1>2 DEF NodeType
<1>4. node \in [Exists(f) -> NodeType]
    BY <1>1, <1>3
<1>5. users \in UsersType(DOMAIN f.users)
    <2>1. LosingUser(f.users, Operand(f, i, s), i) \in UsersType(DOMAIN f.users)
        BY <1>1, UserFacts DEF UsersAfterRemoving
    <2>2. QED
        BY <1>1, <2>1, UserFacts DEF UsersAfterAdding
<1>6. [f.node EXCEPT ![i].operands[s] = v] = node
    BY <1>1
<1>7. g = Rewiring(f, node, users)
    BY <1>6 DEF OperandSet, Rewiring
<1>8. /\ g \in IRType /\ g.node = node /\ g.users = users
      /\ g.body = f.body /\ g.first_non_phi = f.first_non_phi /\ g.undefined = f.undefined
      /\ g.rets = f.rets /\ g.callees = f.callees /\ g.predecessors = f.predecessors
    <2> HIDE DEF operands, node, users
    <2>1. QED
        BY <1>4, <1>5, <1>7, Rewired
<1>9. Exists(g) = Exists(f) /\ DOMAIN g.users = DOMAIN f.users
    BY <1>5, <1>8 DEF Exists, UsersType
<1>10. \A u \in Exists(f) :
           /\ g.node[u].opcode = f.node[u].opcode /\ g.node[u].type = f.node[u].type
           /\ g.node[u].operands = IF u = i THEN operands ELSE f.node[u].operands
    <2> SUFFICES ASSUME NEW u \in Exists(f)
                 PROVE  /\ g.node[u].opcode = f.node[u].opcode /\ g.node[u].type = f.node[u].type
                        /\ g.node[u].operands = IF u = i THEN operands ELSE f.node[u].operands
        OBVIOUS
    <2>1. CASE u = i
        <3>1. g.node[u] = [f.node[i] EXCEPT !.operands = operands]
            BY <1>8, <2>1
        <3> HIDE DEF operands, node
        <3>2. QED
            BY <1>1, <2>1, <3>1 DEF NodeType
    <2>2. CASE u # i
        BY <1>8, <2>2
    <2>3. QED
        BY <2>1, <2>2
<1>11. \A u \in Exists(f) : SlotsBy(g, u) = SlotsBy(f, u)
    BY <1>2, <1>10 DEF SlotsBy
<1>12. \A u \in Exists(f) : \A t \in SlotsBy(f, u) :
           Operand(g, u, t) = IF u = i /\ t = s THEN v ELSE Operand(f, u, t)
    BY <1>1, <1>10 DEF Operand, SlotsBy
<1>13. QED
    BY <1>8, <1>9, <1>10, <1>11, <1>12 DEF SameIR, Opcode

(* the elements of a finite set, in some order                             *)
LEMMA ListedSet ==
    ASSUME NEW S, IsFiniteSet(S), NEW q, q = SetToSeq(S)
    PROVE  \E N \in Nat : Lists(q, N, S)
<1> DEFINE N == Cardinality(S)
<1>1. N \in Nat /\ ExistsBijection(1 .. N, S)
    BY FS_CardinalityType
<1>2. \E g \in [1 .. N -> S] : IsInjective(g)
    BY <1>1 DEF ExistsBijection, Bijection, Injection, IsInjective
<1>3. q \in [1 .. N -> S] /\ IsInjective(q)
    BY <1>2 DEF SetToSeq
<1> HIDE DEF N
<1>4. q \in Injection(1 .. N, S)
    BY <1>3 DEF Injection, IsInjective
<1>5. IsFiniteSet(1 .. N) /\ Cardinality(1 .. N) = N
    BY <1>1, FS_Interval
<1>6. q \in Surjection(1 .. N, S)
    BY <1>4, <1>5, FS_Injection DEF N
<1>7. \A j, k \in 1 .. N : q[j] = q[k] => j = k
    BY <1>3 DEF IsInjective
<1>8. QED
    BY <1>1, <1>3, <1>6, <1>7 DEF Surjection, Lists

(* What f is after setters that put `to' into operands of instructions S.  *)
Setting(f, S, to) ==
    {g \in IRType :
        /\ SameIR(f, g)
        /\ \A v \in DOMAIN f.users : UsersOf(g, v) \subseteq UsersOf(f, v) \cup S
        /\ \A w \in Exists(f) : \A t \in SlotsBy(f, w) : Operand(g, w, t) \in {Operand(f, w, t), to}}

LEMMA SettingReflexive ==
    ASSUME NEW f \in IRType, NEW S, NEW to
    PROVE  f \in Setting(f, S, to)
BY DEF Setting, SameIR

LEMMA SettingTransitive ==
    ASSUME NEW f, NEW S, NEW to, NEW g \in Setting(f, S, to),
           NEW T \in SUBSET S, NEW h \in Setting(g, T, to)
    PROVE  h \in Setting(f, S, to)
<1>1. SameIR(f, g) /\ SameIR(g, h) /\ h \in IRType
    BY DEF Setting
<1>2. SameIR(f, h)
    BY <1>1 DEF SameIR
<1>3. DOMAIN g.users = DOMAIN f.users /\ Exists(g) = Exists(f)
      /\ \A w \in Exists(f) : SlotsBy(g, w) = SlotsBy(f, w)
    BY <1>1 DEF SameIR
<1>4. \A v \in DOMAIN f.users : UsersOf(h, v) \subseteq UsersOf(f, v) \cup S
    BY <1>3 DEF Setting
<1>5. \A w \in Exists(f) : \A t \in SlotsBy(f, w) : Operand(h, w, t) \in {Operand(f, w, t), to}
    BY <1>3 DEF Setting
<1>6. QED
    BY <1>1, <1>2, <1>4, <1>5 DEF Setting

LEMMA OperandSetSetting ==
    ASSUME NEW f \in IRType, NEW i \in Exists(f), NEW s \in SlotsBy(f, i), NEW v \in Ref
    PROVE  OperandSet(f, i, s, v) \in Setting(f, {i}, v)
<1> DEFINE g == OperandSet(f, i, s, v)
<1>0. PICK old, middle : old = Operand(f, i, s) /\ middle = LosingUser(f.users, old, i)
    OBVIOUS
<1>1. /\ g \in IRType /\ SameIR(f, g)
      /\ \A u \in Exists(f) : \A t \in SlotsBy(f, u) :
             Operand(g, u, t) = IF u = i /\ t = s THEN v ELSE Operand(f, u, t)
      /\ g.users = WithUser(middle, v, i)
    BY <1>0, OperandSetEffect
<1>2. f.users \in UsersType(DOMAIN f.users) /\ i \in Ref
    BY NodeFacts DEF Ref
<1>3. UsersAfterRemoving(DOMAIN f.users, f.users, middle, old, i)
    BY <1>0, <1>2, UserFacts
<1>4. UsersAfterAdding(DOMAIN f.users, middle, WithUser(middle, v, i), v, i)
    BY <1>2, <1>3, UserFacts DEF UsersAfterRemoving
<1> HIDE DEF g
<1>5. \A w \in DOMAIN f.users : UsersOf(g, w) \subseteq UsersOf(f, w) \cup {i}
    BY <1>1, <1>3, <1>4 DEF UsersOf, UsersAfterAdding, UsersAfterRemoving
<1>6. QED
    BY <1>1, <1>5 DEF Setting, g

(* The setters of one user, slot by slot.                                  *)
SettersKeep(f, u, slots, to, X, Inv) ==
    /\ f \in X /\ \A x \in X, s \in slots : OperandSet(x, u, s, to) \in X
    /\ <<f, {}>> \in Inv
    /\ \A x \in X, done \in SUBSET slots : \A s \in slots \ done :
           <<x, done>> \in Inv => <<OperandSet(x, u, s, to), done \cup {s}>> \in Inv

LEMMA OperandsSetByStep ==
    ASSUME NEW f, NEW u, NEW to, NEW slots, NEW X, NEW Inv, IsFiniteSet(slots),
           SettersKeep(f, u, slots, to, X, Inv)
    PROVE  OperandsSet(f, u, slots, to) \in X /\ <<OperandsSet(f, u, slots, to), slots>> \in Inv
<1> DEFINE q == SetToSeq(slots)
<1>a. f \in X /\ \A x \in X, s \in slots : OperandSet(x, u, s, to) \in X
    BY DEF SettersKeep
<1>0. PICK N \in Nat : Lists(q, N, slots)
    BY ListedSet
<1> DEFINE Op == [p \in X \X (1 .. N) |-> OperandSet(p[1], u, q[p[2]], to)]
<1> HIDE DEF q
<1>1. N \in Nat /\ DOMAIN q = 1 .. N /\ \A k \in 1 .. N : q[k] \in slots
    BY <1>0 DEF Lists
<1>2. Op \in [X \X (1 .. N) -> X]
    BY <1>1, <1>a
<1>3. \A x \in X, k \in 1 .. N : Op[<<x, k>>] = OperandSet(x, u, q[k], to)
    OBVIOUS
<1>4. PICK it \in [SUBSET (1 .. N) -> X] : FoldsBy(it, N, f, Op)
    <2> HIDE DEF Op
    <2>1. QED
        BY <1>1, <1>2, <1>a, FoldExists
<1>5. it = [s \in SUBSET (1 .. N) |->
               IF s = {} THEN f ELSE OperandSet(it[s \ {Max(s)}], u, q[Max(s)], to)]
    <2>1. ASSUME NEW s \in SUBSET (1 .. N)
          PROVE  it[s] = IF s = {} THEN f ELSE OperandSet(it[s \ {Max(s)}], u, q[Max(s)], to)
        <3>1. CASE s = {}
            BY <1>4, <3>1 DEF FoldsBy
        <3>2. CASE s # {}
            <4>1. Max(s) \in 1 .. N
                BY <1>1, <3>2, LargestNat
            <4> HIDE DEF Op
            <4>2. it[s \ {Max(s)}] \in X
                BY <1>4
            <4>3. it[s] = Op[<<it[s \ {Max(s)}], Max(s)>>]
                BY <1>4, <3>2 DEF FoldsBy
            <4>4. QED
                BY <1>3, <3>2, <4>1, <4>2, <4>3
        <3>3. QED
            BY <3>1, <3>2
    <2> HIDE DEF Op
    <2>2. QED
        BY <1>4, <2>1
<1> DEFINE fold == CHOOSE fn : fn = [s \in SUBSET (1 .. N) |->
                                       IF s = {} THEN f
                                       ELSE OperandSet(fn[s \ {Max(s)}], u, q[Max(s)], to)]
<1>6. fold = [s \in SUBSET (1 .. N) |->
                 IF s = {} THEN f ELSE OperandSet(fold[s \ {Max(s)}], u, q[Max(s)], to)]
    <2> HIDE DEF Op
    <2>1. QED
        BY <1>5
<1>7. OperandsSet(f, u, slots, to) = fold[1 .. N]
    BY <1>1 DEF OperandsSet, q, FoldLeft, MapThenFoldSet
<1>8. fold[{}] = f
      /\ \A s \in SUBSET (1 .. N) : s # {} =>
             fold[s] = OperandSet(fold[s \ {Max(s)}], u, q[Max(s)], to)
    <2> HIDE DEF fold, Op
    <2>1. {} \in SUBSET (1 .. N)
        OBVIOUS
    <2>2. QED
        BY <1>6, <2>1
<1>9. \A k \in 1 .. N : fold[1 .. k - 1] \in X => fold[1 .. k] = Op[<<fold[1 .. k - 1], k>>]
    <2> SUFFICES ASSUME NEW k \in 1 .. N, fold[1 .. k - 1] \in X
                 PROVE  fold[1 .. k] = OperandSet(fold[1 .. k - 1], u, q[k], to)
        BY <1>3
    <2> HIDE DEF fold, Op
    <2>1. k \in Nat \ {0} /\ 1 .. k \in SUBSET (1 .. N) /\ k \in 1 .. k
        BY <1>1
    <2>2. Max(1 .. k) = k /\ (1 .. k) \ {k} = 1 .. k - 1
        BY <2>1, GreatestOfInterval
    <2>3. QED
        BY <1>8, <2>1, <2>2
<1> HIDE DEF fold, Op
<1>10. FoldsPrefixesBy(fold, N, X, f, Op)
    BY <1>8, <1>9 DEF FoldsPrefixesBy
<1>11. FoldKeeps(Inv, N, X, slots, q, Op)
    <2>1. \A x \in X, done \in SUBSET slots : \A s \in slots \ done :
              <<x, done>> \in Inv => <<OperandSet(x, u, s, to), done \cup {s}>> \in Inv
        BY DEF SettersKeep
    <2>2. QED
        BY <1>1, <1>3, <2>1 DEF FoldKeeps
<1>12. fold[1 .. N] \in X /\ <<fold[1 .. N], slots>> \in Inv
    <2>1. <<f, {}>> \in Inv
        BY DEF SettersKeep
    <2>2. QED
        BY <1>0, <1>2, <1>10, <1>11, <1>a, <2>1, FoldInvariant
<1>13. QED
    BY <1>7, <1>12

LEMMA OperandsSetEffect ==
    ASSUME NEW f \in IRType, NEW u \in Exists(f), NEW to \in Ref,
           NEW slots \in SUBSET SlotsBy(f, u), IsFiniteSet(slots),
           NEW g, g = OperandsSet(f, u, slots, to)
    PROVE  g \in Setting(f, {u}, to) /\ \A t \in slots : Operand(g, u, t) = to
<1> DEFINE X == Setting(f, {u}, to)
           Inv == {p \in X \X SUBSET slots : \A t \in p[2] : Operand(p[1], u, t) = to}
<1>1. ASSUME NEW h \in X
      PROVE  h \in IRType /\ u \in Exists(h) /\ SlotsBy(h, u) = SlotsBy(f, u)
    BY DEF Setting, SameIR
<1>2. ASSUME NEW h \in X, NEW s \in slots
      PROVE  /\ OperandSet(h, u, s, to) \in X
             /\ \A t \in slots : Operand(OperandSet(h, u, s, to), u, t) = IF t = s THEN to ELSE Operand(h, u, t)
    <2>1. h \in IRType /\ u \in Exists(h) /\ s \in SlotsBy(h, u) /\ SlotsBy(h, u) = SlotsBy(f, u)
        BY <1>1
    <2>2. OperandSet(h, u, s, to) \in Setting(h, {u}, to)
        BY <2>1, OperandSetSetting
    <2>3. OperandSet(h, u, s, to) \in X
        BY <2>2, SettingTransitive
    <2>4. PICK h1 : h1 = OperandSet(h, u, s, to)
        OBVIOUS
    <2>5. \A w \in Exists(h) : \A t \in SlotsBy(h, w) :
              Operand(h1, w, t) = IF w = u /\ t = s THEN to ELSE Operand(h, w, t)
        BY <2>1, <2>4, OperandSetEffect
    <2>6. QED
        BY <2>1, <2>3, <2>4, <2>5
<1>3. f \in X /\ \A h \in X, s \in slots : OperandSet(h, u, s, to) \in X
    BY <1>2, SettingReflexive
<1> HIDE DEF X
<1>4. <<f, {}>> \in Inv
    BY <1>3
<1>5. ASSUME NEW h \in X, NEW done \in SUBSET slots, NEW s \in slots \ done, <<h, done>> \in Inv
      PROVE  <<OperandSet(h, u, s, to), done \cup {s}>> \in Inv
    <2>1. PICK h1 : h1 = OperandSet(h, u, s, to)
        OBVIOUS
    <2>2. h1 \in X /\ \A t \in slots : Operand(h1, u, t) = IF t = s THEN to ELSE Operand(h, u, t)
        BY <1>2, <2>1
    <2>3. \A t \in done \cup {s} : Operand(h1, u, t) = to
        BY <1>5, <2>2
    <2>4. QED
        BY <2>1, <2>2, <2>3
<1> HIDE DEF Inv
<1>6. SettersKeep(f, u, slots, to, X, Inv)
    BY <1>3, <1>4, <1>5 DEF SettersKeep
<1>7. g \in X /\ <<g, slots>> \in Inv
    BY <1>6, OperandsSetByStep
<1>8. QED
    BY <1>7 DEF X, Inv

(* The setters of every user, user by user.                                *)
ReplacingKeeps(f, from, to, X, Inv) ==
    /\ f \in X /\ \A x \in X, s \in UsersOf(f, from) : OperandsSet(x, s, Redirected(f, s, from), to) \in X
    /\ <<f, {}>> \in Inv
    /\ \A x \in X, done \in SUBSET UsersOf(f, from) : \A s \in UsersOf(f, from) \ done :
           <<x, done>> \in Inv => <<OperandsSet(x, s, Redirected(f, s, from), to), done \cup {s}>> \in Inv

LEMMA ReplacedByStep ==
    ASSUME NEW f, NEW from, NEW to, NEW X, NEW Inv, IsFiniteSet(UsersOf(f, from)),
           ReplacingKeeps(f, from, to, X, Inv)
    PROVE  Replaced(f, from, to) \in X /\ <<Replaced(f, from, to), UsersOf(f, from)>> \in Inv
<1> DEFINE q == SetToSeq(UsersOf(f, from))
<1>a. f \in X /\ \A x \in X, s \in UsersOf(f, from) : OperandsSet(x, s, Redirected(f, s, from), to) \in X
    BY DEF ReplacingKeeps
<1>0. PICK N \in Nat : Lists(q, N, UsersOf(f, from))
    BY ListedSet
<1> DEFINE Op == [p \in X \X (1 .. N) |-> OperandsSet(p[1], q[p[2]], Redirected(f, q[p[2]], from), to)]
<1> HIDE DEF q
<1>1. N \in Nat /\ DOMAIN q = 1 .. N /\ \A k \in 1 .. N : q[k] \in UsersOf(f, from)
    BY <1>0 DEF Lists
<1>2. Op \in [X \X (1 .. N) -> X]
    BY <1>1, <1>a
<1>3. \A x \in X, k \in 1 .. N : Op[<<x, k>>] = OperandsSet(x, q[k], Redirected(f, q[k], from), to)
    OBVIOUS
<1>4. PICK it \in [SUBSET (1 .. N) -> X] : FoldsBy(it, N, f, Op)
    <2> HIDE DEF Op
    <2>1. QED
        BY <1>1, <1>2, <1>a, FoldExists
<1>5. it = [s \in SUBSET (1 .. N) |->
               IF s = {} THEN f
               ELSE OperandsSet(it[s \ {Max(s)}], q[Max(s)], Redirected(f, q[Max(s)], from), to)]
    <2>1. ASSUME NEW s \in SUBSET (1 .. N)
          PROVE  it[s] = IF s = {} THEN f
                         ELSE OperandsSet(it[s \ {Max(s)}], q[Max(s)], Redirected(f, q[Max(s)], from), to)
        <3>1. CASE s = {}
            BY <1>4, <3>1 DEF FoldsBy
        <3>2. CASE s # {}
            <4>1. Max(s) \in 1 .. N
                BY <1>1, <3>2, LargestNat
            <4> HIDE DEF Op
            <4>2. it[s \ {Max(s)}] \in X
                BY <1>4
            <4>3. it[s] = Op[<<it[s \ {Max(s)}], Max(s)>>]
                BY <1>4, <3>2 DEF FoldsBy
            <4>4. QED
                BY <1>3, <3>2, <4>1, <4>2, <4>3
        <3>3. QED
            BY <3>1, <3>2
    <2> HIDE DEF Op
    <2>2. QED
        BY <1>4, <2>1
<1> DEFINE fold == CHOOSE fn : fn = [s \in SUBSET (1 .. N) |->
                                       IF s = {} THEN f
                                       ELSE OperandsSet(fn[s \ {Max(s)}], q[Max(s)], Redirected(f, q[Max(s)], from), to)]
<1>6. fold = [s \in SUBSET (1 .. N) |->
                 IF s = {} THEN f
                 ELSE OperandsSet(fold[s \ {Max(s)}], q[Max(s)], Redirected(f, q[Max(s)], from), to)]
    <2> HIDE DEF Op
    <2>1. QED
        BY <1>5
<1>7. Replaced(f, from, to) = fold[1 .. N]
    BY <1>1 DEF Replaced, q, FoldLeft, MapThenFoldSet
<1>8. fold[{}] = f
      /\ \A s \in SUBSET (1 .. N) : s # {} =>
             fold[s] = OperandsSet(fold[s \ {Max(s)}], q[Max(s)], Redirected(f, q[Max(s)], from), to)
    <2> HIDE DEF fold, Op
    <2>1. {} \in SUBSET (1 .. N)
        OBVIOUS
    <2>2. QED
        BY <1>6, <2>1
<1>9. \A k \in 1 .. N : fold[1 .. k - 1] \in X => fold[1 .. k] = Op[<<fold[1 .. k - 1], k>>]
    <2> SUFFICES ASSUME NEW k \in 1 .. N, fold[1 .. k - 1] \in X
                 PROVE  fold[1 .. k] = OperandsSet(fold[1 .. k - 1], q[k], Redirected(f, q[k], from), to)
        BY <1>3
    <2> HIDE DEF fold, Op
    <2>1. k \in Nat \ {0} /\ 1 .. k \in SUBSET (1 .. N) /\ k \in 1 .. k
        BY <1>1
    <2>2. Max(1 .. k) = k /\ (1 .. k) \ {k} = 1 .. k - 1
        BY <2>1, GreatestOfInterval
    <2>3. QED
        BY <1>8, <2>1, <2>2
<1> HIDE DEF fold, Op
<1>10. FoldsPrefixesBy(fold, N, X, f, Op)
    BY <1>8, <1>9 DEF FoldsPrefixesBy
<1>11. FoldKeeps(Inv, N, X, UsersOf(f, from), q, Op)
    <2>1. \A x \in X, done \in SUBSET UsersOf(f, from) : \A s \in UsersOf(f, from) \ done :
              <<x, done>> \in Inv => <<OperandsSet(x, s, Redirected(f, s, from), to), done \cup {s}>> \in Inv
        BY DEF ReplacingKeeps
    <2>2. QED
        BY <1>1, <1>3, <2>1 DEF FoldKeeps
<1>12. fold[1 .. N] \in X /\ <<fold[1 .. N], UsersOf(f, from)>> \in Inv
    <2>1. <<f, {}>> \in Inv
        BY DEF ReplacingKeeps
    <2>2. QED
        BY <1>0, <1>2, <1>10, <1>11, <1>a, <2>1, FoldInvariant
<1>13. QED
    BY <1>7, <1>12

(* What replace_with does to the operands: none of the users has the old   *)
(* value any more.                                                         *)
LEMMA ReplacedEffect ==
    ASSUME NEW f \in IRType, NEW from, NEW to \in Ref, to # from,
           UsersOf(f, from) \subseteq Exists(f), IsFiniteSet(UsersOf(f, from)),
           \A u \in Exists(f) : IsFiniteSet(SlotsBy(f, u)),
           NEW g, g = Replaced(f, from, to)
    PROVE  /\ g \in Setting(f, UsersOf(f, from), to)
           /\ \A u \in UsersOf(f, from) : \A t \in SlotsBy(f, u) : Operand(g, u, t) # from
<1> DEFINE S == UsersOf(f, from)
           X == Setting(f, S, to)
           Inv == {p \in X \X SUBSET S : \A u \in p[2] : \A t \in SlotsBy(f, u) : Operand(p[1], u, t) # from}
<1>1. ASSUME NEW h \in X
      PROVE  h \in IRType /\ Exists(h) = Exists(f) /\ \A u \in Exists(f) : SlotsBy(h, u) = SlotsBy(f, u)
    BY DEF Setting, SameIR
<1>2. ASSUME NEW h \in X, NEW u \in S, NEW h1, h1 = OperandsSet(h, u, Redirected(f, u, from), to)
      PROVE  /\ h1 \in X
             /\ \A w \in Exists(f) : \A t \in SlotsBy(f, w) :
                    Operand(h, w, t) # from => Operand(h1, w, t) # from
             /\ \A t \in SlotsBy(f, u) : Operand(h1, u, t) # from
    <2>1. PICK slots : slots = Redirected(f, u, from)
        OBVIOUS
    <2>2. h \in IRType /\ u \in Exists(h) /\ SlotsBy(h, u) = SlotsBy(f, u)
        BY <1>1
    <2>3. slots \in SUBSET SlotsBy(h, u)
        BY <2>1, <2>2 DEF Redirected, SlotsBy, SlotsOf
    <2>4. IsFiniteSet(slots)
        BY <1>1, <2>2, <2>3, FS_Subset
    <2>5. h1 \in Setting(h, {u}, to) /\ \A t \in slots : Operand(h1, u, t) = to
        BY <1>2, <2>1, <2>2, <2>3, <2>4, OperandsSetEffect
    <2>6. h1 \in X
        BY <2>2, <2>5, SettingTransitive
    <2>7. \A w \in Exists(f) : \A t \in SlotsBy(f, w) : Operand(h1, w, t) \in {Operand(h, w, t), to}
        BY <1>1, <2>5 DEF Setting
    <2>8. \A t \in SlotsBy(f, u) : t \notin slots => Operand(f, u, t) # from
        BY <2>1 DEF Redirected, SlotsBy, SlotsOf
    <2>9. \A t \in SlotsBy(f, u) : Operand(h, u, t) \in {Operand(f, u, t), to}
        BY <2>2, <1>1 DEF Setting
    <2>10. QED
        BY <1>1, <2>1, <2>2, <2>5, <2>6, <2>7, <2>8, <2>9
<1>3. f \in X
    BY SettingReflexive
<1>4. \A h \in X, u \in S : OperandsSet(h, u, Redirected(f, u, from), to) \in X
    BY <1>2
<1> HIDE DEF X
<1>5. <<f, {}>> \in Inv
    BY <1>3
<1>6. ASSUME NEW h \in X, NEW done \in SUBSET S, NEW u \in S \ done, <<h, done>> \in Inv
      PROVE  <<OperandsSet(h, u, Redirected(f, u, from), to), done \cup {u}>> \in Inv
    <2>1. PICK h1 : h1 = OperandsSet(h, u, Redirected(f, u, from), to)
        OBVIOUS
    <2>2. /\ h1 \in X
          /\ \A w \in Exists(f) : \A t \in SlotsBy(f, w) :
                 Operand(h, w, t) # from => Operand(h1, w, t) # from
          /\ \A t \in SlotsBy(f, u) : Operand(h1, u, t) # from
        BY <1>2, <2>1
    <2>3. \A w \in done : \A t \in SlotsBy(f, w) : Operand(h, w, t) # from
        BY <1>6
    <2>4. \A w \in done \cup {u} : \A t \in SlotsBy(f, w) : Operand(h1, w, t) # from
        BY <2>2, <2>3
    <2>5. QED
        BY <2>1, <2>2, <2>4
<1> HIDE DEF Inv
<1>7. ReplacingKeeps(f, from, to, X, Inv)
    BY <1>3, <1>4, <1>5, <1>6 DEF ReplacingKeeps
<1>8. g \in X /\ <<g, UsersOf(f, from)>> \in Inv
    BY <1>7, ReplacedByStep
<1>9. QED
    BY <1>8 DEF X, Inv

(* remove_as_user, value by value.                                         *)
LosingKeeps(users, values, u, X, Inv) ==
    /\ users \in X /\ \A x \in X, s \in values : LosingUser(x, s, u) \in X
    /\ <<users, {}>> \in Inv
    /\ \A x \in X, done \in SUBSET values : \A s \in values \ done :
           <<x, done>> \in Inv => <<LosingUser(x, s, u), done \cup {s}>> \in Inv

LEMMA LosingUserByStep ==
    ASSUME NEW users, NEW values, NEW u, NEW X, NEW Inv, IsFiniteSet(values),
           LosingKeeps(users, values, u, X, Inv)
    PROVE  LosingUserOfAll(users, values, u) \in X
           /\ <<LosingUserOfAll(users, values, u), values>> \in Inv
<1> DEFINE q == SetToSeq(values)
<1>a. users \in X /\ \A x \in X, s \in values : LosingUser(x, s, u) \in X
    BY DEF LosingKeeps
<1>0. PICK N \in Nat : Lists(q, N, values)
    BY ListedSet
<1> DEFINE Op == [p \in X \X (1 .. N) |-> LosingUser(p[1], q[p[2]], u)]
<1> HIDE DEF q
<1>1. N \in Nat /\ DOMAIN q = 1 .. N /\ \A k \in 1 .. N : q[k] \in values
    BY <1>0 DEF Lists
<1>2. Op \in [X \X (1 .. N) -> X]
    BY <1>1, <1>a
<1>3. \A x \in X, k \in 1 .. N : Op[<<x, k>>] = LosingUser(x, q[k], u)
    OBVIOUS
<1>4. PICK it \in [SUBSET (1 .. N) -> X] : FoldsBy(it, N, users, Op)
    <2> HIDE DEF Op
    <2>1. QED
        BY <1>1, <1>2, <1>a, FoldExists
<1>5. it = [s \in SUBSET (1 .. N) |->
               IF s = {} THEN users ELSE LosingUser(it[s \ {Max(s)}], q[Max(s)], u)]
    <2>1. ASSUME NEW s \in SUBSET (1 .. N)
          PROVE  it[s] = IF s = {} THEN users ELSE LosingUser(it[s \ {Max(s)}], q[Max(s)], u)
        <3>1. CASE s = {}
            BY <1>4, <3>1 DEF FoldsBy
        <3>2. CASE s # {}
            <4>1. Max(s) \in 1 .. N
                BY <1>1, <3>2, LargestNat
            <4> HIDE DEF Op
            <4>2. it[s \ {Max(s)}] \in X
                BY <1>4
            <4>3. it[s] = Op[<<it[s \ {Max(s)}], Max(s)>>]
                BY <1>4, <3>2 DEF FoldsBy
            <4>4. QED
                BY <1>3, <3>2, <4>1, <4>2, <4>3
        <3>3. QED
            BY <3>1, <3>2
    <2> HIDE DEF Op
    <2>2. QED
        BY <1>4, <2>1
<1> DEFINE fold == CHOOSE fn : fn = [s \in SUBSET (1 .. N) |->
                                       IF s = {} THEN users
                                       ELSE LosingUser(fn[s \ {Max(s)}], q[Max(s)], u)]
<1>6. fold = [s \in SUBSET (1 .. N) |->
                 IF s = {} THEN users ELSE LosingUser(fold[s \ {Max(s)}], q[Max(s)], u)]
    <2> HIDE DEF Op
    <2>1. QED
        BY <1>5
<1>7. LosingUserOfAll(users, values, u) = fold[1 .. N]
    BY <1>1 DEF LosingUserOfAll, q, FoldLeft, MapThenFoldSet
<1>8. fold[{}] = users
      /\ \A s \in SUBSET (1 .. N) : s # {} =>
             fold[s] = LosingUser(fold[s \ {Max(s)}], q[Max(s)], u)
    <2> HIDE DEF fold, Op
    <2>1. {} \in SUBSET (1 .. N)
        OBVIOUS
    <2>2. QED
        BY <1>6, <2>1
<1>9. \A k \in 1 .. N : fold[1 .. k - 1] \in X => fold[1 .. k] = Op[<<fold[1 .. k - 1], k>>]
    <2> SUFFICES ASSUME NEW k \in 1 .. N, fold[1 .. k - 1] \in X
                 PROVE  fold[1 .. k] = LosingUser(fold[1 .. k - 1], q[k], u)
        BY <1>3
    <2> HIDE DEF fold, Op
    <2>1. k \in Nat \ {0} /\ 1 .. k \in SUBSET (1 .. N) /\ k \in 1 .. k
        BY <1>1
    <2>2. Max(1 .. k) = k /\ (1 .. k) \ {k} = 1 .. k - 1
        BY <2>1, GreatestOfInterval
    <2>3. QED
        BY <1>8, <2>1, <2>2
<1> HIDE DEF fold, Op
<1>10. FoldsPrefixesBy(fold, N, X, users, Op)
    BY <1>8, <1>9 DEF FoldsPrefixesBy
<1>11. FoldKeeps(Inv, N, X, values, q, Op)
    <2>1. \A x \in X, done \in SUBSET values : \A s \in values \ done :
              <<x, done>> \in Inv => <<LosingUser(x, s, u), done \cup {s}>> \in Inv
        BY DEF LosingKeeps
    <2>2. QED
        BY <1>1, <1>3, <2>1 DEF FoldKeeps
<1>12. fold[1 .. N] \in X /\ <<fold[1 .. N], values>> \in Inv
    <2>1. <<users, {}>> \in Inv
        BY DEF LosingKeeps
    <2>2. QED
        BY <1>0, <1>2, <1>10, <1>11, <1>a, <2>1, FoldInvariant
<1>13. QED
    BY <1>7, <1>12

(* What remove_as_user leaves: the same function without i among the users *)
(* of some values.                                                         *)
Unused(f, values, i, us) ==
    /\ us \in UsersType(DOMAIN f.users)
    /\ \A v \in DOMAIN f.users : BagToSet(us[v]) \subseteq UsersOf(f, v)
    /\ \A v \in DOMAIN f.users : \A u :
           Copies(us[v], u) = IF v \in values /\ u = i THEN 0 ELSE Copies(f.users[v], u)

LEMMA LosingUsers ==
    ASSUME NEW f \in IRType, NEW i \in Ref, NEW values, IsFiniteSet(values)
    PROVE  Unused(f, values, i, LosingUserOfAll(f.users, values, i))
<1> DEFINE instrs == DOMAIN f.users
           X == UsersType(instrs)
           Inv == {p \in X \X SUBSET values : Unused(f, p[2], i, p[1])}
<1>1. f.users \in X
    BY NodeFacts
<1>2. \A us \in X, v \in values : LosingUser(us, v, i) \in X
    BY UserFacts DEF UsersAfterRemoving
<1>3. <<f.users, {}>> \in Inv
    <2>1. Unused(f, {}, i, f.users)
        BY <1>1 DEF Unused, UsersOf
    <2> HIDE DEF X
    <2>2. QED
        BY <1>1, <2>1
<1>4. ASSUME NEW us \in X, NEW done \in SUBSET values, NEW v \in values \ done, <<us, done>> \in Inv
      PROVE  <<LosingUser(us, v, i), done \cup {v}>> \in Inv
    <2>1. PICK after : after = LosingUser(us, v, i)
        OBVIOUS
    <2>2. UsersAfterRemoving(instrs, us, after, v, i)
        BY <2>1, UserFacts
    <2>3. Unused(f, done, i, us)
        BY <1>4
    <2>4. Unused(f, done \cup {v}, i, after)
        BY <2>2, <2>3 DEF UsersAfterRemoving, Unused
    <2>5. after \in X
        BY <2>2 DEF UsersAfterRemoving
    <2> HIDE DEF X
    <2>6. QED
        BY <2>1, <2>4, <2>5
<1> HIDE DEF X, Inv
<1>5. LosingKeeps(f.users, values, i, X, Inv)
    BY <1>1, <1>2, <1>3, <1>4 DEF LosingKeeps
<1>6. <<LosingUserOfAll(f.users, values, i), values>> \in Inv
    BY <1>5, LosingUserByStep
<1>7. QED
    BY <1>6 DEF Inv

(* the values that lose i as a user                                        *)
LosesUser(f, i) == IF Opcode(f, i) = "call" THEN {} ELSE Range(f.node[i].operands)

LEMMA RemovedAsUserEffect ==
    ASSUME NEW f \in IRType, NEW i \in Exists(f), IsFiniteSet(SlotsBy(f, i)),
           NEW g, g = RemovedAsUser(f, i)
    PROVE  /\ g \in IRType /\ g.node = f.node /\ SameIR(f, g)
           /\ Unused(f, LosesUser(f, i), i, g.users)
<1>0. f.users \in UsersType(DOMAIN f.users) /\ i \in Ref /\ f.node \in [Exists(f) -> NodeType]
    BY NodeFacts DEF Ref
<1>1. Unused(f, {}, i, f.users)
    BY <1>0 DEF Unused, UsersOf
<1>2. CASE Opcode(f, i) = "call"
    BY <1>1, <1>2 DEF RemovedAsUser, LosesUser, SameIR
<1>3. CASE Opcode(f, i) # "call"
    <2> DEFINE vs == Range(f.node[i].operands)
               us == LosingUserOfAll(f.users, vs, i)
    <2>1. Unused(f, vs, i, us)
        <3>1. IsFiniteSet(vs)
            <4>1. vs = {f.node[i].operands[s] : s \in SlotsBy(f, i)}
                BY DEF Range, SlotsBy
            <4>2. f.node[i].operands \in Surjection(SlotsBy(f, i), vs)
                BY <4>1, NodeFacts DEF Surjection
            <4>3. QED
                BY <4>2, FS_Surjection
        <3>2. QED
            BY <3>1, <1>0, LosingUsers
    <2> HIDE DEF us
    <2>2. g = Rewiring(f, f.node, us)
        <3>1. g = [f EXCEPT !.users = us]
            BY <1>3 DEF RemovedAsUser, us
        <3>2. [f EXCEPT !.users = us] = [f EXCEPT !.node = f.node, !.users = us]
            BY DEF IRType
        <3>3. QED
            BY <3>1, <3>2 DEF Rewiring
    <2>3. us \in UsersType(DOMAIN f.users)
        BY <2>1 DEF Unused
    <2>4. /\ g \in IRType /\ g.node = f.node /\ g.users = us
          /\ g.body = f.body /\ g.first_non_phi = f.first_non_phi /\ g.undefined = f.undefined
          /\ g.rets = f.rets /\ g.callees = f.callees /\ g.predecessors = f.predecessors
        BY <1>0, <2>2, <2>3, Rewired
    <2>5. DOMAIN g.users = DOMAIN f.users
        BY <2>3, <2>4 DEF UsersType
    <2>6. SameIR(f, g)
        BY <2>4, <2>5 DEF SameIR, Exists, Opcode, SlotsBy
    <2>7. QED
        BY <1>3, <2>1, <2>4, <2>6 DEF LosesUser
<1>4. QED
    BY <1>2, <1>3

-------------------------------------------------------------------------------
(* Where instructions are in their blocks.                                 *)

InsertedAt(s, p, e, after) ==
    /\ Len(after) = Len(s) + 1
    /\ \A k \in 1 .. Len(s) + 1 :
           after[k] = IF k < p THEN s[k] ELSE IF k = p THEN e ELSE s[k - 1]

LEMMA InsertAtFacts ==
    ASSUME NEW S, NEW s \in Seq(S), NEW p \in 1 .. Len(s) + 1, NEW e \in S,
           NEW after, after = InsertAt(s, p, e)
    PROVE  after \in Seq(S) /\ InsertedAt(s, p, e, after)
<1>1. /\ SubSeq(s, 1, p - 1) \in Seq(S) /\ Len(SubSeq(s, 1, p - 1)) = p - 1
      /\ \A k \in 1 .. p - 1 : SubSeq(s, 1, p - 1)[k] = s[k]
    OBVIOUS
<1>2. /\ SubSeq(s, p, Len(s)) \in Seq(S) /\ Len(SubSeq(s, p, Len(s))) = Len(s) - p + 1
      /\ \A k \in 1 .. Len(s) - p + 1 : SubSeq(s, p, Len(s))[k] = s[p + k - 1]
    OBVIOUS
<1>3. PICK l \in Seq(S), r \in Seq(S) : l = SubSeq(s, 1, p - 1) /\ r = SubSeq(s, p, Len(s))
    BY <1>1, <1>2
<1>4. after = l \o <<e>> \o r
    BY <1>3 DEF InsertAt
<1>5. PICK t : t = l \o <<e>>
    OBVIOUS
<1>6. t \in Seq(S) /\ Len(t) = p /\ \A k \in 1 .. p : t[k] = IF k < p THEN s[k] ELSE e
    <2>1. <<e>> \in Seq(S) /\ Len(<<e>>) = 1 /\ <<e>>[1] = e
        OBVIOUS
    <2>2. Len(s) \in Nat /\ Len(l) = p - 1 /\ \A k \in 1 .. p - 1 : l[k] = s[k]
        BY <1>1, <1>3
    <2>3. PICK one \in Seq(S) : one = <<e>> /\ Len(one) = 1 /\ one[1] = e
        BY <2>1
    <2>4. /\ t \in Seq(S) /\ Len(t) = Len(l) + Len(one)
          /\ \A k \in 1 .. Len(l) + Len(one) : t[k] = IF k <= Len(l) THEN l[k] ELSE one[k - Len(l)]
        BY <1>5, <2>3, ConcatProperties
    <2>5. QED
        BY <2>2, <2>3, <2>4
<1>7. /\ after \in Seq(S) /\ Len(after) = Len(t) + Len(r)
      /\ \A k \in 1 .. Len(t) + Len(r) : after[k] = IF k <= Len(t) THEN t[k] ELSE r[k - Len(t)]
    BY <1>4, <1>5, <1>6, ConcatProperties
<1>8. Len(s) \in Nat /\ Len(r) = Len(s) - p + 1 /\ \A k \in 1 .. Len(s) - p + 1 : r[k] = s[p + k - 1]
    BY <1>2, <1>3
<1>9. Len(after) = Len(s) + 1
    BY <1>6, <1>7, <1>8
<1>10. ASSUME NEW k \in 1 .. Len(s) + 1
       PROVE  after[k] = IF k < p THEN s[k] ELSE IF k = p THEN e ELSE s[k - 1]
    <2>1. after[k] = IF k <= p THEN t[k] ELSE r[k - p]
        BY <1>6, <1>7, <1>8, <1>9
    <2>2. CASE k <= p
        BY <1>6, <2>1, <2>2
    <2>3. CASE k > p
        <3>1. k - p \in 1 .. Len(s) - p + 1 /\ p + (k - p) - 1 = k - 1
            BY <1>8, <2>3
        <3>2. r[k - p] = s[k - 1]
            BY <1>8, <3>1
        <3>3. QED
            BY <2>1, <2>3, <3>2
    <2>4. QED
        BY <2>2, <2>3
<1>11. QED
    BY <1>7, <1>9, <1>10 DEF InsertedAt

LEMMA RemoveAtFacts ==
    ASSUME NEW S, NEW s \in Seq(S), NEW p \in DOMAIN s, NEW after, after = RemoveAt(s, p)
    PROVE  /\ after \in Seq(S) /\ Len(after) = Len(s) - 1
           /\ \A k \in 1 .. Len(s) - 1 : after[k] = IF k < p THEN s[k] ELSE s[k + 1]
<1>1. /\ SubSeq(s, 1, p - 1) \in Seq(S) /\ Len(SubSeq(s, 1, p - 1)) = p - 1
      /\ \A k \in 1 .. p - 1 : SubSeq(s, 1, p - 1)[k] = s[k]
    OBVIOUS
<1>2. /\ SubSeq(s, p + 1, Len(s)) \in Seq(S) /\ Len(SubSeq(s, p + 1, Len(s))) = Len(s) - p
      /\ \A k \in 1 .. Len(s) - p : SubSeq(s, p + 1, Len(s))[k] = s[p + k]
    OBVIOUS
<1>3. PICK l \in Seq(S), r \in Seq(S) : l = SubSeq(s, 1, p - 1) /\ r = SubSeq(s, p + 1, Len(s))
    BY <1>1, <1>2
<1>4. after = l \o r
    BY <1>3 DEF RemoveAt
<1>5. /\ after \in Seq(S) /\ Len(after) = Len(l) + Len(r)
      /\ \A k \in 1 .. Len(l) + Len(r) : after[k] = IF k <= Len(l) THEN l[k] ELSE r[k - Len(l)]
    BY <1>4, ConcatProperties
<1>6. /\ Len(s) \in Nat /\ Len(l) = p - 1 /\ Len(r) = Len(s) - p
      /\ \A k \in 1 .. p - 1 : l[k] = s[k]
      /\ \A k \in 1 .. Len(s) - p : r[k] = s[p + k]
    BY <1>1, <1>2, <1>3
<1>7. Len(after) = Len(s) - 1
    BY <1>5, <1>6
<1>8. ASSUME NEW k \in 1 .. Len(s) - 1
      PROVE  after[k] = IF k < p THEN s[k] ELSE s[k + 1]
    <2>1. after[k] = IF k <= p - 1 THEN l[k] ELSE r[k - (p - 1)]
        BY <1>5, <1>6
    <2>2. CASE k < p
        BY <1>6, <2>1, <2>2
    <2>3. CASE k >= p
        <3>1. k - (p - 1) \in 1 .. Len(s) - p /\ p + (k - (p - 1)) = k + 1
            BY <1>6, <2>3
        <3>2. r[k - (p - 1)] = s[k + 1]
            BY <1>6, <3>1
        <3>3. QED
            BY <2>1, <2>3, <3>2
    <2>4. QED
        BY <2>2, <2>3
<1>9. QED
    BY <1>5, <1>7, <1>8

(* the first position that holds e, where there is only one                *)
LEMMA SelectFacts ==
    ASSUME NEW s, Len(s) \in Nat, DOMAIN s = 1 .. Len(s), NEW p \in 1 .. Len(s),
           \A k \in 1 .. Len(s) : s[k] = s[p] => k = p
    PROVE  SelectInSeq(s, LAMBDA j : j = s[p]) = p
<1> DEFINE I == {k \in 1 .. Len(s) : s[k] = s[p]}
<1>1. I = {p}
    OBVIOUS
<1>2. SelectInSeq(s, LAMBDA j : j = s[p]) = Min(I)
    BY <1>1 DEF SelectInSeq
<1>3. p \in I /\ \A y \in I : p <= y
    BY <1>1
<1>4. Min(I) = p
    <2> HIDE DEF I
    <2>1. I = {p} /\ p <= p
        BY <1>1
    <2>2. QED
        BY <2>1 DEF Min
<1>5. QED
    BY <1>2, <1>4

LEMMA PlaceFacts ==
    ASSUME NEW f \in IRType, Accounted(f), NEW i \in Exists(f)
    PROVE  \E b \in Block : \E p \in DOMAIN f.body[b] :
               f.body[b][p] = i /\ BlockOf(f, i) = b /\ PositionOf(f, b, i) = p
<1>0. PICK b \in Block : \E p \in DOMAIN f.body[b] : f.body[b][p] = i
    BY DEF Accounted
<1>1. PICK p \in DOMAIN f.body[b] : f.body[b][p] = i
    BY <1>0
<1>2. f.body \in [Block -> Seq(Instr)]
    BY DEF IRType
<1>3. \A c \in Block : \A k \in DOMAIN f.body[c] : f.body[c][k] = i => c = b /\ k = p
    BY <1>1 DEF Accounted
<1>4. BlockOf(f, i) = b
    <2>1. \A c \in Block : i \in Range(f.body[c]) <=> c = b
        BY <1>1, <1>3 DEF Range
    <2>2. DOMAIN f.body = Block
        BY <1>2
    <2>3. QED
        BY <2>1, <2>2 DEF BlockOf
<1>5. PositionOf(f, b, i) = p
    <2>1. PICK s \in Seq(Instr) : s = f.body[b]
        BY <1>2
    <2>2. Len(s) \in Nat /\ DOMAIN s = 1 .. Len(s) /\ p \in 1 .. Len(s) /\ s[p] = i
        BY <1>1, <2>1
    <2>3. \A k \in 1 .. Len(s) : s[k] = s[p] => k = p
        BY <1>3, <2>1, <2>2
    <2>4. SelectInSeq(s, LAMBDA j : j = s[p]) = p
        BY <2>2, <2>3, SelectFacts
    <2>5. QED
        BY <2>1, <2>2, <2>4 DEF PositionOf
<1>6. QED
    BY <1>1, <1>4, <1>5

-------------------------------------------------------------------------------
(* What erase does.                                                        *)

Pointed(i, v) == IF v = i THEN Freed ELSE v

LEMMA DanglingEffect ==
    ASSUME NEW f \in IRType, NEW i \in Exists(f), DOMAIN f.users = Exists(f),
           NEW g, g = Dangling(f, {i})
    PROVE  /\ g \in IRType
           /\ g.body = f.body /\ g.first_non_phi = f.first_non_phi /\ g.undefined = f.undefined
           /\ Exists(g) = Exists(f) \ {i} /\ DOMAIN g.users = Exists(f) \ {i}
           /\ \A u \in Exists(g) :
                  /\ Opcode(g, u) = Opcode(f, u) /\ g.node[u].type = f.node[u].type
                  /\ SlotsBy(g, u) = SlotsBy(f, u)
                  /\ \A s \in SlotsBy(f, u) : Operand(g, u, s) = Pointed(i, Operand(f, u, s))
           /\ \A v \in Exists(g) :
                  /\ UsersOf(g, v) \subseteq (UsersOf(f, v) \ {i}) \cup {Freed}
                  /\ UsersOf(f, v) \cap {i, Freed} = {} => g.users[v] = f.users[v]
<1> DEFINE kept == Exists(f) \ {i}
           Alive(v) == IF v \in {i} THEN Freed ELSE v
           Operands(u) == [s \in DOMAIN f.node[u].operands |-> Alive(Operand(f, u, s))]
           node == [u \in kept |-> [f.node[u] EXCEPT !.operands = Operands(u)]]
           Bag(v) == LET dead == UsersOf(f, v) \cap ({i} \cup {Freed})
                     IN  IF dead = {} THEN f.users[v]
                         ELSE [u \in (UsersOf(f, v) \ dead) \cup {Freed} |->
                                   IF u = Freed THEN 1 ELSE f.users[v][u]]
           users == [v \in kept |-> Bag(v)]
<1>1. /\ f.node \in [Exists(f) -> NodeType] /\ Exists(f) \in SUBSET Instr
      /\ \A u \in Exists(f) : /\ f.node[u] \in NodeType
                              /\ SlotsBy(f, u) \in SUBSET Slot
                              /\ f.node[u].operands \in [SlotsBy(f, u) -> Ref]
      /\ f.users \in UsersType(Exists(f))
    BY NodeFacts
<1>2. g = [f EXCEPT !.node = node, !.users = users]
    BY DEF Dangling
<1>3. ASSUME NEW u \in kept
      PROVE  Operands(u) \in [SlotsBy(f, u) -> Ref] /\ Operands(u) \in OperandMap
    <2>1. Operands(u) \in [SlotsBy(f, u) -> Ref]
        BY <1>1 DEF Ref, Operand, SlotsBy
    <2>2. QED
        BY <1>1, <2>1 DEF OperandMap
<1>4. ASSUME NEW u \in kept
      PROVE  /\ node[u] \in NodeType /\ node[u].opcode = f.node[u].opcode
             /\ node[u].type = f.node[u].type /\ node[u].operands = Operands(u)
    <2>1. node[u] = [f.node[u] EXCEPT !.operands = Operands(u)]
        OBVIOUS
    <2>2. f.node[u] \in NodeType /\ Operands(u) \in OperandMap
        BY <1>1, <1>3
    <2> HIDE DEF node, Operands
    <2>3. QED
        BY <2>1, <2>2 DEF NodeType
<1>5. ASSUME NEW v \in kept
      PROVE  /\ Bag(v) \in UserBag /\ BagToSet(Bag(v)) \subseteq (UsersOf(f, v) \ {i}) \cup {Freed}
             /\ UsersOf(f, v) \cap {i, Freed} = {} => Bag(v) = f.users[v]
    <2>1. f.users[v] \in UserBag
        BY <1>1 DEF UsersType
    <2>2. PICK refs \in SUBSET Ref : f.users[v] \in [refs -> Nat \ {0}]
        BY <2>1 DEF UserBag
    <2>3. BagToSet(f.users[v]) = refs /\ UsersOf(f, v) = refs
        BY <2>2 DEF BagToSet, UsersOf
    <2> DEFINE dead == refs \cap ({i} \cup {Freed})
               bag == [u \in (refs \ dead) \cup {Freed} |-> IF u = Freed THEN 1 ELSE f.users[v][u]]
    <2>4. Bag(v) = IF dead = {} THEN f.users[v] ELSE bag
        BY <2>3
    <2>5. bag \in [(refs \ dead) \cup {Freed} -> Nat \ {0}] /\ (refs \ dead) \cup {Freed} \in SUBSET Ref
        BY <2>2 DEF Ref
    <2>6. bag \in UserBag /\ BagToSet(bag) = (refs \ dead) \cup {Freed}
        BY <2>5 DEF UserBag, BagToSet
    <2> HIDE DEF bag, Bag
    <2>7. QED
        BY <2>1, <2>3, <2>4, <2>6
<1>6. node \in [kept -> NodeType] /\ users \in [kept -> UserBag]
    BY <1>4, <1>5
<1>7. g \in IRType /\ g.node = node /\ g.users = users
      /\ g.body = f.body /\ g.first_non_phi = f.first_non_phi /\ g.undefined = f.undefined
    <2> HIDE DEF node, users
    <2>1. kept \in SUBSET Instr
        BY <1>1
    <2>2. /\ node \in UNION {[instrs -> NodeType] : instrs \in SUBSET Instr}
          /\ users \in UNION {[instrs -> UserBag] : instrs \in SUBSET Instr}
        BY <1>6, <2>1
    <2>3. QED
        BY <1>2, <2>2 DEF IRType
<1>8. Exists(g) = kept /\ DOMAIN g.users = kept
    BY <1>6, <1>7 DEF Exists
<1>9. ASSUME NEW u \in kept
      PROVE  /\ Opcode(g, u) = Opcode(f, u) /\ g.node[u].type = f.node[u].type
             /\ SlotsBy(g, u) = SlotsBy(f, u)
             /\ \A s \in SlotsBy(f, u) : Operand(g, u, s) = Pointed(i, Operand(f, u, s))
    <2>1. g.node[u].operands = Operands(u)
        BY <1>4, <1>7
    <2>2. Opcode(g, u) = Opcode(f, u) /\ g.node[u].type = f.node[u].type
        BY <1>4, <1>7 DEF Opcode
    <2>3. SlotsBy(g, u) = SlotsBy(f, u)
        BY <2>1 DEF SlotsBy
    <2>4. \A s \in SlotsBy(f, u) : Operand(g, u, s) = Pointed(i, Operand(f, u, s))
        BY <2>1 DEF SlotsBy, Operand, Pointed
    <2>5. QED
        BY <2>2, <2>3, <2>4
<1>10. \A v \in kept : /\ UsersOf(g, v) \subseteq (UsersOf(f, v) \ {i}) \cup {Freed}
                       /\ UsersOf(f, v) \cap {i, Freed} = {} => g.users[v] = f.users[v]
    <2>1. \A v \in kept : g.users[v] = Bag(v)
        BY <1>7
    <2> HIDE DEF Bag
    <2>2. QED
        BY <1>5, <2>1 DEF UsersOf
<1>11. QED
    BY <1>7, <1>8, <1>9, <1>10

Unreferenced(f, i) ==
    \A u \in Exists(f) : u # i /\ Opcode(f, u) \in Registers =>
        \A s \in SlotsBy(f, u) : Operand(f, u, s) # i

(* the block of i without it, before pointers to it dangle                 *)
Detached(f, i, b, p, h) ==
    /\ h \in IRType
    /\ h.body = [f.body EXCEPT ![b] = RemoveAt(@, p)]
    /\ h.first_non_phi = [f.first_non_phi EXCEPT ![b] =
           IF f.first_non_phi[b] # i THEN f.first_non_phi[b]
           ELSE IF p = Len(f.body[b]) THEN End ELSE f.body[b][p + 1]]
    /\ h.node = f.node /\ h.users = f.users /\ h.undefined = f.undefined

LEMMA ErasedIsDetached ==
    ASSUME NEW f \in IRType, Accounted(f), NEW i \in Exists(f)
    PROVE  \E b \in Block : \E p \in DOMAIN f.body[b] : \E h :
               f.body[b][p] = i /\ Detached(f, i, b, p, h) /\ Erased(f, i) = Dangling(h, {i})
<1>1. PICK b \in Block :
          \E p \in DOMAIN f.body[b] : f.body[b][p] = i /\ BlockOf(f, i) = b /\ PositionOf(f, b, i) = p
    BY PlaceFacts
<1>2. PICK p \in DOMAIN f.body[b] : f.body[b][p] = i /\ BlockOf(f, i) = b /\ PositionOf(f, b, i) = p
    BY <1>1
<1> DEFINE next == IF f.first_non_phi[b] # i THEN f.first_non_phi[b]
                   ELSE IF p = Len(f.body[b]) THEN End ELSE f.body[b][p + 1]
           rets == f.rets \ {i}
           callees == IF Opcode(f, i) = "call" THEN f.callees \ {f.node[i].attr} ELSE f.callees
           h == [f EXCEPT !.body[b] = RemoveAt(@, p), !.first_non_phi[b] = next,
                          !.rets = rets, !.callees = callees]
<1>3. FirstAfterErase(f, b, i) = next
    BY <1>2 DEF FirstAfterErase
<1>4. Erased(f, i) = Dangling(h, {i})
    <2>1. Erased(f, i) =
              Dangling([f EXCEPT !.body[b] = RemoveAt(@, p), !.first_non_phi[b] = next,
                                 !.rets = @ \ {i},
                                 !.callees = IF Opcode(f, i) = "call" THEN @ \ {f.node[i].attr} ELSE @],
                       {i})
        <3> HIDE DEF next
        <3>1. QED
            BY <1>2, <1>3 DEF Erased
    <2> HIDE DEF next
    <2>2. QED
        BY <2>1
<1>5. /\ f.body \in [Block -> Seq(Instr)] /\ f.first_non_phi \in [Block -> Instr \cup {End}]
      /\ f.rets \in SUBSET Instr /\ f.callees \in SUBSET (Callee \cup {""})
    BY DEF IRType
<1>6. RemoveAt(f.body[b], p) \in Seq(Instr)
    BY <1>5, RemoveAtFacts
<1>7. next \in Instr \cup {End}
    <2>1. f.body[b] \in Seq(Instr) /\ f.first_non_phi[b] \in Instr \cup {End}
        BY <1>5
    <2>2. CASE f.first_non_phi[b] = i /\ p # Len(f.body[b])
        <3>1. p + 1 \in 1 .. Len(f.body[b])
            BY <2>1, <2>2
        <3>2. f.body[b][p + 1] \in Instr
            BY <2>1, <3>1
        <3>3. QED
            BY <2>2, <3>2
    <2>3. QED
        BY <2>1, <2>2
<1>8. rets \in SUBSET Instr /\ callees \in SUBSET (Callee \cup {""})
    BY <1>5
<1>9. h \in IRType
    <2> HIDE DEF next, rets, callees
    <2>1. [f.body EXCEPT ![b] = RemoveAt(@, p)] \in [Block -> Seq(Instr)]
        BY <1>5, <1>6
    <2>2. [f.first_non_phi EXCEPT ![b] = next] \in [Block -> Instr \cup {End}]
        BY <1>5, <1>7
    <2>3. QED
        BY <1>8, <2>1, <2>2 DEF IRType
<1>10. Detached(f, i, b, p, h)
    <2> HIDE DEF rets, callees
    <2>1. /\ h.body = [f.body EXCEPT ![b] = RemoveAt(@, p)]
          /\ h.first_non_phi = [f.first_non_phi EXCEPT ![b] = next]
          /\ h.node = f.node /\ h.users = f.users /\ h.undefined = f.undefined
        <3> HIDE DEF next
        <3>1. QED
            BY DEF IRType
    <2> HIDE DEF h
    <2>2. QED
        BY <1>9, <2>1 DEF Detached, next
<1>11. QED
    BY <1>2, <1>4, <1>10

(* a block that an instruction is taken from is parted as before           *)
LEMMA PartedWithout ==
    ASSUME NEW f \in IRType, NEW b \in Block, Parted(f, b), NEW p \in DOMAIN f.body[b],
           \A k \in DOMAIN f.body[b] : f.body[b][k] = f.body[b][p] => k = p,
           NEW h, Detached(f, f.body[b][p], b, p, h)
    PROVE  \E first \in 1 .. Len(h.body[b]) + 1 :
               /\ h.first_non_phi[b] = IF first = Len(h.body[b]) + 1 THEN End ELSE h.body[b][first]
               /\ \A k \in DOMAIN h.body[b] : Opcode(f, h.body[b][k]) = "phi" <=> k < first
<1>1. PICK s \in Seq(Instr) : s = f.body[b]
    BY DEF IRType
<1>2. PICK after \in Seq(Instr) : after = h.body[b]
    BY DEF Detached, IRType
<1>a. after = RemoveAt(s, p) /\ p \in DOMAIN s
    <2>1. f.body \in [Block -> Seq(Instr)]
        BY DEF IRType
    <2>2. h.body[b] = RemoveAt(f.body[b], p)
        BY <2>1 DEF Detached
    <2>3. QED
        BY <1>1, <1>2, <2>2
<1>3. after = RemoveAt(s, p) /\ p \in 1 .. Len(s) /\ DOMAIN s = 1 .. Len(s) /\ Len(s) \in Nat
    BY <1>a
<1>4. Len(after) = Len(s) - 1 /\ \A k \in 1 .. Len(s) - 1 : after[k] = IF k < p THEN s[k] ELSE s[k + 1]
    BY <1>a, RemoveAtFacts
<1>5. DOMAIN after = 1 .. Len(s) - 1
    BY <1>4
<1>6. PICK first \in 1 .. Len(s) + 1 :
          /\ f.first_non_phi[b] = IF first = Len(s) + 1 THEN End ELSE s[first]
          /\ \A k \in 1 .. Len(s) : Opcode(f, s[k]) = "phi" <=> k < first
    BY <1>1, <1>3 DEF Parted, IsPhi
<1>7. h.first_non_phi[b] = IF f.first_non_phi[b] # s[p] THEN f.first_non_phi[b]
                           ELSE IF p = Len(s) THEN End ELSE s[p + 1]
    BY <1>1 DEF Detached, IRType
<1>8. s[p] \in Instr /\ s[p] # End /\ \A k \in 1 .. Len(s) : s[k] = s[p] => k = p
    BY <1>1, <1>3, IRAssumption
<1>9. f.first_non_phi[b] = s[p] <=> first = p
    BY <1>3, <1>6, <1>8
<1> DEFINE place == IF p < first THEN first - 1 ELSE first
<1>10. place \in 1 .. Len(after) + 1
    BY <1>3, <1>4
<1>11. h.first_non_phi[b] = IF place = Len(after) + 1 THEN End ELSE after[place]
    <2>1. CASE p < first
        <3>1. place = first - 1 /\ h.first_non_phi[b] = IF first = Len(s) + 1 THEN End ELSE s[first]
            BY <1>6, <1>7, <1>9, <2>1
        <3>2. first # Len(s) + 1 => after[first - 1] = s[first]
            <4> SUFFICES ASSUME first # Len(s) + 1 PROVE after[first - 1] = s[first]
                OBVIOUS
            <4>1. first - 1 \in 1 .. Len(s) - 1 /\ ~(first - 1 < p) /\ (first - 1) + 1 = first
                BY <1>3, <2>1
            <4>2. QED
                BY <1>4, <4>1
        <3>3. QED
            BY <1>3, <1>4, <3>1, <3>2
    <2>2. CASE p = first
        <3>1. place = p /\ h.first_non_phi[b] = IF p = Len(s) THEN End ELSE s[p + 1]
            BY <1>7, <1>9, <2>2
        <3>2. p # Len(s) => after[p] = s[p + 1]
            BY <1>3, <1>4
        <3>3. p = Len(s) <=> p = Len(after) + 1
            BY <1>3, <1>4
        <3> HIDE DEF place
        <3>4. QED
            BY <3>1, <3>2, <3>3
    <2>3. CASE p > first
        <3>1. place = first /\ first \in 1 .. Len(s) - 1 /\ first < p
            BY <1>3, <2>3
        <3>2. h.first_non_phi[b] = s[first] /\ after[first] = s[first]
            BY <1>3, <1>4, <1>6, <1>7, <1>9, <3>1
        <3>3. place # Len(after) + 1
            BY <1>3, <1>4, <3>1
        <3> HIDE DEF place
        <3>4. QED
            BY <3>1, <3>2, <3>3
    <2>4. QED
        BY <1>3, <2>1, <2>2, <2>3
<1>12. ASSUME NEW k \in 1 .. Len(s) - 1
       PROVE  Opcode(f, after[k]) = "phi" <=> k < place
    <2>1. CASE k < p
        <3>1. after[k] = s[k] /\ k \in 1 .. Len(s)
            BY <1>3, <1>4, <2>1
        <3>2. k < first <=> k < place
            BY <1>3, <2>1
        <3>3. QED
            BY <1>6, <3>1, <3>2
    <2>2. CASE k >= p
        <3>1. after[k] = s[k + 1] /\ k + 1 \in 1 .. Len(s)
            BY <1>3, <1>4, <2>2
        <3>2. k + 1 < first <=> k < place
            BY <1>3, <2>2
        <3>3. QED
            BY <1>6, <3>1, <3>2
    <2>3. QED
        BY <1>3, <2>1, <2>2
<1> HIDE DEF place
<1>13. QED
    BY <1>2, <1>5, <1>10, <1>11, <1>12

LEMMA ErasedKeeps ==
    ASSUME NEW f, Sound(f), NEW i \in Exists(f), Unreferenced(f, i), NEW g, g = Erased(f, i)
    PROVE  Sound(g) /\ g.undefined = f.undefined
<1>1. f \in IRType /\ Accounted(f) /\ (\A b \in Block : Parted(f, b)) /\ Registered(f)
    BY DEF Sound
<1>2. PICK b \in Block : \E p \in DOMAIN f.body[b] : \E h :
          f.body[b][p] = i /\ Detached(f, i, b, p, h) /\ g = Dangling(h, {i})
    BY <1>1, ErasedIsDetached
<1>3. PICK p \in DOMAIN f.body[b] : \E h :
          f.body[b][p] = i /\ Detached(f, i, b, p, h) /\ g = Dangling(h, {i})
    BY <1>2
<1>4. PICK h : f.body[b][p] = i /\ Detached(f, i, b, p, h) /\ g = Dangling(h, {i})
    BY <1>3
<1>5. /\ h \in IRType /\ h.node = f.node /\ h.users = f.users /\ h.undefined = f.undefined
      /\ h.body = [f.body EXCEPT ![b] = RemoveAt(@, p)]
      /\ \A c \in Block : c # b => h.first_non_phi[c] = f.first_non_phi[c]
    <2>1. f.first_non_phi \in [Block -> Instr \cup {End}]
        BY <1>1 DEF IRType
    <2>2. QED
        BY <1>4, <2>1 DEF Detached
<1>6. i \in Exists(h) /\ DOMAIN h.users = Exists(h)
    BY <1>1, <1>5 DEF Exists, Accounted
<1>7. /\ g \in IRType
      /\ g.body = h.body /\ g.first_non_phi = h.first_non_phi /\ g.undefined = h.undefined
      /\ Exists(g) = Exists(h) \ {i} /\ DOMAIN g.users = Exists(h) \ {i}
      /\ \A u \in Exists(g) :
             /\ Opcode(g, u) = Opcode(h, u) /\ g.node[u].type = h.node[u].type
             /\ SlotsBy(g, u) = SlotsBy(h, u)
             /\ \A s \in SlotsBy(h, u) : Operand(g, u, s) = Pointed(i, Operand(h, u, s))
      /\ \A v \in Exists(g) : UsersOf(g, v) \subseteq (UsersOf(h, v) \ {i}) \cup {Freed}
    BY <1>4, <1>5, <1>6, DanglingEffect
<1>8. /\ Exists(g) = Exists(f) \ {i} /\ DOMAIN g.users = Exists(g)
      /\ \A u \in Exists(g) :
             /\ Opcode(g, u) = Opcode(f, u) /\ g.node[u].type = f.node[u].type
             /\ SlotsBy(g, u) = SlotsBy(f, u)
             /\ \A s \in SlotsBy(f, u) : Operand(g, u, s) = Pointed(i, Operand(f, u, s))
      /\ \A v \in Exists(g) : UsersOf(g, v) \subseteq (UsersOf(f, v) \ {i}) \cup {Freed}
    BY <1>5, <1>7 DEF Exists, Opcode, SlotsBy, Operand, UsersOf
<1>9. f.body \in [Block -> Seq(Instr)]
    BY <1>1 DEF IRType
<1>a. PICK old, new : old \in Seq(Instr) /\ old = f.body[b] /\ new = RemoveAt(old, p)
    BY <1>9
<1>10. old = f.body[b] /\ new = g.body[b]
    BY <1>a, <1>5, <1>7, <1>9
<1>11. /\ new \in Seq(Instr) /\ Len(new) = Len(old) - 1 /\ p \in 1 .. Len(old) /\ Len(old) \in Nat
       /\ \A k \in 1 .. Len(old) - 1 : new[k] = IF k < p THEN old[k] ELSE old[k + 1]
    <2>1. p \in DOMAIN old
        BY <1>10
    <2>a. old \in Seq(Instr) /\ new = RemoveAt(old, p)
        BY <1>a
    <2>2. /\ new \in Seq(Instr) /\ Len(new) = Len(old) - 1
          /\ \A k \in 1 .. Len(old) - 1 : new[k] = IF k < p THEN old[k] ELSE old[k + 1]
        BY <2>a, <2>1, RemoveAtFacts
    <2>3. p \in 1 .. Len(old) /\ Len(old) \in Nat
        BY <2>1
    <2>4. QED
        BY <2>2, <2>3
<1>12. DOMAIN new = 1 .. Len(old) - 1 /\ DOMAIN old = 1 .. Len(old)
    BY <1>10, <1>11
<1>13. \A c \in Block : c # b => g.body[c] = f.body[c]
    BY <1>5, <1>7, <1>9
<1>14. \A c, d \in Block : \A k \in DOMAIN f.body[c], l \in DOMAIN f.body[d] :
           f.body[c][k] = f.body[d][l] => c = d /\ k = l
    BY <1>1 DEF Accounted
<1> DEFINE Was(k) == IF k < p THEN k ELSE k + 1
<1>15. \A k \in DOMAIN new :
           Was(k) \in DOMAIN old /\ new[k] = old[Was(k)] /\ Was(k) # p
    BY <1>11, <1>12
<1>16. \A k, l \in DOMAIN new : Was(k) = Was(l) => k = l
    BY <1>11, <1>12
<1>17. \A l \in DOMAIN old : l # p => \E k \in DOMAIN new : Was(k) = l
    <2> SUFFICES ASSUME NEW l \in DOMAIN old, l # p
                 PROVE  \E k \in DOMAIN new : Was(k) = l
        OBVIOUS
    <2>1. CASE l < p
        <3>1. l \in DOMAIN new /\ Was(l) = l
            BY <1>11, <1>12, <2>1
        <3>2. QED
            BY <3>1
    <2>2. CASE l > p
        <3>1. l - 1 \in DOMAIN new /\ Was(l - 1) = l
            BY <1>11, <1>12, <2>2
        <3>2. QED
            BY <3>1
    <2>3. QED
        BY <1>11, <1>12, <2>1, <2>2
<1> HIDE DEF Was
<1>18. Accounted(g)
    <2>1. IsFiniteSet(Exists(g))
        BY <1>1, <1>8, FS_Subset DEF Accounted
    <2>2. \A u \in Exists(g) : IsFiniteSet(SlotsBy(g, u))
        BY <1>1, <1>8 DEF Accounted
    <2>3. ASSUME NEW c \in Block, NEW k \in DOMAIN g.body[c]
          PROVE  \E l \in DOMAIN f.body[c] :
                     /\ g.body[c][k] = f.body[c][l] /\ (c = b => l = Was(k) /\ l # p) /\ (c # b => l = k)
        BY <1>10, <1>13, <1>15
    <2>4. \A c \in Block : \A k \in DOMAIN g.body[c] : g.body[c][k] \in Exists(g)
        <3> SUFFICES ASSUME NEW c \in Block, NEW k \in DOMAIN g.body[c]
                     PROVE  g.body[c][k] \in Exists(f) \ {i}
            BY <1>8
        <3>1. PICK l \in DOMAIN f.body[c] : g.body[c][k] = f.body[c][l] /\ (c = b => l # p)
            BY <2>3
        <3>2. f.body[c][l] \in Exists(f) /\ f.body[c][l] # i
            BY <1>1, <1>4, <1>14, <3>1 DEF Accounted
        <3>3. QED
            BY <3>1, <3>2
    <2>5. ASSUME NEW u \in Exists(g)
          PROVE  \E c \in Block : \E k \in DOMAIN g.body[c] : g.body[c][k] = u
        <3>1. PICK c \in Block : \E l \in DOMAIN f.body[c] : f.body[c][l] = u
            BY <1>1, <1>8 DEF Accounted
        <3>2. PICK l \in DOMAIN f.body[c] : f.body[c][l] = u
            BY <3>1
        <3>3. CASE c = b
            <4>1. l # p
                BY <1>4, <1>8, <3>2, <3>3
            <4>2. PICK k \in DOMAIN new : Was(k) = l
                BY <1>10, <1>17, <3>2, <3>3, <4>1
            <4>3. new[k] = u
                BY <1>10, <1>15, <3>2, <3>3, <4>2
            <4>4. QED
                BY <1>10, <4>3
        <3>4. CASE c # b
            BY <1>13, <3>2, <3>4
        <3>5. QED
            BY <3>3, <3>4
    <2>6. ASSUME NEW c \in Block, NEW d \in Block, NEW k \in DOMAIN g.body[c], NEW l \in DOMAIN g.body[d],
                 g.body[c][k] = g.body[d][l]
          PROVE  c = d /\ k = l
        <3>1. PICK k1 \in DOMAIN f.body[c] :
                  g.body[c][k] = f.body[c][k1] /\ (c = b => k1 = Was(k)) /\ (c # b => k1 = k)
            BY <2>3
        <3>2. PICK l1 \in DOMAIN f.body[d] :
                  g.body[d][l] = f.body[d][l1] /\ (d = b => l1 = Was(l)) /\ (d # b => l1 = l)
            BY <2>3
        <3>3. c = d /\ k1 = l1
            <4>1. f.body[c][k1] = f.body[d][l1]
                BY <2>6, <3>1, <3>2
            <4>2. QED
                BY <1>14, <4>1
        <3>4. CASE c = b
            <4>1. k \in DOMAIN new /\ l \in DOMAIN new /\ Was(k) = Was(l)
                BY <1>10, <3>1, <3>2, <3>3, <3>4
            <4>2. QED
                BY <1>16, <3>3, <4>1
        <3>5. QED
            BY <3>1, <3>2, <3>3, <3>4
    <2>7. QED
        BY <1>8, <2>1, <2>2, <2>4, <2>5, <2>6 DEF Accounted
<1>19. \A c \in Block : Parted(g, c)
    <2> SUFFICES ASSUME NEW c \in Block
                 PROVE  Parted(g, c)
        OBVIOUS
    <2>1. \A k \in DOMAIN g.body[c] : Opcode(g, g.body[c][k]) = Opcode(f, g.body[c][k])
        BY <1>8, <1>18 DEF Accounted
    <2>2. CASE c = b
        <3>1. \A k \in DOMAIN f.body[b] : f.body[b][k] = f.body[b][p] => k = p
            BY <1>14
        <3>2. PICK first \in 1 .. Len(h.body[b]) + 1 :
                  /\ h.first_non_phi[b] = IF first = Len(h.body[b]) + 1 THEN End ELSE h.body[b][first]
                  /\ \A k \in DOMAIN h.body[b] : Opcode(f, h.body[b][k]) = "phi" <=> k < first
            BY <1>1, <1>4, <3>1, PartedWithout
        <3>3. QED
            BY <1>7, <2>1, <2>2, <3>2 DEF Parted, IsPhi
    <2>3. CASE c # b
        <3>1. g.body[c] = f.body[c] /\ g.first_non_phi[c] = f.first_non_phi[c]
            BY <1>5, <1>7, <1>13, <2>3
        <3>2. PICK first \in 1 .. Len(f.body[c]) + 1 :
                  /\ f.first_non_phi[c] = IF first = Len(f.body[c]) + 1 THEN End ELSE f.body[c][first]
                  /\ \A k \in DOMAIN f.body[c] : Opcode(f, f.body[c][k]) = "phi" <=> k < first
            BY <1>1 DEF Parted, IsPhi
        <3>3. QED
            BY <2>1, <3>1, <3>2 DEF Parted, IsPhi
    <2>4. QED
        BY <2>2, <2>3
<1>20. Registered(g)
    <2>1. ASSUME NEW v \in Exists(g), NEW u \in UsersOf(g, v)
          PROVE  u = Freed \/ (u \in Exists(g) /\ Opcode(g, u) \in Registers)
        <3>1. u = Freed \/ (u \in UsersOf(f, v) /\ u # i)
            BY <1>8
        <3>2. v \in Exists(f) /\ (u \in UsersOf(f, v) => u = Freed \/ (u \in Exists(f) /\ Opcode(f, u) \in Registers))
            BY <1>1, <1>8 DEF Registered
        <3>3. QED
            BY <1>8, <3>1, <3>2
    <2>2. ASSUME NEW u \in Exists(g)
          PROVE  /\ Opcode(g, u) = "ret" => SlotsBy(g, u) \subseteq {"value"}
                 /\ Opcode(g, u) = "br" => SlotsBy(g, u) \subseteq {"condition"}
                 /\ Opcode(g, u) = "const" => SlotsBy(g, u) = {}
        BY <1>1, <1>8 DEF Registered
    <2>3. ASSUME NEW u \in Exists(g), Opcode(g, u) \in Registers, NEW s \in SlotsBy(g, u)
          PROVE  Operand(g, u, s) \in Exists(g) /\ ~IsVoid(g, Operand(g, u, s))
        <3>1. u \in Exists(f) /\ u # i /\ Opcode(f, u) \in Registers /\ s \in SlotsBy(f, u)
            BY <1>8, <2>3
        <3>2. Operand(f, u, s) \in Exists(f) /\ ~IsVoid(f, Operand(f, u, s)) /\ Operand(f, u, s) # i
            BY <1>1, <3>1 DEF Registered, Unreferenced
        <3>3. Operand(g, u, s) = Operand(f, u, s) /\ Operand(f, u, s) \in Exists(g)
            BY <1>8, <3>1, <3>2 DEF Pointed
        <3>4. QED
            BY <1>8, <3>2, <3>3 DEF IsVoid
    <2>4. QED
        BY <2>1, <2>2, <2>3 DEF Registered
<1>21. QED
    BY <1>5, <1>7, <1>18, <1>19, <1>20 DEF Sound

-------------------------------------------------------------------------------
(* What the setters and remove_as_user keep.                               *)

LEMMA RewiredKeeps ==
    ASSUME NEW f, Sound(f), NEW g \in IRType, SameIR(f, g),
           NEW S \in SUBSET Exists(f), \A u \in S : Opcode(f, u) \in Registers,
           \A v \in Exists(f) : UsersOf(g, v) \subseteq UsersOf(f, v) \cup S,
           NEW values \in SUBSET Exists(f), \A v \in values : ~IsVoid(f, v),
           \A u \in Exists(f) : \A s \in SlotsBy(f, u) : Operand(g, u, s) \in {Operand(f, u, s)} \cup values
    PROVE  Sound(g) /\ g.undefined = f.undefined
<1>1. Accounted(f) /\ (\A b \in Block : Parted(f, b)) /\ Registered(f)
    BY DEF Sound
<1>2. /\ g.body = f.body /\ g.first_non_phi = f.first_non_phi /\ g.undefined = f.undefined
      /\ Exists(g) = Exists(f) /\ DOMAIN g.users = DOMAIN f.users
      /\ \A u \in Exists(f) : /\ Opcode(g, u) = Opcode(f, u)
                              /\ g.node[u].type = f.node[u].type
                              /\ SlotsBy(g, u) = SlotsBy(f, u)
    BY DEF SameIR
<1>3. Accounted(g)
    BY <1>1, <1>2 DEF Accounted
<1>4. \A b \in Block : Parted(g, b)
    <2>1. \A b \in Block : \A p \in DOMAIN f.body[b] : IsPhi(g, b, p) <=> IsPhi(f, b, p)
        BY <1>1, <1>2 DEF Accounted, IsPhi
    <2>2. QED
        BY <1>1, <1>2, <2>1 DEF Parted
<1>5. \A v \in Exists(g) : \A u \in UsersOf(g, v) :
          u = Freed \/ (u \in Exists(g) /\ Opcode(g, u) \in Registers)
    <2> SUFFICES ASSUME NEW v \in Exists(g), NEW u \in UsersOf(g, v)
                 PROVE  u = Freed \/ (u \in Exists(g) /\ Opcode(g, u) \in Registers)
        OBVIOUS
    <2>1. v \in Exists(f) /\ u \in UsersOf(f, v) \cup S
        BY <1>2
    <2>2. u \in UsersOf(f, v) => u = Freed \/ (u \in Exists(f) /\ Opcode(f, u) \in Registers)
        BY <1>1, <2>1 DEF Registered
    <2>3. QED
        BY <1>2, <2>1, <2>2
<1>6. ASSUME NEW u \in Exists(g)
      PROVE  /\ Opcode(g, u) = "ret" => SlotsBy(g, u) \subseteq {"value"}
             /\ Opcode(g, u) = "br" => SlotsBy(g, u) \subseteq {"condition"}
             /\ Opcode(g, u) = "const" => SlotsBy(g, u) = {}
    BY <1>1, <1>2 DEF Registered
<1>7. ASSUME NEW u \in Exists(g), Opcode(g, u) \in Registers, NEW s \in SlotsBy(g, u)
      PROVE  Operand(g, u, s) \in Exists(g) /\ ~IsVoid(g, Operand(g, u, s))
    <2>1. u \in Exists(f) /\ Opcode(f, u) \in Registers /\ s \in SlotsBy(f, u)
        BY <1>2, <1>7
    <2>2. Operand(f, u, s) \in Exists(f) /\ ~IsVoid(f, Operand(f, u, s))
        BY <1>1, <2>1 DEF Registered
    <2>3. Operand(g, u, s) \in Exists(f) /\ ~IsVoid(f, Operand(g, u, s))
        BY <2>1, <2>2
    <2>4. QED
        BY <1>2, <2>3 DEF IsVoid
<1>8. Registered(g)
    BY <1>5, <1>6, <1>7 DEF Registered
<1>9. QED
    BY <1>2, <1>3, <1>4, <1>8 DEF Sound

LEMMA SettingKeeps ==
    ASSUME NEW f, Sound(f), NEW S \in SUBSET Exists(f), \A u \in S : Opcode(f, u) \in Registers,
           NEW to \in Exists(f), ~IsVoid(f, to), NEW g \in Setting(f, S, to)
    PROVE  Sound(g) /\ g.undefined = f.undefined
<1>1. g \in IRType /\ SameIR(f, g)
    BY DEF Setting
<1>2. DOMAIN f.users = Exists(f)
    BY DEF Sound, Accounted
<1>3. \A v \in Exists(f) : UsersOf(g, v) \subseteq UsersOf(f, v) \cup S
    BY <1>2 DEF Setting
<1> DEFINE values == {to}
<1>4. \A u \in Exists(f) : \A s \in SlotsBy(f, u) : Operand(g, u, s) \in {Operand(f, u, s)} \cup values
    BY DEF Setting
<1>5. values \in SUBSET Exists(f) /\ \A v \in values : ~IsVoid(f, v)
    OBVIOUS
<1> HIDE DEF values
<1>6. QED
    BY <1>1, <1>3, <1>4, <1>5, RewiredKeeps

LEMMA RemovedAsUserKeeps ==
    ASSUME NEW f, Sound(f), NEW i \in Exists(f), NEW g, g = RemovedAsUser(f, i)
    PROVE  Sound(g) /\ g.undefined = f.undefined /\ g.node = f.node
<1>1. f \in IRType /\ DOMAIN f.users = Exists(f) /\ IsFiniteSet(SlotsBy(f, i))
    BY DEF Sound, Accounted
<1>2. g \in IRType /\ g.node = f.node /\ Unused(f, LosesUser(f, i), i, g.users) /\ SameIR(f, g)
    BY <1>1, RemovedAsUserEffect
<1> DEFINE none == {}
<1>3. \A v \in Exists(f) : UsersOf(g, v) \subseteq UsersOf(f, v) \cup none
    BY <1>1, <1>2 DEF Unused, UsersOf
<1>4. \A u \in Exists(f) : \A s \in SlotsBy(f, u) : Operand(g, u, s) \in {Operand(f, u, s)} \cup none
    BY <1>2 DEF Operand
<1>5. none \in SUBSET Exists(f) /\ (\A u \in none : Opcode(f, u) \in Registers) /\ \A v \in none : ~IsVoid(f, v)
    OBVIOUS
<1> HIDE DEF none
<1>6. Sound(g) /\ g.undefined = f.undefined
    BY <1>2, <1>3, <1>4, <1>5, RewiredKeeps
<1>7. QED
    BY <1>2, <1>6

LEMMA UndefinedKeeps ==
    ASSUME NEW f, Sound(f), NEW g, g = Undefined(f)
    PROVE  Sound(g)
<1>1. f \in IRType
    BY DEF Sound
<1>2. /\ g \in IRType /\ g.body = f.body /\ g.first_non_phi = f.first_non_phi
      /\ g.node = f.node /\ g.users = f.users
    BY <1>1 DEF IRType, Undefined
<1>3. Accounted(g)
    BY <1>2 DEF Sound, Accounted, Exists, SlotsBy
<1>4. \A b \in Block : Parted(g, b)
    BY <1>2 DEF Sound, Parted, IsPhi, Opcode
<1>5. Registered(g)
    BY <1>2 DEF Sound, Registered, Exists, UsersOf, Opcode, SlotsBy, Operand, IsVoid
<1>6. QED
    BY <1>2, <1>3, <1>4, <1>5 DEF Sound

(* Where users_ is exact, the users of a value are the instructions that   *)
(* register and have it as an operand.                                     *)
LEMMA UsersAreKnown ==
    ASSUME NEW f, Sound(f), UsersKnown(f), NEW v \in Exists(f)
    PROVE  /\ UsersOf(f, v) \subseteq Exists(f) /\ IsFiniteSet(UsersOf(f, v))
           /\ \A u \in UsersOf(f, v) :
                  /\ Opcode(f, u) \in Registers
                  /\ f.users[v][u] = Cardinality(SlotsOf(f, u, v)) /\ f.users[v][u] \in Nat \ {0}
           /\ \A u \in Exists(f) : Opcode(f, u) \in Registers /\ SlotsOf(f, u, v) # {} => u \in UsersOf(f, v)
<1>1. /\ UsersOf(f, v) \subseteq Exists(f)
      /\ \A u \in Exists(f) : Opcode(f, u) \in Registers =>
             Entries(f, v, u) = Cardinality(SlotsOf(f, u, v))
    BY DEF UsersKnown
<1>2. f \in IRType /\ Accounted(f) /\ Registered(f)
    BY DEF Sound
<1>3. IsFiniteSet(UsersOf(f, v))
    BY <1>1, <1>2, FS_Subset DEF Accounted
<1>4. Freed \notin Exists(f)
    BY <1>2, NodeFacts, IRAssumption
<1>5. \A u \in UsersOf(f, v) : u \in Exists(f) /\ Opcode(f, u) \in Registers
    BY <1>1, <1>2, <1>4 DEF Registered
<1>6. \A u \in UsersOf(f, v) : f.users[v][u] \in Nat \ {0}
    <2>1. f.users \in UsersType(DOMAIN f.users) /\ DOMAIN f.users = Exists(f)
        BY <1>2, NodeFacts DEF Accounted
    <2>2. f.users[v] \in UserBag
        BY <2>1 DEF UsersType
    <2>3. PICK refs \in SUBSET Ref : f.users[v] \in [refs -> Nat \ {0}]
        BY <2>2 DEF UserBag
    <2>4. QED
        BY <2>3 DEF UsersOf, BagToSet
<1>7. \A u \in UsersOf(f, v) : f.users[v][u] = Cardinality(SlotsOf(f, u, v))
    BY <1>1, <1>5 DEF Entries
<1>8. ASSUME NEW u \in Exists(f), Opcode(f, u) \in Registers, SlotsOf(f, u, v) # {}
      PROVE  u \in UsersOf(f, v)
    <2>1. IsFiniteSet(SlotsBy(f, u)) /\ SlotsOf(f, u, v) \in SUBSET SlotsBy(f, u)
        BY <1>2 DEF Accounted, SlotsOf, SlotsBy
    <2>2. IsFiniteSet(SlotsOf(f, u, v))
        BY <2>1, FS_Subset
    <2>3. Cardinality(SlotsOf(f, u, v)) # 0
        BY <1>8, <2>2, FS_EmptySet
    <2>4. Entries(f, v, u) # 0
        BY <1>1, <1>8, <2>3
    <2>5. QED
        BY <2>4 DEF Entries
<1>9. QED
    BY <1>1, <1>3, <1>5, <1>6, <1>7, <1>8

-------------------------------------------------------------------------------
(* Replacing and removing instructions.                                    *)

(* what GoesWrongOnly says of the state before                             *)
Wrong(f) ==
    \E i \in Exists(f) :
        \/ Opcode(f, i) = "phi" /\ \E v \in Exists(f) : Cardinality(SlotsOf(f, i, v)) > 1
        \/ IsTerminator(Opcode(f, i)) /\ f.node[i].operands = << >>
        \/ Opcode(f, i) \in {"check", "load"} /\ Freed \in Range(f.node[i].operands)

LEMMA IteratorsGoWrong ==
    ASSUME NEW f, Sound(f), UsersKnown(f), NEW from \in Exists(f), ~IteratorsValid(f, from)
    PROVE  Wrong(f)
<1>1. /\ UsersOf(f, from) \subseteq Exists(f)
      /\ \A u \in UsersOf(f, from) :
             /\ Opcode(f, u) \in Registers
             /\ f.users[from][u] = Cardinality(SlotsOf(f, u, from)) /\ f.users[from][u] \in Nat \ {0}
    BY UsersAreKnown
<1>2. f \in IRType /\ Accounted(f) /\ Registered(f)
    BY DEF Sound
<1>3. Freed \notin Exists(f)
    BY <1>2, NodeFacts, IRAssumption
<1>4. PICK u \in UsersOf(f, from) :
          /\ u # Freed
          /\ f.users[from][u] # IF Opcode(f, u) \in {"bin", "icmp"} THEN Cardinality(Redirected(f, u, from)) ELSE 1
    BY <1>1, <1>3 DEF IteratorsValid
<1>5. u \in Exists(f) /\ IsFiniteSet(SlotsBy(f, u))
    BY <1>1, <1>2 DEF Accounted
<1>6. IsFiniteSet(SlotsOf(f, u, from)) /\ SlotsOf(f, u, from) \subseteq SlotsBy(f, u)
    <2>1. SlotsOf(f, u, from) \in SUBSET SlotsBy(f, u)
        BY DEF SlotsOf, SlotsBy
    <2>2. QED
        BY <1>5, <2>1, FS_Subset
<1>7. Cardinality(SlotsOf(f, u, from)) \in Nat \ {0}
    BY <1>1
<1>8. Opcode(f, u) \notin {"bin", "icmp"}
    <2> SUFFICES ASSUME Opcode(f, u) \in {"bin", "icmp"} PROVE FALSE
        OBVIOUS
    <2>1. Redirected(f, u, from) = SlotsOf(f, u, from)
        BY DEF Redirected, IsTerminator
    <2>2. QED
        BY <1>1, <1>4, <2>1
<1>9. Cardinality(SlotsOf(f, u, from)) # 1
    BY <1>1, <1>4, <1>8
<1>10. Opcode(f, u) \notin {"ret", "br"}
    <2> SUFFICES ASSUME NEW only, SlotsBy(f, u) \subseteq {only} PROVE FALSE
        BY <1>2, <1>5 DEF Registered
    <2>1. SlotsOf(f, u, from) # {}
        BY <1>6, <1>7, FS_EmptySet
    <2>2. SlotsOf(f, u, from) = {only}
        BY <1>6, <2>1
    <2>3. QED
        BY <1>9, <2>2, FS_Singleton
<1>11. Opcode(f, u) = "phi"
    BY <1>1, <1>8, <1>10 DEF Registers
<1>12. Cardinality(SlotsOf(f, u, from)) > 1
    BY <1>7, <1>9
<1>13. QED
    BY <1>5, <1>11, <1>12 DEF Wrong

LEMMA RemoveAsUserGoesWrong ==
    ASSUME NEW f, Sound(f), NEW i \in Exists(f), ~CanRemoveAsUser(f, i)
    PROVE  Wrong(f)
<1>1. f \in IRType /\ Registered(f)
    BY DEF Sound
<1>2. Freed \notin Exists(f)
    BY <1>1, NodeFacts, IRAssumption
<1>3. Opcode(f, i) \in {"const", "bin", "ret", "br", "phi", "check", "load", "call"}
    BY <1>1, NodeFacts, IRAssumption DEF NodeType, Opcode
<1>4. CASE IsTerminator(Opcode(f, i)) /\ f.node[i].operands = << >>
    BY <1>4 DEF Wrong
<1>5. CASE Opcode(f, i) # "call" /\ Freed \in Range(f.node[i].operands)
    <2>1. PICK s \in SlotsBy(f, i) : Operand(f, i, s) = Freed
        BY <1>5 DEF Range, SlotsBy, Operand
    <2>2. Opcode(f, i) \notin Registers
        BY <1>1, <1>2, <2>1 DEF Registered
    <2>3. Opcode(f, i) # "const"
        BY <1>1, <2>1 DEF Registered
    <2>4. Opcode(f, i) \in {"check", "load"}
        BY <1>3, <1>5, <2>2, <2>3 DEF Registers
    <2>5. QED
        BY <1>5, <2>4 DEF Wrong
<1>6. QED
    BY <1>4, <1>5 DEF CanRemoveAsUser

LEMMA ReplaceKeeps ==
    ASSUME NEW f, Sound(f), UsersKnown(f), NEW from \in Exists(f), NEW to \in Exists(f),
           from # to, ~IsVoid(f, to), NEW g, g = InstructionReplaced(f, from, to)
    PROVE  Sound(g) /\ (f.undefined = g.undefined \/ Wrong(f))
<1>1. CASE ~(IteratorsValid(f, from) /\ CanRemoveAsUser(f, from))
    <2>1. g = Undefined(f)
        BY <1>1 DEF InstructionReplaced
    <2>2. Wrong(f)
        BY <1>1, IteratorsGoWrong, RemoveAsUserGoesWrong
    <2>3. QED
        BY <2>1, <2>2, UndefinedKeeps
<1>2. CASE IteratorsValid(f, from) /\ CanRemoveAsUser(f, from)
    <2>1. PICK f1, f2 : f1 = Replaced(f, from, to) /\ f2 = RemovedAsUser(f1, from)
        OBVIOUS
    <2>2. g = Erased(f2, from)
        BY <1>2, <2>1 DEF InstructionReplaced
    <2>3. /\ f \in IRType /\ Exists(f) \in SUBSET Instr
          /\ \A u \in Exists(f) : IsFiniteSet(SlotsBy(f, u))
          /\ Registered(f)
        BY NodeFacts DEF Sound, Accounted
    <2>4. /\ UsersOf(f, from) \subseteq Exists(f) /\ IsFiniteSet(UsersOf(f, from))
          /\ \A u \in UsersOf(f, from) : Opcode(f, u) \in Registers
          /\ \A u \in Exists(f) : Opcode(f, u) \in Registers /\ SlotsOf(f, u, from) # {} => u \in UsersOf(f, from)
        BY UsersAreKnown
    <2>5. to \in Ref
        BY <2>3 DEF Ref
    <2>6. /\ f1 \in Setting(f, UsersOf(f, from), to)
          /\ \A u \in UsersOf(f, from) : \A t \in SlotsBy(f, u) : Operand(f1, u, t) # from
        BY <2>1, <2>3, <2>4, <2>5, ReplacedEffect
    <2>7. Sound(f1) /\ f1.undefined = f.undefined
        <3>1. UsersOf(f, from) \in SUBSET Exists(f)
            BY <2>4
        <3>2. QED
            BY <2>4, <2>6, <3>1, SettingKeeps
    <2>8. /\ Exists(f1) = Exists(f)
          /\ \A u \in Exists(f) : Opcode(f1, u) = Opcode(f, u) /\ SlotsBy(f1, u) = SlotsBy(f, u)
          /\ \A u \in Exists(f) : \A t \in SlotsBy(f, u) : Operand(f1, u, t) \in {Operand(f, u, t), to}
        BY <2>6 DEF Setting, SameIR
    <2>9. Sound(f2) /\ f2.undefined = f.undefined /\ f2.node = f1.node
        BY <2>1, <2>7, <2>8, RemovedAsUserKeeps
    <2>10. Unreferenced(f1, from)
        <3> SUFFICES ASSUME NEW u \in Exists(f), Opcode(f, u) \in Registers, NEW t \in SlotsBy(f, u)
                     PROVE  Operand(f1, u, t) # from
            BY <2>8 DEF Unreferenced
        <3>1. CASE u \in UsersOf(f, from)
            BY <2>6, <3>1
        <3>2. CASE u \notin UsersOf(f, from)
            <4>1. SlotsOf(f, u, from) = {}
                BY <2>4, <3>2
            <4>2. Operand(f, u, t) # from
                BY <4>1 DEF SlotsOf, SlotsBy
            <4>3. QED
                BY <2>8, <4>2
        <3>3. QED
            BY <3>1, <3>2
    <2>11. from \in Exists(f2) /\ Unreferenced(f2, from)
        BY <2>8, <2>9, <2>10 DEF Unreferenced, Exists, Opcode, SlotsBy, Operand
    <2>12. Sound(g) /\ g.undefined = f2.undefined
        BY <2>2, <2>9, <2>11, ErasedKeeps
    <2>13. QED
        BY <2>9, <2>12
<1>3. QED
    BY <1>1, <1>2

LEMMA RemoveKeeps ==
    ASSUME NEW f, Sound(f), NEW i \in Exists(f), IsVoid(f, i), NEW g, g = InstructionRemoved(f, i)
    PROVE  Sound(g) /\ (f.undefined = g.undefined \/ Wrong(f))
<1>1. CASE ~CanRemoveAsUser(f, i)
    <2>1. g = Undefined(f)
        BY <1>1 DEF InstructionRemoved
    <2>2. QED
        BY <1>1, <2>1, RemoveAsUserGoesWrong, UndefinedKeeps
<1>2. CASE CanRemoveAsUser(f, i)
    <2>1. PICK f1 : f1 = RemovedAsUser(f, i)
        OBVIOUS
    <2>2. g = Erased(f1, i)
        BY <1>2, <2>1 DEF InstructionRemoved
    <2>3. Sound(f1) /\ f1.undefined = f.undefined /\ f1.node = f.node
        BY <2>1, RemovedAsUserKeeps
    <2>4. Unreferenced(f, i)
        BY DEF Unreferenced, Sound, Registered
    <2>5. i \in Exists(f1) /\ Unreferenced(f1, i)
        BY <2>3, <2>4 DEF Unreferenced, Exists, Opcode, SlotsBy, Operand
    <2>6. Sound(g) /\ g.undefined = f1.undefined
        BY <2>2, <2>3, <2>5, ErasedKeeps
    <2>7. QED
        BY <2>3, <2>6
<1>3. QED
    BY <1>1, <1>2

-------------------------------------------------------------------------------
(* Setting an operand, and the records of a PHI.                           *)

LEMMA SetKeeps ==
    ASSUME NEW f, Sound(f), NEW i \in Exists(f), Opcode(f, i) \in Registers, NEW s \in SlotsBy(f, i),
           NEW v \in Exists(f), ~IsVoid(f, v), NEW g, g = OperandSet(f, i, s, v)
    PROVE  Sound(g) /\ g.undefined = f.undefined
<1>1. f \in IRType /\ v \in Ref
    BY NodeFacts DEF Sound, Ref
<1>2. g \in Setting(f, {i}, v)
    BY <1>1, OperandSetSetting
<1> DEFINE S == {i}
<1>3. S \in SUBSET Exists(f) /\ (\A u \in S : Opcode(f, u) \in Registers) /\ g \in Setting(f, S, v)
    BY <1>2
<1> HIDE DEF S
<1>4. QED
    BY <1>3, SettingKeeps

(* other records for a PHI and other users_                                *)
Recording(f, phi, slots, operands, users, g) ==
    /\ slots \in SUBSET Slot /\ IsFiniteSet(slots)
    /\ operands \in [slots -> Exists(f)]
    /\ \A s \in slots : ~IsVoid(f, operands[s])
    /\ users \in UsersType(Exists(f))
    /\ \A v \in Exists(f) : BagToSet(users[v]) \subseteq UsersOf(f, v) \cup {phi}
    /\ g = [f EXCEPT !.node[phi].operands = operands, !.users = users]

RecordedEffect(f, phi, slots, operands, users, g) ==
    /\ g \in IRType /\ g.users = users
    /\ g.node[phi] = [f.node[phi] EXCEPT !.operands = operands]
    /\ g.body = f.body /\ g.first_non_phi = f.first_non_phi /\ g.undefined = f.undefined
    /\ Exists(g) = Exists(f) /\ DOMAIN g.users = Exists(f)
    /\ \A u \in Exists(f) :
           /\ Opcode(g, u) = Opcode(f, u) /\ g.node[u].type = f.node[u].type
           /\ SlotsBy(g, u) = (IF u = phi THEN slots ELSE SlotsBy(f, u))
           /\ \A s \in SlotsBy(g, u) :
                  Operand(g, u, s) = IF u = phi THEN operands[s] ELSE Operand(f, u, s)

LEMMA RecordingHasEffect ==
    ASSUME NEW f, Sound(f), NEW phi \in Exists(f), NEW slots, NEW operands, NEW users, NEW g,
           Recording(f, phi, slots, operands, users, g)
    PROVE  RecordedEffect(f, phi, slots, operands, users, g)
<1>1. f \in IRType /\ DOMAIN f.users = Exists(f)
    BY DEF Sound, Accounted
<1>2. /\ f.node \in [Exists(f) -> NodeType] /\ f.node[phi] \in NodeType /\ Exists(f) \in SUBSET Instr
    BY <1>1, NodeFacts
<1>3. operands \in OperandMap /\ DOMAIN operands = slots
    <2>1. operands \in [slots -> Ref] /\ slots \in SUBSET Slot
        BY <1>2 DEF Ref, Recording
    <2>2. QED
        BY <2>1 DEF OperandMap
<1> DEFINE new == [f.node[phi] EXCEPT !.operands = operands]
           node == [u \in Exists(f) |-> IF u = phi THEN new ELSE f.node[u]]
<1>4. /\ new \in NodeType /\ new.opcode = f.node[phi].opcode
      /\ new.type = f.node[phi].type /\ new.operands = operands
    BY <1>2, <1>3 DEF NodeType
<1> HIDE DEF new
<1>5. node \in [Exists(f) -> NodeType]
    BY <1>2, <1>4
<1>6. g = Rewiring(f, node, users)
    BY <1>2 DEF Recording, Rewiring, new
<1>7. /\ g \in IRType /\ g.node = node /\ g.users = users
      /\ g.body = f.body /\ g.first_non_phi = f.first_non_phi /\ g.undefined = f.undefined
    <2> HIDE DEF node
    <2>1. users \in UsersType(DOMAIN f.users)
        BY <1>1 DEF Recording
    <2>2. QED
        BY <1>1, <1>5, <1>6, <2>1, Rewired
<1>8. Exists(g) = Exists(f) /\ DOMAIN g.users = Exists(f)
    BY <1>7 DEF Exists, UsersType, Recording
<1>9. \A u \in Exists(f) :
          /\ Opcode(g, u) = Opcode(f, u) /\ g.node[u].type = f.node[u].type
          /\ SlotsBy(g, u) = (IF u = phi THEN slots ELSE SlotsBy(f, u))
          /\ \A s \in SlotsBy(g, u) :
                 Operand(g, u, s) = IF u = phi THEN operands[s] ELSE Operand(f, u, s)
    BY <1>3, <1>4, <1>7 DEF Opcode, SlotsBy, Operand
<1>10. g.node[phi] = new
    BY <1>7
<1>11. QED
    BY <1>7, <1>8, <1>9, <1>10 DEF RecordedEffect, new

LEMMA RecordsKeep ==
    ASSUME NEW f, Sound(f), NEW phi \in Exists(f), Opcode(f, phi) = "phi",
           NEW slots, NEW operands, NEW users, NEW g, Recording(f, phi, slots, operands, users, g)
    PROVE  Sound(g) /\ g.undefined = f.undefined
<1>1. f \in IRType /\ Accounted(f) /\ (\A b \in Block : Parted(f, b)) /\ Registered(f)
      /\ DOMAIN f.users = Exists(f)
    BY DEF Sound, Accounted
<1>2. /\ slots \in SUBSET Slot /\ IsFiniteSet(slots)
      /\ operands \in [slots -> Exists(f)] /\ (\A s \in slots : ~IsVoid(f, operands[s]))
      /\ \A v \in Exists(f) : BagToSet(users[v]) \subseteq UsersOf(f, v) \cup {phi}
    BY DEF Recording
<1>6. RecordedEffect(f, phi, slots, operands, users, g)
    BY RecordingHasEffect
<1>7. /\ g \in IRType /\ g.users = users
      /\ g.body = f.body /\ g.first_non_phi = f.first_non_phi /\ g.undefined = f.undefined
    BY <1>6 DEF RecordedEffect
<1>8. Exists(g) = Exists(f) /\ DOMAIN g.users = Exists(f)
    BY <1>6 DEF RecordedEffect
<1>9. \A u \in Exists(f) :
          /\ Opcode(g, u) = Opcode(f, u) /\ g.node[u].type = f.node[u].type
          /\ SlotsBy(g, u) = (IF u = phi THEN slots ELSE SlotsBy(f, u))
          /\ \A s \in SlotsBy(g, u) :
                 Operand(g, u, s) = IF u = phi THEN operands[s] ELSE Operand(f, u, s)
    BY <1>6 DEF RecordedEffect
<1>10. Accounted(g)
    BY <1>1, <1>2, <1>7, <1>8, <1>9 DEF Accounted
<1>11. \A b \in Block : Parted(g, b)
    <2>1. \A b \in Block : \A p \in DOMAIN f.body[b] : IsPhi(g, b, p) <=> IsPhi(f, b, p)
        BY <1>1, <1>7, <1>9 DEF Accounted, IsPhi
    <2>2. QED
        BY <1>1, <1>7, <2>1 DEF Parted
<1>12. \A v \in Exists(g) : \A u \in UsersOf(g, v) :
           u = Freed \/ (u \in Exists(g) /\ Opcode(g, u) \in Registers)
    <2> SUFFICES ASSUME NEW v \in Exists(f), NEW u \in UsersOf(g, v)
                 PROVE  u = Freed \/ (u \in Exists(f) /\ Opcode(f, u) \in Registers)
        BY <1>8, <1>9
    <2>1. u \in UsersOf(f, v) \cup {phi}
        BY <1>2, <1>7 DEF UsersOf
    <2>2. "phi" \in Registers
        BY DEF Registers
    <2>3. u \in UsersOf(f, v) => u = Freed \/ (u \in Exists(f) /\ Opcode(f, u) \in Registers)
        BY <1>1 DEF Registered
    <2>4. QED
        BY <2>1, <2>2, <2>3
<1>13. ASSUME NEW u \in Exists(g)
       PROVE  /\ Opcode(g, u) = "ret" => SlotsBy(g, u) \subseteq {"value"}
              /\ Opcode(g, u) = "br" => SlotsBy(g, u) \subseteq {"condition"}
              /\ Opcode(g, u) = "const" => SlotsBy(g, u) = {}
    BY <1>1, <1>8, <1>9 DEF Registered
<1>14. ASSUME NEW u \in Exists(g), Opcode(g, u) \in Registers, NEW s \in SlotsBy(g, u)
       PROVE  Operand(g, u, s) \in Exists(g) /\ ~IsVoid(g, Operand(g, u, s))
    <2>1. Operand(g, u, s) \in Exists(f) /\ ~IsVoid(f, Operand(g, u, s))
        <3>1. CASE u = phi
            BY <1>2, <1>8, <1>9, <1>14, <3>1
        <3>2. CASE u # phi
            <4>1. u \in Exists(f) /\ Opcode(f, u) \in Registers /\ s \in SlotsBy(f, u)
                BY <1>8, <1>9, <1>14, <3>2
            <4>2. Operand(f, u, s) \in Exists(f) /\ ~IsVoid(f, Operand(f, u, s))
                BY <1>1, <4>1 DEF Registered
            <4>3. QED
                BY <1>8, <1>9, <1>14, <3>2, <4>2
        <3>3. QED
            BY <3>1, <3>2
    <2>2. QED
        BY <1>8, <1>9, <2>1 DEF IsVoid
<1>15. Registered(g)
    BY <1>12, <1>13, <1>14 DEF Registered
<1>16. QED
    BY <1>7, <1>10, <1>11, <1>15 DEF Sound

LEMMA AddRecords ==
    ASSUME NEW f, Sound(f), NEW phi \in Exists(f), Opcode(f, phi) = "phi", NEW b \in Block,
           NEW v \in Exists(f), ~IsVoid(f, v), NEW g, g = PathAdded(f, phi, b, v)
    PROVE  Recording(f, phi, SlotsBy(f, phi) \cup {b}, Inserted(f.node[phi].operands, b, v),
                     WithUser(f.users, v, phi), g)
<1>1. f \in IRType /\ DOMAIN f.users = Exists(f) /\ IsFiniteSet(SlotsBy(f, phi)) /\ Registered(f)
    BY DEF Sound, Accounted
<1>2. /\ SlotsBy(f, phi) \in SUBSET Slot /\ phi \in Ref
      /\ f.users \in UsersType(Exists(f))
    BY <1>1, NodeFacts DEF Ref
<1> DEFINE slots == SlotsBy(f, phi) \cup {b}
           operands == Inserted(f.node[phi].operands, b, v)
           users == WithUser(f.users, v, phi)
<1>3. slots \in SUBSET Slot /\ IsFiniteSet(slots)
    BY <1>1, <1>2, FS_AddElement DEF Slot
<1>4. \A s \in SlotsBy(f, phi) : Operand(f, phi, s) \in Exists(f) /\ ~IsVoid(f, Operand(f, phi, s))
    BY <1>1 DEF Registered, Registers
<1>5. operands = [s \in slots |-> IF s \in SlotsBy(f, phi) THEN Operand(f, phi, s) ELSE v]
    BY DEF Inserted, SlotsBy, Operand
<1>6. operands \in [slots -> Exists(f)] /\ \A s \in slots : ~IsVoid(f, operands[s])
    <2> HIDE DEF operands
    <2>1. QED
        BY <1>4, <1>5
<1>7. UsersAfterAdding(Exists(f), f.users, users, v, phi)
    BY <1>2, UserFacts
<1>8. users \in UsersType(Exists(f))
      /\ \A w \in Exists(f) : BagToSet(users[w]) \subseteq UsersOf(f, w) \cup {phi}
    <2> HIDE DEF users
    <2>1. QED
        BY <1>7 DEF UsersAfterAdding, UsersOf
<1>9. g = [f EXCEPT !.node[phi].operands = operands, !.users = users]
    BY DEF PathAdded
<1>10. Recording(f, phi, slots, operands, users, g)
    <2> HIDE DEF slots, operands, users
    <2>1. QED
        BY <1>3, <1>6, <1>8, <1>9 DEF Recording
<1>11. QED
    BY <1>10

LEMMA AddKeeps ==
    ASSUME NEW f, Sound(f), NEW phi \in Exists(f), Opcode(f, phi) = "phi", NEW b \in Block,
           NEW v \in Exists(f), ~IsVoid(f, v), NEW g, g = PathAdded(f, phi, b, v)
    PROVE  Sound(g) /\ g.undefined = f.undefined
<1>1. PICK slots, operands, users : Recording(f, phi, slots, operands, users, g)
    BY AddRecords
<1>2. QED
    BY <1>1, RecordsKeep

LEMMA DropRecords ==
    ASSUME NEW f, Sound(f), NEW phi \in Exists(f), Opcode(f, phi) = "phi", NEW b \in SlotsBy(f, phi),
           NEW g, g = PathRemoved(f, phi, b)
    PROVE  Recording(f, phi, SlotsBy(f, phi) \ {b}, [c \in SlotsBy(f, phi) \ {b} |-> Operand(f, phi, c)],
                     LosingUser(f.users, Operand(f, phi, b), phi), g)
<1>1. f \in IRType /\ DOMAIN f.users = Exists(f) /\ IsFiniteSet(SlotsBy(f, phi)) /\ Registered(f)
    BY DEF Sound, Accounted
<1>2. /\ SlotsBy(f, phi) \in SUBSET Slot /\ phi \in Ref
      /\ f.users \in UsersType(Exists(f))
    BY <1>1, NodeFacts DEF Ref
<1>a. PICK v : v = Operand(f, phi, b)
    OBVIOUS
<1> DEFINE slots == SlotsBy(f, phi) \ {b}
           operands == [c \in slots |-> Operand(f, phi, c)]
           users == LosingUser(f.users, v, phi)
<1>3. slots \in SUBSET Slot /\ IsFiniteSet(slots)
    BY <1>1, <1>2, FS_RemoveElement
<1>4. \A s \in SlotsBy(f, phi) : Operand(f, phi, s) \in Exists(f) /\ ~IsVoid(f, Operand(f, phi, s))
    BY <1>1 DEF Registered, Registers
<1>5. operands \in [slots -> Exists(f)] /\ \A s \in slots : ~IsVoid(f, operands[s])
    BY <1>4
<1>6. UsersAfterRemoving(Exists(f), f.users, users, v, phi)
    BY <1>2, UserFacts
<1>7. users \in UsersType(Exists(f))
      /\ \A w \in Exists(f) : BagToSet(users[w]) \subseteq UsersOf(f, w) \cup {phi}
    <2> HIDE DEF users
    <2>1. QED
        BY <1>6 DEF UsersAfterRemoving, UsersOf
<1>8. g = [f EXCEPT !.node[phi].operands = operands, !.users = users]
    BY <1>a DEF PathRemoved, SlotsBy, Operand
<1>9. Recording(f, phi, slots, operands, users, g)
    <2> HIDE DEF slots, operands, users
    <2>1. QED
        BY <1>3, <1>5, <1>7, <1>8 DEF Recording
<1>10. QED
    BY <1>a, <1>9

LEMMA DropKeeps ==
    ASSUME NEW f, Sound(f), NEW phi \in Exists(f), Opcode(f, phi) = "phi", NEW b \in SlotsBy(f, phi),
           NEW g, g = PathRemoved(f, phi, b)
    PROVE  Sound(g) /\ g.undefined = f.undefined
<1>1. PICK slots, operands, users : Recording(f, phi, slots, operands, users, g)
    BY DropRecords
<1>2. QED
    BY <1>1, RecordsKeep

-------------------------------------------------------------------------------
(* A new instruction.                                                      *)

(* A constructor, operand by operand.                                      *)
AddingKeeps(users, operands, u, X, Inv) ==
    /\ users \in X /\ \A x \in X, s \in DOMAIN operands : WithUser(x, operands[s], u) \in X
    /\ <<users, {}>> \in Inv
    /\ \A x \in X, done \in SUBSET DOMAIN operands : \A s \in DOMAIN operands \ done :
           <<x, done>> \in Inv => <<WithUser(x, operands[s], u), done \cup {s}>> \in Inv

LEMMA WithUserByStep ==
    ASSUME NEW users, NEW operands, NEW u, NEW X, NEW Inv, IsFiniteSet(DOMAIN operands),
           AddingKeeps(users, operands, u, X, Inv)
    PROVE  WithUserOfAll(users, operands, u) \in X
           /\ <<WithUserOfAll(users, operands, u), DOMAIN operands>> \in Inv
<1> DEFINE q == SetToSeq(DOMAIN operands)
<1>a. users \in X /\ \A x \in X, s \in DOMAIN operands : WithUser(x, operands[s], u) \in X
    BY DEF AddingKeeps
<1>0. PICK N \in Nat : Lists(q, N, DOMAIN operands)
    BY ListedSet
<1> DEFINE Op == [p \in X \X (1 .. N) |-> WithUser(p[1], operands[q[p[2]]], u)]
<1> HIDE DEF q
<1>1. N \in Nat /\ DOMAIN q = 1 .. N /\ \A k \in 1 .. N : q[k] \in DOMAIN operands
    BY <1>0 DEF Lists
<1>2. Op \in [X \X (1 .. N) -> X]
    BY <1>1, <1>a
<1>3. \A x \in X, k \in 1 .. N : Op[<<x, k>>] = WithUser(x, operands[q[k]], u)
    OBVIOUS
<1>4. PICK it \in [SUBSET (1 .. N) -> X] : FoldsBy(it, N, users, Op)
    <2> HIDE DEF Op
    <2>1. QED
        BY <1>1, <1>2, <1>a, FoldExists
<1>5. it = [s \in SUBSET (1 .. N) |->
               IF s = {} THEN users ELSE WithUser(it[s \ {Max(s)}], operands[q[Max(s)]], u)]
    <2>1. ASSUME NEW s \in SUBSET (1 .. N)
          PROVE  it[s] = IF s = {} THEN users ELSE WithUser(it[s \ {Max(s)}], operands[q[Max(s)]], u)
        <3>1. CASE s = {}
            BY <1>4, <3>1 DEF FoldsBy
        <3>2. CASE s # {}
            <4>1. Max(s) \in 1 .. N
                BY <1>1, <3>2, LargestNat
            <4> HIDE DEF Op
            <4>2. it[s \ {Max(s)}] \in X
                BY <1>4
            <4>3. it[s] = Op[<<it[s \ {Max(s)}], Max(s)>>]
                BY <1>4, <3>2 DEF FoldsBy
            <4>4. QED
                BY <1>3, <3>2, <4>1, <4>2, <4>3
        <3>3. QED
            BY <3>1, <3>2
    <2> HIDE DEF Op
    <2>2. QED
        BY <1>4, <2>1
<1> DEFINE fold == CHOOSE fn : fn = [s \in SUBSET (1 .. N) |->
                                       IF s = {} THEN users
                                       ELSE WithUser(fn[s \ {Max(s)}], operands[q[Max(s)]], u)]
<1>6. fold = [s \in SUBSET (1 .. N) |->
                 IF s = {} THEN users ELSE WithUser(fold[s \ {Max(s)}], operands[q[Max(s)]], u)]
    <2> HIDE DEF Op
    <2>1. QED
        BY <1>5
<1>7. WithUserOfAll(users, operands, u) = fold[1 .. N]
    BY <1>1 DEF WithUserOfAll, q, FoldLeft, MapThenFoldSet
<1>8. fold[{}] = users
      /\ \A s \in SUBSET (1 .. N) : s # {} =>
             fold[s] = WithUser(fold[s \ {Max(s)}], operands[q[Max(s)]], u)
    <2> HIDE DEF fold, Op
    <2>1. {} \in SUBSET (1 .. N)
        OBVIOUS
    <2>2. QED
        BY <1>6, <2>1
<1>9. \A k \in 1 .. N : fold[1 .. k - 1] \in X => fold[1 .. k] = Op[<<fold[1 .. k - 1], k>>]
    <2> SUFFICES ASSUME NEW k \in 1 .. N, fold[1 .. k - 1] \in X
                 PROVE  fold[1 .. k] = WithUser(fold[1 .. k - 1], operands[q[k]], u)
        BY <1>3
    <2> HIDE DEF fold, Op
    <2>1. k \in Nat \ {0} /\ 1 .. k \in SUBSET (1 .. N) /\ k \in 1 .. k
        BY <1>1
    <2>2. Max(1 .. k) = k /\ (1 .. k) \ {k} = 1 .. k - 1
        BY <2>1, GreatestOfInterval
    <2>3. QED
        BY <1>8, <2>1, <2>2
<1> HIDE DEF fold, Op
<1>10. FoldsPrefixesBy(fold, N, X, users, Op)
    BY <1>8, <1>9 DEF FoldsPrefixesBy
<1>11. FoldKeeps(Inv, N, X, DOMAIN operands, q, Op)
    <2>1. \A x \in X, done \in SUBSET DOMAIN operands : \A s \in DOMAIN operands \ done :
              <<x, done>> \in Inv => <<WithUser(x, operands[s], u), done \cup {s}>> \in Inv
        BY DEF AddingKeeps
    <2>2. QED
        BY <1>1, <1>3, <2>1 DEF FoldKeeps
<1>12. fold[1 .. N] \in X /\ <<fold[1 .. N], DOMAIN operands>> \in Inv
    <2>1. <<users, {}>> \in Inv
        BY DEF AddingKeeps
    <2>2. QED
        BY <1>0, <1>2, <1>10, <1>11, <1>a, <2>1, FoldInvariant
<1>13. QED
    BY <1>7, <1>12

(* users_ where i has been added to the users of the operands at some slots *)
Used(instrs, users, operands, slots, i) ==
    {after \in UsersType(instrs) :
        /\ \A v \in instrs : BagToSet(after[v]) \subseteq BagToSet(users[v]) \cup {i}
        /\ \A v \in instrs : \A u :
               Copies(after[v], u) =
                   Copies(users[v], u) + IF u = i THEN Cardinality({s \in slots : operands[s] = v}) ELSE 0}

LEMMA AddingUsers ==
    ASSUME NEW instrs, NEW users \in UsersType(instrs), NEW operands, IsFiniteSet(DOMAIN operands),
           NEW i \in Ref, NEW g, g = WithUserOfAll(users, operands, i)
    PROVE  g \in Used(instrs, users, operands, DOMAIN operands, i)
<1> DEFINE X == UsersType(instrs)
           slots == DOMAIN operands
           Inv == {p \in X \X SUBSET slots : p[1] \in Used(instrs, users, operands, p[2], i)}
<1>1. \A us \in X, s \in slots : WithUser(us, operands[s], i) \in X
    BY UserFacts DEF UsersAfterAdding
<1>2. \A us \in X, v \in instrs : \A u : Copies(us[v], u) \in Nat
    <2>1. \A bag \in UserBag : \A u : Copies(bag, u) \in Nat
        BY BagCopies
    <2>2. QED
        BY <2>1 DEF UsersType
<1>3. <<users, {}>> \in Inv
    <2>1. \A v : {s \in {} : operands[s] = v} = {} /\ Cardinality({}) = 0
        BY FS_EmptySet
    <2>2. users \in Used(instrs, users, operands, {}, i)
        <3>1. \A v \in instrs : \A u : Copies(users[v], u) = Copies(users[v], u) + 0
            BY <1>2
        <3>2. QED
            BY <2>1, <3>1 DEF Used
    <2>3. QED
        BY <2>2
<1>4. ASSUME NEW us \in X, NEW done \in SUBSET slots, NEW s \in slots \ done, <<us, done>> \in Inv
      PROVE  <<WithUser(us, operands[s], i), done \cup {s}>> \in Inv
    <2>1. PICK after, w : after = WithUser(us, w, i) /\ w = operands[s]
        OBVIOUS
    <2>2. UsersAfterAdding(instrs, us, after, w, i)
        BY <2>1, UserFacts
    <2>3. us \in Used(instrs, users, operands, done, i)
        BY <1>4
    <2>4. after \in X /\ \A v \in instrs : BagToSet(after[v]) \subseteq BagToSet(users[v]) \cup {i}
        BY <2>2, <2>3 DEF UsersAfterAdding, Used
    <2> HIDE DEF Inv, X
    <2>5. ASSUME NEW v \in instrs, NEW u
          PROVE  Copies(after[v], u) =
                     Copies(users[v], u) + IF u = i THEN Cardinality({t \in done \cup {s} : operands[t] = v}) ELSE 0
        <3>1. PICK A, B : A = {t \in done : operands[t] = v} /\ B = {t \in done \cup {s} : operands[t] = v}
            OBVIOUS
        <3>2. IsFiniteSet(A) /\ Cardinality(A) \in Nat /\ s \notin A
            <4>1. IsFiniteSet(done) /\ A \in SUBSET done
                BY <3>1, FS_Subset
            <4>2. QED
                BY <3>1, <4>1, FS_Subset, FS_CardinalityType
        <3>3. Cardinality(B) = Cardinality(A) + IF w = v THEN 1 ELSE 0
            <4>1. CASE w = v
                <5>1. B = A \cup {s}
                    BY <2>1, <3>1, <4>1
                <5>2. QED
                    BY <3>2, <4>1, <5>1, FS_AddElement
            <4>2. CASE w # v
                <5>1. B = A
                    BY <2>1, <3>1, <4>2
                <5>2. QED
                    BY <3>2, <4>2, <5>1
            <4>3. QED
                BY <4>1, <4>2
        <3>4. Copies(us[v], u) = Copies(users[v], u) + IF u = i THEN Cardinality(A) ELSE 0
            BY <2>3, <3>1 DEF Used
        <3>5. Copies(after[v], u) = Copies(us[v], u) + IF v = w /\ u = i THEN 1 ELSE 0
            BY <2>2 DEF UsersAfterAdding
        <3>6. Copies(users[v], u) \in Nat
            BY <1>2 DEF X
        <3>7. QED
            BY <3>1, <3>2, <3>3, <3>4, <3>5, <3>6
    <2>6. after \in Used(instrs, users, operands, done \cup {s}, i)
        BY <2>4, <2>5 DEF Used, X
    <2>7. done \cup {s} \in SUBSET slots
        OBVIOUS
    <2>8. QED
        BY <2>1, <2>4, <2>6, <2>7 DEF Inv
<1> HIDE DEF Inv, X
<1>5. users \in X
    BY DEF X
<1>6. AddingKeeps(users, operands, i, X, Inv)
    BY <1>1, <1>3, <1>4, <1>5 DEF AddingKeeps
<1>7. <<g, DOMAIN operands>> \in Inv
    BY <1>6, WithUserByStep
<1>8. QED
    BY <1>7 DEF Inv

(* what clients give emplace, and where                                    *)
NewNode(f, n) ==
    /\ n.opcode \in Opcodes /\ n.type \in {"void", "value"} /\ n.attr \in Callee \cup {""}
    /\ n.paths \in Seq(Block)
    /\ DOMAIN n.operands \in SUBSET Slot /\ IsFiniteSet(DOMAIN n.operands)
    /\ n.operands \in [DOMAIN n.operands -> Exists(f)]
    /\ \A s \in DOMAIN n.operands : ~IsVoid(f, n.operands[s])
    /\ n.opcode = "ret" => DOMAIN n.operands \subseteq {"value"}
    /\ n.opcode = "br" => DOMAIN n.operands \subseteq {"condition"}
    /\ n.opcode = "const" => DOMAIN n.operands = {}

Fits(f, opcode, b, p) ==
    /\ p \in 1 .. Len(f.body[b]) + 1
    /\ opcode = "phi" /\ p > 1 => Opcode(f, f.body[b][p - 1]) = "phi"
    /\ opcode # "phi" /\ p <= Len(f.body[b]) => Opcode(f, f.body[b][p]) # "phi"

(* how often the new instruction i is entered as a user                    *)
NewEntries(n, i, v, u) ==
    IF u = i /\ n.opcode \in Registers
    THEN Cardinality({s \in DOMAIN n.operands : n.operands[s] = v}) ELSE 0

EmplacedEffect(f, b, p, i, n, g) ==
    /\ g \in IRType /\ g.undefined = f.undefined
    /\ g.body = [f.body EXCEPT ![b] = InsertAt(@, p, i)]
    /\ g.first_non_phi = [f.first_non_phi EXCEPT ![b] = FirstAfterEmplace(f, b, p, i, n.opcode)]
    /\ Exists(g) = Exists(f) \cup {i} /\ DOMAIN g.users = Exists(g)
    /\ \A u \in Exists(g) : g.node[u] = IF u = i THEN InBlock(n, b) ELSE f.node[u]
    /\ \A v \in Exists(g) :
           /\ UsersOf(g, v) \subseteq (IF v = i THEN {} ELSE UsersOf(f, v))
                                      \cup (IF n.opcode \in Registers THEN {i} ELSE {})
           /\ \A u : Entries(g, v, u) = (IF v = i THEN 0 ELSE Entries(f, v, u))
                                              + NewEntries(n, i, v, u)

LEMMA EmplacedHasEffect ==
    ASSUME NEW f, Sound(f), NEW b \in Block, NEW i \in Instr \ Exists(f), NEW n, NewNode(f, n),
           NEW p, Fits(f, n.opcode, b, p), NEW g, g = Emplaced(f, b, p, i, n)
    PROVE  EmplacedEffect(f, b, p, i, n, g)
<1>1. f \in IRType /\ DOMAIN f.users = Exists(f)
    BY DEF Sound, Accounted
<1>2. /\ f.body \in [Block -> Seq(Instr)] /\ f.first_non_phi \in [Block -> Instr \cup {End}]
      /\ f.predecessors \in [Block -> SUBSET Block]
      /\ f.rets \in SUBSET Instr /\ f.callees \in SUBSET (Callee \cup {""})
    BY <1>1 DEF IRType
<1>3. /\ f.node \in [Exists(f) -> NodeType] /\ Exists(f) \in SUBSET Instr
      /\ f.users \in UsersType(Exists(f))
    BY <1>1, NodeFacts
<1> DEFINE known == Inserted(f.users, i, EmptyBag)
           node == Inserted(f.node, i, InBlock(n, b))
           users == IF n.opcode \in Registers THEN WithUserOfAll(known, n.operands, i) ELSE known
           first == FirstAfterEmplace(f, b, p, i, n.opcode)
           preds == [s \in Block |-> IF s \in Range(n.paths) THEN f.predecessors[s] \cup {b}
                                     ELSE f.predecessors[s]]
           rets == IF n.opcode = "ret" THEN f.rets \cup {i} ELSE f.rets
           callees == IF n.opcode = "call" THEN f.callees \cup {n.attr} ELSE f.callees
           instrs == Exists(f) \cup {i}
<1> DEFINE body == [f.body EXCEPT ![b] = InsertAt(@, p, i)]
           firsts == [f.first_non_phi EXCEPT ![b] = first]
<1>4. g = [f EXCEPT !.body = body, !.node = node, !.users = users,
                    !.first_non_phi = firsts, !.predecessors = preds, !.rets = rets, !.callees = callees]
    BY <1>2 DEF Emplaced
<1>5. InBlock(n, b) \in NodeType
    <2>1. n.operands \in [DOMAIN n.operands -> Ref]
        BY <1>3 DEF NewNode, Ref
    <2>2. n.operands \in OperandMap
        BY <2>1 DEF NewNode, OperandMap
    <2>3. QED
        BY <2>2 DEF NewNode, InBlock, NodeType
<1>6. node = [u \in instrs |-> IF u \in Exists(f) THEN f.node[u] ELSE InBlock(n, b)]
    BY <1>3 DEF Inserted
<1>7. node \in [instrs -> NodeType] /\ \A u \in instrs : node[u] = IF u = i THEN InBlock(n, b) ELSE f.node[u]
    <2> HIDE DEF node
    <2>1. QED
        BY <1>3, <1>5, <1>6
<1>8. known = [v \in instrs |-> IF v \in Exists(f) THEN f.users[v] ELSE EmptyBag]
    BY <1>1 DEF Inserted
<1>9. EmptyBag \in UserBag /\ BagToSet(EmptyBag) = {}
    <2>1. EmptyBag \in [{} -> Nat \ {0}] /\ {} \in SUBSET Ref
        BY DEF EmptyBag, SetToBag
    <2>2. QED
        BY <2>1 DEF UserBag, BagToSet
<1>10. /\ known \in UsersType(instrs)
       /\ \A v \in instrs : BagToSet(known[v]) = IF v = i THEN {} ELSE UsersOf(f, v)
       /\ \A v \in instrs : \A u : Copies(known[v], u) = IF v = i THEN 0 ELSE Entries(f, v, u)
       /\ \A v \in instrs : \A u : Copies(known[v], u) \in Nat
    <2> HIDE DEF known
    <2>1. known \in UsersType(instrs)
        BY <1>3, <1>8, <1>9 DEF UsersType
    <2>2. \A v \in instrs : known[v] = IF v = i THEN EmptyBag ELSE f.users[v]
        BY <1>8
    <2>3. \A v \in instrs : BagToSet(known[v]) = IF v = i THEN {} ELSE UsersOf(f, v)
        BY <1>9, <2>2 DEF UsersOf
    <2>4. \A v \in instrs : \A u : Copies(known[v], u) = IF v = i THEN 0 ELSE Entries(f, v, u)
        BY <1>9, <2>2 DEF Copies, Entries, UsersOf
    <2>5. \A v \in instrs : \A u : Copies(known[v], u) \in Nat
        BY <2>1, BagCopies DEF UsersType
    <2>6. QED
        BY <2>1, <2>3, <2>4, <2>5
<1>11. /\ users \in UsersType(instrs)
       /\ \A v \in instrs : BagToSet(users[v]) \subseteq (IF v = i THEN {} ELSE UsersOf(f, v))
                                                       \cup (IF n.opcode \in Registers THEN {i} ELSE {})
       /\ \A v \in instrs : \A u : Copies(users[v], u) = (IF v = i THEN 0 ELSE Entries(f, v, u))
                                                            + NewEntries(n, i, v, u)
    <2> HIDE DEF known, instrs
    <2>1. CASE n.opcode \in Registers
        <3>1. IsFiniteSet(DOMAIN n.operands) /\ i \in Ref
            BY DEF NewNode, Ref
        <3>2. PICK all : all = WithUserOfAll(known, n.operands, i)
            OBVIOUS
        <3>3. all \in Used(instrs, known, n.operands, DOMAIN n.operands, i)
            BY <1>10, <3>1, <3>2, AddingUsers
        <3>4. users = all
            BY <2>1, <3>2
        <3> HIDE DEF users
        <3>5. users \in UsersType(instrs)
              /\ \A v \in instrs : BagToSet(users[v]) \subseteq (IF v = i THEN {} ELSE UsersOf(f, v)) \cup {i}
            BY <1>10, <3>3, <3>4 DEF Used
        <3>6. \A v \in instrs : \A u : Copies(users[v], u) = Copies(known[v], u)
                                                                         + NewEntries(n, i, v, u)
            BY <2>1, <3>3, <3>4 DEF Used, NewEntries
        <3>7. QED
            BY <1>10, <2>1, <3>5, <3>6
    <2>2. CASE n.opcode \notin Registers
        <3>1. users = known
            BY <2>2
        <3> HIDE DEF users
        <3>2. \A v \in instrs : \A u : NewEntries(n, i, v, u) = 0
            BY <2>2 DEF NewEntries
        <3>3. \A v \in instrs : \A u :
                  Copies(users[v], u) = (IF v = i THEN 0 ELSE Entries(f, v, u)) + NewEntries(n, i, v, u)
            <4> SUFFICES ASSUME NEW v \in instrs, NEW u
                         PROVE  Copies(users[v], u) = (IF v = i THEN 0 ELSE Entries(f, v, u)) + NewEntries(n, i, v, u)
                OBVIOUS
            <4>1. Copies(users[v], u) \in Nat /\ NewEntries(n, i, v, u) = 0
                BY <1>10, <3>1, <3>2
            <4>2. Copies(users[v], u) = IF v = i THEN 0 ELSE Entries(f, v, u)
                BY <1>10, <3>1
            <4>3. QED
                BY <4>1, <4>2
        <3>4. QED
            BY <1>10, <2>2, <3>1, <3>3
    <2>3. QED
        BY <2>1, <2>2
<1>12. first \in Instr \cup {End}
    BY <1>2 DEF FirstAfterEmplace
<1>13. preds \in [Block -> SUBSET Block]
    <2>1. \A s \in Block : f.predecessors[s] \in SUBSET Block
        BY <1>2
    <2>2. QED
        BY <2>1
<1>14. rets \in SUBSET Instr /\ callees \in SUBSET (Callee \cup {""})
    BY <1>2 DEF NewNode
<1>15. InsertAt(f.body[b], p, i) \in Seq(Instr)
    <2>1. PICK s, after : s \in Seq(Instr) /\ s = f.body[b] /\ after = InsertAt(s, p, i)
        BY <1>2
    <2>2. p \in 1 .. Len(s) + 1
        BY <2>1 DEF Fits
    <2>3. s \in Seq(Instr) /\ after = InsertAt(s, p, i)
        BY <2>1
    <2>4. after \in Seq(Instr)
        BY <2>2, <2>3, InsertAtFacts
    <2>5. QED
        BY <2>1, <2>4
<1>16. instrs \in SUBSET Instr
    BY <1>3
<1> HIDE DEF node, users, first, preds, rets, callees, known, instrs
<1>18. body \in [Block -> Seq(Instr)] /\ firsts \in [Block -> Instr \cup {End}]
    BY <1>2, <1>12, <1>15
<1> HIDE DEF body, firsts
<1>19. g \in IRType
    <2> DEFINE nodes == UNION {[is -> NodeType] : is \in SUBSET Instr}
               bags == UNION {[is -> UserBag] : is \in SUBSET Instr}
    <2>1. node \in nodes /\ users \in bags
        BY <1>7, <1>11, <1>16 DEF UsersType
    <2>2. g = [body |-> body, node |-> node, users |-> users, first_non_phi |-> firsts,
               predecessors |-> preds, rets |-> rets, callees |-> callees, undefined |-> f.undefined]
        BY <1>1, <1>4 DEF IRType
    <2>3. f.undefined \in BOOLEAN
        BY <1>1 DEF IRType
    <2>4. IRType = [body : [Block -> Seq(Instr)], node : nodes, users : bags,
                    first_non_phi : [Block -> Instr \cup {End}], predecessors : [Block -> SUBSET Block],
                    rets : SUBSET Instr, callees : SUBSET (Callee \cup {""}), undefined : BOOLEAN]
        BY DEF IRType
    <2> HIDE DEF nodes, bags
    <2>5. g.rets = rets /\ g.callees = callees
        BY <2>2
    <2>6. g.rets \in SUBSET Instr /\ g.callees \in SUBSET (Callee \cup {""})
        BY <1>14, <2>5
    <2>7. g.body \in [Block -> Seq(Instr)] /\ g.first_non_phi \in [Block -> Instr \cup {End}]
        BY <1>18, <2>2
    <2>8. g.predecessors \in [Block -> SUBSET Block] /\ g.undefined \in BOOLEAN
        BY <1>13, <2>2, <2>3
    <2>9. g.node \in nodes /\ g.users \in bags
        BY <2>1, <2>2
    <2>10. QED
        BY <2>2, <2>4, <2>6, <2>7, <2>8, <2>9
<1>20. /\ g.undefined = f.undefined /\ g.node = node /\ g.users = users
       /\ g.body = body /\ g.first_non_phi = firsts
    BY <1>1, <1>4 DEF IRType
<1>21. Exists(g) = instrs /\ DOMAIN g.users = instrs
    BY <1>7, <1>11, <1>20 DEF Exists, UsersType
<1>22. \A v \in instrs : \A u : Entries(g, v, u) = Copies(users[v], u)
    BY <1>20 DEF Entries, Copies, UsersOf
<1>23. \A v \in instrs :
           /\ UsersOf(g, v) \subseteq (IF v = i THEN {} ELSE UsersOf(f, v))
                                      \cup (IF n.opcode \in Registers THEN {i} ELSE {})
           /\ \A u : Entries(g, v, u) = (IF v = i THEN 0 ELSE Entries(f, v, u))
                                              + NewEntries(n, i, v, u)
    BY <1>11, <1>20, <1>22 DEF UsersOf
<1>24. QED
    BY <1>7, <1>19, <1>20, <1>21, <1>23 DEF EmplacedEffect, first, instrs, body, firsts

LEMMA PartedWith ==
    ASSUME NEW f, Sound(f), NEW b \in Block, NEW i \in Instr \ Exists(f), NEW n, NEW p,
           Fits(f, n.opcode, b, p), NEW g, EmplacedEffect(f, b, p, i, n, g)
    PROVE  Parted(g, b)
<1>1. f.body \in [Block -> Seq(Instr)] /\ f.first_non_phi \in [Block -> Instr \cup {End}] /\ Parted(f, b)
    BY DEF Sound, IRType
<1>2. PICK s, after : s \in Seq(Instr) /\ s = f.body[b] /\ after = InsertAt(s, p, i)
    BY <1>1
<1>a. s \in Seq(Instr) /\ after = InsertAt(s, p, i) /\ p \in 1 .. Len(s) + 1 /\ i \in Instr
    BY <1>2 DEF Fits
<1>b. after \in Seq(Instr) /\ InsertedAt(s, p, i, after)
    BY <1>a, InsertAtFacts
<1>3. /\ after \in Seq(Instr) /\ Len(after) = Len(s) + 1
      /\ \A k \in 1 .. Len(s) + 1 : after[k] = IF k < p THEN s[k] ELSE IF k = p THEN i ELSE s[k - 1]
    BY <1>b DEF InsertedAt
<1>4. Len(s) \in Nat /\ DOMAIN s = 1 .. Len(s) /\ DOMAIN after = 1 .. Len(s) + 1 /\ p \in 1 .. Len(s) + 1
    BY <1>a, <1>3
<1>5. g.body[b] = after /\ g.first_non_phi[b] = FirstAfterEmplace(f, b, p, i, n.opcode)
    BY <1>1, <1>2 DEF EmplacedEffect
<1>6. PICK first \in 1 .. Len(s) + 1 :
          /\ f.first_non_phi[b] = IF first = Len(s) + 1 THEN End ELSE s[first]
          /\ \A k \in 1 .. Len(s) : Opcode(f, s[k]) = "phi" <=> k < first
    BY <1>1, <1>2, <1>4 DEF Parted, IsPhi
<1>7. \A k \in 1 .. Len(s) : s[k] \in Exists(f)
    BY <1>2, <1>4 DEF Sound, Accounted
<1>8. /\ Opcode(g, i) = n.opcode
      /\ \A u \in Exists(f) : Opcode(g, u) = Opcode(f, u)
    BY DEF EmplacedEffect, Opcode, InBlock
<1>9. \A k \in 1 .. Len(s) : Opcode(g, s[k]) = "phi" <=> k < first
    BY <1>6, <1>7, <1>8
<1>10. CASE n.opcode = "phi"
    <2>1. p <= first
        <3>1. p > 1 => p - 1 \in 1 .. Len(s) /\ Opcode(f, s[p - 1]) = "phi"
            BY <1>2, <1>4, <1>10 DEF Fits
        <3>2. p > 1 => p - 1 < first
            BY <1>6, <3>1
        <3>3. QED
            BY <1>4, <3>2
    <2>2. g.first_non_phi[b] = f.first_non_phi[b]
        BY <1>5, <1>10 DEF FirstAfterEmplace
    <2>3. first + 1 \in 1 .. Len(after) + 1
        BY <1>3, <1>4
    <2>4. first # Len(s) + 1 => after[first + 1] = s[first]
        <3> SUFFICES ASSUME first # Len(s) + 1 PROVE after[first + 1] = s[first]
            OBVIOUS
        <3>1. first + 1 \in 1 .. Len(s) + 1 /\ ~(first + 1 < p) /\ first + 1 # p /\ (first + 1) - 1 = first
            BY <1>4, <2>1
        <3>2. QED
            BY <1>3, <3>1
    <2>5. g.first_non_phi[b] = IF first + 1 = Len(after) + 1 THEN End ELSE after[first + 1]
        <3>1. first + 1 = Len(after) + 1 <=> first = Len(s) + 1
            BY <1>3, <1>4
        <3>2. QED
            BY <1>6, <2>2, <2>4, <3>1
    <2>6. ASSUME NEW k \in 1 .. Len(s) + 1
          PROVE  Opcode(g, after[k]) = "phi" <=> k < first + 1
        <3>1. CASE k < p
            <4>1. after[k] = s[k] /\ k \in 1 .. Len(s) /\ k < first
                BY <1>3, <1>4, <2>1, <3>1
            <4>2. QED
                BY <1>9, <4>1
        <3>2. CASE k = p
            BY <1>3, <1>4, <1>8, <1>10, <2>1, <3>2
        <3>3. CASE k > p
            <4>1. after[k] = s[k - 1] /\ k - 1 \in 1 .. Len(s)
                BY <1>3, <1>4, <3>3
            <4>2. QED
                BY <1>4, <1>9, <4>1
        <3>4. QED
            BY <1>4, <3>1, <3>2, <3>3
    <2>7. QED
        BY <1>4, <1>5, <2>3, <2>5, <2>6 DEF Parted, IsPhi
<1>11. CASE n.opcode # "phi"
    <2>1. first <= p
        <3>1. p <= Len(s) => p \in 1 .. Len(s) /\ ~(Opcode(f, s[p]) = "phi")
            BY <1>2, <1>4, <1>11 DEF Fits
        <3>2. p <= Len(s) => ~(p < first)
            BY <1>6, <3>1
        <3>3. QED
            BY <1>4, <3>2
    <2>2. (p = 1 \/ Opcode(f, s[p - 1]) = "phi") <=> p = first
        <3>1. CASE p = 1
            BY <1>4, <2>1, <3>1
        <3>2. CASE p # 1
            <4>1. p - 1 \in 1 .. Len(s)
                BY <1>4, <3>2
            <4>2. Opcode(f, s[p - 1]) = "phi" <=> p - 1 < first
                BY <1>6, <4>1
            <4>3. QED
                BY <1>4, <2>1, <3>2, <4>2
        <3>3. QED
            BY <3>1, <3>2
    <2>3. g.first_non_phi[b] = IF p = first THEN i ELSE f.first_non_phi[b]
        BY <1>2, <1>5, <1>11, <2>2 DEF FirstAfterEmplace
    <2>4. first \in 1 .. Len(after) /\ first \in 1 .. Len(after) + 1
        BY <1>3, <1>4
    <2>5. p # first => first # Len(s) + 1 /\ after[first] = s[first]
        BY <1>3, <1>4, <2>1
    <2>6. p = first => after[first] = i
        BY <1>3, <1>4
    <2>7. g.first_non_phi[b] = after[first] /\ first # Len(after) + 1
        BY <1>4, <1>6, <2>3, <2>4, <2>5, <2>6
    <2>8. ASSUME NEW k \in 1 .. Len(s) + 1
          PROVE  Opcode(g, after[k]) = "phi" <=> k < first
        <3>1. CASE k < p
            <4>1. after[k] = s[k] /\ k \in 1 .. Len(s)
                BY <1>3, <1>4, <3>1
            <4>2. QED
                BY <1>9, <4>1
        <3>2. CASE k = p
            BY <1>3, <1>4, <1>8, <1>11, <2>1, <3>2
        <3>3. CASE k > p
            <4>1. after[k] = s[k - 1] /\ k - 1 \in 1 .. Len(s) /\ ~(k - 1 < first) /\ ~(k < first)
                BY <1>3, <1>4, <2>1, <3>3
            <4>2. QED
                BY <1>9, <4>1
        <3>4. QED
            BY <1>4, <3>1, <3>2, <3>3
    <2>9. QED
        BY <1>4, <1>5, <2>4, <2>7, <2>8 DEF Parted, IsPhi
<1>12. QED
    BY <1>10, <1>11

LEMMA EmplaceAccounts ==
    ASSUME NEW f, Sound(f), NEW b \in Block, NEW i \in Instr \ Exists(f), NEW n, NewNode(f, n), NEW p,
           Fits(f, n.opcode, b, p), NEW g, EmplacedEffect(f, b, p, i, n, g)
    PROVE  Accounted(g)
<1>1. f.body \in [Block -> Seq(Instr)] /\ Accounted(f)
    BY DEF Sound, IRType
<1>2. /\ g.body = [f.body EXCEPT ![b] = InsertAt(@, p, i)]
      /\ Exists(g) = Exists(f) \cup {i} /\ DOMAIN g.users = Exists(g)
      /\ \A u \in Exists(g) : g.node[u] = IF u = i THEN InBlock(n, b) ELSE f.node[u]
    BY DEF EmplacedEffect
<1>3. PICK old, new : old \in Seq(Instr) /\ old = f.body[b] /\ new = InsertAt(old, p, i)
    BY <1>1
<1>a. old \in Seq(Instr) /\ new = InsertAt(old, p, i) /\ p \in 1 .. Len(old) + 1 /\ i \in Instr
    BY <1>3 DEF Fits
<1>b. new \in Seq(Instr) /\ InsertedAt(old, p, i, new)
    BY <1>a, InsertAtFacts
<1>4. /\ new \in Seq(Instr) /\ Len(new) = Len(old) + 1
      /\ \A k \in 1 .. Len(old) + 1 : new[k] = IF k < p THEN old[k] ELSE IF k = p THEN i ELSE old[k - 1]
    BY <1>b DEF InsertedAt
<1>5. DOMAIN new = 1 .. Len(old) + 1 /\ DOMAIN old = 1 .. Len(old) /\ Len(old) \in Nat /\ p \in 1 .. Len(old) + 1
    BY <1>a, <1>4
<1>6. g.body[b] = new /\ \A c \in Block : c # b => g.body[c] = f.body[c]
    BY <1>1, <1>2, <1>3
<1> DEFINE Was(k) == IF k < p THEN k ELSE k - 1
<1>7. \A k \in DOMAIN new : k # p => Was(k) \in DOMAIN old /\ new[k] = old[Was(k)]
    BY <1>4, <1>5
<1>8. \A k, l \in DOMAIN new : k # p /\ l # p /\ Was(k) = Was(l) => k = l
    BY <1>5
<1>9. \A l \in DOMAIN old : \E k \in DOMAIN new : k # p /\ Was(k) = l
    <2> SUFFICES ASSUME NEW l \in DOMAIN old
                 PROVE  \E k \in DOMAIN new : k # p /\ Was(k) = l
        OBVIOUS
    <2>1. CASE l < p
        <3>1. l \in DOMAIN new /\ Was(l) = l
            BY <1>5, <2>1
        <3>2. QED
            BY <2>1, <1>5, <3>1
    <2>2. CASE l >= p
        <3>1. l + 1 \in DOMAIN new /\ Was(l + 1) = l /\ l + 1 # p
            BY <1>5, <2>2
        <3>2. QED
            BY <3>1
    <2>3. QED
        BY <1>5, <2>1, <2>2
<1>10. p \in DOMAIN new /\ new[p] = i
    BY <1>4, <1>5
<1> HIDE DEF Was
<1>11. IsFiniteSet(Exists(g))
    BY <1>1, <1>2, FS_AddElement DEF Accounted
<1>12. ASSUME NEW u \in Exists(g)
       PROVE  IsFiniteSet(SlotsBy(g, u))
    <2>1. CASE u = i
        <3>1. SlotsBy(g, u) = DOMAIN n.operands
            BY <1>2, <2>1 DEF SlotsBy, InBlock
        <3>2. QED
            BY <3>1 DEF NewNode
    <2>2. CASE u # i
        <3>1. u \in Exists(f) /\ SlotsBy(g, u) = SlotsBy(f, u)
            BY <1>2, <2>2 DEF SlotsBy
        <3>2. QED
            BY <1>1, <3>1 DEF Accounted
    <2>3. QED
        BY <2>1, <2>2
<1>13. ASSUME NEW c \in Block, NEW k \in DOMAIN g.body[c]
       PROVE  \/ c = b /\ k = p /\ g.body[c][k] = i
              \/ \E l \in DOMAIN f.body[c] :
                     /\ g.body[c][k] = f.body[c][l] /\ f.body[c][l] \in Exists(f)
                     /\ (c = b => l = Was(k) /\ k # p) /\ (c # b => l = k)
    <2>1. CASE c = b /\ k = p
        BY <1>6, <1>10, <2>1
    <2>2. CASE c = b /\ k # p
        <3>1. Was(k) \in DOMAIN f.body[c] /\ g.body[c][k] = f.body[c][Was(k)]
            BY <1>3, <1>6, <1>7, <2>2
        <3>2. f.body[c][Was(k)] \in Exists(f)
            BY <1>1, <3>1 DEF Accounted
        <3>3. QED
            BY <2>2, <3>1, <3>2
    <2>3. CASE c # b
        BY <1>1, <1>6, <2>3 DEF Accounted
    <2>4. QED
        BY <2>1, <2>2, <2>3
<1>14. \A c \in Block : \A k \in DOMAIN g.body[c] : g.body[c][k] \in Exists(g)
    BY <1>2, <1>13
<1>15. ASSUME NEW u \in Exists(g)
       PROVE  \E c \in Block : \E k \in DOMAIN g.body[c] : g.body[c][k] = u
    <2>1. CASE u = i
        BY <1>6, <1>10, <2>1
    <2>2. CASE u # i
        <3>1. PICK c \in Block : \E l \in DOMAIN f.body[c] : f.body[c][l] = u
            BY <1>1, <1>2, <2>2 DEF Accounted
        <3>2. PICK l \in DOMAIN f.body[c] : f.body[c][l] = u
            BY <3>1
        <3>3. CASE c = b
            <4>1. PICK k \in DOMAIN new : k # p /\ Was(k) = l
                BY <1>3, <1>9, <3>2, <3>3
            <4>2. new[k] = u
                BY <1>3, <1>7, <3>2, <3>3, <4>1
            <4>3. QED
                BY <1>6, <4>2
        <3>4. CASE c # b
            BY <1>6, <3>2, <3>4
        <3>5. QED
            BY <3>3, <3>4
    <2>3. QED
        BY <2>1, <2>2
<1>16. ASSUME NEW c \in Block, NEW d \in Block, NEW k \in DOMAIN g.body[c], NEW l \in DOMAIN g.body[d],
              g.body[c][k] = g.body[d][l]
       PROVE  c = d /\ k = l
    <2>1. CASE g.body[c][k] = i
        <3>1. \A a \in Block : \A m \in DOMAIN g.body[a] : g.body[a][m] = i => a = b /\ m = p
            BY <1>13
        <3>2. QED
            BY <1>16, <2>1, <3>1
    <2>2. CASE g.body[c][k] # i
        <3>1. PICK k1 \in DOMAIN f.body[c] :
                  g.body[c][k] = f.body[c][k1] /\ (c = b => k1 = Was(k) /\ k # p) /\ (c # b => k1 = k)
            BY <1>13, <2>2
        <3>2. PICK l1 \in DOMAIN f.body[d] :
                  g.body[d][l] = f.body[d][l1] /\ (d = b => l1 = Was(l) /\ l # p) /\ (d # b => l1 = l)
            BY <1>13, <1>16, <2>2
        <3>3. f.body[c][k1] = f.body[d][l1]
            BY <1>16, <3>1, <3>2
        <3>4. c = d /\ k1 = l1
            BY <1>1, <3>3 DEF Accounted
        <3>5. CASE c = b
            <4>1. k \in DOMAIN new /\ l \in DOMAIN new /\ Was(k) = Was(l) /\ k # p /\ l # p
                BY <1>6, <3>1, <3>2, <3>4, <3>5
            <4>2. QED
                BY <1>8, <3>4, <4>1
        <3>6. QED
            BY <3>1, <3>2, <3>4, <3>5
    <2>3. QED
        BY <2>1, <2>2
<1>17. QED
    BY <1>2, <1>11, <1>12, <1>14, <1>15, <1>16 DEF Accounted

LEMMA EmplaceKeeps ==
    ASSUME NEW f, Sound(f), NEW b \in Block, NEW i \in Instr \ Exists(f), NEW n, NewNode(f, n),
           NEW p, Fits(f, n.opcode, b, p), NEW g, g = Emplaced(f, b, p, i, n)
    PROVE  Sound(g) /\ g.undefined = f.undefined
<1>1. EmplacedEffect(f, b, p, i, n, g)
    BY EmplacedHasEffect
<1>2. Accounted(g) /\ Parted(g, b)
    BY <1>1, EmplaceAccounts, PartedWith
<1>3. /\ f \in IRType /\ Accounted(f) /\ (\A c \in Block : Parted(f, c)) /\ Registered(f)
    BY DEF Sound
<1>4. /\ g \in IRType /\ g.undefined = f.undefined
      /\ g.body = [f.body EXCEPT ![b] = InsertAt(@, p, i)]
      /\ g.first_non_phi = [f.first_non_phi EXCEPT ![b] = FirstAfterEmplace(f, b, p, i, n.opcode)]
      /\ Exists(g) = Exists(f) \cup {i}
      /\ \A u \in Exists(g) : g.node[u] = IF u = i THEN InBlock(n, b) ELSE f.node[u]
      /\ \A v \in Exists(g) :
             UsersOf(g, v) \subseteq (IF v = i THEN {} ELSE UsersOf(f, v))
                                     \cup (IF n.opcode \in Registers THEN {i} ELSE {})
    BY <1>1 DEF EmplacedEffect
<1>5. /\ \A u \in Exists(f) : /\ Opcode(g, u) = Opcode(f, u)
                              /\ g.node[u].type = f.node[u].type
                              /\ SlotsBy(g, u) = SlotsBy(f, u)
                              /\ \A s \in SlotsBy(f, u) : Operand(g, u, s) = Operand(f, u, s)
      /\ Opcode(g, i) = n.opcode /\ SlotsBy(g, i) = DOMAIN n.operands
      /\ \A s \in DOMAIN n.operands : Operand(g, i, s) = n.operands[s]
    BY <1>4 DEF Opcode, SlotsBy, Operand, InBlock
<1>6. ASSUME NEW c \in Block, c # b
      PROVE  Parted(g, c)
    <2>1. f.body \in [Block -> Seq(Instr)] /\ f.first_non_phi \in [Block -> Instr \cup {End}]
        BY <1>3 DEF IRType
    <2>2. g.body[c] = f.body[c] /\ g.first_non_phi[c] = f.first_non_phi[c]
        BY <1>4, <1>6, <2>1
    <2>3. \A k \in DOMAIN f.body[c] : Opcode(g, f.body[c][k]) = Opcode(f, f.body[c][k])
        BY <1>3, <1>5 DEF Accounted
    <2>4. QED
        BY <1>3, <2>2, <2>3 DEF Parted, IsPhi
<1>7. ASSUME NEW v \in Exists(g), NEW u \in UsersOf(g, v)
      PROVE  u = Freed \/ (u \in Exists(g) /\ Opcode(g, u) \in Registers)
    <2>1. CASE u = i /\ n.opcode \in Registers
        BY <1>4, <1>5, <2>1
    <2>2. CASE v \in Exists(f) /\ u \in UsersOf(f, v)
        <3>1. u = Freed \/ (u \in Exists(f) /\ Opcode(f, u) \in Registers)
            BY <1>3, <2>2 DEF Registered
        <3>2. QED
            BY <1>4, <1>5, <3>1
    <2>3. QED
        BY <1>4, <2>1, <2>2
<1>8. ASSUME NEW u \in Exists(g)
      PROVE  /\ Opcode(g, u) = "ret" => SlotsBy(g, u) \subseteq {"value"}
             /\ Opcode(g, u) = "br" => SlotsBy(g, u) \subseteq {"condition"}
             /\ Opcode(g, u) = "const" => SlotsBy(g, u) = {}
    <2>1. CASE u = i
        BY <1>5, <2>1 DEF NewNode
    <2>2. CASE u # i
        <3>1. u \in Exists(f)
            BY <1>4, <2>2
        <3>2. QED
            BY <1>3, <1>5, <3>1 DEF Registered
    <2>3. QED
        BY <2>1, <2>2
<1>9. ASSUME NEW u \in Exists(g), Opcode(g, u) \in Registers, NEW s \in SlotsBy(g, u)
      PROVE  Operand(g, u, s) \in Exists(g) /\ ~IsVoid(g, Operand(g, u, s))
    <2>1. Operand(g, u, s) \in Exists(f) /\ ~IsVoid(f, Operand(g, u, s))
        <3>1. CASE u = i
            <4>1. n.operands \in [DOMAIN n.operands -> Exists(f)]
                  /\ \A t \in DOMAIN n.operands : ~IsVoid(f, n.operands[t])
                BY DEF NewNode
            <4>2. s \in DOMAIN n.operands /\ Operand(g, u, s) = n.operands[s]
                BY <1>5, <1>9, <3>1
            <4>3. QED
                BY <4>1, <4>2
        <3>2. CASE u # i
            <4>1. u \in Exists(f) /\ Opcode(f, u) \in Registers /\ s \in SlotsBy(f, u)
                BY <1>4, <1>5, <1>9, <3>2
            <4>2. Operand(f, u, s) \in Exists(f) /\ ~IsVoid(f, Operand(f, u, s))
                BY <1>3, <4>1 DEF Registered
            <4>3. QED
                BY <1>5, <4>1, <4>2
        <3>3. QED
            BY <3>1, <3>2
    <2>2. QED
        BY <1>4, <1>5, <2>1 DEF IsVoid
<1>10. Registered(g)
    BY <1>7, <1>8, <1>9 DEF Registered
<1>11. QED
    BY <1>2, <1>4, <1>6, <1>10 DEF Sound

-------------------------------------------------------------------------------
(* users_ stays exact.                                                     *)

(* users_ of every value has u as often as u has the value as an operand.  *)
Exact(f, u) == \A v \in Exists(f) : Entries(f, v, u) = Cardinality(SlotsOf(f, u, v))

(* What UsersWrongOnly allows: of two operands of u with one value, one is *)
(* set or removed; or add_path is given a block that u has a record for.   *)
OneOfTwo(f, g, u) == \E v \in Exists(f) : Cardinality(SlotsOf(f, u, v)) > 1 /\ SlotsOf(g, u, v) # {}

PathThere(f, g, u) == Opcode(f, u) = "phi" /\ g.node[u] = f.node[u] /\ f.node[u].operands # << >>

Excused(f, g) == \E u \in Exists(f) \cap Exists(g) : OneOfTwo(f, g, u) \/ PathThere(f, g, u)

LEMMA SameSlots ==
    ASSUME NEW f, NEW g, NEW u, SlotsBy(g, u) = SlotsBy(f, u),
           \A t \in SlotsBy(f, u) : Operand(g, u, t) = Operand(f, u, t)
    PROVE  \A v : SlotsOf(g, u, v) = SlotsOf(f, u, v)
BY DEF SlotsOf, SlotsBy

LEMMA FiniteSlots ==
    ASSUME NEW f, NEW u, IsFiniteSet(SlotsBy(f, u)), NEW v
    PROVE  IsFiniteSet(SlotsOf(f, u, v)) /\ Cardinality(SlotsOf(f, u, v)) \in Nat
<1>1. SlotsOf(f, u, v) \in SUBSET SlotsBy(f, u)
    BY DEF SlotsOf, SlotsBy
<1>2. QED
    BY <1>1, FS_Subset, FS_CardinalityType

LEMMA OneOrMore ==
    ASSUME NEW S, IsFiniteSet(S), NEW s \in S
    PROVE  S = {s} \/ (Cardinality(S) > 1 /\ \E t \in S : t # s)
<1> SUFFICES ASSUME S # {s} PROVE Cardinality(S) > 1 /\ \E t \in S : t # s
    OBVIOUS
<1>1. PICK t \in S : t # s
    OBVIOUS
<1>2. IsFiniteSet(S \ {s}) /\ Cardinality(S \ {s}) = Cardinality(S) - 1
    BY FS_RemoveElement
<1>3. Cardinality(S \ {s}) # 0
    BY <1>1, <1>2, FS_EmptySet
<1>4. Cardinality(S) \in Nat /\ Cardinality(S \ {s}) \in Nat
    BY <1>2, FS_CardinalityType
<1>5. QED
    BY <1>1, <1>2, <1>3, <1>4

(* f and g differ in the operands of u, and in how often it is a user.     *)
OnlyUser(f, g, u) ==
    /\ Exists(g) = Exists(f)
    /\ \A w \in Exists(f) : Opcode(g, w) = Opcode(f, w)
    /\ \A w \in Exists(f) \ {u} :
           /\ SlotsBy(g, w) = SlotsBy(f, w)
           /\ \A t \in SlotsBy(f, w) : Operand(g, w, t) = Operand(f, w, t)
    /\ \A v \in Exists(f) :
           /\ UsersOf(g, v) \subseteq UsersOf(f, v) \cup {u}
           /\ \A w \in Exists(f) \ {u} : Entries(g, v, w) = Entries(f, v, w)

LEMMA OnlyUserKnown ==
    ASSUME NEW f, UsersKnown(f), NEW u \in Exists(f), NEW g, OnlyUser(f, g, u), Exact(g, u)
    PROVE  UsersKnown(g)
<1>1. Exists(g) = Exists(f)
    BY DEF OnlyUser
<1>2. ASSUME NEW v \in Exists(f)
      PROVE  UsersOf(g, v) \subseteq Exists(f)
    BY DEF OnlyUser, UsersKnown
<1>3. ASSUME NEW v \in Exists(f), NEW w \in Exists(f), Opcode(g, w) \in Registers
      PROVE  Entries(g, v, w) = Cardinality(SlotsOf(g, w, v))
    <2>1. CASE w = u
        BY <1>1, <2>1 DEF Exact
    <2>2. CASE w # u
        <3>1. Opcode(f, w) \in Registers /\ Entries(g, v, w) = Entries(f, v, w)
            BY <1>3, <2>2 DEF OnlyUser
        <3>2. SlotsOf(g, w, v) = SlotsOf(f, w, v)
            BY <2>2, SameSlots DEF OnlyUser
        <3>3. Entries(f, v, w) = Cardinality(SlotsOf(f, w, v))
            BY <3>1 DEF UsersKnown
        <3>4. QED
            BY <3>1, <3>2, <3>3
    <2>3. QED
        BY <2>1, <2>2
<1>4. QED
    BY <1>1, <1>2, <1>3 DEF UsersKnown

LEMMA EntriesAreCopies ==
    ASSUME NEW f, NEW v, NEW u
    PROVE  Entries(f, v, u) = Copies(f.users[v], u)
BY DEF Entries, Copies, UsersOf

(* A setter takes the old operand's entries of i and adds one for the new. *)
LEMMA OperandSetCounts ==
    ASSUME NEW f \in IRType, DOMAIN f.users = Exists(f), NEW i \in Exists(f), NEW s \in SlotsBy(f, i),
           NEW v \in Ref, NEW old, old = Operand(f, i, s), NEW g, g = OperandSet(f, i, s, v)
    PROVE  \A w \in Exists(f) :
               /\ UsersOf(g, w) \subseteq UsersOf(f, w) \cup {i}
               /\ \A x : Entries(g, w, x) =
                      IF x = i THEN (IF w = old THEN 0 ELSE Entries(f, w, i)) + (IF w = v THEN 1 ELSE 0)
                      ELSE Entries(f, w, x)
<1>1. PICK middle : middle = LosingUser(f.users, old, i)
    OBVIOUS
<1>2. g.users = WithUser(middle, v, i)
    BY <1>1, OperandSetEffect
<1>3. f.users \in UsersType(Exists(f)) /\ i \in Ref
    BY NodeFacts DEF Ref
<1>4. UsersAfterRemoving(Exists(f), f.users, middle, old, i)
    BY <1>1, <1>3, UserFacts
<1>5. UsersAfterAdding(Exists(f), middle, g.users, v, i)
    BY <1>2, <1>3, <1>4, UserFacts DEF UsersAfterRemoving
<1>6. ASSUME NEW w \in Exists(f), NEW x
      PROVE  /\ Copies(g.users[w], x) = Copies(middle[w], x) + IF w = v /\ x = i THEN 1 ELSE 0
             /\ Copies(middle[w], x) = IF w = old /\ x = i THEN 0 ELSE Copies(f.users[w], x)
             /\ Copies(f.users[w], x) \in Nat
    <2>1. Copies(f.users[w], x) \in Nat
        BY <1>3, BagCopies DEF UsersType
    <2>2. QED
        BY <1>4, <1>5, <2>1 DEF UsersAfterAdding, UsersAfterRemoving
<1>7. \A w \in Exists(f) : UsersOf(g, w) \subseteq UsersOf(f, w) \cup {i}
    BY <1>4, <1>5 DEF UsersOf, UsersAfterAdding, UsersAfterRemoving
<1>8. ASSUME NEW w \in Exists(f), NEW x
      PROVE  Entries(g, w, x) =
                 IF x = i THEN (IF w = old THEN 0 ELSE Entries(f, w, i)) + (IF w = v THEN 1 ELSE 0)
                 ELSE Entries(f, w, x)
    <2>1. Entries(g, w, x) = Copies(g.users[w], x) /\ Entries(f, w, x) = Copies(f.users[w], x)
        BY EntriesAreCopies
    <2>2. CASE x = i
        BY <1>6, <2>1, <2>2
    <2>3. CASE x # i
        BY <1>6, <2>1, <2>3
    <2>4. QED
        BY <2>2, <2>3
<1>9. QED
    BY <1>7, <1>8

(* Setting one of two operands that have the same value is excused; other- *)
(* wise users_ stays exact.                                                *)
LEMMA SetKnown ==
    ASSUME NEW f, Sound(f), UsersKnown(f), NEW i \in Exists(f), Opcode(f, i) \in Registers,
           NEW s \in SlotsBy(f, i), NEW v \in Exists(f), NEW g, g = OperandSet(f, i, s, v)
    PROVE  UsersKnown(g) \/ Excused(f, g)
<1>1. f \in IRType /\ DOMAIN f.users = Exists(f) /\ IsFiniteSet(SlotsBy(f, i)) /\ Registered(f)
    BY DEF Sound, Accounted
<1>2. v \in Ref
    BY <1>1, NodeFacts DEF Ref
<1>3. PICK old : old = Operand(f, i, s)
    OBVIOUS
<1>4. old \in Exists(f)
    BY <1>1, <1>3 DEF Registered
<1>5. /\ SameIR(f, g)
      /\ \A u \in Exists(f) : \A t \in SlotsBy(f, u) :
             Operand(g, u, t) = IF u = i /\ t = s THEN v ELSE Operand(f, u, t)
    BY <1>1, <1>2, OperandSetEffect
<1>6. \A w \in Exists(f) :
          /\ UsersOf(g, w) \subseteq UsersOf(f, w) \cup {i}
          /\ \A x : Entries(g, w, x) =
                 IF x = i THEN (IF w = old THEN 0 ELSE Entries(f, w, i)) + (IF w = v THEN 1 ELSE 0)
                 ELSE Entries(f, w, x)
    BY <1>1, <1>2, <1>3, OperandSetCounts
<1>7. /\ Exists(g) = Exists(f) /\ SlotsBy(g, i) = SlotsBy(f, i)
      /\ \A t \in SlotsBy(f, i) : Operand(g, i, t) = IF t = s THEN v ELSE Operand(f, i, t)
    BY <1>5 DEF SameIR
<1>8. s \in SlotsOf(f, i, old) /\ IsFiniteSet(SlotsOf(f, i, old))
    <2>1. s \in SlotsOf(f, i, old)
        BY <1>3 DEF SlotsOf, SlotsBy
    <2>2. QED
        BY <1>1, <2>1, FiniteSlots
<1>9. CASE SlotsOf(f, i, old) # {s}
    <2>1. Cardinality(SlotsOf(f, i, old)) > 1 /\ \E t \in SlotsOf(f, i, old) : t # s
        BY <1>8, <1>9, OneOrMore
    <2>2. PICK t \in SlotsOf(f, i, old) : t # s
        BY <2>1
    <2>3. t \in SlotsOf(g, i, old)
        BY <1>7, <2>2 DEF SlotsOf, SlotsBy
    <2>4. OneOfTwo(f, g, i)
        BY <1>4, <2>1, <2>3 DEF OneOfTwo
    <2>5. QED
        BY <1>7, <2>4 DEF Excused
<1>10. CASE SlotsOf(f, i, old) = {s}
    <2>1. ASSUME NEW w \in Exists(f)
          PROVE  Entries(g, w, i) = Cardinality(SlotsOf(g, i, w))
        <3>1. Entries(f, w, i) = Cardinality(SlotsOf(f, i, w))
            BY DEF UsersKnown
        <3>2. IsFiniteSet(SlotsOf(f, i, w)) /\ Cardinality(SlotsOf(f, i, w)) \in Nat
            BY <1>1, FiniteSlots
        <3>3. CASE w = v
            <4>1. SlotsOf(g, i, w) = (IF w = old THEN {} ELSE SlotsOf(f, i, w)) \cup {s}
                BY <1>3, <1>7, <1>10, <3>3 DEF SlotsOf, SlotsBy
            <4>2. w # old => s \notin SlotsOf(f, i, w)
                BY <1>3 DEF SlotsOf
            <4>3. CASE w = old
                <5>1. SlotsOf(g, i, w) = {s}
                    BY <4>1, <4>3
                <5>2. Entries(g, w, i) = 0 + 1
                    BY <1>6, <3>3, <4>3
                <5>3. Cardinality({s}) = 1
                    BY FS_Singleton
                <5>4. QED
                    BY <5>1, <5>2, <5>3
            <4>4. CASE w # old
                <5>1. Cardinality(SlotsOf(g, i, w)) = Cardinality(SlotsOf(f, i, w)) + 1
                    BY <3>2, <4>1, <4>2, <4>4, FS_AddElement
                <5>2. QED
                    BY <1>6, <3>1, <3>2, <3>3, <4>4, <5>1
            <4>5. QED
                BY <4>3, <4>4
        <3>4. CASE w # v
            <4>1. SlotsOf(g, i, w) = IF w = old THEN {} ELSE SlotsOf(f, i, w)
                BY <1>3, <1>7, <1>10, <3>4 DEF SlotsOf, SlotsBy
            <4>2. Entries(g, w, i) = (IF w = old THEN 0 ELSE Entries(f, w, i)) + 0
                BY <1>6, <3>4
            <4>3. QED
                BY <3>1, <3>2, <4>1, <4>2, FS_EmptySet
        <3>5. QED
            BY <3>3, <3>4
    <2>2. Exact(g, i)
        BY <1>7, <2>1 DEF Exact
    <2>3. OnlyUser(f, g, i)
        BY <1>5, <1>6 DEF OnlyUser, SameIR
    <2>4. QED
        BY <2>2, <2>3, OnlyUserKnown
<1>11. QED
    BY <1>9, <1>10

(* add_path of a block that has a record is excused.                       *)
LEMMA AddKnown ==
    ASSUME NEW f, Sound(f), UsersKnown(f), NEW phi \in Exists(f), Opcode(f, phi) = "phi", NEW b \in Block,
           NEW v \in Exists(f), ~IsVoid(f, v), NEW g, g = PathAdded(f, phi, b, v)
    PROVE  UsersKnown(g) \/ Excused(f, g)
<1> DEFINE slots == SlotsBy(f, phi) \cup {b}
           operands == Inserted(f.node[phi].operands, b, v)
           users == WithUser(f.users, v, phi)
<1>1. RecordedEffect(f, phi, slots, operands, users, g)
    <2>1. Recording(f, phi, slots, operands, users, g)
        BY AddRecords
    <2> HIDE DEF slots, operands, users
    <2>2. QED
        BY <2>1, RecordingHasEffect
<1>2. f \in IRType /\ DOMAIN f.users = Exists(f) /\ IsFiniteSet(SlotsBy(f, phi))
    BY DEF Sound, Accounted
<1>3. f.users \in UsersType(Exists(f)) /\ phi \in Ref
      /\ f.node[phi] \in NodeType /\ f.node[phi].operands \in [SlotsBy(f, phi) -> Ref]
    BY <1>2, NodeFacts DEF Ref
<1>4. CASE b \in SlotsBy(f, phi)
    <2>1. operands = f.node[phi].operands
        BY <1>3, <1>4 DEF Inserted
    <2>2. g.node[phi] = f.node[phi]
        <3> HIDE DEF operands
        <3>1. g.node[phi] = [f.node[phi] EXCEPT !.operands = f.node[phi].operands]
            BY <1>1, <2>1 DEF RecordedEffect
        <3>2. QED
            BY <1>3, <3>1 DEF NodeType
    <2>3. f.node[phi].operands # << >>
        BY <1>4 DEF SlotsBy
    <2>4. Exists(g) = Exists(f)
        BY <1>1 DEF RecordedEffect
    <2>5. QED
        BY <2>2, <2>3, <2>4 DEF PathThere, Excused
<1>5. CASE b \notin SlotsBy(f, phi)
    <2>1. UsersAfterAdding(Exists(f), f.users, users, v, phi)
        BY <1>3, UserFacts
    <2>2. operands = [s \in slots |-> IF s \in SlotsBy(f, phi) THEN Operand(f, phi, s) ELSE v]
        BY DEF Inserted, SlotsBy, Operand
    <2>3. /\ SlotsBy(g, phi) = slots
          /\ \A s \in slots : Operand(g, phi, s) = IF s \in SlotsBy(f, phi) THEN Operand(f, phi, s) ELSE v
        <3> HIDE DEF operands
        <3>1. SlotsBy(g, phi) = slots /\ \A s \in slots : Operand(g, phi, s) = operands[s]
            BY <1>1 DEF RecordedEffect
        <3>2. QED
            BY <2>2, <3>1
    <2> HIDE DEF operands, users
    <2>4. g.users = users /\ Exists(g) = Exists(f)
        BY <1>1 DEF RecordedEffect
    <2>5. ASSUME NEW w \in Exists(f), NEW x
          PROVE  Entries(g, w, x) = Entries(f, w, x) + IF w = v /\ x = phi THEN 1 ELSE 0
        <3>1. Entries(g, w, x) = Copies(users[w], x) /\ Entries(f, w, x) = Copies(f.users[w], x)
            BY <2>4, EntriesAreCopies
        <3>2. QED
            BY <2>1, <3>1 DEF UsersAfterAdding
    <2>6. \A w \in Exists(f) : UsersOf(g, w) \subseteq UsersOf(f, w) \cup {phi}
        BY <2>1, <2>4 DEF UsersAfterAdding, UsersOf
    <2>7. ASSUME NEW w \in Exists(f)
          PROVE  Entries(g, w, phi) = Cardinality(SlotsOf(g, phi, w))
        <3>1. Entries(f, w, phi) = Cardinality(SlotsOf(f, phi, w))
            BY DEF UsersKnown, Registers
        <3>2. IsFiniteSet(SlotsOf(f, phi, w)) /\ Cardinality(SlotsOf(f, phi, w)) \in Nat
            BY <1>2, FiniteSlots
        <3>3. SlotsOf(g, phi, w) = IF w = v THEN SlotsOf(f, phi, w) \cup {b} ELSE SlotsOf(f, phi, w)
            BY <1>5, <2>3 DEF SlotsOf, SlotsBy
        <3>4. b \notin SlotsOf(f, phi, w)
            BY <1>5 DEF SlotsOf, SlotsBy
        <3>5. Cardinality(SlotsOf(f, phi, w) \cup {b}) = Cardinality(SlotsOf(f, phi, w)) + 1
            BY <3>2, <3>4, FS_AddElement
        <3>6. QED
            BY <2>5, <3>1, <3>2, <3>3, <3>5
    <2>8. Exact(g, phi)
        BY <2>4, <2>7 DEF Exact
    <2>9. \A w \in Exists(f) \ {phi} : \A u \in Exists(f) : Entries(g, u, w) = Entries(f, u, w)
        <3> SUFFICES ASSUME NEW w \in Exists(f) \ {phi}, NEW u \in Exists(f)
                     PROVE  Entries(g, u, w) = Entries(f, u, w)
            OBVIOUS
        <3>1. Entries(f, u, w) \in Nat
            BY <1>3, EntriesAreCopies, BagCopies DEF UsersType
        <3>2. QED
            BY <2>5, <3>1
    <2>10. OnlyUser(f, g, phi)
        BY <1>1, <2>4, <2>6, <2>9 DEF RecordedEffect, OnlyUser
    <2>11. QED
        BY <2>8, <2>10, OnlyUserKnown
<1>6. QED
    BY <1>4, <1>5

(* remove_path of one of two records that have the same value is excused.  *)
LEMMA DropKnown ==
    ASSUME NEW f, Sound(f), UsersKnown(f), NEW phi \in Exists(f), Opcode(f, phi) = "phi",
           NEW b \in SlotsBy(f, phi), NEW g, g = PathRemoved(f, phi, b)
    PROVE  UsersKnown(g) \/ Excused(f, g)
<1>1. PICK v : v = Operand(f, phi, b)
    OBVIOUS
<1> DEFINE slots == SlotsBy(f, phi) \ {b}
           operands == [c \in slots |-> Operand(f, phi, c)]
           users == LosingUser(f.users, v, phi)
<1>2. RecordedEffect(f, phi, slots, operands, users, g)
    <2>1. Recording(f, phi, slots, operands, users, g)
        BY <1>1, DropRecords
    <2> HIDE DEF slots, operands, users
    <2>2. QED
        BY <2>1, RecordingHasEffect
<1>3. f \in IRType /\ DOMAIN f.users = Exists(f) /\ IsFiniteSet(SlotsBy(f, phi)) /\ Registered(f)
    BY DEF Sound, Accounted
<1>4. f.users \in UsersType(Exists(f)) /\ phi \in Ref
    BY <1>3, NodeFacts DEF Ref
<1>5. v \in Exists(f)
    BY <1>1, <1>3 DEF Registered, Registers
<1>6. /\ SlotsBy(g, phi) = slots /\ Exists(g) = Exists(f) /\ g.users = users
      /\ \A s \in slots : Operand(g, phi, s) = Operand(f, phi, s)
    <2>1. \A s \in slots : operands[s] = Operand(f, phi, s)
        OBVIOUS
    <2> HIDE DEF operands, users
    <2>2. SlotsBy(g, phi) = slots /\ \A s \in slots : Operand(g, phi, s) = operands[s]
        BY <1>2 DEF RecordedEffect
    <2>3. Exists(g) = Exists(f) /\ g.users = users
        BY <1>2 DEF RecordedEffect
    <2>4. QED
        BY <2>1, <2>2, <2>3
<1>7. b \in SlotsOf(f, phi, v) /\ IsFiniteSet(SlotsOf(f, phi, v))
    <2>1. b \in SlotsOf(f, phi, v)
        BY <1>1 DEF SlotsOf, SlotsBy
    <2>2. QED
        BY <1>3, <2>1, FiniteSlots
<1>8. CASE SlotsOf(f, phi, v) # {b}
    <2>1. Cardinality(SlotsOf(f, phi, v)) > 1 /\ \E t \in SlotsOf(f, phi, v) : t # b
        BY <1>7, <1>8, OneOrMore
    <2>2. PICK t \in SlotsOf(f, phi, v) : t # b
        BY <2>1
    <2>3. t \in SlotsOf(g, phi, v)
        BY <1>6, <2>2 DEF SlotsOf, SlotsBy
    <2>4. OneOfTwo(f, g, phi)
        BY <1>5, <2>1, <2>3 DEF OneOfTwo
    <2>5. QED
        BY <1>6, <2>4 DEF Excused
<1>9. CASE SlotsOf(f, phi, v) = {b}
    <2>1. UsersAfterRemoving(Exists(f), f.users, users, v, phi)
        BY <1>4, UserFacts
    <2> HIDE DEF operands, users
    <2>2. ASSUME NEW w \in Exists(f), NEW x
          PROVE  Entries(g, w, x) = IF w = v /\ x = phi THEN 0 ELSE Entries(f, w, x)
        <3>1. Entries(g, w, x) = Copies(users[w], x) /\ Entries(f, w, x) = Copies(f.users[w], x)
            BY <1>6, EntriesAreCopies
        <3>2. QED
            BY <2>1, <3>1 DEF UsersAfterRemoving
    <2>3. \A w \in Exists(f) : UsersOf(g, w) \subseteq UsersOf(f, w) \cup {phi}
        BY <1>6, <2>1 DEF UsersAfterRemoving, UsersOf
    <2>4. ASSUME NEW w \in Exists(f)
          PROVE  Entries(g, w, phi) = Cardinality(SlotsOf(g, phi, w))
        <3>1. Entries(f, w, phi) = Cardinality(SlotsOf(f, phi, w))
            BY DEF UsersKnown, Registers
        <3>2. SlotsOf(g, phi, w) = IF w = v THEN {} ELSE SlotsOf(f, phi, w)
            BY <1>1, <1>6, <1>9 DEF SlotsOf, SlotsBy
        <3>3. QED
            BY <2>2, <3>1, <3>2, FS_EmptySet
    <2>5. Exact(g, phi)
        BY <1>6, <2>4 DEF Exact
    <2>6. OnlyUser(f, g, phi)
        BY <1>2, <1>6, <2>2, <2>3 DEF RecordedEffect, OnlyUser
    <2>7. QED
        BY <2>5, <2>6, OnlyUserKnown
<1>10. QED
    BY <1>8, <1>9

(* What the setters of u have done to f where they have put `to' into the  *)
(* slots done, all of which held `from'.                                   *)
SetSoFar(f, u, from, to, g, done) ==
    /\ \A w \in Exists(f) : \A t \in SlotsBy(f, w) :
           Operand(g, w, t) = IF w = u /\ t \in done THEN to ELSE Operand(f, w, t)
    /\ \A v \in Exists(f) :
           /\ UsersOf(g, v) \subseteq UsersOf(f, v) \cup {u}
           /\ \A w \in Exists(f) \ {u} : Entries(g, v, w) = Entries(f, v, w)
           /\ Entries(g, v, u) = IF done # {} /\ v = from THEN 0
                                 ELSE Entries(f, v, u) + IF v = to THEN Cardinality(done) ELSE 0

LEMMA SetSoFarGrows ==
    ASSUME NEW f \in IRType, NEW u \in Exists(f), NEW from, NEW to \in Exists(f), from # to,
           \A v \in Exists(f) : Entries(f, v, u) \in Nat,
           NEW g \in IRType, SameIR(f, g), DOMAIN g.users = Exists(g),
           NEW done, IsFiniteSet(done), SetSoFar(f, u, from, to, g, done),
           NEW s \in SlotsOf(f, u, from) \ done, NEW h, h = OperandSet(g, u, s, to)
    PROVE  SetSoFar(f, u, from, to, h, done \cup {s})
<1>1. /\ Exists(g) = Exists(f) /\ \A w \in Exists(f) : SlotsBy(g, w) = SlotsBy(f, w)
      /\ s \in SlotsBy(g, u) /\ to \in Ref
    BY NodeFacts DEF SameIR, SlotsOf, SlotsBy, Ref
<1>2. Operand(g, u, s) = from
    BY <1>1 DEF SetSoFar, SlotsOf, SlotsBy
<1>3. \A w \in Exists(f) : \A t \in SlotsBy(f, w) :
          Operand(h, w, t) = IF w = u /\ t = s THEN to ELSE Operand(g, w, t)
    BY <1>1, OperandSetEffect
<1>4. \A v \in Exists(f) :
          /\ UsersOf(h, v) \subseteq UsersOf(g, v) \cup {u}
          /\ \A x : Entries(h, v, x) =
                 IF x = u THEN (IF v = from THEN 0 ELSE Entries(g, v, u)) + (IF v = to THEN 1 ELSE 0)
                 ELSE Entries(g, v, x)
    BY <1>1, <1>2, OperandSetCounts
<1>5. Cardinality(done \cup {s}) = Cardinality(done) + 1 /\ Cardinality(done) \in Nat
    BY FS_AddElement, FS_CardinalityType
<1>6. ASSUME NEW v \in Exists(f)
      PROVE  Entries(h, v, u) = IF v = from THEN 0
                                ELSE Entries(f, v, u) + IF v = to THEN Cardinality(done \cup {s}) ELSE 0
    <2>1. Entries(h, v, u) = (IF v = from THEN 0 ELSE Entries(g, v, u)) + (IF v = to THEN 1 ELSE 0)
        BY <1>4
    <2>2. CASE v = from
        BY <2>1, <2>2
    <2>3. CASE v # from
        <3>1. Entries(g, v, u) = Entries(f, v, u) + IF v = to THEN Cardinality(done) ELSE 0
            BY <2>3 DEF SetSoFar
        <3>2. QED
            BY <1>5, <2>1, <2>3, <3>1
    <2>4. QED
        BY <2>2, <2>3
<1>7. \A w \in Exists(f) : \A t \in SlotsBy(f, w) :
          Operand(h, w, t) = IF w = u /\ t \in done \cup {s} THEN to ELSE Operand(f, w, t)
    BY <1>3 DEF SetSoFar
<1>8. \A v \in Exists(f) :
          /\ UsersOf(h, v) \subseteq UsersOf(f, v) \cup {u}
          /\ \A w \in Exists(f) \ {u} : Entries(h, v, w) = Entries(f, v, w)
    BY <1>4 DEF SetSoFar
<1>9. QED
    BY <1>6, <1>7, <1>8 DEF SetSoFar

LEMMA OperandsSetCounts ==
    ASSUME NEW f \in IRType, DOMAIN f.users = Exists(f), NEW u \in Exists(f), IsFiniteSet(SlotsBy(f, u)),
           NEW from, NEW to \in Exists(f), from # to,
           NEW slots, slots = SlotsOf(f, u, from), NEW g, g = OperandsSet(f, u, slots, to)
    PROVE  SetSoFar(f, u, from, to, g, slots)
<1> DEFINE X == Setting(f, {u}, to)
           Inv == {p \in X \X SUBSET slots : SetSoFar(f, u, from, to, p[1], p[2])}
<1>1. to \in Ref /\ f.users \in UsersType(Exists(f))
    BY NodeFacts DEF Ref
<1>2. \A v \in Exists(f) : Entries(f, v, u) \in Nat
    BY <1>1, EntriesAreCopies, BagCopies DEF UsersType
<1>3. slots \in SUBSET SlotsBy(f, u) /\ IsFiniteSet(slots)
    <2>1. slots \in SUBSET SlotsBy(f, u)
        BY DEF SlotsOf, SlotsBy
    <2>2. QED
        BY <2>1, FiniteSlots
<1>4. ASSUME NEW h \in X
      PROVE  /\ h \in IRType /\ SameIR(f, h) /\ DOMAIN h.users = Exists(h) /\ u \in Exists(h)
             /\ SlotsBy(h, u) = SlotsBy(f, u)
    BY DEF Setting, SameIR
<1>5. ASSUME NEW h \in X, NEW s \in slots
      PROVE  OperandSet(h, u, s, to) \in X
    <2>1. h \in IRType /\ u \in Exists(h) /\ s \in SlotsBy(h, u)
        BY <1>3, <1>4
    <2>2. OperandSet(h, u, s, to) \in Setting(h, {u}, to)
        BY <1>1, <2>1, OperandSetSetting
    <2>3. QED
        BY <2>2, SettingTransitive
<1>6. f \in X
    BY SettingReflexive
<1> HIDE DEF X
<1>7. <<f, {}>> \in Inv
    <2>1. \A v \in Exists(f) : Entries(f, v, u) + 0 = Entries(f, v, u)
        BY <1>2
    <2>2. SetSoFar(f, u, from, to, f, {})
        BY <2>1, FS_EmptySet DEF SetSoFar
    <2>3. QED
        BY <1>6, <2>2
<1>8. ASSUME NEW h \in X, NEW done \in SUBSET slots, NEW s \in slots \ done, <<h, done>> \in Inv
      PROVE  <<OperandSet(h, u, s, to), done \cup {s}>> \in Inv
    <2>1. SetSoFar(f, u, from, to, h, done)
        BY <1>8
    <2>2. IsFiniteSet(done)
        BY <1>3, FS_Subset
    <2>3. SetSoFar(f, u, from, to, OperandSet(h, u, s, to), done \cup {s})
        BY <1>2, <1>4, <2>1, <2>2, SetSoFarGrows
    <2>4. OperandSet(h, u, s, to) \in X
        BY <1>5
    <2>5. QED
        BY <2>3, <2>4
<1> HIDE DEF Inv
<1>9. SettersKeep(f, u, slots, to, X, Inv)
    BY <1>5, <1>6, <1>7, <1>8 DEF SettersKeep
<1>10. <<g, slots>> \in Inv
    BY <1>3, <1>9, OperandsSetByStep
<1>11. QED
    BY <1>10 DEF Inv

(* Where replace_with redirects all of the uses of from by u, users_ stays *)
(* exact.                                                                  *)
LEMMA OperandsSetKnown ==
    ASSUME NEW f \in IRType, DOMAIN f.users = Exists(f), UsersKnown(f),
           NEW u \in Exists(f), Opcode(f, u) \in Registers, IsFiniteSet(SlotsBy(f, u)),
           NEW from \in Exists(f), NEW to \in Exists(f), from # to,
           NEW slots, slots = SlotsOf(f, u, from), NEW g, g = OperandsSet(f, u, slots, to)
    PROVE  UsersKnown(g) /\ OnlyUser(f, g, u)
<1>1. SetSoFar(f, u, from, to, g, slots)
    BY OperandsSetCounts
<1>2. SameIR(f, g)
    <2>1. slots \in SUBSET SlotsBy(f, u) /\ to \in Ref
        BY NodeFacts DEF SlotsOf, SlotsBy, Ref
    <2>2. IsFiniteSet(slots)
        BY FiniteSlots
    <2>3. g \in Setting(f, {u}, to)
        BY <2>1, <2>2, OperandsSetEffect
    <2>4. QED
        BY <2>3 DEF Setting
<1>3. OnlyUser(f, g, u)
    BY <1>1, <1>2 DEF SetSoFar, SameIR, OnlyUser
<1>4. /\ Exists(g) = Exists(f) /\ SlotsBy(g, u) = SlotsBy(f, u)
      /\ \A t \in SlotsBy(f, u) : Operand(g, u, t) = IF t \in slots THEN to ELSE Operand(f, u, t)
    BY <1>1, <1>2 DEF SetSoFar, SameIR
<1>5. ASSUME NEW v \in Exists(f)
      PROVE  Entries(g, v, u) = Cardinality(SlotsOf(g, u, v))
    <2>1. Entries(f, v, u) = Cardinality(SlotsOf(f, u, v))
        BY DEF UsersKnown
    <2>2. IsFiniteSet(SlotsOf(f, u, v)) /\ Cardinality(SlotsOf(f, u, v)) \in Nat
          /\ IsFiniteSet(slots) /\ Cardinality(slots) \in Nat
        BY FiniteSlots
    <2>3. Entries(g, v, u) = IF slots # {} /\ v = from THEN 0
                             ELSE Entries(f, v, u) + IF v = to THEN Cardinality(slots) ELSE 0
        BY <1>1 DEF SetSoFar
    <2>4. CASE v = from
        <3>1. SlotsOf(g, u, v) = {}
            BY <1>4, <2>4 DEF SlotsOf, SlotsBy
        <3>2. CASE slots # {}
            BY <2>3, <2>4, <3>1, <3>2, FS_EmptySet
        <3>3. CASE slots = {}
            BY <2>1, <2>2, <2>3, <2>4, <3>1, <3>3
        <3>4. QED
            BY <3>2, <3>3
    <2>5. CASE v = to
        <3>1. SlotsOf(g, u, v) = SlotsOf(f, u, v) \cup slots /\ SlotsOf(f, u, v) \cap slots = {}
            BY <1>4, <2>5 DEF SlotsOf, SlotsBy
        <3>2. Cardinality(SlotsOf(f, u, v) \cap slots) = 0
            BY <3>1, FS_EmptySet
        <3>3. Cardinality(SlotsOf(g, u, v)) = Cardinality(SlotsOf(f, u, v)) + Cardinality(slots)
            <4>1. Cardinality(SlotsOf(f, u, v) \cup slots) =
                      Cardinality(SlotsOf(f, u, v)) + Cardinality(slots) - Cardinality(SlotsOf(f, u, v) \cap slots)
                BY <2>2, FS_Union
            <4>2. QED
                BY <2>2, <3>1, <3>2, <4>1
        <3>4. QED
            BY <2>1, <2>3, <2>5, <3>3
    <2>6. CASE v # from /\ v # to
        <3>1. SlotsOf(g, u, v) = SlotsOf(f, u, v)
            BY <1>4, <2>6 DEF SlotsOf, SlotsBy
        <3>2. QED
            BY <2>1, <2>2, <2>3, <2>6, <3>1
    <2>7. QED
        BY <2>4, <2>5, <2>6
<1>6. Exact(g, u)
    BY <1>4, <1>5 DEF Exact
<1>7. QED
    BY <1>3, <1>6, OnlyUserKnown

(* A ret and a br have one operand at most: setting all is setting those   *)
(* that are the value.                                                     *)
LEMMA UsersAreRedirected ==
    ASSUME NEW f, Sound(f), UsersKnown(f), NEW from \in Exists(f), NEW u \in UsersOf(f, from)
    PROVE  Redirected(f, u, from) = SlotsOf(f, u, from)
<1>1. /\ u \in Exists(f) /\ IsFiniteSet(SlotsBy(f, u)) /\ Registered(f)
      /\ f.users[from][u] = Cardinality(SlotsOf(f, u, from)) /\ f.users[from][u] \in Nat \ {0}
    BY UsersAreKnown DEF Sound, Accounted
<1>2. CASE ~IsTerminator(Opcode(f, u))
    BY <1>2 DEF Redirected
<1>3. CASE IsTerminator(Opcode(f, u))
    <2>1. PICK only : SlotsBy(f, u) \subseteq {only}
        BY <1>1, <1>3 DEF Registered, IsTerminator
    <2>2. SlotsOf(f, u, from) # {}
        BY <1>1, FS_EmptySet
    <2>3. SlotsOf(f, u, from) = SlotsBy(f, u)
        BY <2>1, <2>2 DEF SlotsOf, SlotsBy
    <2>4. QED
        BY <1>3, <2>3 DEF Redirected, SlotsBy
<1>4. QED
    BY <1>2, <1>3

LEMMA ReplacedKnown ==
    ASSUME NEW f, Sound(f), UsersKnown(f), NEW from \in Exists(f), NEW to \in Exists(f), to # from,
           NEW g, g = Replaced(f, from, to)
    PROVE  UsersKnown(g)
<1> DEFINE S == UsersOf(f, from)
           X == Setting(f, S, to)
           Untouched(h, u) == \A t \in SlotsBy(f, u) : Operand(h, u, t) = Operand(f, u, t)
           Inv == {p \in X \X SUBSET S : UsersKnown(p[1]) /\ \A u \in Exists(f) \ p[2] : Untouched(p[1], u)}
<1>1. /\ f \in IRType /\ DOMAIN f.users = Exists(f) /\ to \in Ref
      /\ \A u \in Exists(f) : IsFiniteSet(SlotsBy(f, u))
    BY NodeFacts DEF Sound, Accounted, Ref
<1>2. S \subseteq Exists(f) /\ IsFiniteSet(S) /\ \A u \in S : Opcode(f, u) \in Registers
    BY UsersAreKnown
<1>3. ASSUME NEW h \in X
      PROVE  /\ h \in IRType /\ DOMAIN h.users = Exists(h) /\ Exists(h) = Exists(f)
             /\ \A u \in Exists(f) : SlotsBy(h, u) = SlotsBy(f, u) /\ Opcode(h, u) = Opcode(f, u)
    BY <1>1 DEF Setting, SameIR
<1>4. ASSUME NEW h \in X, NEW u \in S
      PROVE  OperandsSet(h, u, Redirected(f, u, from), to) \in X
    <2>1. PICK slots : slots = Redirected(f, u, from)
        OBVIOUS
    <2>2. h \in IRType /\ u \in Exists(h) /\ SlotsBy(h, u) = SlotsBy(f, u)
        BY <1>2, <1>3
    <2>3. slots \in SUBSET SlotsBy(h, u)
        BY <2>1, <2>2 DEF Redirected, SlotsBy, SlotsOf
    <2>4. IsFiniteSet(slots)
        BY <1>1, <1>2, <2>2, <2>3, FS_Subset
    <2>5. OperandsSet(h, u, slots, to) \in Setting(h, {u}, to)
        BY <1>1, <2>2, <2>3, <2>4, OperandsSetEffect
    <2>6. QED
        BY <2>1, <2>5, SettingTransitive
<1>5. f \in X
    BY <1>1, SettingReflexive
<1> HIDE DEF X
<1>6. <<f, {}>> \in Inv
    BY <1>5
<1>7. ASSUME NEW h \in X, NEW done \in SUBSET S, NEW u \in S \ done, <<h, done>> \in Inv
      PROVE  <<OperandsSet(h, u, Redirected(f, u, from), to), done \cup {u}>> \in Inv
    <2>1. PICK slots, h1 : slots = SlotsOf(h, u, from) /\ h1 = OperandsSet(h, u, slots, to)
        OBVIOUS
    <2>2. UsersKnown(h) /\ \A w \in Exists(f) \ done : Untouched(h, w)
        BY <1>7
    <2>3. u \in Exists(f) /\ SlotsBy(h, u) = SlotsBy(f, u)
        BY <1>2, <1>3
    <2>4. slots = Redirected(f, u, from)
        <3>1. slots = SlotsOf(f, u, from)
            BY <2>1, <2>2, <2>3, SameSlots
        <3>2. QED
            BY <3>1, UsersAreRedirected
    <2>5. UsersKnown(h1) /\ OnlyUser(h, h1, u)
        <3>1. /\ h \in IRType /\ DOMAIN h.users = Exists(h) /\ u \in Exists(h) /\ IsFiniteSet(SlotsBy(h, u))
              /\ Opcode(h, u) \in Registers /\ from \in Exists(h) /\ to \in Exists(h)
            BY <1>1, <1>2, <1>3, <2>3
        <3> HIDE DEF Inv, Untouched
        <3>2. QED
            BY <2>1, <2>2, <3>1, OperandsSetKnown
    <2>6. ASSUME NEW w \in Exists(f) \ (done \cup {u})
          PROVE  Untouched(h1, w)
        <3>1. SlotsBy(h, w) = SlotsBy(f, w) /\ w \in Exists(h) \ {u}
            BY <1>3
        <3>2. \A t \in SlotsBy(h, w) : Operand(h1, w, t) = Operand(h, w, t)
            BY <2>5, <3>1 DEF OnlyUser
        <3>3. QED
            BY <2>2, <3>1, <3>2
    <2>7. h1 \in X
        BY <1>4, <2>1, <2>4
    <2> HIDE DEF Untouched
    <2>8. QED
        BY <2>1, <2>4, <2>5, <2>6, <2>7
<1> HIDE DEF Inv
<1>8. ReplacingKeeps(f, from, to, X, Inv)
    BY <1>4, <1>5, <1>6, <1>7 DEF ReplacingKeeps
<1>9. <<g, UsersOf(f, from)>> \in Inv
    BY <1>2, <1>8, ReplacedByStep
<1>10. QED
    BY <1>9 DEF Inv


(* users_ is exact, and i is nowhere a user.                               *)
KnownBut(f, i) ==
    \A v \in Exists(f) :
        /\ UsersOf(f, v) \subseteq Exists(f) \ {i}
        /\ \A u \in Exists(f) \ {i} : Opcode(f, u) \in Registers =>
               Entries(f, v, u) = Cardinality(SlotsOf(f, u, v))

LEMMA RemovedAsUserKnown ==
    ASSUME NEW f, Sound(f), UsersKnown(f), NEW i \in Exists(f), NEW g, g = RemovedAsUser(f, i)
    PROVE  KnownBut(g, i)
<1>1. f \in IRType /\ DOMAIN f.users = Exists(f) /\ IsFiniteSet(SlotsBy(f, i))
    BY DEF Sound, Accounted
<1>2. g.node = f.node /\ Unused(f, LosesUser(f, i), i, g.users)
    BY <1>1, RemovedAsUserEffect
<1>3. /\ g.users \in UsersType(Exists(f))
      /\ \A v \in Exists(f) : UsersOf(g, v) \subseteq UsersOf(f, v)
      /\ \A v \in Exists(f) : \A u :
             Entries(g, v, u) = IF v \in LosesUser(f, i) /\ u = i THEN 0 ELSE Entries(f, v, u)
    BY <1>1, <1>2, EntriesAreCopies DEF Unused, UsersOf
<1>4. ASSUME NEW v \in Exists(f), i \in UsersOf(g, v)
      PROVE  FALSE
    <2>1. i \in UsersOf(f, v)
        BY <1>3, <1>4
    <2>2. /\ Opcode(f, i) \in Registers
          /\ f.users[v][i] = Cardinality(SlotsOf(f, i, v)) /\ f.users[v][i] \in Nat \ {0}
        BY <2>1, UsersAreKnown
    <2>3. SlotsOf(f, i, v) # {}
        BY <2>2, FS_EmptySet
    <2>4. v \in LosesUser(f, i)
        BY <2>2, <2>3 DEF LosesUser, Registers, SlotsOf, Operand, Range
    <2>5. Entries(g, v, i) = 0
        BY <1>3, <2>4
    <2>6. g.users[v] \in UserBag
        BY <1>3 DEF UsersType
    <2>7. QED
        BY <1>4, <2>5, <2>6, BagCopies, EntriesAreCopies DEF UsersOf
<1>5. /\ Exists(g) = Exists(f)
      /\ \A u : Opcode(g, u) = Opcode(f, u) /\ \A v : SlotsOf(g, u, v) = SlotsOf(f, u, v)
    BY <1>2 DEF Exists, Opcode, SlotsOf, Operand
<1>6. \A v \in Exists(f) : UsersOf(g, v) \subseteq Exists(f) \ {i}
    BY <1>3, <1>4, UsersAreKnown
<1>7. ASSUME NEW v \in Exists(f), NEW u \in Exists(f) \ {i}, Opcode(f, u) \in Registers
      PROVE  Entries(g, v, u) = Cardinality(SlotsOf(g, u, v))
    <2>1. Entries(f, v, u) = Cardinality(SlotsOf(f, u, v))
        BY <1>7 DEF UsersKnown
    <2>2. QED
        BY <1>3, <1>5, <2>1
<1>8. QED
    BY <1>5, <1>6, <1>7 DEF KnownBut

LEMMA ErasedKnown ==
    ASSUME NEW f \in IRType, Accounted(f), NEW i \in Exists(f), KnownBut(f, i), NEW g, g = Erased(f, i)
    PROVE  UsersKnown(g)
<1>1. PICK h : /\ h \in IRType /\ h.node = f.node /\ h.users = f.users
               /\ g = Dangling(h, {i})
    <2>1. PICK b \in Block : \E p \in DOMAIN f.body[b] : \E h :
              f.body[b][p] = i /\ Detached(f, i, b, p, h) /\ g = Dangling(h, {i})
        BY ErasedIsDetached
    <2>2. PICK p \in DOMAIN f.body[b] : \E h :
              f.body[b][p] = i /\ Detached(f, i, b, p, h) /\ g = Dangling(h, {i})
        BY <2>1
    <2>3. QED
        BY <2>2 DEF Detached
<1>2. i \in Exists(h) /\ DOMAIN h.users = Exists(h) /\ Exists(h) = Exists(f) /\ Freed \notin Exists(f)
    BY <1>1, NodeFacts, IRAssumption DEF Exists, Accounted
<1>3. /\ Exists(g) = Exists(h) \ {i}
      /\ \A u \in Exists(g) :
             /\ Opcode(g, u) = Opcode(h, u) /\ SlotsBy(g, u) = SlotsBy(h, u)
             /\ \A s \in SlotsBy(h, u) : Operand(g, u, s) = Pointed(i, Operand(h, u, s))
      /\ \A v \in Exists(g) : UsersOf(h, v) \cap {i, Freed} = {} => g.users[v] = h.users[v]
    BY <1>1, <1>2, DanglingEffect
<1>4. ASSUME NEW v \in Exists(g)
      PROVE  g.users[v] = f.users[v]
    <2>1. v \in Exists(f) /\ UsersOf(f, v) \subseteq Exists(f) \ {i}
        BY <1>2, <1>3 DEF KnownBut
    <2>2. UsersOf(h, v) \cap {i, Freed} = {}
        BY <1>1, <1>2, <2>1 DEF UsersOf
    <2>3. QED
        BY <1>1, <1>3, <2>2
<1>5. ASSUME NEW v \in Exists(g)
      PROVE  UsersOf(g, v) \subseteq Exists(g)
    BY <1>2, <1>3, <1>4 DEF KnownBut, UsersOf
<1>6. ASSUME NEW v \in Exists(g), NEW u \in Exists(g), Opcode(g, u) \in Registers
      PROVE  Entries(g, v, u) = Cardinality(SlotsOf(g, u, v))
    <2>1. v \in Exists(f) /\ u \in Exists(f) \ {i} /\ v # i /\ v # Freed
        BY <1>2, <1>3
    <2>2. /\ Opcode(f, u) = Opcode(g, u) /\ SlotsBy(g, u) = SlotsBy(f, u)
          /\ \A s \in SlotsBy(f, u) : Operand(g, u, s) = Pointed(i, Operand(f, u, s))
        BY <1>1, <1>3 DEF Opcode, SlotsBy, Operand
    <2>3. SlotsOf(g, u, v) = SlotsOf(f, u, v)
        BY <2>1, <2>2 DEF SlotsOf, SlotsBy, Pointed
    <2>4. Entries(f, v, u) = Cardinality(SlotsOf(f, u, v))
        BY <1>6, <2>1, <2>2 DEF KnownBut
    <2>5. Entries(g, v, u) = Entries(f, v, u)
        BY <1>4 DEF Entries, UsersOf
    <2>6. QED
        BY <2>3, <2>4, <2>5
<1>7. QED
    BY <1>5, <1>6 DEF UsersKnown

LEMMA RemoveKnown ==
    ASSUME NEW f, Sound(f), UsersKnown(f), NEW i \in Exists(f), NEW g, g = Erased(RemovedAsUser(f, i), i)
    PROVE  UsersKnown(g)
<1>1. PICK f1 : f1 = RemovedAsUser(f, i)
    OBVIOUS
<1>2. Sound(f1) /\ f1.node = f.node
    BY <1>1, RemovedAsUserKeeps
<1>3. f1 \in IRType /\ Accounted(f1) /\ i \in Exists(f1)
    BY <1>2 DEF Sound, Exists
<1>4. KnownBut(f1, i)
    BY <1>1, RemovedAsUserKnown
<1>5. QED
    BY <1>1, <1>3, <1>4, ErasedKnown

LEMMA ReplaceKnown ==
    ASSUME NEW f, Sound(f), UsersKnown(f), NEW from \in Exists(f), NEW to \in Exists(f),
           from # to, ~IsVoid(f, to), NEW g, g = Erased(RemovedAsUser(Replaced(f, from, to), from), from)
    PROVE  UsersKnown(g)
<1>1. PICK f1 : f1 = Replaced(f, from, to)
    OBVIOUS
<1>2. /\ f \in IRType /\ to \in Ref
      /\ \A u \in Exists(f) : IsFiniteSet(SlotsBy(f, u))
    BY NodeFacts DEF Sound, Accounted, Ref
<1>3. /\ UsersOf(f, from) \in SUBSET Exists(f) /\ IsFiniteSet(UsersOf(f, from))
      /\ \A u \in UsersOf(f, from) : Opcode(f, u) \in Registers
    BY UsersAreKnown
<1>4. f1 \in Setting(f, UsersOf(f, from), to)
    BY <1>1, <1>2, <1>3, ReplacedEffect
<1>5. Sound(f1)
    BY <1>3, <1>4, SettingKeeps
<1>6. from \in Exists(f1)
    BY <1>4 DEF Setting, SameIR
<1>7. UsersKnown(f1)
    BY <1>1, ReplacedKnown
<1>8. QED
    BY <1>1, <1>5, <1>6, <1>7, RemoveKnown

LEMMA EmplaceKnown ==
    ASSUME NEW f, Sound(f), UsersKnown(f), NEW b \in Block, NEW i \in Instr \ Exists(f), NEW n, NewNode(f, n),
           NEW p, Fits(f, n.opcode, b, p), NEW g, g = Emplaced(f, b, p, i, n)
    PROVE  UsersKnown(g)
<1>1. EmplacedEffect(f, b, p, i, n, g)
    BY EmplacedHasEffect
<1>2. /\ Exists(g) = Exists(f) \cup {i}
      /\ \A u \in Exists(g) : g.node[u] = IF u = i THEN InBlock(n, b) ELSE f.node[u]
      /\ \A v \in Exists(g) :
             /\ UsersOf(g, v) \subseteq (IF v = i THEN {} ELSE UsersOf(f, v)) \cup {i}
             /\ \A u : Entries(g, v, u) = (IF v = i THEN 0 ELSE Entries(f, v, u)) + NewEntries(n, i, v, u)
    BY <1>1 DEF EmplacedEffect
<1>3. Registered(f) /\ (\A u \in Exists(f) : IsFiniteSet(SlotsBy(f, u)))
    BY DEF Sound, Accounted
<1>4. \A v \in Exists(f) : UsersOf(f, v) \subseteq Exists(f)
    BY UsersAreKnown
<1>5. ASSUME NEW v \in Exists(g)
      PROVE  UsersOf(g, v) \subseteq Exists(g)
    BY <1>2, <1>4
<1>6. ASSUME NEW v \in Exists(g), Opcode(g, i) \in Registers
      PROVE  Entries(g, v, i) = Cardinality(SlotsOf(g, i, v))
    <2>1. Opcode(g, i) = n.opcode /\ g.node[i].operands = n.operands
        BY <1>2 DEF Opcode, InBlock
    <2>2. SlotsOf(g, i, v) = {s \in DOMAIN n.operands : n.operands[s] = v}
        BY <2>1 DEF SlotsOf, Operand
    <2>3. Cardinality(SlotsOf(g, i, v)) \in Nat
        BY <2>1, FiniteSlots DEF NewNode, SlotsBy
    <2>4. NewEntries(n, i, v, i) = Cardinality(SlotsOf(g, i, v))
        BY <1>6, <2>1, <2>2 DEF NewEntries
    <2>5. (IF v = i THEN 0 ELSE Entries(f, v, i)) = 0
        BY <1>2, <1>4 DEF Entries
    <2>6. QED
        BY <1>2, <2>3, <2>4, <2>5
<1>7. ASSUME NEW v \in Exists(g), NEW u \in Exists(f), Opcode(g, u) \in Registers
      PROVE  Entries(g, v, u) = Cardinality(SlotsOf(g, u, v))
    <2>1. Opcode(f, u) \in Registers /\ SlotsOf(g, u, v) = SlotsOf(f, u, v) /\ NewEntries(n, i, v, u) = 0
        BY <1>2, <1>7 DEF Opcode, SlotsOf, Operand, NewEntries
    <2>2. CASE v = i
        <3>1. SlotsOf(f, u, v) = {}
            BY <1>3, <2>1, <2>2 DEF Registered, SlotsOf, SlotsBy
        <3>2. Entries(g, v, u) = 0 + 0
            BY <1>2, <2>1, <2>2
        <3>3. QED
            BY <2>1, <3>1, <3>2, FS_EmptySet
    <2>3. CASE v # i
        <3>1. v \in Exists(f) /\ Entries(f, v, u) = Cardinality(SlotsOf(f, u, v))
            BY <1>2, <2>1, <2>3 DEF UsersKnown
        <3>2. Entries(g, v, u) = Entries(f, v, u) + 0
            BY <1>2, <2>1, <2>3
        <3>3. Cardinality(SlotsOf(f, u, v)) \in Nat
            BY <1>3, FiniteSlots
        <3>4. QED
            BY <2>1, <3>1, <3>2, <3>3
    <2>4. QED
        BY <2>2, <2>3
<1>8. QED
    BY <1>2, <1>5, <1>6, <1>7 DEF UsersKnown

(* A function that is not undefined is not what Undefined returns.         *)
LEMMA GoesUndefined ==
    ASSUME NEW f, NEW g, g = Undefined(f), f \in IRType
    PROVE  g.undefined
BY DEF Undefined, IRType

-------------------------------------------------------------------------------
(* The steps of the clients.                                               *)

LEMMA PathsAreBlocks ==
    ASSUME NEW opcode, NEW slots, IsFiniteSet(slots), NEW b \in Block
    PROVE  Paths(opcode, slots, b) \in Seq(Block)
<1>1. CASE opcode = "br"
    <2>1. PICK c \in Nat : c = Cardinality(slots)
        BY FS_CardinalityType
    <2>2. Paths(opcode, slots, b) = [k \in 1 .. 1 + c |-> b]
        BY <1>1, <2>1 DEF Paths
    <2>3. 1 + c \in Nat
        OBVIOUS
    <2>4. QED
        BY <2>2, <2>3
<1>2. CASE opcode # "br"
    BY <1>2 DEF Paths
<1>3. QED
    BY <1>1, <1>2

LEMMA NodesAreNew ==
    ASSUME NEW f, f = ir, Sound(f), NEW opcode \in Opcodes, NEW b \in Block, NEW n \in Nodes(opcode, b)
    PROVE  NewNode(f, n) /\ n.opcode = opcode
<1>1. PICK values : values = Values
    OBVIOUS
<1>2. PICK slots \in SlotSets(opcode) :
          n \in [opcode   : {opcode},
                type     : {TypeOf(opcode)},
                attr     : IF opcode = "call" THEN Callee ELSE {""},
                operands : [slots -> values],
                paths    : {Paths(opcode, slots, b)}]
    BY <1>1 DEF Nodes
<1>3. (IF opcode = "call" THEN Callee ELSE {""}) \subseteq Callee \cup {""}
    OBVIOUS
<1>4. /\ n.opcode = opcode /\ n.type = TypeOf(opcode) /\ n.attr \in Callee \cup {""}
      /\ n.operands \in [slots -> values] /\ n.paths = Paths(opcode, slots, b)
    BY <1>2, <1>3
<1>5. opcode \in {"const", "bin", "ret", "br", "phi", "check", "load", "call"}
    BY IRAssumption
<1>6. /\ slots \in SUBSET {"lhs", "rhs", "value", "condition", "input", "argument"}
      /\ slots \in {{}, {"lhs", "rhs"}, {"value"}, {"condition"}, {"input"}, {"argument"}}
      /\ opcode = "ret" => slots \subseteq {"value"}
      /\ opcode = "br" => slots \subseteq {"condition"}
      /\ opcode = "const" => slots = {}
    BY <1>2, <1>5 DEF SlotSets
<1>7. IsFiniteSet(slots)
    <2>1. IsFiniteSet({}) /\ \A x : IsFiniteSet({x})
        BY FS_EmptySet, FS_Singleton
    <2>2. IsFiniteSet({"lhs"} \cup {"rhs"})
        BY <2>1, FS_AddElement
    <2>3. {"lhs", "rhs"} = {"lhs"} \cup {"rhs"}
        OBVIOUS
    <2>4. QED
        BY <1>6, <2>1, <2>2, <2>3
<1>8. n.paths \in Seq(Block)
    BY <1>4, <1>7, PathsAreBlocks
<1>9. \A v \in Values : v \in Exists(f) /\ ~IsVoid(f, v)
    BY DEF Values
<1>10. n.operands \in [slots -> Exists(f)] /\ DOMAIN n.operands = slots
       /\ \A s \in slots : ~IsVoid(f, n.operands[s])
    BY <1>1, <1>4, <1>9
<1>11. n.type \in {"void", "value"} /\ n.attr \in Callee \cup {""}
    BY <1>4 DEF TypeOf
<1>12. slots \in SUBSET Slot
    BY <1>6 DEF Slot
<1>13. QED
    BY <1>4, <1>6, <1>7, <1>8, <1>10, <1>11, <1>12 DEF NewNode

LEMMA InitSound ==
    ASSUME Init
    PROVE  IInv
<1>1. PICK f : f = ir
    OBVIOUS
<1>2. /\ f.body = [b \in Block |-> << >>] /\ f.node = << >> /\ f.users = << >>
      /\ f.first_non_phi = [b \in Block |-> End] /\ f.predecessors = [b \in Block |-> {}]
      /\ f.rets = {} /\ f.callees = {} /\ f.undefined = FALSE
    BY <1>1 DEF Init, EmptyFunction
<1>3. f = [body |-> f.body, node |-> f.node, users |-> f.users, first_non_phi |-> f.first_non_phi,
           predecessors |-> f.predecessors, rets |-> f.rets, callees |-> f.callees,
           undefined |-> f.undefined]
    BY <1>1 DEF Init, EmptyFunction
<1>4. Exists(f) = {} /\ DOMAIN f.users = {}
    BY <1>2 DEF Exists
<1>5. f.node \in [{} -> NodeType] /\ f.users \in [{} -> UserBag] /\ {} \in SUBSET Instr
    BY <1>2
<1>6. /\ f.body \in [Block -> Seq(Instr)] /\ f.first_non_phi \in [Block -> Instr \cup {End}]
      /\ f.predecessors \in [Block -> SUBSET Block]
      /\ f.rets \in SUBSET Instr /\ f.callees \in SUBSET (Callee \cup {""}) /\ f.undefined \in BOOLEAN
    <2>1. << >> \in Seq(Instr) /\ {} \in SUBSET Block
        OBVIOUS
    <2>2. f.body \in [Block -> Seq(Instr)]
        BY <1>2, <2>1
    <2>3. f.first_non_phi \in [Block -> Instr \cup {End}]
        BY <1>2
    <2>4. f.predecessors \in [Block -> SUBSET Block]
        BY <1>2, <2>1
    <2>5. f.rets \in SUBSET Instr /\ f.callees \in SUBSET (Callee \cup {""}) /\ f.undefined \in BOOLEAN
        BY <1>2
    <2>6. QED
        BY <2>2, <2>3, <2>4, <2>5
<1>7. /\ f.node \in UNION {[instrs -> NodeType] : instrs \in SUBSET Instr}
      /\ f.users \in UNION {[instrs -> UserBag] : instrs \in SUBSET Instr}
    BY <1>5
<1>8. f \in IRType
    BY <1>3, <1>6, <1>7 DEF IRType
<1>9. Accounted(f)
    BY <1>2, <1>4, FS_EmptySet DEF Accounted
<1>10. \A b \in Block : Parted(f, b)
    BY <1>2 DEF Parted
<1>11. Registered(f)
    BY <1>4 DEF Registered
<1>12. QED
    BY <1>1, <1>8, <1>9, <1>10, <1>11 DEF IInv, Sound

LEMMA StepSound ==
    ASSUME IInv, Next
    PROVE  IInv' /\ (ir'.undefined => Wrong(ir))
<1>1. PICK f, g : f = ir /\ g = ir'
    OBVIOUS
<1>2. Sound(f) /\ UsersKnown(f) /\ ~f.undefined
    BY <1>1 DEF IInv, Next
<1> SUFFICES Sound(g) /\ (f.undefined = g.undefined \/ Wrong(f))
    BY <1>1, <1>2 DEF IInv
<1>3. CASE Emplace
    <2>1. PICK opcode \in Opcodes, b \in Block, i \in Instr \ Exists(f) :
              \E p \in 1 .. Len(f.body[b]) + 1, n \in Nodes(opcode, b) :
                  Placeable(opcode, b, p) /\ g = Emplaced(f, b, p, i, n)
        BY <1>1, <1>3 DEF Emplace
    <2>2. PICK p \in 1 .. Len(f.body[b]) + 1, n \in Nodes(opcode, b) :
              Placeable(opcode, b, p) /\ g = Emplaced(f, b, p, i, n)
        BY <2>1
    <2>3. NewNode(f, n) /\ n.opcode = opcode
        BY <1>1, <1>2, NodesAreNew
    <2>4. Fits(f, n.opcode, b, p)
        BY <1>1, <2>2, <2>3 DEF Placeable, Fits
    <2>5. Sound(g) /\ g.undefined = f.undefined
        BY <1>2, <2>2, <2>3, <2>4, EmplaceKeeps
    <2>6. QED
        BY <2>5
<1>4. CASE AddPath
    <2>1. PICK phi \in Exists(f), v \in Exists(f), b \in Block :
              Opcode(f, phi) = "phi" /\ ~IsVoid(f, v) /\ g = PathAdded(f, phi, b, v)
        BY <1>1, <1>4 DEF AddPath, Phis, Values
    <2>2. QED
        BY <1>2, <2>1, AddKeeps
<1>5. CASE RemovePath
    <2>1. PICK phi \in Exists(f) :
              Opcode(f, phi) = "phi" /\ \E b \in SlotsBy(f, phi) : g = PathRemoved(f, phi, b)
        BY <1>1, <1>5 DEF RemovePath, Phis, SlotsBy
    <2>2. PICK b \in SlotsBy(f, phi) : g = PathRemoved(f, phi, b)
        BY <2>1
    <2>3. QED
        BY <1>2, <2>1, <2>2, DropKeeps
<1>6. CASE SetOperand
    <2>1. PICK i \in Exists(f), v \in Exists(f) :
              /\ Opcode(f, i) \in Registers /\ ~IsVoid(f, v)
              /\ \E s \in SlotsBy(f, i) : g = OperandSet(f, i, s, v)
        BY <1>1, <1>6 DEF SetOperand, Values, SlotsBy, Registers
    <2>2. PICK s \in SlotsBy(f, i) : g = OperandSet(f, i, s, v)
        BY <2>1
    <2>3. QED
        BY <1>2, <2>1, <2>2, SetKeeps
<1>7. CASE ReplaceInstruction
    <2>1. PICK from \in Exists(f), to \in Exists(f) :
              from # to /\ ~IsVoid(f, to) /\ g = InstructionReplaced(f, from, to)
        BY <1>1, <1>7 DEF ReplaceInstruction, Values
    <2>2. QED
        BY <1>2, <2>1, ReplaceKeeps
<1>8. CASE RemoveInstruction
    <2>1. PICK i \in Exists(f) : IsVoid(f, i) /\ g = InstructionRemoved(f, i)
        BY <1>1, <1>8 DEF RemoveInstruction
    <2>2. QED
        BY <1>2, <2>1, RemoveKeeps
<1>9. QED
    BY <1>3, <1>4, <1>5, <1>6, <1>7, <1>8 DEF Next

(* What the invariant rests on: instructions are typed, exist once in one  *)
(* block, and first_non_phi_, users_ and operands fit together, whatever   *)
(* clients of emplace, the setters, replace and remove do.                 *)
THEOREM IRIsSound == Spec => []IInv
<1>1. IInv /\ [Next]_ir => IInv'
    <2> SUFFICES ASSUME IInv, [Next]_ir PROVE IInv'
        OBVIOUS
    <2>1. CASE Next
        BY <2>1, StepSound
    <2>2. CASE UNCHANGED ir
        BY <2>2 DEF IInv
    <2>3. QED
        BY <2>1, <2>2
<1>2. Init => IInv
    BY InitSound
<1>3. QED
    BY <1>1, <1>2, PTL DEF Spec

(* basic_block.hpp, lines 106-111, 127-129 and 160-174: first_non_phi_     *)
(* parts a block into its PHIs and the rest, after any emplace and erase.  *)
THEOREM IRPhisBeforeFirstNonPhi == Spec => []PhisBeforeFirstNonPhi
<1>1. IInv => PhisBeforeFirstNonPhi
    <2> SUFFICES ASSUME IInv, NEW b \in Block, NEW p \in DOMAIN ir.body[b]
                 PROVE  Opcode(ir, ir.body[b][p]) = "phi" <=>
                            \/ ir.first_non_phi[b] = End
                            \/ p < SelectInSeq(ir.body[b], LAMBDA i : i = ir.first_non_phi[b])
        BY DEF PhisBeforeFirstNonPhi
    <2>1. PICK f : f = ir
        OBVIOUS
    <2>2. f.body \in [Block -> Seq(Instr)] /\ Accounted(f) /\ Parted(f, b)
        BY <2>1 DEF IInv, Sound, IRType
    <2>3. PICK s \in Seq(Instr) : s = f.body[b]
        BY <2>2
    <2>4. DOMAIN s = 1 .. Len(s) /\ Len(s) \in Nat /\ p \in 1 .. Len(s)
        BY <2>1, <2>3
    <2>5. PICK first \in 1 .. Len(s) + 1 :
              /\ f.first_non_phi[b] = IF first = Len(s) + 1 THEN End ELSE s[first]
              /\ \A k \in 1 .. Len(s) : Opcode(f, s[k]) = "phi" <=> k < first
        BY <2>2, <2>3, <2>4 DEF Parted, IsPhi
    <2>6. CASE first = Len(s) + 1
        BY <2>1, <2>3, <2>4, <2>5, <2>6
    <2>7. CASE first # Len(s) + 1
        <3>1. first \in 1 .. Len(s) /\ s[first] # End /\ f.first_non_phi[b] = s[first]
            BY <2>4, <2>5, <2>7, IRAssumption
        <3>2. \A k \in 1 .. Len(s) : s[k] = s[first] => k = first
            BY <2>2, <2>3, <2>4, <3>1 DEF Accounted
        <3>3. SelectInSeq(s, LAMBDA i : i = s[first]) = first
            BY <2>4, <3>1, <3>2, SelectFacts
        <3>4. SelectInSeq(ir.body[b], LAMBDA i : i = ir.first_non_phi[b]) =
                  SelectInSeq(s, LAMBDA i : i = s[first])
            BY <2>1, <2>3, <3>1 DEF SelectInSeq
        <3>5. QED
            BY <2>1, <2>3, <2>4, <2>5, <3>1, <3>3, <3>4
    <2>8. QED
        BY <2>6, <2>7
<1>2. QED
    BY <1>1, IRIsSound, PTL

(* basic_block.hpp, lines 151-158: no instruction that registers is left   *)
(* with an operand that replace_instruction or remove_instruction deleted. *)
THEOREM IROperandsExist == Spec => []OperandsExist
<1>1. IInv => OperandsExist
    <2> SUFFICES ASSUME IInv, NEW u \in Exists(ir), Opcode(ir, u) \in Registers
                 PROVE  Range(ir.node[u].operands) \subseteq Exists(ir)
        BY DEF OperandsExist
    <2>1. \A s \in SlotsBy(ir, u) : Operand(ir, u, s) \in Exists(ir)
        BY DEF IInv, Sound, Registered
    <2>2. QED
        BY <2>1 DEF Range, SlotsBy, Operand
<1>2. QED
    BY <1>1, IRIsSound, PTL

(* instruction.cpp, lines 30-85: only the listed instructions make walking *)
(* users_, or removing an instruction as a user, go wrong.                 *)
THEOREM IRGoesWrongOnly == Spec => GoesWrongOnly
<1>1. IInv /\ [Next]_ir =>
          [ir'.undefined =>
              \E i \in Exists(ir) :
                  \/ Opcode(ir, i) = "phi" /\ \E v \in Exists(ir) : Cardinality(SlotsOf(ir, i, v)) > 1
                  \/ IsTerminator(Opcode(ir, i)) /\ ir.node[i].operands = << >>
                  \/ Opcode(ir, i) \in {"check", "load"} /\ Freed \in Range(ir.node[i].operands)]_ir
    <2> SUFFICES ASSUME IInv, Next, ir'.undefined PROVE Wrong(ir)
        BY DEF Wrong
    <2>1. QED
        BY StepSound
<1>2. QED
    BY <1>1, IRIsSound, PTL DEF Spec, GoesWrongOnly

LEMMA StepKnown ==
    ASSUME IInv, Next, ~ir'.undefined
    PROVE  UsersKnown(ir') \/ Excused(ir, ir')
<1>1. PICK f, g : f = ir /\ g = ir'
    OBVIOUS
<1>2. Sound(f) /\ UsersKnown(f) /\ f \in IRType /\ g # Undefined(f)
    BY <1>1, GoesUndefined DEF IInv, Next, Sound
<1> SUFFICES UsersKnown(g) \/ Excused(f, g)
    BY <1>1
<1>3. CASE Emplace
    <2>1. PICK opcode \in Opcodes, b \in Block, i \in Instr \ Exists(f) :
              \E p \in 1 .. Len(f.body[b]) + 1, n \in Nodes(opcode, b) :
                  Placeable(opcode, b, p) /\ g = Emplaced(f, b, p, i, n)
        BY <1>1, <1>3 DEF Emplace
    <2>2. PICK p \in 1 .. Len(f.body[b]) + 1, n \in Nodes(opcode, b) :
              Placeable(opcode, b, p) /\ g = Emplaced(f, b, p, i, n)
        BY <2>1
    <2>3. NewNode(f, n) /\ n.opcode = opcode
        BY <1>1, <1>2, NodesAreNew
    <2>4. Fits(f, n.opcode, b, p)
        BY <1>1, <2>2, <2>3 DEF Placeable, Fits
    <2>5. QED
        BY <1>2, <2>2, <2>3, <2>4, EmplaceKnown
<1>4. CASE AddPath
    <2>1. PICK phi \in Exists(f), v \in Exists(f), b \in Block :
              Opcode(f, phi) = "phi" /\ ~IsVoid(f, v) /\ g = PathAdded(f, phi, b, v)
        BY <1>1, <1>4 DEF AddPath, Phis, Values
    <2>2. QED
        BY <1>2, <2>1, AddKnown
<1>5. CASE RemovePath
    <2>1. PICK phi \in Exists(f) :
              Opcode(f, phi) = "phi" /\ \E b \in SlotsBy(f, phi) : g = PathRemoved(f, phi, b)
        BY <1>1, <1>5 DEF RemovePath, Phis, SlotsBy
    <2>2. PICK b \in SlotsBy(f, phi) : g = PathRemoved(f, phi, b)
        BY <2>1
    <2>3. QED
        BY <1>2, <2>1, <2>2, DropKnown
<1>6. CASE SetOperand
    <2>1. PICK i \in Exists(f), v \in Exists(f) :
              Opcode(f, i) \in Registers /\ \E s \in SlotsBy(f, i) : g = OperandSet(f, i, s, v)
        BY <1>1, <1>6 DEF SetOperand, Values, SlotsBy, Registers
    <2>2. PICK s \in SlotsBy(f, i) : g = OperandSet(f, i, s, v)
        BY <2>1
    <2>3. QED
        BY <1>2, <2>1, <2>2, SetKnown
<1>7. CASE ReplaceInstruction
    <2>1. PICK from \in Exists(f), to \in Exists(f) :
              from # to /\ ~IsVoid(f, to) /\ g = InstructionReplaced(f, from, to)
        BY <1>1, <1>7 DEF ReplaceInstruction, Values
    <2>2. g = Erased(RemovedAsUser(Replaced(f, from, to), from), from)
        BY <1>2, <2>1 DEF InstructionReplaced
    <2>3. QED
        BY <1>2, <2>1, <2>2, ReplaceKnown
<1>8. CASE RemoveInstruction
    <2>1. PICK i \in Exists(f) : g = InstructionRemoved(f, i)
        BY <1>1, <1>8 DEF RemoveInstruction
    <2>2. g = Erased(RemovedAsUser(f, i), i)
        BY <1>2, <2>1 DEF InstructionRemoved
    <2>3. QED
        BY <1>2, <2>1, <2>2, RemoveKnown
<1>9. QED
    BY <1>3, <1>4, <1>5, <1>6, <1>7, <1>8 DEF Next

(* instruction.hpp, lines 94-95 and 124-128: users_ stays the multiset of  *)
(* uses, however clients emplace, set, replace and remove, but for the two *)
(* things that UsersWrongOnly names.                                       *)
THEOREM IRUsersWrongOnly == Spec => UsersWrongOnly
<1>1. IInv /\ [Next]_ir =>
          [~ir'.undefined /\ ~UsersKnown(ir') =>
              \E u \in Exists(ir) \cap Exists(ir') :
                  \/ \E v \in Exists(ir) : Cardinality(SlotsOf(ir, u, v)) > 1 /\ SlotsOf(ir', u, v) # {}
                  \/ Opcode(ir, u) = "phi" /\ ir'.node[u] = ir.node[u] /\ ir.node[u].operands # << >>]_ir
    <2> SUFFICES ASSUME IInv, Next, ~ir'.undefined, ~UsersKnown(ir') PROVE Excused(ir, ir')
        BY DEF Excused, OneOfTwo, PathThere
    <2>1. QED
        BY StepKnown
<1>2. QED
    BY <1>1, IRIsSound, PTL DEF Spec, UsersWrongOnly
===============================================================================
