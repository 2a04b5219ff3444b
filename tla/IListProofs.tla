------------------------------ MODULE IListProofs ------------------------------
(***************************************************************************)
(* Proofs about module IList, for every finite set of nodes, every set of  *)
(* lists and every order of calls: the rings of pointers are the sequences *)
(* of module NodeSequences.                                                *)
(***************************************************************************)
EXTENDS IList, SequenceTheorems, FiniteSetTheorems, WellFoundedInduction, TLAPS

-------------------------------------------------------------------------------
(* Natural numbers.                                                        *)

(* Min is the least element of a set of natural numbers, finite or not.    *)
LEMMA SmallestNat ==
    ASSUME NEW S \in SUBSET Nat, S # {}
    PROVE  Min(S) \in S /\ \A y \in S : Min(S) <= y
<1> DEFINE R == OpToRel(<, Nat)
<1>1. \A x, y \in Nat : x < y <=> <<x, y>> \in R
    BY DEF OpToRel
<1>2. \E x \in S : \A y \in S : ~ (<<y, x>> \in R)
    <2> HIDE DEF R
    <2>1. IsWellFoundedOn(R, Nat)
        BY NatLessThanWellFounded DEF R
    <2>2. QED
        BY <2>1, WFMin
<1> HIDE DEF R
<1>3. \E x \in S : \A y \in S : x <= y
    <2>1. PICK x \in S : \A y \in S : ~ (<<y, x>> \in R)
        BY <1>2
    <2>2. \A y \in S : x \in Nat /\ y \in Nat
        OBVIOUS
    <2>3. \A y \in S : ~ (y < x)
        BY <1>1, <2>1, <2>2
    <2>4. QED
        BY <2>2, <2>3
<1>4. QED
    BY <1>3 DEF Min


-------------------------------------------------------------------------------
(* What the rings represent: S is the sequence of nodes of every list.     *)

(* the cell k steps from the sentinel l of a list with the nodes s *)
Ring(s, l, k) == IF k \in 1 .. Len(s) THEN s[k] ELSE l

Typed(S) == DOMAIN S \subseteq List /\ S \in [DOMAIN S -> Seq(Node)]

Apart(S) ==
    \A l, m \in DOMAIN S : \A i \in 1 .. Len(S[l]), j \in 1 .. Len(S[m]) :
        S[l][i] = S[m][j] => l = m /\ i = j

NodesIn(S) == {n \in Node : \E l \in DOMAIN S : \E i \in 1 .. Len(S[l]) : n = S[l][i]}

Between(s, i, j) == {s[x] : x \in i .. j}

Elements(t) == {t[i] : i \in 1 .. Len(t)}

CutFrom(S, m, i, j) == [S EXCEPT ![m] = Abstract!Cut(@, i, j)]

PasteInto(S, l, p, t) == [S EXCEPT ![l] = Abstract!Paste(@, p, t)]

(* the nodes i to j of m go before pos *)
Spliced(S, l, pos, m, i, j) ==
    PasteInto(CutFrom(S, m, i, j), l, Abstract!Index(CutFrom(S, m, i, j)[l], pos), SubSeq(S[m], i, j))

Linked(S, k) ==
    \A l \in DOMAIN S : \A i \in 0 .. Len(S[l]) :
        /\ k.next[Ring(S[l], l, i)] = Ring(S[l], l, i + 1)
        /\ k.prev[Ring(S[l], l, i + 1)] = Ring(S[l], l, i)

LinkType == [next : [Cell -> Cell \cup {Null}], prev : [Cell -> Cell \cup {Null}]]

(* t is a stretch of linked nodes that are in no list *)
Stretch(t, S, k) ==
    /\ t \in Seq(Node) /\ Len(t) > 0
    /\ \A i, j \in 1 .. Len(t) : t[i] = t[j] => i = j
    /\ \A i \in 1 .. Len(t) - 1 : k.next[t[i]] = t[i + 1] /\ k.prev[t[i + 1]] = t[i]
    /\ \A i \in 1 .. Len(t) : t[i] \notin NodesIn(S)

(* the cells that exist *)
Occupied(k) == {x \in Cell : k.next[x] # Null}

(* the lists and the free nodes are what S says *)
Represents(S) ==
    /\ DOMAIN S = Live /\ Typed(S) /\ Apart(S)
    /\ Links \in LinkType /\ Linked(S, Links)
    /\ Allocated = NodesIn(S)
    /\ size_ \in [List -> Nat] /\ \A l \in Live : size_[l] = Len(S[l])

Chains == [l \in Live |-> Chain(l)]

(* The inductive invariant: the lists are rings of linked nodes that do    *)
(* not meet, and their sizes and all allocated nodes are accounted for.    *)
IInv == Represents(Chains)

-------------------------------------------------------------------------------

LEMMA CutFacts ==
    ASSUME NEW T, NEW s \in Seq(T), NEW i \in 1 .. Len(s), NEW j \in i .. Len(s)
    PROVE  /\ Abstract!Cut(s, i, j) \in Seq(T)
           /\ Len(Abstract!Cut(s, i, j)) = Len(s) - (j - i + 1)
           /\ \A x \in 1 .. Len(s) - (j - i + 1) :
                  Abstract!Cut(s, i, j)[x] = IF x < i THEN s[x] ELSE s[x + (j - i + 1)]
<1> DEFINE a == SubSeq(s, 1, i - 1)
           b == SubSeq(s, j + 1, Len(s))
<1>1. Len(s) \in Nat /\ \A x \in 1 .. Len(s) : s[x] \in T
    BY LenProperties, ElementOfSeq
<1>2. /\ a \in Seq(T) /\ Len(a) = i - 1
      /\ \A x \in 1 .. i - 1 : a[x] = s[x]
    <2>1. \A x \in 1 .. i - 1 : s[x] \in T
        BY <1>1
    <2>2. /\ a \in Seq(T)
          /\ Len(a) = IF 1 <= i - 1 THEN i - 1 - 1 + 1 ELSE 0
          /\ \A x \in 1 .. i - 1 - 1 + 1 : a[x] = s[1 + x - 1]
        BY <1>1, <2>1, SubSeqProperties
    <2> HIDE DEF a
    <2>3. QED
        BY <1>1, <2>2
<1>3. /\ b \in Seq(T) /\ Len(b) = Len(s) - j
      /\ \A x \in 1 .. Len(s) - j : b[x] = s[x + j]
    <2>1. \A x \in j + 1 .. Len(s) : s[x] \in T
        BY <1>1
    <2>2. /\ b \in Seq(T)
          /\ Len(b) = IF j + 1 <= Len(s) THEN Len(s) - (j + 1) + 1 ELSE 0
          /\ \A x \in 1 .. Len(s) - (j + 1) + 1 : b[x] = s[j + 1 + x - 1]
        BY <1>1, <2>1, SubSeqProperties
    <2> HIDE DEF b
    <2>3. QED
        BY <1>1, <2>2
<1>4. Abstract!Cut(s, i, j) = a \o b
    BY DEF Abstract!Cut
<1> DEFINE d == a \o b
<1> HIDE DEF a, b
<1>5. /\ d \in Seq(T)
      /\ Len(d) = Len(a) + Len(b)
      /\ \A x \in 1 .. Len(a) + Len(b) :
             d[x] = IF x <= Len(a) THEN a[x] ELSE b[x - Len(a)]
    BY <1>2, <1>3, ConcatProperties
<1> HIDE DEF d
<1>6. ASSUME NEW x \in 1 .. Len(s) - (j - i + 1)
      PROVE  d[x] = IF x < i THEN s[x] ELSE s[x + (j - i + 1)]
    <2>1. CASE x < i
        BY <1>1, <1>2, <1>3, <1>5, <2>1
    <2>2. CASE x >= i
        <3>1. d[x] = b[x - (i - 1)]
            BY <1>1, <1>2, <1>3, <1>5, <2>2
        <3>2. x - (i - 1) \in 1 .. Len(s) - j
            BY <1>1, <2>2
        <3>3. b[x - (i - 1)] = s[x - (i - 1) + j]
            BY <1>3, <3>2
        <3>4. QED
            BY <1>1, <2>2, <3>1, <3>3
    <2>3. QED
        BY <1>1, <2>1, <2>2
<1>7. QED
    BY <1>1, <1>2, <1>3, <1>4, <1>5, <1>6 DEF d

LEMMA PasteFacts ==
    ASSUME NEW T, NEW s \in Seq(T), NEW t \in Seq(T), NEW p \in 1 .. Len(s) + 1
    PROVE  /\ Abstract!Paste(s, p, t) \in Seq(T)
           /\ Len(Abstract!Paste(s, p, t)) = Len(s) + Len(t)
           /\ \A x \in 1 .. Len(s) + Len(t) :
                  Abstract!Paste(s, p, t)[x] =
                      IF x < p THEN s[x]
                      ELSE IF x < p + Len(t) THEN t[x - p + 1] ELSE s[x - Len(t)]
<1> DEFINE a == SubSeq(s, 1, p - 1)
           b == SubSeq(s, p, Len(s))
           c == a \o t
<1>1. Len(s) \in Nat /\ Len(t) \in Nat /\ \A x \in 1 .. Len(s) : s[x] \in T
    BY LenProperties, ElementOfSeq
<1>2. /\ a \in Seq(T) /\ Len(a) = p - 1
      /\ \A x \in 1 .. p - 1 : a[x] = s[x]
    <2>1. \A x \in 1 .. p - 1 : s[x] \in T
        BY <1>1
    <2>2. /\ a \in Seq(T)
          /\ Len(a) = IF 1 <= p - 1 THEN p - 1 - 1 + 1 ELSE 0
          /\ \A x \in 1 .. p - 1 - 1 + 1 : a[x] = s[1 + x - 1]
        BY <1>1, <2>1, SubSeqProperties
    <2> HIDE DEF a
    <2>3. QED
        BY <1>1, <2>2
<1>3. /\ b \in Seq(T) /\ Len(b) = Len(s) - p + 1
      /\ \A x \in 1 .. Len(s) - p + 1 : b[x] = s[x + p - 1]
    <2>1. \A x \in p .. Len(s) : s[x] \in T
        BY <1>1
    <2>2. /\ b \in Seq(T)
          /\ Len(b) = IF p <= Len(s) THEN Len(s) - p + 1 ELSE 0
          /\ \A x \in 1 .. Len(s) - p + 1 : b[x] = s[p + x - 1]
        BY <1>1, <2>1, SubSeqProperties
    <2> HIDE DEF b
    <2>3. QED
        BY <1>1, <2>2
<1>4. Abstract!Paste(s, p, t) = c \o b
    BY DEF Abstract!Paste
<1> HIDE DEF a, b
<1>5. /\ c \in Seq(T)
      /\ Len(c) = p - 1 + Len(t)
      /\ \A x \in 1 .. p - 1 + Len(t) : c[x] = IF x <= p - 1 THEN a[x] ELSE t[x - (p - 1)]
    <2>1. /\ c \in Seq(T)
          /\ Len(c) = Len(a) + Len(t)
          /\ \A x \in 1 .. Len(a) + Len(t) : c[x] = IF x <= Len(a) THEN a[x] ELSE t[x - Len(a)]
        BY <1>2, ConcatProperties
    <2> HIDE DEF c
    <2>2. QED
        BY <1>2, <2>1
<1> DEFINE d == c \o b
<1> HIDE DEF c
<1>6. /\ d \in Seq(T)
      /\ Len(d) = Len(c) + Len(b)
      /\ \A x \in 1 .. Len(c) + Len(b) :
             d[x] = IF x <= Len(c) THEN c[x] ELSE b[x - Len(c)]
    BY <1>3, <1>5, ConcatProperties
<1> HIDE DEF d
<1>7. ASSUME NEW x \in 1 .. Len(s) + Len(t)
      PROVE  d[x] = IF x < p THEN s[x]
                    ELSE IF x < p + Len(t) THEN t[x - p + 1] ELSE s[x - Len(t)]
    <2> DEFINE u == Len(s)
               v == Len(t)
    <2>1. u \in Nat /\ v \in Nat /\ p \in 1 .. u + 1 /\ x \in 1 .. u + v
        BY <1>1
    <2>2. /\ \A y \in 1 .. p - 1 : a[y] = s[y]
          /\ \A y \in 1 .. u - p + 1 : b[y] = s[y + p - 1]
          /\ \A y \in 1 .. p - 1 + v : c[y] = IF y <= p - 1 THEN a[y] ELSE t[y - (p - 1)]
          /\ Len(c) = p - 1 + v /\ Len(b) = u - p + 1
        BY <1>2, <1>3, <1>5
    <2> HIDE DEF u, v
    <2>3. Len(c) + Len(b) = u + v
        BY <2>1, <2>2
    <2>4. d[x] = IF x <= p - 1 + v THEN c[x] ELSE b[x - (p - 1 + v)]
        BY <1>6, <2>1, <2>2, <2>3
    <2>5. CASE x < p
        BY <2>1, <2>2, <2>4, <2>5
    <2>6. CASE p <= x /\ x < p + v
        <3>1. d[x] = t[x - (p - 1)]
            BY <2>1, <2>2, <2>4, <2>6
        <3>2. x - (p - 1) = x - p + 1
            BY <2>1
        <3>3. QED
            BY <2>1, <2>6, <3>1, <3>2 DEF u, v
    <2>7. CASE p + v <= x
        <3>1. x - (p - 1 + v) \in 1 .. u - p + 1 /\ x - (p - 1 + v) + p - 1 = x - v
            BY <2>1, <2>7
        <3>2. d[x] = s[x - v]
            BY <2>1, <2>2, <2>4, <2>7, <3>1
        <3>3. QED
            BY <2>1, <2>7, <3>2 DEF u, v
    <2>8. QED
        BY <2>1, <2>5, <2>6, <2>7 DEF u, v
<1>8. QED
    BY <1>1, <1>3, <1>4, <1>5, <1>6, <1>7 DEF d

-------------------------------------------------------------------------------

LEMMA TypedFacts ==
    ASSUME NEW S, Typed(S), NEW l \in DOMAIN S
    PROVE  /\ l \in List /\ S[l] \in Seq(Node) /\ Len(S[l]) \in Nat
           /\ DOMAIN S[l] = 1 .. Len(S[l])
           /\ \A i \in 1 .. Len(S[l]) : S[l][i] \in Node
BY LenProperties, ElementOfSeq DEF Typed

LEMMA RingCells ==
    ASSUME NEW S, Typed(S), NEW l \in DOMAIN S, NEW i \in Int
    PROVE  Ring(S[l], l, i) \in Cell /\ Ring(S[l], l, i) # Null
BY TypedFacts, IListAssumption DEF Ring, Cell

(* The cells of all rings are different.                                   *)
LEMMA RingsDiffer ==
    ASSUME NEW S, Typed(S), Apart(S), NEW l \in DOMAIN S, NEW m \in DOMAIN S,
           NEW i \in 0 .. Len(S[l]) + 1, NEW j \in 0 .. Len(S[m]) + 1,
           Ring(S[l], l, i) = Ring(S[m], m, j)
    PROVE  /\ l = m
           /\ i = j \/ (i \in {0, Len(S[l]) + 1} /\ j \in {0, Len(S[l]) + 1})
<1>1. /\ l \in List /\ m \in List /\ Len(S[l]) \in Nat /\ Len(S[m]) \in Nat
      /\ \A x \in 1 .. Len(S[l]) : S[l][x] \in Node
      /\ \A x \in 1 .. Len(S[m]) : S[m][x] \in Node
    BY TypedFacts
<1>2. CASE i \in 1 .. Len(S[l]) /\ j \in 1 .. Len(S[m])
    BY <1>2 DEF Ring, Apart
<1>3. CASE i \notin 1 .. Len(S[l]) /\ j \notin 1 .. Len(S[m])
    BY <1>1, <1>3 DEF Ring
<1>4. CASE i \in 1 .. Len(S[l]) /\ j \notin 1 .. Len(S[m])
    BY <1>1, <1>4, IListAssumption DEF Ring
<1>5. CASE i \notin 1 .. Len(S[l]) /\ j \in 1 .. Len(S[m])
    BY <1>1, <1>5, IListAssumption DEF Ring
<1>6. QED
    BY <1>2, <1>3, <1>4, <1>5

(* A stretch that is cut out leaves the rings linked.                      *)
LEMMA CutRings ==
    ASSUME NEW S, Typed(S), Apart(S), NEW k \in LinkType, Linked(S, k),
           NEW m \in DOMAIN S, NEW i \in 1 .. Len(S[m]), NEW j \in i .. Len(S[m])
    PROVE  LET S1 == CutFrom(S, m, i, j)
               k1 == Connect(k, Ring(S[m], m, i - 1), Ring(S[m], m, j + 1))
           IN  /\ Typed(S1) /\ Apart(S1) /\ k1 \in LinkType /\ Linked(S1, k1)
               /\ DOMAIN S1 = DOMAIN S
<1> DEFINE c  == Abstract!Cut(S[m], i, j)
           S1 == [S EXCEPT ![m] = c]
           a  == Ring(S[m], m, i - 1)
           b  == Ring(S[m], m, j + 1)
           k1 == Connect(k, a, b)
           w  == j - i + 1
           n  == Len(S[m])
<1>1. /\ m \in List /\ S[m] \in Seq(Node) /\ n \in Nat
      /\ \A x \in 1 .. n : S[m][x] \in Node
    BY TypedFacts
<1>2. /\ c \in Seq(Node) /\ Len(c) = n - w
      /\ \A x \in 1 .. n - w : c[x] = IF x < i THEN S[m][x] ELSE S[m][x + w]
    BY <1>1, CutFacts
<1>3. /\ a \in Cell /\ a # Null /\ b \in Cell /\ b # Null
    BY <1>1, RingCells
<1> HIDE DEF c, a, b
<1>4. /\ k1.next = [k.next EXCEPT ![a] = b] /\ k1.prev = [k.prev EXCEPT ![b] = a]
      /\ k1 \in LinkType
    BY <1>3 DEF LinkType, Connect
<1> HIDE DEF k1
<1>10. /\ \A z \in Cell : z # a => k1.next[z] = k.next[z]
       /\ \A z \in Cell : z # b => k1.prev[z] = k.prev[z]
    BY <1>4 DEF LinkType
<1>5. /\ DOMAIN S1 = DOMAIN S /\ S1[m] = c
      /\ \A l \in DOMAIN S : l # m => S1[l] = S[l]
    BY DEF Typed
<1>6. Typed(S1)
    BY <1>2 DEF Typed
<1> HIDE DEF S1
<1>7. Apart(S1)
    <2>1. ASSUME NEW l \in DOMAIN S, NEW x \in 1 .. Len(S1[l])
          PROVE  \E y \in 1 .. Len(S[l]) :
                     S1[l][x] = S[l][y] /\ y = IF l = m /\ x >= i THEN x + w ELSE x
        <3>1. CASE l # m
            BY <1>5, <3>1
        <3>2. CASE l = m /\ x < i
            <4>1. S1[l][x] = c[x] /\ x \in 1 .. n - w
                BY <1>2, <1>5, <3>2
            <4>2. x \in 1 .. n /\ c[x] = S[m][x]
                BY <1>1, <1>2, <3>2, <4>1
            <4>3. QED
                BY <3>2, <4>1, <4>2
        <3>3. CASE l = m /\ x >= i
            <4>1. S1[l][x] = c[x] /\ x \in 1 .. n - w
                BY <1>2, <1>5, <3>3
            <4>2. x + w \in 1 .. n /\ c[x] = S[m][x + w]
                BY <1>1, <1>2, <3>3, <4>1
            <4>3. QED
                BY <3>3, <4>1, <4>2
        <3>4. Len(S1[l]) \in Nat
            BY <1>5, <1>6, TypedFacts
        <3>5. QED
            BY <3>1, <3>2, <3>3, <3>4
    <2>2. ASSUME NEW l \in DOMAIN S, NEW o \in DOMAIN S,
                 NEW x \in 1 .. Len(S1[l]), NEW y \in 1 .. Len(S1[o]),
                 S1[l][x] = S1[o][y]
          PROVE  l = o /\ x = y
        <3>1. PICK x1 \in 1 .. Len(S[l]) :
                  S1[l][x] = S[l][x1] /\ x1 = IF l = m /\ x >= i THEN x + w ELSE x
            BY <2>1
        <3>2. PICK y1 \in 1 .. Len(S[o]) :
                  S1[o][y] = S[o][y1] /\ y1 = IF o = m /\ y >= i THEN y + w ELSE y
            BY <2>1
        <3>3. l = o /\ x1 = y1
            <4>1. S[l][x1] = S[o][y1]
                BY <2>2, <3>1, <3>2
            <4>2. QED
                BY <4>1 DEF Apart
        <3>4. Len(S1[l]) \in Nat /\ Len(S1[o]) \in Nat
            BY <1>5, <1>6, TypedFacts
        <3>5. x \in Int /\ y \in Int /\ i \in Int /\ w \in Nat
            BY <1>1, <3>4
        <3>6. QED
            BY <3>1, <3>2, <3>3, <3>5
    <2>3. QED
        BY <1>5, <2>2 DEF Apart
<1>8. Linked(S1, k1)
    <2>1. ASSUME NEW l \in DOMAIN S, l # m, NEW x \in 0 .. Len(S[l])
          PROVE  /\ k1.next[Ring(S[l], l, x)] = Ring(S[l], l, x + 1)
                 /\ k1.prev[Ring(S[l], l, x + 1)] = Ring(S[l], l, x)
        <3>1. /\ x \in 0 .. Len(S[l]) + 1 /\ x + 1 \in 0 .. Len(S[l]) + 1 /\ x \in Int
              /\ i - 1 \in 0 .. n + 1 /\ j + 1 \in 0 .. n + 1
            BY <1>1, TypedFacts
        <3>2. Ring(S[l], l, x) # a /\ Ring(S[l], l, x + 1) # b
            BY <2>1, <3>1, RingsDiffer DEF a, b
        <3>3. Ring(S[l], l, x) \in Cell /\ Ring(S[l], l, x + 1) \in Cell
            BY <3>1, RingCells
        <3>4. /\ k.next[Ring(S[l], l, x)] = Ring(S[l], l, x + 1)
              /\ k.prev[Ring(S[l], l, x + 1)] = Ring(S[l], l, x)
            BY DEF Linked
        <3>5. QED
            BY <1>4, <3>2, <3>3, <3>4 DEF LinkType
    <2>2. ASSUME NEW x \in 0 .. Len(c)
          PROVE  /\ k1.next[Ring(c, m, x)] = Ring(c, m, x + 1)
                 /\ k1.prev[Ring(c, m, x + 1)] = Ring(c, m, x)
        <3>0. x \in 0 .. n - w /\ w \in Nat /\ w <= n /\ i \in 1 .. n /\ j = i + w - 1 /\ n \in Nat
            <4>1. x \in 0 .. n - w
                BY <1>2
            <4>2. /\ n \in Nat /\ i \in 1 .. n /\ j \in i .. n
                BY <1>1
            <4> HIDE DEF n
            <4>3. QED
                BY <4>1, <4>2
        <3>1. \A y \in 0 .. n - w + 1 :
                  Ring(c, m, y) = Ring(S[m], m, IF y < i THEN y ELSE y + w)
            BY <1>1, <1>2, <3>0 DEF Ring
        <3>2. CASE x + 1 < i
            <4>1. Ring(c, m, x) = Ring(S[m], m, x) /\ Ring(c, m, x + 1) = Ring(S[m], m, x + 1)
                BY <3>0, <3>1, <3>2
            <4>2. /\ k.next[Ring(S[m], m, x)] = Ring(S[m], m, x + 1)
                  /\ k.prev[Ring(S[m], m, x + 1)] = Ring(S[m], m, x)
                <5>1. x \in 0 .. n
                    BY <3>0, <3>2
                <5>2. QED
                    BY <5>1 DEF Linked
            <4>3. Ring(S[m], m, x) # a
                <5>1. x \in 0 .. n + 1 /\ i - 1 \in 0 .. n + 1 /\ x # i - 1 /\ x # n + 1 /\ i - 1 # n + 1
                    BY <3>0, <3>2
                <5>2. QED
                    BY <5>1, RingsDiffer DEF a
            <4>4. Ring(S[m], m, x + 1) # b
                <5>1. x + 1 \in 0 .. n + 1 /\ j + 1 \in 0 .. n + 1 /\ x + 1 # j + 1 /\ x + 1 # 0 /\ j + 1 # 0
                    BY <3>0, <3>2
                <5>2. QED
                    BY <5>1, RingsDiffer DEF b
            <4>5. Ring(S[m], m, x) \in Cell /\ Ring(S[m], m, x + 1) \in Cell
                BY <3>0, RingCells
            <4>6. QED
                BY <1>10, <4>1, <4>2, <4>3, <4>4, <4>5
        <3>3. CASE x + 1 = i
            <4>1. Ring(c, m, x) = a /\ Ring(c, m, x + 1) = b
                <5>1. x = i - 1 /\ x + 1 + w = j + 1 /\ x < i /\ ~(x + 1 < i)
                    BY <3>0, <3>3
                <5>2. x \in 0 .. n - w + 1 /\ x + 1 \in 0 .. n - w + 1
                    BY <3>0
                <5>3. QED
                    BY <3>1, <5>1, <5>2 DEF a, b
            <4>2. QED
                BY <1>3, <1>4, <4>1 DEF LinkType
        <3>4. CASE x + 1 > i
            <4>1. Ring(c, m, x) = Ring(S[m], m, x + w) /\ Ring(c, m, x + 1) = Ring(S[m], m, x + w + 1)
                <5>1. x + 1 + w = x + w + 1 /\ ~(x < i) /\ ~(x + 1 < i)
                    BY <3>0, <3>4
                <5>2. x \in 0 .. n - w + 1 /\ x + 1 \in 0 .. n - w + 1
                    BY <3>0
                <5>3. QED
                    BY <3>1, <5>1, <5>2
            <4>2. /\ k.next[Ring(S[m], m, x + w)] = Ring(S[m], m, x + w + 1)
                  /\ k.prev[Ring(S[m], m, x + w + 1)] = Ring(S[m], m, x + w)
                <5>1. x + w \in 0 .. n
                    BY <3>0
                <5>2. QED
                    BY <5>1 DEF Linked
            <4>3. Ring(S[m], m, x + w) # a
                <5>1. x + w \in 0 .. n + 1 /\ i - 1 \in 0 .. n + 1 /\ x + w # i - 1 /\ x + w # n + 1 /\ i - 1 # n + 1
                    BY <3>0, <3>4
                <5>2. QED
                    BY <5>1, RingsDiffer DEF a
            <4>4. Ring(S[m], m, x + w + 1) # b
                <5>1. x + w + 1 \in 0 .. n + 1 /\ j + 1 \in 0 .. n + 1 /\ x + w + 1 # j + 1 /\ x + w + 1 # 0 /\ j + 1 # 0
                    BY <3>0, <3>4
                <5>2. QED
                    BY <5>1, RingsDiffer DEF b
            <4>5. Ring(S[m], m, x + w) \in Cell /\ Ring(S[m], m, x + w + 1) \in Cell
                <5>1. x + w \in Int /\ x + w + 1 \in Int
                    BY <3>0
                <5>2. QED
                    BY <5>1, RingCells
            <4>6. QED
                BY <1>10, <4>1, <4>2, <4>3, <4>4, <4>5
        <3>5. QED
            BY <3>0, <3>2, <3>3, <3>4
    <2>3. QED
        BY <1>5, <2>1, <2>2 DEF Linked
<1>9. QED
    BY <1>4, <1>5, <1>6, <1>7, <1>8 DEF S1, k1, a, b, c, CutFrom

(* What is cut out is a stretch.                                           *)
LEMMA CutStretch ==
    ASSUME NEW S, Typed(S), Apart(S), NEW k \in LinkType, Linked(S, k),
           NEW m \in DOMAIN S, NEW i \in 1 .. Len(S[m]), NEW j \in i .. Len(S[m])
    PROVE  LET S1 == CutFrom(S, m, i, j)
               k1 == Connect(k, Ring(S[m], m, i - 1), Ring(S[m], m, j + 1))
               t  == SubSeq(S[m], i, j)
           IN  /\ Stretch(t, S1, k1)
               /\ Len(t) = j - i + 1
               /\ \A x \in 1 .. Len(t) : t[x] = S[m][i + x - 1]
               /\ NodesIn(S1) = NodesIn(S) \ Elements(t)
<1> DEFINE c  == Abstract!Cut(S[m], i, j)
           S1 == [S EXCEPT ![m] = c]
           a  == Ring(S[m], m, i - 1)
           b  == Ring(S[m], m, j + 1)
           k1 == Connect(k, a, b)
           w  == j - i + 1
           n  == Len(S[m])
           t  == SubSeq(S[m], i, j)
<1>1. /\ m \in List /\ S[m] \in Seq(Node) /\ n \in Nat
      /\ \A x \in 1 .. n : S[m][x] \in Node
    BY TypedFacts
<1>2. n \in Nat /\ w \in Nat /\ 0 < w /\ w <= n /\ i \in 1 .. n /\ j = i + w - 1 /\ j \in 1 .. n
    <2>1. n \in Nat /\ i \in 1 .. n /\ j \in i .. n
        BY <1>1
    <2> HIDE DEF n
    <2>2. QED
        BY <2>1
<1>3. /\ c \in Seq(Node) /\ Len(c) = n - w
      /\ \A x \in 1 .. n - w : c[x] = IF x < i THEN S[m][x] ELSE S[m][x + w]
    BY <1>1, CutFacts
<1>4. /\ t \in Seq(Node) /\ Len(t) = w
      /\ \A x \in 1 .. w : t[x] = S[m][i + x - 1]
    <2>1. \A x \in i .. j : S[m][x] \in Node
        BY <1>1, <1>2
    <2>2. /\ t \in Seq(Node)
          /\ Len(t) = IF i <= j THEN j - i + 1 ELSE 0
          /\ \A x \in 1 .. j - i + 1 : t[x] = S[m][i + x - 1]
        BY <1>2, <2>1, SubSeqProperties
    <2> HIDE DEF t, n
    <2>3. QED
        BY <1>2, <2>2
<1>5. /\ a \in Cell /\ a # Null /\ b \in Cell /\ b # Null
    BY <1>1, RingCells
<1> HIDE DEF c, a, b, t
<1>6. /\ k1.next = [k.next EXCEPT ![a] = b] /\ k1.prev = [k.prev EXCEPT ![b] = a]
    BY DEF Connect
<1> HIDE DEF k1
<1>7. /\ DOMAIN S1 = DOMAIN S /\ S1[m] = c
      /\ \A l \in DOMAIN S : l # m => S1[l] = S[l]
    BY DEF Typed
<1> HIDE DEF S1
<1>8. \A x \in 1 .. n, y \in 1 .. n : S[m][x] = S[m][y] => x = y
    BY DEF Apart
<1>9. NodesIn(S1) = NodesIn(S) \ {S[m][x] : x \in i .. j}
    <2>1. ASSUME NEW l \in DOMAIN S, l # m, NEW x \in 1 .. Len(S[l])
          PROVE  S[l][x] \notin {S[m][y] : y \in i .. j}
        <3>1. \A y \in 1 .. n : S[l][x] # S[m][y]
            BY <2>1 DEF Apart
        <3>2. QED
            BY <1>2, <3>1
    <2>2. ASSUME NEW z \in NodesIn(S1)
          PROVE  z \in NodesIn(S) \ {S[m][x] : x \in i .. j}
        <3>1. PICK l \in DOMAIN S : \E x \in 1 .. Len(S1[l]) : z = S1[l][x]
            BY <1>7 DEF NodesIn
        <3>2. CASE l # m
            BY <1>7, <2>1, <3>1, <3>2 DEF NodesIn
        <3>3. CASE l = m
            <4>1. PICK x \in 1 .. n - w : z = c[x]
                BY <1>3, <1>7, <3>1, <3>3
            <4>2. PICK y \in 1 .. n : y \notin i .. j /\ z = S[m][y]
                <5>1. x < i => x \in 1 .. n /\ x \notin i .. j
                    BY <1>2
                <5>2. ~(x < i) => x + w \in 1 .. n /\ x + w \notin i .. j
                    BY <1>2
                <5>3. QED
                    BY <1>3, <4>1, <5>1, <5>2
            <4>3. \A u \in i .. j : u \in 1 .. n
                BY <1>2
            <4>4. z \notin {S[m][u] : u \in i .. j}
                BY <1>8, <4>2, <4>3
            <4>5. z \in NodesIn(S)
                BY <1>1, <4>2 DEF NodesIn
            <4>6. QED
                BY <4>4, <4>5
        <3>4. QED
            BY <3>2, <3>3
    <2>3. ASSUME NEW z \in NodesIn(S), z \notin {S[m][x] : x \in i .. j}
          PROVE  z \in NodesIn(S1)
        <3>1. PICK l \in DOMAIN S : \E x \in 1 .. Len(S[l]) : z = S[l][x]
            BY DEF NodesIn
        <3>2. CASE l # m
            BY <1>7, <3>1, <3>2 DEF NodesIn
        <3>3. CASE l = m
            <4>1. PICK x \in 1 .. n : z = S[m][x]
                BY <3>1, <3>3
            <4>2. x < i \/ x > j
                BY <1>2, <2>3, <4>1
            <4>3. PICK y \in 1 .. n - w : z = c[y]
                <5>1. x < i => x \in 1 .. n - w /\ c[x] = S[m][x]
                    BY <1>2, <1>3
                <5>2. x > j => x - w \in 1 .. n - w /\ ~(x - w < i) /\ x - w + w = x
                    BY <1>2
                <5>3. x > j => c[x - w] = S[m][x]
                    BY <1>3, <5>2
                <5>4. QED
                    BY <4>1, <4>2, <5>1, <5>2, <5>3
            <4>4. z \in Node /\ y \in 1 .. Len(S1[m])
                BY <1>3, <1>7 DEF NodesIn
            <4>5. QED
                BY <1>7, <4>3, <4>4 DEF NodesIn
        <3>4. QED
            BY <3>2, <3>3
    <2>4. QED
        BY <2>2, <2>3
<1>10. \A x \in 1 .. w : i + x - 1 \in i .. j /\ i + x - 1 \in 1 .. n
    BY <1>2
<1>11. \A x, y \in 1 .. Len(t) : t[x] = t[y] => x = y
    <2>1. \A x, y \in 1 .. w : i + x - 1 = i + y - 1 => x = y
        BY <1>2
    <2>2. QED
        BY <1>4, <1>8, <1>10, <2>1
<1>12. \A x \in 1 .. Len(t) : t[x] \notin NodesIn(S1)
    BY <1>4, <1>9, <1>10
<1>13. ASSUME NEW x \in 1 .. Len(t) - 1
       PROVE  k1.next[t[x]] = t[x + 1] /\ k1.prev[t[x + 1]] = t[x]
    <2>1. /\ x \in 1 .. w /\ x + 1 \in 1 .. w /\ i + x \in 1 .. n /\ i + x - 1 \in 1 .. n
          /\ i + x - 1 # i - 1 /\ i + x # j + 1 /\ i - 1 \in 0 .. n + 1 /\ j + 1 \in 0 .. n + 1
          /\ i + x - 1 + 1 = i + x /\ i + (x + 1) - 1 = i + x
          /\ i + x - 1 \in 0 .. n /\ i + x \in 0 .. n + 1 /\ i + x - 1 \in 0 .. n + 1
          /\ i + x - 1 \notin {0, n + 1} /\ i + x \notin {0, n + 1}
        BY <1>2, <1>4
    <2>2. t[x] = S[m][i + x - 1] /\ t[x + 1] = S[m][i + x]
        BY <1>4, <2>1
    <2>3. t[x] = Ring(S[m], m, i + x - 1) /\ t[x + 1] = Ring(S[m], m, i + x)
        BY <2>1, <2>2 DEF Ring
    <2>4. k.next[t[x]] = t[x + 1] /\ k.prev[t[x + 1]] = t[x]
        BY <2>1, <2>3 DEF Linked
    <2>5. t[x] # a
        BY <2>1, <2>3, RingsDiffer DEF a
    <2>6. t[x + 1] # b
        BY <2>1, <2>3, RingsDiffer DEF b
    <2>7. t[x] \in Cell /\ t[x + 1] \in Cell
        BY <1>1, <2>1, <2>2 DEF Cell
    <2>8. QED
        BY <1>6, <2>4, <2>5, <2>6, <2>7 DEF LinkType
<1>14. Len(t) > 0
    BY <1>2, <1>4
<1>15. Stretch(t, S1, k1)
    BY <1>4, <1>11, <1>12, <1>13, <1>14 DEF Stretch
<1>16. Elements(t) = {S[m][x] : x \in i .. j}
    <2>1. ASSUME NEW x \in i .. j
          PROVE  \E y \in 1 .. w : S[m][x] = t[y]
        <3>1. x - i + 1 \in 1 .. w /\ i + (x - i + 1) - 1 = x
            BY <1>2
        <3>2. QED
            BY <1>4, <3>1
    <2>2. \A y \in 1 .. w : \E x \in i .. j : t[y] = S[m][x]
        BY <1>4, <1>10
    <2>3. Elements(t) = {t[x] : x \in 1 .. w}
        BY <1>4 DEF Elements
    <2> DEFINE W == 1 .. w
               I == i .. j
    <2>4. (\A x \in I : \E y \in W : S[m][x] = t[y]) /\ (\A y \in W : \E x \in I : t[y] = S[m][x])
        BY <2>1, <2>2
    <2> HIDE DEF W, I, w
    <2>5. {t[x] : x \in W} = {S[m][x] : x \in I}
        BY <2>4
    <2>6. QED
        BY <2>3, <2>5 DEF W, I
<1>17. QED
    BY <1>4, <1>9, <1>15, <1>16 DEF S1, k1, a, b, c, t, CutFrom

(* A stretch that is pasted in leaves the rings linked.                    *)
LEMMA PasteRings ==
    ASSUME NEW S, Typed(S), Apart(S), NEW k \in LinkType, Linked(S, k),
           NEW t, Stretch(t, S, k),
           NEW l \in DOMAIN S, NEW p \in 1 .. Len(S[l]) + 1
    PROVE  LET S2 == PasteInto(S, l, p, t)
               k2 == Connect(Connect(k, Ring(S[l], l, p - 1), t[1]), t[Len(t)], Ring(S[l], l, p))
           IN  /\ Typed(S2) /\ Apart(S2) /\ k2 \in LinkType /\ Linked(S2, k2)
               /\ DOMAIN S2 = DOMAIN S
               /\ NodesIn(S2) = NodesIn(S) \cup Elements(t)
               /\ Len(S2[l]) = Len(S[l]) + Len(t)
<1> DEFINE c  == Abstract!Paste(S[l], p, t)
           S2 == [S EXCEPT ![l] = c]
           a  == Ring(S[l], l, p - 1)
           b  == Ring(S[l], l, p)
           f  == t[1]
           e  == t[Len(t)]
           k2 == Connect(Connect(k, a, f), e, b)
           w  == Len(t)
           n  == Len(S[l])
<1>1. /\ l \in List /\ S[l] \in Seq(Node) /\ n \in Nat
      /\ \A x \in 1 .. n : S[l][x] \in Node
    BY TypedFacts
<1>2. /\ t \in Seq(Node) /\ w \in Nat /\ w > 0
      /\ \A x \in 1 .. w : t[x] \in Node
    BY LenProperties, ElementOfSeq DEF Stretch
<1>3. /\ \A x, y \in 1 .. w : t[x] = t[y] => x = y
      /\ \A x \in 1 .. w - 1 : k.next[t[x]] = t[x + 1] /\ k.prev[t[x + 1]] = t[x]
      /\ \A x \in 1 .. w : t[x] \notin NodesIn(S)
    BY DEF Stretch
<1>4. /\ c \in Seq(Node) /\ Len(c) = n + w
      /\ \A x \in 1 .. n + w :
             c[x] = IF x < p THEN S[l][x] ELSE IF x < p + w THEN t[x - p + 1] ELSE S[l][x - w]
    BY <1>1, <1>2, PasteFacts
<1>5. p \in 1 .. n + 1 /\ n \in Nat /\ w \in Nat /\ w > 0
    BY <1>1, <1>2
<1> HIDE DEF w, n
<1>6. /\ 1 \in 1 .. w /\ w \in 1 .. w /\ p \in Int /\ p - 1 \in Int
    BY <1>5
<1>7. /\ a \in Cell /\ b \in Cell
    BY <1>6, RingCells
<1>8. f \in Node /\ e \in Node /\ f \in Cell /\ e \in Cell
    BY <1>2, <1>6 DEF Cell, w
<1>9. \A m \in DOMAIN S : \A x \in Int, y \in 1 .. w : Ring(S[m], m, x) # t[y]
    <2>1. ASSUME NEW m \in DOMAIN S, NEW x \in Int, NEW y \in 1 .. w
          PROVE  Ring(S[m], m, x) # t[y]
        <3>1. m \in List /\ t[y] \in Node /\ m # t[y]
            BY <1>2, TypedFacts, IListAssumption
        <3>2. x \in 1 .. Len(S[m]) => S[m][x] \in NodesIn(S)
            BY TypedFacts DEF NodesIn
        <3>3. QED
            BY <1>3, <3>1, <3>2 DEF Ring
    <2>2. QED
        BY <2>1
<1>10. a # e /\ b # f
    BY <1>6, <1>9 DEF a, b, w
<1> HIDE DEF c, a, b, f, e
<1>11. /\ k2.next = [[k.next EXCEPT ![a] = f] EXCEPT ![e] = b]
       /\ k2.prev = [[k.prev EXCEPT ![f] = a] EXCEPT ![b] = e]
       /\ k2 \in LinkType
    BY <1>7, <1>8 DEF Connect, LinkType
<1> HIDE DEF k2
<1>12. /\ k2.next[a] = f /\ k2.prev[f] = a /\ k2.next[e] = b /\ k2.prev[b] = e
       /\ \A z \in Cell : z # a /\ z # e => k2.next[z] = k.next[z]
       /\ \A z \in Cell : z # f /\ z # b => k2.prev[z] = k.prev[z]
    BY <1>7, <1>8, <1>10, <1>11 DEF LinkType
<1>13. /\ DOMAIN S2 = DOMAIN S /\ S2[l] = c
       /\ \A m \in DOMAIN S : m # l => S2[m] = S[m]
    BY DEF Typed
<1>14. Typed(S2)
    BY <1>4 DEF Typed
<1> HIDE DEF S2
<1>15. ASSUME NEW m \in DOMAIN S, NEW x \in 1 .. Len(S2[m])
       PROVE  \/ /\ ~(m = l /\ p <= x /\ x < p + w)
                 /\ \E y \in 1 .. Len(S[m]) :
                        S2[m][x] = S[m][y] /\ y = IF m = l /\ x >= p THEN x - w ELSE x
              \/ /\ m = l /\ p <= x /\ x < p + w
                 /\ x - p + 1 \in 1 .. w /\ S2[m][x] = t[x - p + 1]
    <2>1. CASE m # l
        BY <1>13, <2>1
    <2>2. CASE m = l
        <3>1. x \in 1 .. n + w /\ S2[m][x] = c[x] /\ Len(S[m]) = n
            BY <1>4, <1>13, <2>2 DEF n, w
        <3>2. x \in 1 .. n + w => c[x] = IF x < p THEN S[l][x] ELSE IF x < p + w THEN t[x - p + 1] ELSE S[l][x - w]
            BY <1>4 DEF n, w
        <3>3. CASE x < p
            BY <1>5, <2>2, <3>1, <3>2, <3>3
        <3>4. CASE p <= x /\ x < p + w
            BY <1>5, <2>2, <3>1, <3>2, <3>4
        <3>5. CASE p + w <= x
            BY <1>5, <2>2, <3>1, <3>2, <3>5
        <3>6. QED
            BY <1>5, <3>1, <3>3, <3>4, <3>5
    <2>3. QED
        BY <2>1, <2>2
<1>16. Apart(S2)
    <2>1. ASSUME NEW m \in DOMAIN S, NEW o \in DOMAIN S,
                 NEW x \in 1 .. Len(S2[m]), NEW y \in 1 .. Len(S2[o]),
                 S2[m][x] = S2[o][y]
          PROVE  m = o /\ x = y
        <3>0. x \in Int /\ y \in Int
            BY <1>13, <1>14, TypedFacts
        <3>1. \A v \in 1 .. Len(S[m]) : S[m][v] \in NodesIn(S)
            BY TypedFacts DEF NodesIn
        <3>2. \A v \in 1 .. Len(S[o]) : S[o][v] \in NodesIn(S)
            BY TypedFacts DEF NodesIn
        <3> DEFINE x1 == IF m = l /\ x >= p THEN x - w ELSE x
                   y1 == IF o = l /\ y >= p THEN y - w ELSE y
        <3>3. CASE /\ ~(m = l /\ p <= x /\ x < p + w) /\ x1 \in 1 .. Len(S[m]) /\ S2[m][x] = S[m][x1]
                   /\ ~(o = l /\ p <= y /\ y < p + w) /\ y1 \in 1 .. Len(S[o]) /\ S2[o][y] = S[o][y1]
            <4>1. m = o /\ x1 = y1
                <5>1. S[m][x1] = S[o][y1]
                    BY <2>1, <3>3
                <5> HIDE DEF x1, y1
                <5>2. QED
                    BY <3>3, <5>1 DEF Apart
            <4>2. QED
                BY <1>5, <3>0, <3>3, <4>1
        <3>4. CASE /\ m = l /\ x - p + 1 \in 1 .. w /\ S2[m][x] = t[x - p + 1]
                   /\ y1 \in 1 .. Len(S[o]) /\ S2[o][y] = S[o][y1]
            <4> HIDE DEF x1, y1
            <4>1. QED
                BY <1>3, <2>1, <3>2, <3>4 DEF w
        <3>5. CASE /\ x1 \in 1 .. Len(S[m]) /\ S2[m][x] = S[m][x1]
                   /\ o = l /\ y - p + 1 \in 1 .. w /\ S2[o][y] = t[y - p + 1]
            <4> HIDE DEF x1, y1
            <4>1. QED
                BY <1>3, <2>1, <3>1, <3>5 DEF w
        <3>6. CASE /\ m = l /\ x - p + 1 \in 1 .. w /\ S2[m][x] = t[x - p + 1]
                   /\ o = l /\ y - p + 1 \in 1 .. w /\ S2[o][y] = t[y - p + 1]
            <4>1. x - p + 1 = y - p + 1
                BY <1>3, <2>1, <3>6 DEF w
            <4>2. QED
                BY <1>5, <3>0, <3>6, <4>1
        <3>7. \/ ~(m = l /\ p <= x /\ x < p + w) /\ x1 \in 1 .. Len(S[m]) /\ S2[m][x] = S[m][x1]
              \/ m = l /\ x - p + 1 \in 1 .. w /\ S2[m][x] = t[x - p + 1]
            BY <1>15
        <3>8. \/ ~(o = l /\ p <= y /\ y < p + w) /\ y1 \in 1 .. Len(S[o]) /\ S2[o][y] = S[o][y1]
              \/ o = l /\ y - p + 1 \in 1 .. w /\ S2[o][y] = t[y - p + 1]
            BY <1>15
        <3> HIDE DEF x1, y1
        <3>9. QED
            BY <3>3, <3>4, <3>5, <3>6, <3>7, <3>8
    <2>2. QED
        BY <1>13, <2>1 DEF Apart
<1>17. NodesIn(S2) = NodesIn(S) \cup {t[x] : x \in 1 .. Len(t)}
    <2>1. ASSUME NEW z \in NodesIn(S2)
          PROVE  z \in NodesIn(S) \cup {t[x] : x \in 1 .. w}
        <3>1. PICK m \in DOMAIN S : \E x \in 1 .. Len(S2[m]) : z = S2[m][x]
            BY <1>13 DEF NodesIn
        <3>2. PICK x \in 1 .. Len(S2[m]) : z = S2[m][x]
            BY <3>1
        <3>3. \/ \E y \in 1 .. Len(S[m]) : z = S[m][y]
              \/ \E y \in 1 .. w : z = t[y]
            BY <1>15, <3>2
        <3>4. z \in Node
            BY DEF NodesIn
        <3>5. QED
            BY <3>3, <3>4 DEF NodesIn
    <2>2. ASSUME NEW z \in NodesIn(S)
          PROVE  z \in NodesIn(S2)
        <3>1. PICK m \in DOMAIN S : \E x \in 1 .. Len(S[m]) : z = S[m][x]
            BY DEF NodesIn
        <3>2. PICK x \in 1 .. Len(S[m]) : z = S[m][x]
            BY <3>1
        <3>3. CASE m # l
            BY <1>13, <3>2, <3>3 DEF NodesIn
        <3>4. CASE m = l
            <4>1. x \in 1 .. n
                BY <3>4 DEF n
            <4>2. x < p => x \in 1 .. n + w /\ c[x] = z
                <5>1. x < p => x \in 1 .. n + w
                    BY <1>5, <4>1
                <5>2. QED
                    BY <1>4, <3>2, <3>4, <5>1 DEF n, w
            <4>3. ~(x < p) => x + w \in 1 .. n + w /\ c[x + w] = z
                <5>1. ~(x < p) => x + w \in 1 .. n + w /\ ~(x + w < p) /\ ~(x + w < p + w) /\ x + w - w = x
                    BY <1>5, <4>1
                <5>2. QED
                    BY <1>4, <3>2, <3>4, <5>1 DEF n, w
            <4>4. \E y \in 1 .. Len(S2[l]) : z = S2[l][y]
                <5>1. Len(S2[l]) = n + w
                    BY <1>4, <1>13 DEF n, w
                <5>2. QED
                    BY <1>13, <4>2, <4>3, <5>1
            <4>5. QED
                BY <1>13, <4>4 DEF NodesIn
        <3>5. QED
            BY <3>3, <3>4
    <2>3. ASSUME NEW x \in 1 .. w
          PROVE  t[x] \in NodesIn(S2)
        <3>1. x + p - 1 \in 1 .. n + w /\ ~(x + p - 1 < p) /\ x + p - 1 < p + w /\ x + p - 1 - p + 1 = x
            BY <1>5
        <3>2. c[x + p - 1] = t[x]
            <4>1. x + p - 1 \in 1 .. Len(S[l]) + Len(t) => c[x + p - 1] = t[x + p - 1 - p + 1]
                BY <1>4, <3>1 DEF n, w
            <4>2. QED
                BY <3>1, <4>1 DEF n, w
        <3>3. Len(S2[l]) = n + w /\ S2[l][x + p - 1] = t[x]
            BY <1>4, <1>13, <3>2 DEF n, w
        <3>4. t[x] \in Node
            BY <1>2 DEF w
        <3>5. QED
            BY <1>13, <3>1, <3>3, <3>4 DEF NodesIn
    <2>4. QED
        BY <2>1, <2>2, <2>3 DEF w
<1>18. Linked(S2, k2)
    <2>1. ASSUME NEW m \in DOMAIN S, NEW x \in 0 .. Len(S[m]),
                 ~(m = l /\ x = p - 1)
          PROVE  /\ k2.next[Ring(S[m], m, x)] = Ring(S[m], m, x + 1)
                 /\ k2.prev[Ring(S[m], m, x + 1)] = Ring(S[m], m, x)
        <3>1. /\ x \in 0 .. Len(S[m]) + 1 /\ x + 1 \in 0 .. Len(S[m]) + 1 /\ x \in Int /\ x + 1 \in Int
              /\ x # Len(S[m]) + 1 /\ x + 1 # 0
            BY TypedFacts
        <3>2. /\ p - 1 \in 0 .. Len(S[l]) + 1 /\ p \in 0 .. Len(S[l]) + 1 /\ p # 0 /\ p - 1 # Len(S[l]) + 1
            BY <1>5 DEF n
        <3>3. m = l => x # p - 1 /\ x + 1 # p
            BY <1>5, <2>1, <3>1
        <3>4. Ring(S[m], m, x) # a
            BY <3>1, <3>2, <3>3, RingsDiffer DEF a
        <3>5. Ring(S[m], m, x + 1) # b
            BY <3>1, <3>2, <3>3, RingsDiffer DEF b
        <3>6. Ring(S[m], m, x) # e /\ Ring(S[m], m, x + 1) # f
            BY <1>6, <1>9, <3>1 DEF e, f, w
        <3>7. Ring(S[m], m, x) \in Cell /\ Ring(S[m], m, x + 1) \in Cell
            BY <3>1, RingCells
        <3>8. /\ k.next[Ring(S[m], m, x)] = Ring(S[m], m, x + 1)
              /\ k.prev[Ring(S[m], m, x + 1)] = Ring(S[m], m, x)
            BY DEF Linked
        <3>9. QED
            BY <1>12, <3>4, <3>5, <3>6, <3>7, <3>8
    <2>2. ASSUME NEW x \in 1 .. w - 1
          PROVE  k2.next[t[x]] = t[x + 1] /\ k2.prev[t[x + 1]] = t[x]
        <3>1. x \in 1 .. w /\ x + 1 \in 1 .. w /\ x # w /\ x + 1 # 1
            BY <1>5
        <3>2. t[x] # e /\ t[x + 1] # f
            BY <1>3, <1>6, <3>1 DEF e, f, w
        <3>3. t[x] # a /\ t[x + 1] # b
            BY <1>6, <1>9, <3>1 DEF a, b
        <3>4. t[x] \in Cell /\ t[x + 1] \in Cell
            BY <1>2, <3>1 DEF Cell, w
        <3>5. k.next[t[x]] = t[x + 1] /\ k.prev[t[x + 1]] = t[x]
            BY <1>3 DEF w
        <3>6. QED
            BY <1>12, <3>2, <3>3, <3>4, <3>5
    <2>3. \A y \in 0 .. n + w + 1 :
              Ring(c, l, y) = IF y < p THEN Ring(S[l], l, y)
                              ELSE IF y < p + w THEN t[y - p + 1] ELSE Ring(S[l], l, y - w)
        <3>1. ASSUME NEW y \in 0 .. n + w + 1
              PROVE  Ring(c, l, y) = IF y < p THEN Ring(S[l], l, y)
                                     ELSE IF y < p + w THEN t[y - p + 1] ELSE Ring(S[l], l, y - w)
            <4>1. y \in 1 .. n + w =>
                      c[y] = IF y < p THEN S[l][y] ELSE IF y < p + w THEN t[y - p + 1] ELSE S[l][y - w]
                BY <1>4 DEF n, w
            <4>2. Len(c) = n + w /\ Len(S[l]) = n
                BY <1>4 DEF n, w
            <4>3. QED
                BY <1>5, <4>1, <4>2 DEF Ring
        <3>2. QED
            BY <3>1
    <2>4. ASSUME NEW x \in 0 .. n + w
          PROVE  /\ k2.next[Ring(c, l, x)] = Ring(c, l, x + 1)
                 /\ k2.prev[Ring(c, l, x + 1)] = Ring(c, l, x)
        <3>0. x \in 0 .. n + w + 1 /\ x + 1 \in 0 .. n + w + 1
            BY <1>5
        <3>1. CASE x + 1 < p
            <4>1. x \in 0 .. Len(S[l]) /\ x # p - 1 /\ x < p
                BY <1>5, <3>1 DEF n
            <4>2. Ring(c, l, x) = Ring(S[l], l, x) /\ Ring(c, l, x + 1) = Ring(S[l], l, x + 1)
                BY <2>3, <3>0, <3>1, <4>1
            <4>3. QED
                BY <2>1, <4>1, <4>2
        <3>2. CASE x + 1 = p
            <4>1. x < p /\ x = p - 1 /\ ~(x + 1 < p) /\ x + 1 < p + w /\ x + 1 - p + 1 = 1
                BY <1>5, <3>2
            <4>2. Ring(c, l, x) = a /\ Ring(c, l, x + 1) = f
                BY <2>3, <3>0, <4>1 DEF a, f
            <4>3. QED
                BY <1>12, <4>2
        <3>3. CASE p < x + 1 /\ x + 1 < p + w
            <4>1. /\ ~(x < p) /\ x < p + w /\ ~(x + 1 < p) /\ x + 1 < p + w
                  /\ x - p + 1 \in 1 .. w - 1 /\ x + 1 - p + 1 = x - p + 1 + 1
                BY <1>5, <3>3
            <4>2. Ring(c, l, x) = t[x - p + 1] /\ Ring(c, l, x + 1) = t[x - p + 1 + 1]
                BY <2>3, <3>0, <4>1
            <4>3. QED
                BY <2>2, <4>1, <4>2
        <3>4. CASE x + 1 = p + w
            <4>1. /\ ~(x < p) /\ x < p + w /\ ~(x + 1 < p) /\ ~(x + 1 < p + w)
                  /\ x - p + 1 = w /\ x + 1 - w = p
                BY <1>5, <3>4
            <4>2. Ring(c, l, x) = e /\ Ring(c, l, x + 1) = b
                BY <2>3, <3>0, <4>1 DEF e, b, w
            <4>3. QED
                BY <1>12, <4>2
        <3>5. CASE p + w < x + 1
            <4>1. /\ ~(x < p) /\ ~(x < p + w) /\ ~(x + 1 < p) /\ ~(x + 1 < p + w)
                  /\ x - w \in 0 .. Len(S[l]) /\ x - w # p - 1 /\ x + 1 - w = x - w + 1
                BY <1>5, <3>5 DEF n
            <4>2. Ring(c, l, x) = Ring(S[l], l, x - w) /\ Ring(c, l, x + 1) = Ring(S[l], l, x - w + 1)
                <5>1. Ring(c, l, x) = Ring(S[l], l, x - w)
                    BY <2>3, <3>0, <4>1
                <5>2. Ring(c, l, x + 1) = Ring(S[l], l, (x + 1) - w)
                    BY <2>3, <3>0, <4>1
                <5>3. (x + 1) - w = x - w + 1
                    BY <1>5, <3>0
                <5>4. QED
                    BY <5>1, <5>2, <5>3, Zenon
            <4>3. QED
                BY <2>1, <4>1, <4>2
        <3>6. QED
            BY <1>5, <3>1, <3>2, <3>3, <3>4, <3>5
    <2>5. Len(c) = n + w
        BY <1>4 DEF n, w
    <2>6. QED
        BY <1>13, <2>1, <2>4, <2>5 DEF Linked
<1>19. Len(S2[l]) = Len(S[l]) + Len(t)
    BY <1>4, <1>13 DEF n, w
<1>20. QED
    BY <1>11, <1>13, <1>14, <1>16, <1>17, <1>18, <1>19 DEF S2, k2, a, b, c, e, f, PasteInto, Elements

-------------------------------------------------------------------------------
(* Walking a ring gives its sequence.                                      *)

LEMMA LengthBounded ==
    ASSUME NEW S, Typed(S), Apart(S), NEW l \in DOMAIN S
    PROVE  Cardinality(Node) \in Nat /\ Len(S[l]) <= Cardinality(Node)
<1> DEFINE n == Len(S[l])
<1>1. n \in Nat /\ S[l] \in [1 .. n -> Node]
    BY TypedFacts, LenProperties
<1>2. \A i, j \in 1 .. n : S[l][i] = S[l][j] => i = j
    BY DEF Apart
<1>3. S[l] \in Injection(1 .. n, Node)
    BY <1>1, <1>2 DEF Injection, IsInjective
<1>4. IsFiniteSet(Node) /\ Cardinality(Node) \in Nat
    BY IListAssumption, FS_CardinalityType
<1>5. Cardinality(1 .. n) <= Cardinality(Node)
    BY <1>3, <1>4, FS_Injection
<1> HIDE DEF n
<1>6. Cardinality(1 .. n) = n
    <2>1. Cardinality(1 .. n) = IF 1 > n THEN 0 ELSE n - 1 + 1
        BY <1>1, FS_Interval
    <2>2. QED
        BY <1>1, <2>1
<1>7. QED
    BY <1>4, <1>5, <1>6 DEF n

LEMMA WalkOfRing ==
    ASSUME NEW S, Represents(S), NEW l \in Live
    PROVE  Walk(l) = [n \in 0 .. Cardinality(Node) |-> Ring(S[l], l, n + 1)]
<1> DEFINE N == Cardinality(Node)
           F(at) == [n \in 0 .. N |->
                        IF n = 0 THEN next_[l]
                        ELSE IF at[n - 1] \in Node THEN next_[at[n - 1]] ELSE at[n - 1]]
           W == [n \in 0 .. N |-> Ring(S[l], l, n + 1)]
<1>1. /\ N \in Nat /\ Len(S[l]) \in Nat /\ Len(S[l]) <= N /\ l \in List /\ l \notin Node
      /\ \A i \in 1 .. Len(S[l]) : S[l][i] \in Node
    BY LengthBounded, TypedFacts, IListAssumption DEF Represents
<1>2. \A i \in 0 .. Len(S[l]) : next_[Ring(S[l], l, i)] = Ring(S[l], l, i + 1)
    BY DEF Represents, Linked, Links
<1> HIDE DEF N
<1>3. ASSUME NEW n \in 1 .. N
      PROVE  Ring(S[l], l, n + 1) =
                 IF Ring(S[l], l, n) \in Node THEN next_[Ring(S[l], l, n)] ELSE Ring(S[l], l, n)
    <2>1. CASE n <= Len(S[l])
        <3>1. n \in 0 .. Len(S[l]) /\ n \in 1 .. Len(S[l])
            BY <1>1, <2>1
        <3>2. Ring(S[l], l, n) \in Node
            BY <1>1, <3>1 DEF Ring
        <3>3. QED
            BY <1>2, <3>1, <3>2
    <2>2. CASE n > Len(S[l])
        <3>1. Ring(S[l], l, n) = l /\ Ring(S[l], l, n + 1) = l
            BY <1>1, <2>2 DEF Ring
        <3>2. QED
            BY <1>1, <3>1
    <2>3. QED
        BY <1>1, <2>1, <2>2
<1>4. next_[l] = Ring(S[l], l, 1)
    <2>1. 0 \in 0 .. Len(S[l]) /\ 0 + 1 = 1 /\ Ring(S[l], l, 0) = l
        BY <1>1 DEF Ring
    <2>2. QED
        BY <1>2, <2>1
<1>5. W = F(W)
    <2>1. ASSUME NEW n \in 0 .. N
          PROVE  W[n] = F(W)[n]
        <3>1. CASE n = 0
            BY <1>1, <1>4, <3>1
        <3>2. CASE n # 0
            <4>1. n \in 1 .. N /\ n - 1 \in 0 .. N /\ n - 1 + 1 = n
                BY <1>1, <3>2
            <4>2. W[n - 1] = Ring(S[l], l, n) /\ W[n] = Ring(S[l], l, n + 1)
                BY <4>1
            <4>3. F(W)[n] = IF W[n - 1] \in Node THEN next_[W[n - 1]] ELSE W[n - 1]
                BY <3>2
            <4> HIDE DEF W, F
            <4>4. QED
                BY <1>3, <4>1, <4>2, <4>3
        <3>3. QED
            BY <3>1, <3>2
    <2>2. W = [n \in 0 .. N |-> W[n]] /\ F(W) = [n \in 0 .. N |-> F(W)[n]]
        OBVIOUS
    <2> HIDE DEF W, F
    <2>3. QED
        BY <2>1, <2>2
<1>6. Walk(l) = CHOOSE at : at = F(at)
    BY DEF Walk, N
<1>7. \A at : at = F(at) => at = W
    <2>1. ASSUME NEW at, at = F(at)
          PROVE  at = W
        <3>1. /\ at[0] = next_[l]
              /\ \A n \in 1 .. N :
                     at[n] = IF at[n - 1] \in Node THEN next_[at[n - 1]] ELSE at[n - 1]
              /\ at = [n \in 0 .. N |-> at[n]]
            <4>1. at = [n \in 0 .. N |->
                        IF n = 0 THEN next_[l]
                        ELSE IF at[n - 1] \in Node THEN next_[at[n - 1]] ELSE at[n - 1]]
                BY <2>1
            <4>2. 0 \in 0 .. N /\ \A n \in 1 .. N : n \in 0 .. N /\ n # 0
                BY <1>1
            <4>3. \A n \in 0 .. N : at[n] = IF n = 0 THEN next_[l]
                        ELSE IF at[n - 1] \in Node THEN next_[at[n - 1]] ELSE at[n - 1]
                BY <4>1
            <4>4. at[0] = next_[l]
                BY <4>2, <4>3
            <4>5. \A n \in 1 .. N :
                     at[n] = IF at[n - 1] \in Node THEN next_[at[n - 1]] ELSE at[n - 1]
                BY <4>2, <4>3
            <4>6. at = [n \in 0 .. N |-> at[n]]
                BY <4>1
            <4>7. QED
                BY <4>4, <4>5, <4>6
        <3> DEFINE D == {n \in 0 .. N : at[n] # W[n]}
        <3>2. D = {}
            <4>1. SUFFICES ASSUME D # {} PROVE FALSE
                OBVIOUS
            <4>2. D \in SUBSET Nat
                BY <1>1
            <4>3. PICK d : d = Min(D)
                OBVIOUS
            <4>4. d \in D /\ \A y \in D : d <= y
                BY <4>1, <4>2, <4>3, SmallestNat
            <4>5. d # 0
                BY <1>1, <1>4, <3>1, <4>4
            <4>6. d - 1 \in 0 .. N /\ d \in 1 .. N /\ ~(d <= d - 1) /\ d - 1 + 1 = d
                BY <1>1, <4>4, <4>5
            <4>7. d - 1 \notin D
                BY <4>4, <4>6
            <4>8. at[d - 1] = Ring(S[l], l, d)
                BY <4>6, <4>7
            <4>9. W[d] = Ring(S[l], l, d + 1)
                BY <4>4
            <4>10. at[d] = W[d]
                BY <1>3, <3>1, <4>6, <4>8, <4>9
            <4>11. QED
                BY <4>4, <4>10
        <3>3. W = [n \in 0 .. N |-> W[n]]
            OBVIOUS
        <3>4. \A n \in 0 .. N : at[n] = W[n]
            BY <3>2
        <3> HIDE DEF W, D
        <3>5. QED
            BY <3>1, <3>3, <3>4
    <2>2. QED
        BY <2>1
<1> HIDE DEF W, F
<1>8. Walk(l) = W
    BY <1>5, <1>6, <1>7
<1>9. QED
    BY <1>8 DEF W, N

LEMMA ChainOfRing ==
    ASSUME NEW S, Represents(S), NEW l \in Live
    PROVE  Chain(l) = S[l]
<1> DEFINE N == Cardinality(Node)
           L == Len(S[l])
           ends == {n \in DOMAIN Walk(l) : Walk(l)[n] \notin Node}
<1>1. /\ N \in Nat /\ L \in Nat /\ L <= N /\ l \in List /\ l \notin Node
      /\ \A i \in 1 .. L : S[l][i] \in Node
      /\ S[l] \in Seq(Node)
    BY LengthBounded, TypedFacts, IListAssumption DEF Represents
<1>2. Walk(l) = [n \in 0 .. N |-> Ring(S[l], l, n + 1)]
    BY WalkOfRing
<1> HIDE DEF N, L
<1>3. \A n \in 0 .. N : Walk(l)[n] = IF n < L THEN S[l][n + 1] ELSE l
    BY <1>1, <1>2 DEF Ring, L
<1>4. \A n \in 0 .. N : n < L => n + 1 \in 1 .. L
    BY <1>1
<1>5. ends = {n \in 0 .. N : L <= n}
    <2>1. DOMAIN Walk(l) = 0 .. N
        BY <1>2
    <2>2. \A n \in 0 .. N : Walk(l)[n] \notin Node <=> L <= n
        BY <1>1, <1>3, <1>4
    <2>3. QED
        BY <2>1, <2>2
<1>6. L \in ends /\ ends \in SUBSET Nat
    BY <1>1, <1>5
<1> HIDE DEF ends
<1>7. Min(ends) = L
    <2>1. PICK d : d = Min(ends)
        OBVIOUS
    <2>2. d \in ends /\ d <= L
        BY <1>6, <2>1, SmallestNat
    <2>3. QED
        BY <1>1, <1>5, <2>1, <2>2
<1>8. Chain(l) = [n \in 1 .. L |-> Walk(l)[n - 1]]
    BY <1>6, <1>7 DEF Chain, ends
<1>9. S[l] = [n \in 1 .. L |-> S[l][n]]
    BY <1>1, LenProperties DEF L
<1>10. \A n \in 1 .. L : Walk(l)[n - 1] = S[l][n]
    <2>1. \A n \in 1 .. L : n - 1 \in 0 .. N /\ n - 1 < L /\ n - 1 + 1 = n
        BY <1>1
    <2>2. QED
        BY <1>3, <2>1
<1>11. QED
    BY <1>8, <1>9, <1>10

LEMMA ChainsAreTheSequences == \A S : Represents(S) => Chains = S
<1> SUFFICES ASSUME NEW S, Represents(S)
             PROVE  Chains = S
    OBVIOUS
<1>1. S = [l \in Live |-> S[l]]
    BY DEF Represents, Typed
<1>2. QED
    BY <1>1, ChainOfRing DEF Chains

-------------------------------------------------------------------------------
(* One lemma per operation: what it does to the sequences.                 *)

LEMMA CellsOf ==
    ASSUME NEW S, Represents(S)
    PROVE  /\ DOMAIN S = Live /\ Typed(S) /\ Apart(S)
           /\ Links \in LinkType /\ Linked(S, Links)
           /\ Occupied(Links) = DOMAIN S \cup NodesIn(S)
           /\ Links.next = next_ /\ Links.prev = prev_
           /\ next_ \in [Cell -> Cell \cup {Null}] /\ prev_ \in [Cell -> Cell \cup {Null}]
           /\ size_ \in [List -> Nat] /\ \A l \in Live : size_[l] = Len(S[l])
<1>1. Links.next = next_ /\ Links.prev = prev_
    BY DEF Links
<1>2. Occupied(Links) = Live \cup Allocated
    BY <1>1 DEF Occupied, Live, Allocated, Cell
<1>3. QED
    BY <1>1, <1>2 DEF Represents, LinkType

LEMMA RepresentsNext ==
    ASSUME NEW S, NEW k, Typed(S), Apart(S), k \in LinkType, Linked(S, k),
           Occupied(k) = DOMAIN S \cup NodesIn(S), SetLinks(k),
           size_' \in [List -> Nat], \A l \in DOMAIN S : size_'[l] = Len(S[l])
    PROVE  Represents(S)'
<1>1. next_' = k.next /\ prev_' = k.prev
    BY DEF SetLinks
<1>2. k = [next |-> k.next, prev |-> k.prev]
    BY DEF LinkType
<1>3. Links' = k
    BY <1>1, <1>2 DEF Links
<1>4. DOMAIN S \subseteq List /\ NodesIn(S) \subseteq Node /\ List \cap Node = {}
    BY IListAssumption DEF Typed, NodesIn
<1>5. \A x \in Cell : k.next[x] # Null <=> x \in DOMAIN S \/ x \in NodesIn(S)
    BY DEF Occupied
<1>6. Live' = DOMAIN S
    BY <1>1, <1>4, <1>5 DEF Live, Cell
<1>7. Allocated' = NodesIn(S)
    BY <1>1, <1>4, <1>5 DEF Allocated, Cell
<1>8. QED
    BY <1>3, <1>6, <1>7 DEF Represents

LEMMA IndexOfRing ==
    ASSUME NEW S, Typed(S), Apart(S), NEW l \in DOMAIN S, NEW p \in 1 .. Len(S[l]) + 1
    PROVE  Abstract!Index(S[l], Ring(S[l], l, p)) = p
<1>1. /\ Len(S[l]) \in Nat /\ DOMAIN S[l] = 1 .. Len(S[l]) /\ l \in List
      /\ \A i \in 1 .. Len(S[l]) : S[l][i] \in Node
    BY TypedFacts
<1>2. CASE p = Len(S[l]) + 1
    <2>1. Ring(S[l], l, p) = l
        BY <1>1, <1>2 DEF Ring
    <2>2. QED
        BY <1>1, <1>2, <2>1 DEF Abstract!Index
<1>3. CASE p \in 1 .. Len(S[l])
    <2>1. Ring(S[l], l, p) = S[l][p] /\ S[l][p] \notin List
        BY <1>1, <1>3, IListAssumption DEF Ring
    <2>2. \A x \in 1 .. Len(S[l]) : S[l][x] = S[l][p] => x = p
        BY <1>3 DEF Apart
    <2>3. (CHOOSE x \in 1 .. Len(S[l]) : S[l][x] = S[l][p]) = p
        BY <1>3, <2>2
    <2>4. QED
        BY <1>1, <2>1, <2>3 DEF Abstract!Index
<1>4. QED
    BY <1>1, <1>2, <1>3

LEMMA ChainNodes ==
    ASSUME NEW S, Represents(S), NEW l \in Live
    PROVE  NodesOf(l) = {S[l][i] : i \in 1 .. Len(S[l])}
BY ChainOfRing, TypedFacts, CellsOf DEF NodesOf

(* A position of a list is a cell of its ring, after the one it is         *)
(* inserted behind.                                                        *)
LEMMA PositionInRing ==
    ASSUME NEW S, Represents(S), NEW l \in Live, NEW pos \in Positions(l)
    PROVE  \E p \in 1 .. Len(S[l]) + 1 :
               /\ pos = Ring(S[l], l, p) /\ prev_[pos] = Ring(S[l], l, p - 1)
               /\ Abstract!Index(S[l], pos) = p
<1>1. /\ DOMAIN S = Live /\ Typed(S) /\ Apart(S) /\ Linked(S, Links) /\ Links.prev = prev_
    BY CellsOf
<1>2. Len(S[l]) \in Nat
    BY <1>1, TypedFacts
<1>3. \E p \in 1 .. Len(S[l]) + 1 : pos = Ring(S[l], l, p)
    <2>1. CASE pos = l
        <3>1. Len(S[l]) + 1 \in 1 .. Len(S[l]) + 1 /\ Ring(S[l], l, Len(S[l]) + 1) = l
            BY <1>2 DEF Ring
        <3>2. QED
            BY <2>1, <3>1
    <2>2. CASE pos # l
        <3>1. PICK i \in 1 .. Len(S[l]) : pos = S[l][i]
            BY <2>2, ChainNodes DEF Positions
        <3>2. i \in 1 .. Len(S[l]) + 1 /\ Ring(S[l], l, i) = S[l][i]
            BY <1>2 DEF Ring
        <3>3. QED
            BY <3>1, <3>2
    <2>3. QED
        BY <2>1, <2>2
<1>4. PICK p \in 1 .. Len(S[l]) + 1 : pos = Ring(S[l], l, p)
    BY <1>3
<1>5. p - 1 \in 0 .. Len(S[l]) /\ p - 1 + 1 = p
    BY <1>2
<1>6. prev_[pos] = Ring(S[l], l, p - 1)
    BY <1>1, <1>4, <1>5 DEF Linked
<1>7. Abstract!Index(S[l], pos) = p
    BY <1>1, <1>4, IndexOfRing
<1>8. QED
    BY <1>4, <1>6, <1>7

LEMMA SentinelsAreNoNodes ==
    ASSUME NEW S, Typed(S)
    PROVE  DOMAIN S \subseteq List /\ NodesIn(S) \subseteq Node /\ List \cap Node = {} /\ Null \notin Cell
BY IListAssumption DEF Typed, NodesIn, Cell

LEMMA ConstructRings ==
    ASSUME NEW S, Represents(S), NEW l \in List, Construct(l)
    PROVE  Represents([x \in DOMAIN S \cup {l} |-> IF x = l THEN << >> ELSE S[x]])'
<1> DEFINE S2 == [x \in DOMAIN S \cup {l} |-> IF x = l THEN << >> ELSE S[x]]
<1>0. PICK k : k = Reset(Links, l)
    OBVIOUS
<1>1. /\ DOMAIN S = Live /\ Typed(S) /\ Apart(S) /\ Links \in LinkType /\ Linked(S, Links)
      /\ Occupied(Links) = DOMAIN S \cup NodesIn(S)
      /\ size_ \in [List -> Nat] /\ \A x \in Live : size_[x] = Len(S[x])
    BY CellsOf
<1>2. DOMAIN S \subseteq List /\ NodesIn(S) \subseteq Node /\ List \cap Node = {} /\ Null \notin Cell
    BY <1>1, SentinelsAreNoNodes
<1>3. l \notin Live /\ SetLinks(k) /\ size_' = [size_ EXCEPT ![l] = 0] /\ l \in Cell
    BY <1>0 DEF Construct, Cell
<1>4. << >> \in Seq(Node) /\ Len(<< >>) = 0
    BY EmptySeq
<1>5. Typed(S2)
    BY <1>1, <1>2, <1>4 DEF Typed
<1>6. /\ DOMAIN S2 = Live \cup {l} /\ S2[l] = << >> /\ \A x \in Live : S2[x] = S[x]
    BY <1>1, <1>3
<1> HIDE DEF S2
<1>7. Apart(S2)
    BY <1>1, <1>4, <1>6 DEF Apart
<1>8. NodesIn(S2) = NodesIn(S)
    BY <1>1, <1>4, <1>6 DEF NodesIn
<1>9. /\ k \in LinkType /\ k.next[l] = l /\ k.prev[l] = l
      /\ \A x \in Cell : x # l => k.next[x] = Links.next[x] /\ k.prev[x] = Links.prev[x]
    BY <1>0, <1>1, <1>3 DEF Reset, LinkType
<1>10. Linked(S2, k)
    <2>1. ASSUME NEW m \in Live, NEW i \in 0 .. Len(S[m])
          PROVE  /\ k.next[Ring(S[m], m, i)] = Ring(S[m], m, i + 1)
                 /\ k.prev[Ring(S[m], m, i + 1)] = Ring(S[m], m, i)
        <3>1. i \in Int /\ i + 1 \in Int
            OBVIOUS
        <3>2. Ring(S[m], m, i) \in Cell /\ Ring(S[m], m, i + 1) \in Cell
            BY <1>1, <3>1, RingCells
        <3>3. \A j \in 1 .. Len(S[m]) : S[m][j] \in Node
            BY <1>1, TypedFacts
        <3>4. Ring(S[m], m, i) # l /\ Ring(S[m], m, i + 1) # l
            BY <1>2, <1>3, <3>3 DEF Ring
        <3>5. QED
            BY <1>1, <1>9, <3>2, <3>4 DEF Linked
    <2>2. \A i \in 0 .. 0 : k.next[Ring(<< >>, l, i)] = Ring(<< >>, l, i + 1) /\ k.prev[Ring(<< >>, l, i + 1)] = Ring(<< >>, l, i)
        BY <1>4, <1>9 DEF Ring
    <2>3. QED
        BY <1>4, <1>6, <2>1, <2>2 DEF Linked
<1>11. Occupied(k) = DOMAIN S2 \cup NodesIn(S2)
    BY <1>1, <1>2, <1>3, <1>6, <1>8, <1>9 DEF Occupied
<1>12. size_' \in [List -> Nat] /\ \A x \in DOMAIN S2 : size_'[x] = Len(S2[x])
    BY <1>1, <1>2, <1>3, <1>4, <1>6
<1>13. Represents(S2)'
    BY <1>3, <1>5, <1>7, <1>9, <1>10, <1>11, <1>12, RepresentsNext
<1>14. QED
    BY <1>13 DEF S2

LEMMA OccupiedByConnect ==
    ASSUME NEW k \in LinkType, NEW p \in Cell, NEW n \in Cell
    PROVE  /\ Occupied(Connect(k, p, n)) = Occupied(k) \cup {p}
           /\ Connect(k, p, n) \in LinkType
<1>1. Null \notin Cell
    BY IListAssumption DEF Cell
<1>2. QED
    BY <1>1 DEF Occupied, Connect, LinkType

LEMMA RingsOccupied ==
    ASSUME NEW S, Typed(S), NEW l \in DOMAIN S, NEW i \in Int
    PROVE  Ring(S[l], l, i) \in DOMAIN S \cup NodesIn(S)
BY TypedFacts DEF Ring, NodesIn

LEMMA InsertRings ==
    ASSUME NEW S, Represents(S), NEW l \in Live, NEW pos \in Positions(l), NEW n \in Node,
           Insert(l, pos, n)
    PROVE  /\ Represents(PasteInto(S, l, Abstract!Index(S[l], pos), <<n>>))'
           /\ n \notin NodesIn(S)
<1>1. /\ DOMAIN S = Live /\ Typed(S) /\ Apart(S) /\ Links \in LinkType /\ Linked(S, Links)
      /\ Occupied(Links) = DOMAIN S \cup NodesIn(S)
      /\ size_ \in [List -> Nat] /\ \A x \in Live : size_[x] = Len(S[x])
    BY CellsOf
<1>2. PICK p \in 1 .. Len(S[l]) + 1 :
          /\ pos = Ring(S[l], l, p) /\ prev_[pos] = Ring(S[l], l, p - 1)
          /\ Abstract!Index(S[l], pos) = p
    BY PositionInRing
<1> DEFINE t  == <<n>>
           S2 == PasteInto(S, l, p, t)
           a  == Ring(S[l], l, p - 1)
<1>3. PICK k : k = Links
    OBVIOUS
<1>4. PICK k2 : k2 = Connect(Connect(k, a, n), n, pos)
    OBVIOUS
<1>5. /\ n \notin NodesIn(S) /\ SetLinks(k2)
      /\ size_' = [size_ EXCEPT ![l] = @ + 1]
    BY <1>2, <1>3, <1>4 DEF Insert, Represents
<1>6. t \in Seq(Node) /\ Len(t) = 1 /\ t[1] = n
    OBVIOUS
<1> HIDE DEF t
<1>7. Stretch(t, S, k)
    <2>1. \A i \in 1 .. Len(t) : i = 1
        BY <1>6
    <2>2. 1 .. Len(t) - 1 = {}
        BY <1>6
    <2>3. \A i \in 1 .. Len(t) : t[i] \notin NodesIn(S)
        BY <1>5, <1>6, <2>1
    <2>4. QED
        BY <1>6, <2>1, <2>2, <2>3 DEF Stretch
<1>8. k2 = Connect(Connect(k, a, t[1]), t[Len(t)], Ring(S[l], l, p))
    BY <1>2, <1>4, <1>6
<1> HIDE DEF S2, a
<1>9. /\ Typed(S2) /\ Apart(S2) /\ k2 \in LinkType /\ Linked(S2, k2)
      /\ DOMAIN S2 = DOMAIN S
      /\ NodesIn(S2) = NodesIn(S) \cup Elements(t)
      /\ Len(S2[l]) = Len(S[l]) + Len(t)
    <2>1. /\ k \in LinkType /\ Linked(S, k) /\ Typed(S) /\ Apart(S) /\ l \in DOMAIN S
          /\ k2 = Connect(Connect(k, Ring(S[l], l, p - 1), t[1]), t[Len(t)], Ring(S[l], l, p))
          /\ S2 = PasteInto(S, l, p, t)
        BY <1>1, <1>3, <1>8 DEF S2, a
    <2>2. QED
        BY <1>7, <2>1, PasteRings
<1>10. NodesIn(S2) = NodesIn(S) \cup {n}
    <2>1. Elements(t) = {n}
        BY <1>6 DEF Elements
    <2>2. QED
        BY <1>9, <2>1
<1>11. a \in DOMAIN S \cup NodesIn(S) /\ a \in Cell /\ n \in Cell /\ pos \in Cell
    <2>1. p \in Int /\ p - 1 \in Int
        BY <1>1, TypedFacts
    <2>2. QED
        BY <1>1, <1>2, <2>1, RingCells, RingsOccupied DEF a, Cell
<1>12. Occupied(k2) = DOMAIN S2 \cup NodesIn(S2)
    <2>1. /\ Occupied(Connect(k, a, n)) = Occupied(k) \cup {a}
          /\ Connect(k, a, n) \in LinkType
        BY <1>1, <1>3, <1>11, OccupiedByConnect
    <2>2. Occupied(k2) = Occupied(Connect(k, a, n)) \cup {n}
        BY <1>4, <1>11, <2>1, OccupiedByConnect
    <2>3. QED
        BY <1>1, <1>3, <1>9, <1>10, <1>11, <2>1, <2>2
<1>13. size_' \in [List -> Nat] /\ \A x \in DOMAIN S2 : size_'[x] = Len(S2[x])
    <2>1. l \in List /\ Len(S2[l]) = Len(S[l]) + 1 /\ \A x \in DOMAIN S : x # l => S2[x] = S[x]
        BY <1>1, <1>6, <1>9, TypedFacts DEF S2, Typed, PasteInto
    <2>2. DOMAIN S \subseteq List /\ l \in DOMAIN S
        BY <1>1 DEF Typed
    <2>3. size_' = [x \in List |-> IF x = l THEN size_[l] + 1 ELSE size_[x]]
        BY <1>1, <1>5
    <2>4. size_' \in [List -> Nat]
        BY <1>1, <2>1, <2>3
    <2>5. \A x \in DOMAIN S : size_'[x] = IF x = l THEN size_[l] + 1 ELSE size_[x]
        BY <2>2, <2>3
    <2>6. QED
        BY <1>1, <1>9, <2>1, <2>4, <2>5
<1>14. Represents(S2)'
    BY <1>5, <1>9, <1>12, <1>13, RepresentsNext
<1>15. S2 = PasteInto(S, l, Abstract!Index(S[l], pos), <<n>>)
    BY <1>2 DEF S2, t
<1>16. QED
    BY <1>5, <1>14, <1>15

LEMMA DestroyRings ==
    ASSUME NEW S, Represents(S), NEW l \in Live, Destroy(l)
    PROVE  Represents([x \in DOMAIN S \ {l} |-> S[x]])'
<1> DEFINE S2 == [x \in DOMAIN S \ {l} |-> S[x]]
<1>1. /\ DOMAIN S = Live /\ Typed(S) /\ Apart(S) /\ Links \in LinkType /\ Linked(S, Links)
      /\ Occupied(Links) = DOMAIN S \cup NodesIn(S)
      /\ size_ \in [List -> Nat] /\ \A x \in Live : size_[x] = Len(S[x])
    BY CellsOf
<1>2. DOMAIN S \subseteq List /\ NodesIn(S) \subseteq Node /\ List \cap Node = {} /\ Null \notin Cell
    BY <1>1, SentinelsAreNoNodes
<1>3. PICK gone : gone = {S[l][i] : i \in 1 .. Len(S[l])} \cup {l}
    OBVIOUS
<1>4. PICK k2 : k2 = Freed(Links, gone)
    OBVIOUS
<1>5. SetLinks(k2) /\ size_' = [size_ EXCEPT ![l] = 0]
    BY <1>3, <1>4, ChainNodes DEF Destroy
<1>6. Typed(S2) /\ DOMAIN S2 = DOMAIN S \ {l} /\ \A x \in DOMAIN S2 : S2[x] = S[x]
    BY <1>1 DEF Typed
<1> HIDE DEF S2
<1>7. Apart(S2)
    BY <1>1, <1>6 DEF Apart
<1>8. NodesIn(S2) = NodesIn(S) \ gone
    <2>1. ASSUME NEW x \in DOMAIN S, x # l, NEW i \in 1 .. Len(S[x])
          PROVE  S[x][i] \notin gone
        <3>1. S[x][i] # l
            BY <1>1, <1>2, TypedFacts
        <3>2. \A j \in 1 .. Len(S[l]) : S[x][i] # S[l][j]
            BY <1>1, <2>1 DEF Apart
        <3>3. QED
            BY <1>3, <3>1, <3>2
    <2>2. \A z \in NodesIn(S2) : z \in NodesIn(S) /\ z \notin gone
        <3>1. ASSUME NEW z \in NodesIn(S2)
              PROVE  z \in NodesIn(S) /\ z \notin gone
            <4>1. PICK x \in DOMAIN S2 : \E i \in 1 .. Len(S2[x]) : z = S2[x][i]
                BY DEF NodesIn
            <4>2. z \in Node /\ x \in DOMAIN S /\ x # l /\ S2[x] = S[x]
                BY <1>6 DEF NodesIn
            <4>3. PICK i \in 1 .. Len(S[x]) : z = S[x][i]
                BY <4>1, <4>2
            <4>4. QED
                BY <2>1, <4>2, <4>3 DEF NodesIn
        <3>2. QED
            BY <3>1
    <2>3. \A z \in NodesIn(S) : z \notin gone => z \in NodesIn(S2)
        <3>1. ASSUME NEW z \in NodesIn(S), z \notin gone
              PROVE  z \in NodesIn(S2)
            <4>1. PICK x \in DOMAIN S : \E i \in 1 .. Len(S[x]) : z = S[x][i]
                BY DEF NodesIn
            <4>2. x # l
                BY <1>3, <3>1, <4>1
            <4>3. x \in DOMAIN S2 /\ S2[x] = S[x]
                BY <1>6, <4>2
            <4>4. QED
                BY <4>1, <4>3 DEF NodesIn
        <3>2. QED
            BY <3>1
    <2>4. QED
        BY <2>2, <2>3
<1>9. /\ k2 \in LinkType
      /\ \A x \in Cell : x \notin gone => k2.next[x] = Links.next[x] /\ k2.prev[x] = Links.prev[x]
      /\ \A x \in gone \cap Cell : k2.next[x] = Null
    BY <1>1, <1>4 DEF Freed, LinkType
<1>10. ASSUME NEW m \in DOMAIN S, m # l, NEW i \in Int
       PROVE  Ring(S[m], m, i) \in Cell /\ Ring(S[m], m, i) \notin gone
    <2>1. Ring(S[m], m, i) \in Cell
        BY <1>1, RingCells
    <2>2. \A j \in 1 .. Len(S[l]) : S[l][j] \in Node /\ S[l][j] # m
        BY <1>1, <1>2, TypedFacts
    <2>3. i \in 1 .. Len(S[m]) => S[m][i] # l /\ \A j \in 1 .. Len(S[l]) : S[m][i] # S[l][j]
        BY <1>1, <1>2, <1>10, TypedFacts DEF Apart
    <2>4. Ring(S[m], m, i) \notin gone
        BY <1>3, <1>10, <2>2, <2>3 DEF Ring
    <2>5. QED
        BY <2>1, <2>4
<1>11. Linked(S2, k2)
    <2>1. ASSUME NEW m \in DOMAIN S2, NEW i \in 0 .. Len(S2[m])
          PROVE  /\ k2.next[Ring(S2[m], m, i)] = Ring(S2[m], m, i + 1)
                 /\ k2.prev[Ring(S2[m], m, i + 1)] = Ring(S2[m], m, i)
        <3>1. S2[m] = S[m] /\ m \in DOMAIN S /\ m # l /\ i \in Int /\ i + 1 \in Int /\ i \in 0 .. Len(S[m])
            BY <1>6
        <3>2. /\ Links.next[Ring(S[m], m, i)] = Ring(S[m], m, i + 1)
              /\ Links.prev[Ring(S[m], m, i + 1)] = Ring(S[m], m, i)
            BY <1>1, <3>1 DEF Linked
        <3>3. /\ Ring(S[m], m, i) \in Cell /\ Ring(S[m], m, i) \notin gone
              /\ Ring(S[m], m, i + 1) \in Cell /\ Ring(S[m], m, i + 1) \notin gone
            BY <1>10, <3>1
        <3>4. QED
            BY <1>9, <3>1, <3>2, <3>3
    <2>2. QED
        BY <2>1 DEF Linked
<1>12. Occupied(k2) = DOMAIN S2 \cup NodesIn(S2)
    <2>1. \A x \in DOMAIN S : x \in gone <=> x = l
        BY <1>1, <1>2, <1>3, TypedFacts
    <2>2. Occupied(k2) = Occupied(Links) \ gone
        BY <1>9 DEF Occupied
    <2>3. QED
        BY <1>1, <1>6, <1>8, <2>1, <2>2
<1>13. size_' \in [List -> Nat] /\ \A x \in DOMAIN S2 : size_'[x] = Len(S2[x])
    BY <1>1, <1>2, <1>5, <1>6
<1>14. Represents(S2)'
    BY <1>5, <1>6, <1>7, <1>9, <1>11, <1>12, <1>13, RepresentsNext
<1>15. QED
    BY <1>14 DEF S2

LEMMA EraseRings ==
    ASSUME NEW S, Represents(S), NEW l \in Live, NEW n \in NodesOf(l), Erase(l, n)
    PROVE  \E i \in 1 .. Len(S[l]) : Represents(CutFrom(S, l, i, i))'
<1>1. /\ DOMAIN S = Live /\ Typed(S) /\ Apart(S) /\ Links \in LinkType /\ Linked(S, Links)
      /\ Occupied(Links) = DOMAIN S \cup NodesIn(S)
      /\ Links.next = next_ /\ Links.prev = prev_
      /\ size_ \in [List -> Nat] /\ \A x \in Live : size_[x] = Len(S[x])
    BY CellsOf
<1>2. DOMAIN S \subseteq List /\ NodesIn(S) \subseteq Node /\ List \cap Node = {} /\ Null \notin Cell
    BY <1>1, SentinelsAreNoNodes
<1>3. PICK i \in 1 .. Len(S[l]) : n = S[l][i]
    BY ChainNodes
<1>4. /\ Len(S[l]) \in Nat /\ i \in i .. Len(S[l]) /\ i - 1 \in Int /\ i + 1 \in Int
      /\ i - 1 \in 0 .. Len(S[l]) /\ i \in 0 .. Len(S[l]) /\ i - 1 + 1 = i
      /\ S[l] \in Seq(Node) /\ l \in DOMAIN S /\ l \in List
    BY <1>1, <1>2, TypedFacts
<1> DEFINE S1 == CutFrom(S, l, i, i)
           a  == Ring(S[l], l, i - 1)
           b  == Ring(S[l], l, i + 1)
           t  == SubSeq(S[l], i, i)
<1>5. PICK k : k = Links
    OBVIOUS
<1>6. PICK k1 : k1 = Connect(k, a, b)
    OBVIOUS
<1>7. PICK k2 : k2 = Freed(k1, {n})
    OBVIOUS
<1>8. next_[n] = b /\ prev_[n] = a
    <2>1. Ring(S[l], l, i) = n
        BY <1>3, <1>4 DEF Ring
    <2>2. QED
        BY <1>1, <1>4, <2>1 DEF Linked
<1>9. SetLinks(k2) /\ size_' = [size_ EXCEPT ![l] = @ - 1]
    BY <1>5, <1>6, <1>7, <1>8 DEF Erase
<1>10. k \in LinkType /\ Linked(S, k)
    BY <1>1, <1>5
<1>11. /\ Typed(S1) /\ Apart(S1) /\ k1 \in LinkType /\ Linked(S1, k1)
       /\ DOMAIN S1 = DOMAIN S
    BY <1>1, <1>4, <1>6, <1>10, CutRings
<1>12. /\ Len(t) = i - i + 1
       /\ \A x \in 1 .. Len(t) : t[x] = S[l][i + x - 1]
       /\ NodesIn(S1) = NodesIn(S) \ Elements(t)
    BY <1>1, <1>4, <1>10, CutStretch
<1> HIDE DEF t
<1>13. NodesIn(S1) = NodesIn(S) \ {n}
    <2>1. Len(t) = 1 /\ i + 1 - 1 = i
        BY <1>4, <1>12
    <2>2. t[1] = n
        BY <1>3, <1>12, <2>1
    <2>3. Elements(t) = {n}
        BY <2>1, <2>2 DEF Elements
    <2>4. QED
        BY <1>12, <2>3
<1>14. Len(S1[l]) = Len(S[l]) - 1 /\ \A m \in DOMAIN S : m # l => S1[m] = S[m]
    <2>1. Len(Abstract!Cut(S[l], i, i)) = Len(S[l]) - (i - i + 1)
        BY <1>4, CutFacts
    <2>2. S1[l] = Abstract!Cut(S[l], i, i) /\ \A m \in DOMAIN S : m # l => S1[m] = S[m]
        BY <1>1, <1>4 DEF CutFrom, Typed
    <2>3. i - i + 1 = 1
        BY <1>4
    <2>4. QED
        BY <2>1, <2>2, <2>3
<1> HIDE DEF S1
<1>15. n \in NodesIn(S) /\ n \in Node /\ n \in Cell
    BY <1>3, <1>4, TypedFacts, <1>1 DEF NodesIn, Cell
<1>16. /\ k2 \in LinkType
       /\ \A x \in Cell : x # n => k2.next[x] = k1.next[x] /\ k2.prev[x] = k1.prev[x]
       /\ k2.next[n] = Null
    BY <1>7, <1>11, <1>15 DEF Freed, LinkType
<1>17. Linked(S1, k2)
    <2>1. ASSUME NEW m \in DOMAIN S1, NEW x \in 0 .. Len(S1[m])
          PROVE  /\ k2.next[Ring(S1[m], m, x)] = Ring(S1[m], m, x + 1)
                 /\ k2.prev[Ring(S1[m], m, x + 1)] = Ring(S1[m], m, x)
        <3>1. x \in Int /\ x + 1 \in Int
            OBVIOUS
        <3>2. /\ Ring(S1[m], m, x) \in DOMAIN S1 \cup NodesIn(S1)
              /\ Ring(S1[m], m, x + 1) \in DOMAIN S1 \cup NodesIn(S1)
            BY <1>11, <3>1, RingsOccupied
        <3>3. /\ Ring(S1[m], m, x) \in Cell /\ Ring(S1[m], m, x) # n
              /\ Ring(S1[m], m, x + 1) \in Cell /\ Ring(S1[m], m, x + 1) # n
            BY <1>2, <1>11, <1>13, <1>15, <3>1, <3>2, RingCells
        <3>4. /\ k1.next[Ring(S1[m], m, x)] = Ring(S1[m], m, x + 1)
              /\ k1.prev[Ring(S1[m], m, x + 1)] = Ring(S1[m], m, x)
            BY <1>11 DEF Linked
        <3>5. QED
            BY <1>16, <3>3, <3>4
    <2>2. QED
        BY <2>1 DEF Linked
<1>18. Occupied(k2) = DOMAIN S1 \cup NodesIn(S1)
    <2>1. a \in Cell /\ b \in Cell /\ a \in DOMAIN S \cup NodesIn(S)
        BY <1>1, <1>4, RingCells, RingsOccupied
    <2>2. Occupied(k1) = Occupied(k) \cup {a}
        BY <1>6, <1>10, <2>1, OccupiedByConnect
    <2>3. Occupied(k2) = Occupied(k1) \ {n}
        BY <1>15, <1>16 DEF Occupied
    <2>4. QED
        BY <1>1, <1>2, <1>5, <1>11, <1>13, <1>15, <2>1, <2>2, <2>3
<1>19. size_' \in [List -> Nat] /\ \A x \in DOMAIN S1 : size_'[x] = Len(S1[x])
    <2>1. size_' = [x \in List |-> IF x = l THEN size_[l] - 1 ELSE size_[x]]
        BY <1>1, <1>9
    <2>2. size_[l] - 1 \in Nat /\ size_[l] = Len(S[l])
        BY <1>1, <1>4
    <2>3. size_' \in [List -> Nat]
        BY <1>1, <2>1, <2>2
    <2>4. \A x \in DOMAIN S : size_'[x] = IF x = l THEN size_[l] - 1 ELSE size_[x]
        BY <1>2, <2>1
    <2>5. QED
        BY <1>1, <1>11, <1>14, <2>2, <2>3, <2>4
<1>20. Represents(S1)'
    BY <1>9, <1>11, <1>16, <1>17, <1>18, <1>19, RepresentsNext
<1>21. QED
    BY <1>20 DEF S1

LEMMA ConnectsCommute ==
    ASSUME NEW k \in LinkType, NEW p \in Cell, NEW n \in Cell, NEW q \in Cell, NEW o \in Cell,
           p # q, n # o
    PROVE  Connect(Connect(k, p, n), q, o) = Connect(Connect(k, q, o), p, n)
BY DEF Connect, LinkType

(* A position outside of a stretch is a position when it has been cut out. *)
LEMMA PositionAfterCut ==
    ASSUME NEW S, Typed(S), NEW m \in DOMAIN S, NEW i \in 1 .. Len(S[m]), NEW j \in i .. Len(S[m]),
           NEW l \in DOMAIN S, NEW p \in 1 .. Len(S[l]) + 1, l = m => p \notin i .. j
    PROVE  \E p1 \in 1 .. Len(CutFrom(S, m, i, j)[l]) + 1 :
               Ring(CutFrom(S, m, i, j)[l], l, p1) = Ring(S[l], l, p)
<1> DEFINE c == Abstract!Cut(S[m], i, j)
           n == Len(S[m])
           w == j - i + 1
<1>1. CutFrom(S, m, i, j)[l] = IF l = m THEN c ELSE S[l]
    BY DEF CutFrom, Typed
<1>2. /\ Len(c) = n - w
      /\ \A x \in 1 .. n - w : c[x] = IF x < i THEN S[m][x] ELSE S[m][x + w]
    BY CutFacts, TypedFacts
<1>3. n \in Nat /\ i \in 1 .. n /\ j \in i .. n
    BY TypedFacts
<1> HIDE DEF c
<1>4. CASE l # m
    BY <1>1, <1>4
<1>5. CASE l = m /\ p < i
    <2>1. p \in 1 .. n /\ p \in 1 .. n - w /\ p \in 1 .. n - w + 1
        BY <1>3, <1>5
    <2>2. Ring(c, l, p) = Ring(S[l], l, p)
        BY <1>2, <1>5, <2>1 DEF Ring
    <2>3. QED
        BY <1>1, <1>2, <1>5, <2>1, <2>2
<1>6. CASE l = m /\ p > j
    <2> DEFINE p1 == p - w
    <2>1. p \in 1 .. n + 1
        BY <1>6
    <2> HIDE DEF n
    <2>2. /\ p1 \in 1 .. n - w + 1 /\ ~(p1 < i) /\ p1 + w = p
          /\ p1 \in 1 .. n - w <=> p \in 1 .. n
        BY <1>3, <1>6, <2>1
    <2> HIDE DEF p1, w
    <2>3. Ring(c, l, p1) = Ring(S[l], l, p)
        BY <1>2, <1>6, <2>2 DEF Ring, n
    <2>4. QED
        BY <1>1, <1>2, <1>6, <2>2, <2>3
<1>7. QED
    <2>1. p \in Int /\ i \in Int /\ j \in Int
        BY <1>3, TypedFacts
    <2>2. QED
        BY <1>4, <1>5, <1>6, <2>1

(* The cells around a stretch and around the position it goes to.          *)
LEMMA SpliceCells ==
    ASSUME NEW S, Represents(S), NEW l \in Live, NEW m \in Live, NEW pos \in Positions(l),
           NEW i \in 1 .. Len(S[m]), NEW j \in i .. Len(S[m]),
           pos \notin Between(S[m], i, j), pos # Ring(S[m], m, j + 1)
    PROVE  LET a == Ring(S[m], m, i - 1)
               b == Ring(S[m], m, j + 1)
               f == S[m][i]
               e == S[m][j]
               q == prev_[pos]
           IN  /\ a \in Cell /\ b \in Cell /\ f \in Cell /\ e \in Cell /\ q \in Cell /\ pos \in Cell
               /\ prev_[b] = e /\ prev_[f] = a /\ next_[e] = b /\ next_[a] = f /\ next_[q] = pos
               /\ a # q /\ a # e /\ q # e /\ b # f /\ b # pos /\ f # pos
               /\ \E p \in 1 .. Len(S[l]) + 1 :
                      /\ pos = Ring(S[l], l, p) /\ q = Ring(S[l], l, p - 1)
                      /\ l = m => p \notin i .. j
<1> DEFINE a == Ring(S[m], m, i - 1)
           b == Ring(S[m], m, j + 1)
           f == S[m][i]
           e == S[m][j]
<1>1. /\ DOMAIN S = Live /\ Typed(S) /\ Apart(S) /\ Links \in LinkType /\ Linked(S, Links)
      /\ Links.next = next_ /\ Links.prev = prev_
    BY CellsOf
<1>2. PICK p \in 1 .. Len(S[l]) + 1 : pos = Ring(S[l], l, p) /\ prev_[pos] = Ring(S[l], l, p - 1)
    BY PositionInRing
<1>3. /\ Len(S[m]) \in Nat /\ Len(S[l]) \in Nat /\ i \in Int /\ j \in Int /\ p \in Int
      /\ i - 1 \in Int /\ j + 1 \in Int /\ p - 1 \in Int
      /\ i - 1 \in 0 .. Len(S[m]) /\ i \in 0 .. Len(S[m]) /\ j \in 0 .. Len(S[m])
      /\ p - 1 \in 0 .. Len(S[l]) /\ p - 1 + 1 = p /\ i - 1 + 1 = i
      /\ i \in 1 .. Len(S[m]) /\ j \in 1 .. Len(S[m]) /\ i \in i .. j /\ j \in i .. j
    BY <1>1, TypedFacts
<1>4. f = Ring(S[m], m, i) /\ e = Ring(S[m], m, j)
    BY <1>3 DEF Ring
<1>5. /\ a \in Cell /\ b \in Cell /\ f \in Cell /\ e \in Cell /\ prev_[pos] \in Cell /\ pos \in Cell
    BY <1>1, <1>2, <1>3, <1>4, RingCells
<1>6. next_[e] = b /\ prev_[b] = e
    BY <1>1, <1>3, <1>4 DEF Linked
<1>7. next_[a] = f /\ prev_[f] = a
    BY <1>1, <1>3, <1>4 DEF Linked
<1>8. next_[prev_[pos]] = pos
    BY <1>1, <1>2, <1>3 DEF Linked
<1>9. f # b
    <2>1. i \in 0 .. Len(S[m]) + 1 /\ j + 1 \in 0 .. Len(S[m]) + 1 /\ i # j + 1
          /\ i # 0 /\ i # Len(S[m]) + 1
        BY <1>3
    <2>2. QED
        BY <1>1, <1>4, <2>1, RingsDiffer
<1>10. f # pos /\ b # pos
    BY <1>3 DEF Between
<1>11. l = m => p \notin i .. j
    <2>1. SUFFICES ASSUME l = m, p \in i .. j PROVE FALSE
        OBVIOUS
    <2>2. p \in 1 .. Len(S[m])
        BY <1>3, <2>1
    <2>3. pos = S[m][p]
        BY <1>2, <2>1, <2>2 DEF Ring
    <2>4. QED
        BY <2>1, <2>3 DEF Between
<1> HIDE DEF a, b, f, e
<1>12. a # prev_[pos] /\ a # e /\ prev_[pos] # e
    BY <1>6, <1>7, <1>8, <1>9, <1>10
<1>13. QED
    BY <1>2, <1>5, <1>6, <1>7, <1>8, <1>9, <1>10, <1>11, <1>12 DEF a, b, f, e

(* What the three splices share: the stretch i to j of m goes before pos.  *)
LEMMA SpliceRings ==
    ASSUME NEW S, Represents(S), NEW l \in Live, NEW m \in Live, NEW pos \in Positions(l),
           NEW i \in 1 .. Len(S[m]), NEW j \in i .. Len(S[m]),
           pos \notin Between(S[m], i, j), pos # Ring(S[m], m, j + 1),
           SetLinks(Connect(Connect(Connect(Links, Ring(S[m], m, i - 1), Ring(S[m], m, j + 1)),
                                    prev_[pos], S[m][i]), S[m][j], pos)),
           size_' = [[size_ EXCEPT ![l] = @ + (j - i + 1)] EXCEPT ![m] = @ - (j - i + 1)]
    PROVE  Represents(Spliced(S, l, pos, m, i, j))'
<1> DEFINE a == Ring(S[m], m, i - 1)
           b == Ring(S[m], m, j + 1)
           f == S[m][i]
           e == S[m][j]
           S1 == CutFrom(S, m, i, j)
           t  == SubSeq(S[m], i, j)
           w  == j - i + 1
<1>1. /\ DOMAIN S = Live /\ Typed(S) /\ Apart(S) /\ Links \in LinkType /\ Linked(S, Links)
      /\ Occupied(Links) = DOMAIN S \cup NodesIn(S)
      /\ Links.next = next_ /\ Links.prev = prev_
      /\ size_ \in [List -> Nat] /\ \A x \in Live : size_[x] = Len(S[x])
    BY CellsOf
<1>2. DOMAIN S \subseteq List /\ l \in DOMAIN S /\ m \in DOMAIN S /\ Len(S[l]) \in Nat /\ Len(S[m]) \in Nat
    BY <1>1, SentinelsAreNoNodes, TypedFacts
<1>3. PICK k : k = Links
    OBVIOUS
<1>4. PICK q : q = prev_[pos]
    OBVIOUS
<1>5. PICK k1 : k1 = Connect(k, a, b)
    OBVIOUS
<1>6. PICK k2 : k2 = Connect(Connect(k1, q, f), e, pos)
    OBVIOUS
<1>7. SetLinks(k2)
    BY <1>3, <1>4, <1>5, <1>6
<1>8. /\ a \in Cell /\ b \in Cell /\ f \in Cell /\ e \in Cell /\ q \in Cell /\ pos \in Cell
      /\ b # pos /\ a # q
    BY <1>4, SpliceCells
<1>9. \E p \in 1 .. Len(S[l]) + 1 :
          /\ pos = Ring(S[l], l, p) /\ q = Ring(S[l], l, p - 1)
          /\ l = m => p \notin i .. j
    <2>1. \E p \in 1 .. Len(S[l]) + 1 :
              /\ pos = Ring(S[l], l, p) /\ prev_[pos] = Ring(S[l], l, p - 1)
              /\ l = m => p \notin i .. j
        BY SpliceCells
    <2>2. QED
        BY <1>4, <2>1
<1>10. PICK p \in 1 .. Len(S[l]) + 1 :
          /\ pos = Ring(S[l], l, p) /\ q = Ring(S[l], l, p - 1)
          /\ l = m => p \notin i .. j
    BY <1>9
<1>11. k \in LinkType /\ Linked(S, k)
    BY <1>1, <1>3
<1>12. /\ Typed(S1) /\ Apart(S1) /\ k1 \in LinkType /\ Linked(S1, k1)
       /\ DOMAIN S1 = DOMAIN S
    BY <1>1, <1>2, <1>5, <1>11, CutRings
<1>13. /\ Stretch(t, S1, k1) /\ Len(t) = w
       /\ \A x \in 1 .. Len(t) : t[x] = S[m][i + x - 1]
       /\ NodesIn(S1) = NodesIn(S) \ Elements(t)
    BY <1>1, <1>2, <1>5, <1>11, CutStretch
<1>14. w \in Nat /\ w > 0 /\ i + 1 - 1 = i /\ i + w - 1 = j /\ 1 \in 1 .. w /\ w \in 1 .. w /\ w <= Len(S[m])
    <2> DEFINE n == Len(S[m])
    <2>1. n \in Nat /\ i \in 1 .. n /\ j \in i .. n
        BY <1>2
    <2> HIDE DEF n
    <2>2. w \in Nat /\ w > 0 /\ i + 1 - 1 = i /\ i + w - 1 = j /\ w <= n
        BY <2>1
    <2> HIDE DEF w
    <2>3. QED
        BY <2>2 DEF n
<1> HIDE DEF w, t
<1>15. t[1] = f /\ t[Len(t)] = e
    BY <1>13, <1>14
<1>16. Elements(t) \subseteq NodesIn(S) /\ e \in Elements(t)
    <2>1. e \in Elements(t)
        BY <1>13, <1>14, <1>15 DEF Elements
    <2>2. ASSUME NEW x \in 1 .. w
          PROVE  t[x] \in NodesIn(S)
        <3>1. i + x - 1 \in 1 .. Len(S[m]) /\ t[x] = S[m][i + x - 1]
            <4>1. x \in Nat /\ i \in Nat /\ Len(S[m]) \in Nat /\ 1 <= x /\ x <= w /\ 1 <= i
                BY <1>2, <1>14
            <4>2. i + x - 1 \in 1 .. Len(S[m])
                BY <1>14, <4>1
            <4>3. QED
                BY <1>13, <4>2
        <3>2. PICK y \in 1 .. Len(S[m]) : t[x] = S[m][y]
            BY <3>1
        <3>3. S[m][y] \in Node /\ m \in DOMAIN S
            BY <1>1, <1>2, TypedFacts
        <3>4. QED
            BY <3>2, <3>3 DEF NodesIn
    <2>3. QED
        BY <1>13, <2>1, <2>2 DEF Elements
<1>17. PICK p1 \in 1 .. Len(S1[l]) + 1 : Ring(S1[l], l, p1) = pos
    BY <1>1, <1>2, <1>10, PositionAfterCut
<1> HIDE DEF a, b, f, e, S1
<1>18. Abstract!Index(S1[l], pos) = p1
    BY <1>2, <1>12, <1>17, IndexOfRing
<1>19. Ring(S1[l], l, p1 - 1) = q
    <2>1. p1 - 1 \in 0 .. Len(S1[l]) /\ p1 - 1 + 1 = p1
        BY <1>2, <1>12, TypedFacts
    <2>2. k1.prev[pos] = Ring(S1[l], l, p1 - 1)
        BY <1>2, <1>12, <1>17, <2>1 DEF Linked
    <2>3. k1.prev[pos] = k.prev[pos]
        BY <1>5, <1>8, <1>11 DEF Connect, LinkType
    <2>4. QED
        BY <1>1, <1>3, <1>4, <2>2, <2>3
<1> DEFINE S2 == PasteInto(S1, l, p1, t)
<1>20. k2 = Connect(Connect(k1, Ring(S1[l], l, p1 - 1), t[1]), t[Len(t)], Ring(S1[l], l, p1))
    BY <1>6, <1>15, <1>17, <1>19
<1>21. /\ Typed(S2) /\ Apart(S2) /\ k2 \in LinkType /\ Linked(S2, k2)
       /\ DOMAIN S2 = DOMAIN S1
       /\ NodesIn(S2) = NodesIn(S1) \cup Elements(t)
       /\ Len(S2[l]) = Len(S1[l]) + Len(t)
    <2>1. l \in DOMAIN S1 /\ p1 \in 1 .. Len(S1[l]) + 1 /\ Stretch(t, S1, k1)
        BY <1>2, <1>12, <1>13
    <2>2. Typed(S1) /\ Apart(S1) /\ k1 \in LinkType /\ Linked(S1, k1)
        BY <1>12
    <2>3. QED
        BY <1>20, <2>1, <2>2, PasteRings
<1>22. NodesIn(S2) = NodesIn(S)
    BY <1>13, <1>16, <1>21
<1>23. Occupied(k2) = DOMAIN S2 \cup NodesIn(S2)
    <2>1. Occupied(k1) = Occupied(k) \cup {a} /\ k1 \in LinkType
        BY <1>5, <1>8, <1>11, OccupiedByConnect
    <2>2. Occupied(Connect(k1, q, f)) = Occupied(k1) \cup {q} /\ Connect(k1, q, f) \in LinkType
        BY <1>8, <2>1, OccupiedByConnect
    <2>3. Occupied(k2) = Occupied(Connect(k1, q, f)) \cup {e}
        BY <1>6, <1>8, <2>2, OccupiedByConnect
    <2>4. p - 1 \in Int /\ i - 1 \in Int
        BY <1>2
    <2>5. a \in DOMAIN S \cup NodesIn(S) /\ q \in DOMAIN S \cup NodesIn(S)
        BY <1>1, <1>2, <1>10, <2>4, RingsOccupied DEF a
    <2>6. QED
        BY <1>1, <1>3, <1>12, <1>16, <1>21, <1>22, <2>1, <2>2, <2>3, <2>5
<1>24. /\ \A x \in DOMAIN S : Len(S1[x]) = IF x = m THEN Len(S[x]) - w ELSE Len(S[x])
       /\ \A x \in DOMAIN S : x # l => S2[x] = S1[x]
    <2>1. Len(Abstract!Cut(S[m], i, j)) = Len(S[m]) - w
        BY <1>1, <1>2, TypedFacts, CutFacts DEF w
    <2>2. /\ S1[m] = Abstract!Cut(S[m], i, j)
          /\ \A x \in DOMAIN S : x # m => S1[x] = S[x]
        BY <1>1, <1>2 DEF S1, CutFrom, Typed
    <2>3. \A x \in DOMAIN S : x # l => S2[x] = S1[x]
        BY <1>12 DEF PasteInto, Typed
    <2> HIDE DEF S2
    <2>4. QED
        BY <2>1, <2>2, <2>3
<1> HIDE DEF S2
<1>25. size_' \in [List -> Nat] /\ \A x \in DOMAIN S2 : size_'[x] = Len(S2[x])
    <2>1. size_' = [x \in List |-> IF x = m THEN (IF l = m THEN size_[m] + w ELSE size_[m]) - w
                                   ELSE IF x = l THEN size_[l] + w ELSE size_[x]]
        BY <1>1, <1>2 DEF w
    <2>2. /\ size_[m] = Len(S[m]) /\ size_[l] = Len(S[l])
          /\ (IF l = m THEN size_[m] + w ELSE size_[m]) - w \in Nat /\ size_[l] + w \in Nat
        <3>1. size_[m] = Len(S[m]) /\ size_[l] = Len(S[l]) /\ size_[m] \in Nat /\ size_[l] \in Nat
            BY <1>1, <1>2
        <3>2. w \in Nat /\ w <= size_[m]
            BY <1>14, <3>1
        <3>3. QED
            BY <3>1, <3>2
    <2>3. size_' \in [List -> Nat]
        BY <1>1, <2>1, <2>2
    <2>4. ASSUME NEW x \in DOMAIN S
          PROVE  size_'[x] = Len(S2[x])
        <3>1. size_'[x] = IF x = m THEN (IF l = m THEN size_[m] + w ELSE size_[m]) - w
                          ELSE IF x = l THEN size_[l] + w ELSE size_[x]
            BY <1>2, <2>1
        <3>2. size_[x] = Len(S[x]) /\ Len(S[x]) \in Nat
            BY <1>1, TypedFacts
        <3>3. Len(S2[x]) = IF x = l THEN Len(S1[l]) + w ELSE Len(S1[x])
            BY <1>13, <1>21, <1>24
        <3>4. Len(S1[x]) = (IF x = m THEN Len(S[x]) - w ELSE Len(S[x])) /\ Len(S1[l]) = (IF l = m THEN Len(S[l]) - w ELSE Len(S[l]))
            BY <1>2, <1>24
        <3>5. CASE x = l /\ l = m
            BY <1>2, <1>14, <2>2, <3>1, <3>2, <3>3, <3>4, <3>5
        <3>6. CASE x = l /\ l # m
            BY <1>2, <1>14, <2>2, <3>1, <3>2, <3>3, <3>4, <3>6
        <3>7. CASE x # l
            BY <1>2, <1>14, <2>2, <3>1, <3>2, <3>3, <3>4, <3>7
        <3>8. QED
            BY <3>5, <3>6, <3>7
    <2>5. QED
        BY <1>12, <1>21, <2>3, <2>4
<1>26. Represents(S2)'
    BY <1>7, <1>21, <1>23, <1>25, RepresentsNext
<1>27. QED
    BY <1>18, <1>26 DEF S2, S1, t, Spliced

LEMMA SpliceOneRings ==
    ASSUME NEW S, Represents(S), NEW l \in Live, NEW m \in Live, NEW pos \in Positions(l),
           NEW it \in NodesOf(m), SpliceOne(l, pos, m, it)
    PROVE  \E i \in 1 .. Len(S[m]) :
               pos \notin Between(S[m], i, i) /\ Represents(Spliced(S, l, pos, m, i, i))'
<1>1. /\ DOMAIN S = Live /\ Typed(S) /\ Apart(S) /\ Links \in LinkType /\ Linked(S, Links)
      /\ Links.next = next_ /\ Links.prev = prev_
    BY CellsOf
<1>2. PICK i \in 1 .. Len(S[m]) : it = S[m][i]
    BY ChainNodes
<1>3. /\ Len(S[m]) \in Nat /\ i \in Int /\ i \in 0 .. Len(S[m]) /\ i - 1 \in 0 .. Len(S[m]) /\ i - 1 + 1 = i
      /\ i \in i .. Len(S[m]) /\ i - i + 1 = 1 /\ i - 1 \in Int /\ i + 1 \in Int
    BY <1>1, TypedFacts
<1> DEFINE a == Ring(S[m], m, i - 1)
           b == Ring(S[m], m, i + 1)
<1>4. next_[it] = b /\ prev_[it] = a
    <2>1. Ring(S[m], m, i) = it
        BY <1>2, <1>3 DEF Ring
    <2>2. QED
        BY <1>1, <1>3, <2>1 DEF Linked
<1>5. pos # it /\ pos # b
    BY <1>4 DEF SpliceOne
<1>6. pos \notin Between(S[m], i, i)
    BY <1>2, <1>3, <1>5 DEF Between
<1>7. /\ a \in Cell /\ b \in Cell /\ pos \in Cell
    <2>1. pos \in Cell
        BY <1>3, <1>5, <1>6, SpliceCells
    <2>2. QED
        BY <1>1, <1>3, <2>1, RingCells
<1>8. Connect(Links, a, b).prev[pos] = prev_[pos]
    BY <1>1, <1>5, <1>7 DEF Connect, LinkType
<1> HIDE DEF a, b
<1>9. SetLinks(Connect(Connect(Connect(Links, a, b), prev_[pos], it), it, pos))
    BY <1>4, <1>8 DEF SpliceOne
<1>10. size_' = [[size_ EXCEPT ![l] = @ + (i - i + 1)] EXCEPT ![m] = @ - (i - i + 1)]
    BY <1>3 DEF SpliceOne
<1>11. Represents(Spliced(S, l, pos, m, i, i))'
    BY <1>2, <1>3, <1>5, <1>6, <1>9, <1>10, SpliceRings DEF a, b
<1>12. QED
    BY <1>6, <1>11

LEMMA SpliceRangeRings ==
    ASSUME NEW S, Represents(S), ~SpliceInPlace, NEW l \in Live, NEW m \in Live, NEW pos \in Positions(l),
           NEW r \in Ranges(m), SpliceRange(l, pos, m, r)
    PROVE  \E i \in 1 .. Len(S[m]) : \E j \in i .. Len(S[m]) :
               pos \notin Between(S[m], i, j) /\ Represents(Spliced(S, l, pos, m, i, j))'
<1>1. /\ DOMAIN S = Live /\ Typed(S) /\ Apart(S) /\ Links \in LinkType /\ Linked(S, Links)
      /\ Links.next = next_ /\ Links.prev = prev_
    BY CellsOf
<1> DEFINE n == Len(S[m])
           at == [x \in 1 .. n + 1 |-> IF x = n + 1 THEN m ELSE S[m][x]]
<1>2. n \in Nat /\ Chain(m) = S[m]
    BY <1>1, TypedFacts, ChainOfRing
<1>3. \E i \in 1 .. n + 1 : \E o \in i .. n + 1 :
          r = [first |-> at[i], last |-> at[o], nodes |-> Between(S[m], i, o - 1)]
    <2>1. Ranges(m) = UNION {{[first |-> at[i], last |-> at[o], nodes |-> Between(S[m], i, o - 1)] :
                                  o \in i .. n + 1} : i \in 1 .. n + 1}
        BY <1>2 DEF Ranges, Between
    <2> HIDE DEF at, n
    <2>2. QED
        BY <2>1
<1>4. PICK i \in 1 .. n + 1 : \E o \in i .. n + 1 :
          r = [first |-> at[i], last |-> at[o], nodes |-> Between(S[m], i, o - 1)]
    BY <1>3
<1>5. PICK o \in i .. n + 1 :
          r = [first |-> at[i], last |-> at[o], nodes |-> Between(S[m], i, o - 1)]
    BY <1>4
<1>6. /\ r.first # r.last /\ pos \notin r.nodes /\ pos # r.last
      /\ r.first = at[i] /\ r.last = at[o] /\ r.nodes = Between(S[m], i, o - 1)
    BY <1>5 DEF SpliceRange
<1> DEFINE j == o - 1
<1>7. i # o
    BY <1>6
<1> HIDE DEF n
<1>8. /\ i \in 1 .. n /\ j \in i .. n /\ j + 1 = o /\ i # n + 1 /\ i \in 1 .. n + 1 /\ o \in 1 .. n + 1
      /\ j \in 1 .. n /\ j \in 0 .. n /\ i - 1 \in 0 .. n /\ i - 1 + 1 = i /\ i \in 0 .. n
      /\ i \in Int /\ j \in Int /\ i - 1 \in Int /\ j + 1 \in Int
      /\ \A x \in i .. j : x \in 1 .. n
    BY <1>2, <1>7
<1>9. r.first = S[m][i] /\ r.last = Ring(S[m], m, j + 1)
    <2>1. at[i] = S[m][i]
        BY <1>8
    <2>2. n = Len(S[m])
        BY DEF n
    <2>3. at[o] = Ring(S[m], m, o)
        BY <1>2, <1>8, <2>2 DEF Ring
    <2>4. QED
        BY <1>6, <1>8, <2>1, <2>3
<1> HIDE DEF at
<1>10. pos \notin Between(S[m], i, j) /\ pos # Ring(S[m], m, j + 1)
    BY <1>6, <1>9
<1> HIDE DEF j
<1>11. Cardinality(r.nodes) = j - i + 1
    <2>1. r.nodes = Between(S[m], i, j)
        BY <1>6 DEF j
    <2> DEFINE g == [x \in i .. j |-> S[m][x]]
    <2>2. g \in Bijection(i .. j, r.nodes)
        <3>1. \A x, y \in i .. j : g[x] = g[y] => x = y
            BY <1>1, <1>8 DEF Apart, n
        <3>2. g \in [i .. j -> r.nodes]
            BY <2>1 DEF Between
        <3>3. \A z \in r.nodes : \E x \in i .. j : g[x] = z
            BY <2>1 DEF Between
        <3> HIDE DEF g
        <3>4. QED
            BY <3>1, <3>2, <3>3 DEF Bijection, Injection, Surjection, IsInjective
    <2> HIDE DEF g
    <2>3. IsFiniteSet(i .. j) /\ Cardinality(i .. j) = j - i + 1
        <3>1. IsFiniteSet(i .. j) /\ Cardinality(i .. j) = IF i > j THEN 0 ELSE j - i + 1
            BY <1>8, FS_Interval
        <3>2. QED
            BY <1>8, <3>1
    <2>4. Cardinality(i .. j) = Cardinality(r.nodes)
        BY <2>2, <2>3, FS_Bijection DEF ExistsBijection
    <2>5. QED
        BY <2>3, <2>4
<1> DEFINE a == Ring(S[m], m, i - 1)
           b == Ring(S[m], m, j + 1)
           f == S[m][i]
           e == S[m][j]
<1>12. PICK q : q = prev_[pos]
    OBVIOUS
<1>13. i \in 1 .. Len(S[m]) /\ j \in i .. Len(S[m])
    BY <1>8 DEF n
<1>14. /\ a \in Cell /\ b \in Cell /\ f \in Cell /\ e \in Cell /\ q \in Cell /\ pos \in Cell
       /\ prev_[b] = e /\ prev_[f] = a
       /\ a # q /\ a # e /\ q # e /\ b # f /\ b # pos /\ f # pos
    BY <1>10, <1>12, <1>13, SpliceCells
<1>15. PICK k : k = Links
    OBVIOUS
<1>16. Connect(k, q, f).prev[b] = e
    BY <1>1, <1>14, <1>15 DEF Connect, LinkType
<1>17. SetLinks(Connect(Connect(Connect(k, q, f), e, pos), a, b))
    BY <1>6, <1>9, <1>12, <1>14, <1>15, <1>16 DEF SpliceRange
<1> HIDE DEF a, b, f, e
<1>18. k \in LinkType
    BY <1>1, <1>15
<1>19. Connect(k, q, f) \in LinkType /\ Connect(k, a, b) \in LinkType
    BY <1>14, <1>18, OccupiedByConnect
<1>20. Connect(Connect(Connect(k, q, f), e, pos), a, b) = Connect(Connect(Connect(k, q, f), a, b), e, pos)
    BY <1>14, <1>19, ConnectsCommute
<1>21. Connect(Connect(k, q, f), a, b) = Connect(Connect(k, a, b), q, f)
    BY <1>14, <1>18, ConnectsCommute
<1>22. SetLinks(Connect(Connect(Connect(Links, a, b), prev_[pos], f), e, pos))
    BY <1>12, <1>15, <1>17, <1>20, <1>21
<1>23. size_' = [[size_ EXCEPT ![l] = @ + (j - i + 1)] EXCEPT ![m] = @ - (j - i + 1)]
    BY <1>11 DEF SpliceRange
<1>24. Represents(Spliced(S, l, pos, m, i, j))'
    BY <1>10, <1>13, <1>22, <1>23, SpliceRings DEF a, b, f, e
<1>25. QED
    BY <1>10, <1>13, <1>24

LEMMA SpliceAllRings ==
    ASSUME NEW S, Represents(S), NEW l \in Live, NEW m \in Live, NEW pos \in Positions(l),
           SpliceAll(l, pos, m)
    PROVE  \/ Represents(S)'
           \/ \E i \in 1 .. Len(S[m]) : \E j \in i .. Len(S[m]) :
                  pos \notin Between(S[m], i, j) /\ Represents(Spliced(S, l, pos, m, i, j))'
<1>1. /\ DOMAIN S = Live /\ Typed(S) /\ Apart(S) /\ Links \in LinkType /\ Linked(S, Links)
      /\ Links.next = next_ /\ Links.prev = prev_
      /\ next_ \in [Cell -> Cell \cup {Null}] /\ prev_ \in [Cell -> Cell \cup {Null}]
      /\ size_ \in [List -> Nat] /\ \A x \in Live : size_[x] = Len(S[x])
    BY CellsOf
<1>2. DOMAIN S \subseteq List /\ Len(S[m]) \in Nat /\ m \in List /\ l \in List /\ l # m /\ m \in Cell
    BY <1>1, SentinelsAreNoNodes, TypedFacts DEF SpliceAll, Cell
<1>3. PICK p \in 1 .. Len(S[l]) + 1 : pos = Ring(S[l], l, p) /\ prev_[pos] = Ring(S[l], l, p - 1)
    BY PositionInRing
<1>4. /\ Len(S[l]) \in Nat /\ p \in Int /\ p - 1 \in Int /\ p - 1 \in 0 .. Len(S[l]) /\ p - 1 + 1 = p
      /\ p \in 0 .. Len(S[l]) + 1 /\ p - 1 \in 0 .. Len(S[l]) + 1
    BY <1>1, TypedFacts
<1>5. next_[prev_[pos]] = pos
    BY <1>1, <1>3, <1>4 DEF Linked
<1>6. \A i \in 0 .. Len(S[m]) + 1 : pos # Ring(S[m], m, i) /\ prev_[pos] # Ring(S[m], m, i)
    BY <1>1, <1>2, <1>3, <1>4, RingsDiffer
<1>7. pos # m /\ prev_[pos] # m /\ pos \in Cell /\ prev_[pos] \in Cell
    <2>1. 0 \in 0 .. Len(S[m]) + 1 /\ Ring(S[m], m, 0) = m
        BY <1>2 DEF Ring
    <2>2. QED
        BY <1>1, <1>3, <1>4, <1>6, <2>1, RingCells
<1>8. CASE Len(S[m]) = 0
    <2>1. next_[m] = m /\ prev_[m] = m
        <3>1. 0 \in 0 .. Len(S[m]) /\ Ring(S[m], m, 0) = m /\ Ring(S[m], m, 0 + 1) = m
            BY <1>8 DEF Ring
        <3>2. QED
            BY <1>1, <3>1 DEF Linked
    <2>2. PICK q : q = prev_[pos]
        OBVIOUS
    <2>3. PICK k1 : k1 = Connect(Links, q, m)
        OBVIOUS
    <2>4. /\ k1.next = [next_ EXCEPT ![q] = m]
          /\ k1.prev = [prev_ EXCEPT ![m] = q] /\ k1.prev[m] = q
        BY <1>1, <1>2, <2>3 DEF Connect
    <2>5. PICK k2 : k2 = Connect(k1, q, pos)
        OBVIOUS
    <2>6. /\ k2.next = [k1.next EXCEPT ![q] = pos] /\ k2.prev = [k1.prev EXCEPT ![pos] = q]
        BY <2>5 DEF Connect
    <2>7. SetLinks(Reset(k2, m)) /\ size_' = [[size_ EXCEPT ![l] = @ + size_[m]] EXCEPT ![m] = 0]
        BY <2>1, <2>2, <2>3, <2>4, <2>5 DEF SpliceAll
    <2>8. next_' = [[[next_ EXCEPT ![q] = m] EXCEPT ![q] = pos] EXCEPT ![m] = m]
        BY <2>4, <2>6, <2>7 DEF SetLinks, Reset
    <2>9. prev_' = [[[prev_ EXCEPT ![m] = q] EXCEPT ![pos] = q] EXCEPT ![m] = m]
        BY <2>4, <2>6, <2>7 DEF SetLinks, Reset
    <2>10. next_' = next_
        BY <1>1, <1>5, <1>7, <2>1, <2>2, <2>8
    <2>11. prev_' = prev_
        BY <1>1, <1>7, <2>1, <2>2, <2>9
    <2>12. size_' = size_
        BY <1>1, <1>2, <1>8, <2>7
    <2>13. Represents(S)'
        BY <2>10, <2>11, <2>12 DEF Represents, Links, Live, Allocated
    <2>14. QED
        BY <2>13
<1>9. CASE Len(S[m]) > 0
    <2> DEFINE n == Len(S[m])
               a == Ring(S[m], m, 1 - 1)
               b == Ring(S[m], m, n + 1)
               f == S[m][1]
               e == S[m][n]
    <2>1. /\ 1 \in 1 .. n /\ n \in 1 .. n /\ n - 1 + 1 = n /\ a = m /\ b = m
          /\ n + 1 \in 0 .. n + 1
        BY <1>2, <1>9 DEF Ring
    <2>2. pos \notin Between(S[m], 1, n) /\ pos # b
        <3>1. \A i \in 1 .. n : pos # S[m][i]
            <4>1. \A i \in 1 .. n : i \in 0 .. n + 1 /\ Ring(S[m], m, i) = S[m][i]
                BY <1>2 DEF Ring
            <4>2. QED
                BY <1>6, <4>1
        <3>2. QED
            BY <1>6, <2>1, <3>1 DEF Between
    <2>3. PICK q : q = prev_[pos]
        OBVIOUS
    <2>4. PICK k : k = Links
        OBVIOUS
    <2>5. /\ a \in Cell /\ b \in Cell /\ f \in Cell /\ e \in Cell /\ q \in Cell /\ pos \in Cell
          /\ prev_[b] = e /\ next_[a] = f
          /\ a # q /\ a # e /\ q # e /\ b # f /\ b # pos /\ f # pos
        BY <2>1, <2>2, <2>3, SpliceCells
    <2>6. Connect(k, q, f).prev[m] = e
        BY <1>1, <2>1, <2>4, <2>5 DEF Connect, LinkType
    <2>7. SetLinks(Reset(Connect(Connect(k, q, f), e, pos), m))
        BY <2>1, <2>3, <2>4, <2>5, <2>6 DEF SpliceAll
    <2>8. Reset(Connect(Connect(k, q, f), e, pos), m) = Connect(Connect(Connect(k, q, f), e, pos), a, b)
        BY <2>1 DEF Reset, Connect
    <2> HIDE DEF a, b, f, e
    <2>9. k \in LinkType
        BY <1>1, <2>4
    <2>10. Connect(k, q, f) \in LinkType /\ Connect(k, a, b) \in LinkType
        BY <2>5, <2>9, OccupiedByConnect
    <2>11. Connect(Connect(Connect(k, q, f), e, pos), a, b) = Connect(Connect(Connect(k, q, f), a, b), e, pos)
        BY <2>5, <2>10, ConnectsCommute
    <2>12. Connect(Connect(k, q, f), a, b) = Connect(Connect(k, a, b), q, f)
        BY <2>5, <2>9, ConnectsCommute
    <2>13. SetLinks(Connect(Connect(Connect(Links, a, b), prev_[pos], f), e, pos))
        BY <2>3, <2>4, <2>7, <2>8, <2>11, <2>12
    <2>14. size_' = [[size_ EXCEPT ![l] = @ + (n - 1 + 1)] EXCEPT ![m] = @ - (n - 1 + 1)]
        <3>1. size_' = [[size_ EXCEPT ![l] = @ + size_[m]] EXCEPT ![m] = 0]
            BY DEF SpliceAll
        <3>2. size_[m] = n /\ n - 1 + 1 = n /\ n - n = 0
            BY <1>1, <1>2
        <3> HIDE DEF n
        <3>3. [size_ EXCEPT ![l] = @ + n][m] = n
            BY <1>1, <1>2, <3>2
        <3>4. QED
            BY <3>1, <3>2, <3>3
    <2>15. Represents(Spliced(S, l, pos, m, 1, n))'
        BY <2>1, <2>2, <2>13, <2>14, SpliceRings DEF a, b, f, e
    <2>16. QED
        BY <2>1, <2>2, <2>15
<1>10. QED
    BY <1>2, <1>8, <1>9

LEMMA MoveConstructRings ==
    ASSUME NEW S, Represents(S), NEW l \in List, NEW m \in Live, MoveConstruct(l, m)
    PROVE  Represents([x \in DOMAIN S \cup {l} |->
                           IF x = l THEN S[m] ELSE IF x = m THEN << >> ELSE S[x]])'
<1> DEFINE S2 == [x \in DOMAIN S \cup {l} |->
                      IF x = l THEN S[m] ELSE IF x = m THEN << >> ELSE S[x]]
           n == Len(S[m])
<1>1. /\ DOMAIN S = Live /\ Typed(S) /\ Apart(S) /\ Links \in LinkType /\ Linked(S, Links)
      /\ Occupied(Links) = DOMAIN S \cup NodesIn(S)
      /\ Links.next = next_ /\ Links.prev = prev_
      /\ next_ \in [Cell -> Cell \cup {Null}] /\ prev_ \in [Cell -> Cell \cup {Null}]
      /\ size_ \in [List -> Nat] /\ \A x \in Live : size_[x] = Len(S[x])
    BY CellsOf
<1>2. DOMAIN S \subseteq List /\ NodesIn(S) \subseteq Node /\ List \cap Node = {} /\ Null \notin Cell
    BY <1>1, SentinelsAreNoNodes
<1>3. /\ l \notin Live /\ l # m /\ l \in Cell /\ m \in Cell /\ l \in List /\ m \in List
      /\ n \in Nat /\ S[m] \in Seq(Node) /\ \A i \in 1 .. n : S[m][i] \in Node
    BY <1>1, TypedFacts DEF MoveConstruct, Cell
<1>4. PICK k2 : SetLinks(k2) /\ k2 = [next |-> next_', prev |-> prev_']
    BY DEF SetLinks
<1>5. \A i \in 0 .. n : next_[Ring(S[m], m, i)] = Ring(S[m], m, i + 1) /\ prev_[Ring(S[m], m, i + 1)] = Ring(S[m], m, i)
    BY <1>1 DEF Linked
<1>6. /\ << >> \in Seq(Node) /\ Len(<< >>) = 0
    BY EmptySeq
<1>7. Typed(S2)
    BY <1>1, <1>2, <1>6 DEF Typed
<1>8. /\ DOMAIN S2 = DOMAIN S \cup {l} /\ S2[l] = S[m] /\ S2[m] = << >>
      /\ \A x \in DOMAIN S : x # m => S2[x] = S[x]
    BY <1>1, <1>3
<1> HIDE DEF S2
<1>9. \A x \in DOMAIN S2, i \in Int :
          i \in 1 .. Len(S2[x]) =>
              \E y \in DOMAIN S : y = (IF x = l THEN m ELSE x) /\ i \in 1 .. Len(S[y]) /\ S2[x][i] = S[y][i] /\ x # m
    BY <1>1, <1>3, <1>6, <1>8
<1>10. Apart(S2)
    <2>1. ASSUME NEW x \in DOMAIN S2, NEW y \in DOMAIN S2,
                 NEW i \in 1 .. Len(S2[x]), NEW j \in 1 .. Len(S2[y]), S2[x][i] = S2[y][j]
          PROVE  x = y /\ i = j
        <3>1. i \in Int /\ j \in Int
            OBVIOUS
        <3>2. PICK u \in DOMAIN S : u = (IF x = l THEN m ELSE x) /\ i \in 1 .. Len(S[u]) /\ S2[x][i] = S[u][i] /\ x # m
            BY <1>9, <3>1
        <3>3. PICK v \in DOMAIN S : v = (IF y = l THEN m ELSE y) /\ j \in 1 .. Len(S[v]) /\ S2[y][j] = S[v][j] /\ y # m
            BY <1>9, <3>1
        <3>4. Apart(S) /\ S[u][i] = S[v][j]
            BY <1>1, <2>1, <3>2, <3>3
        <3>5. u = v /\ i = j
            BY <3>2, <3>3, <3>4 DEF Apart
        <3>6. QED
            BY <3>2, <3>3, <3>5
    <2>2. QED
        BY <2>1 DEF Apart
<1>11. NodesIn(S2) = NodesIn(S)
    <2>1. \A z \in NodesIn(S2) : z \in NodesIn(S)
        BY <1>9 DEF NodesIn
    <2>2. ASSUME NEW z \in NodesIn(S)
          PROVE  z \in NodesIn(S2)
        <3>1. PICK x \in DOMAIN S : \E i \in 1 .. Len(S[x]) : z = S[x][i]
            BY DEF NodesIn
        <3>2. CASE x = m
            BY <1>8, <3>1, <3>2 DEF NodesIn
        <3>3. CASE x # m
            BY <1>8, <3>1, <3>3 DEF NodesIn
        <3>4. QED
            BY <3>2, <3>3
    <2>3. QED
        BY <2>1, <2>2
<1>12. size_[m] = n /\ size_' = [size_ EXCEPT ![l] = size_[m], ![m] = 0]
    BY <1>1 DEF MoveConstruct
<1>13. size_' \in [List -> Nat] /\ \A x \in DOMAIN S2 : size_'[x] = Len(S2[x])
    <2>1. size_' = [x \in List |-> IF x = m THEN 0 ELSE IF x = l THEN n ELSE size_[x]]
        BY <1>1, <1>3, <1>12
    <2>2. size_' \in [List -> Nat]
        BY <1>1, <1>3, <2>1
    <2>3. \A x \in DOMAIN S2 : size_'[x] = IF x = m THEN 0 ELSE IF x = l THEN n ELSE size_[x]
        BY <1>2, <1>3, <1>8, <2>1
    <2> HIDE DEF n
    <2>4. \A x \in DOMAIN S2 : size_'[x] = Len(S2[x])
        BY <1>1, <1>6, <1>8, <2>3 DEF n
    <2>5. QED
        BY <2>2, <2>4
<1> DEFINE f == Ring(S[m], l, 1)
           e == Ring(S[m], l, n)
<1>14. /\ k2 \in LinkType /\ f \in Cell /\ e \in Cell /\ f # m /\ e # m
       /\ k2.next[l] = f /\ k2.prev[f] = l /\ k2.next[e] = l /\ k2.prev[l] = e
       /\ k2.next[m] = m /\ k2.prev[m] = m
       /\ \A x \in Cell : x \notin {l, m, e} => k2.next[x] = next_[x]
       /\ \A x \in Cell : x \notin {l, m, f} => k2.prev[x] = prev_[x]
    <2>1. CASE n = 0
        <3>1. f = l /\ e = l
            BY <1>3, <2>1 DEF Ring
        <3>2. next_' = [[next_ EXCEPT ![l] = l] EXCEPT ![m] = m] /\ prev_' = [[prev_ EXCEPT ![l] = l] EXCEPT ![m] = m]
            <4>1. PICK k1 : k1 = Reset(Links, l)
                OBVIOUS
            <4>2. /\ k1 = [next |-> k1.next, prev |-> k1.prev]
                  /\ k1.next = [next_ EXCEPT ![l] = l] /\ k1.prev = [prev_ EXCEPT ![l] = l]
                  /\ k1.next[l] = l /\ k1.prev[l] = l
                BY <1>1, <1>3, <4>1 DEF Reset
            <4>3. PICK k3 : k3 = [k1 EXCEPT !.prev[k1.next[l]] = l]
                OBVIOUS
            <4>4. k3 = [next |-> k3.next, prev |-> k3.prev] /\ k3.next = k1.next /\ k3.prev = [k1.prev EXCEPT ![l] = l] /\ k3.prev[l] = l
                BY <1>1, <1>3, <4>2, <4>3
            <4>5. PICK k4 : k4 = [k3 EXCEPT !.next[k3.prev[l]] = l]
                OBVIOUS
            <4>6. k4.next = [k1.next EXCEPT ![l] = l] /\ k4.prev = k3.prev
                BY <4>4, <4>5
            <4>7. SetLinks(Reset(k4, m))
                BY <1>12, <2>1, <4>1, <4>3, <4>5 DEF MoveConstruct
            <4>8. k1.next = [k1.next EXCEPT ![l] = l] /\ k1.prev = [k1.prev EXCEPT ![l] = l]
                BY <1>1, <1>3, <4>2
            <4>9. next_' = [k1.next EXCEPT ![m] = m] /\ prev_' = [k1.prev EXCEPT ![m] = m]
                BY <4>4, <4>6, <4>7, <4>8 DEF SetLinks, Reset
            <4>10. QED
                BY <4>2, <4>9
        <3>3. QED
            BY <1>1, <1>3, <1>4, <3>1, <3>2 DEF LinkType
    <2>2. CASE n > 0
        <3>1. /\ 1 \in 1 .. n /\ n \in 1 .. n /\ f = S[m][1] /\ e = S[m][n]
              /\ 0 \in 0 .. n /\ n \in 0 .. n /\ 0 + 1 = 1
              /\ Ring(S[m], m, 0) = m /\ Ring(S[m], m, n + 1) = m
              /\ Ring(S[m], m, 1) = f /\ Ring(S[m], m, n) = e
            BY <1>3, <2>2 DEF Ring
        <3>2. f \in Node /\ e \in Node /\ f \in Cell /\ e \in Cell /\ f # l /\ e # l /\ f # m /\ e # m
            BY <1>2, <1>3, <3>1 DEF Cell
        <3>3. next_[m] = f /\ prev_[m] = e
            BY <1>5, <3>1
        <3> HIDE DEF f, e
        <3>4. /\ next_' = [[[next_ EXCEPT ![l] = f] EXCEPT ![e] = l] EXCEPT ![m] = m]
              /\ prev_' = [[[prev_ EXCEPT ![l] = e] EXCEPT ![f] = l] EXCEPT ![m] = m]
            <4>1. PICK k1 : k1 = [next |-> [next_ EXCEPT ![l] = next_[m]], prev |-> [prev_ EXCEPT ![l] = prev_[m]]]
                OBVIOUS
            <4>2. /\ k1 = [next |-> k1.next, prev |-> k1.prev]
                  /\ k1.next = [next_ EXCEPT ![l] = f] /\ k1.prev = [prev_ EXCEPT ![l] = e]
                  /\ k1.next[l] = f /\ k1.prev[l] = e
                BY <1>1, <1>3, <3>3, <4>1
            <4>3. PICK k3 : k3 = [k1 EXCEPT !.prev[k1.next[l]] = l]
                OBVIOUS
            <4>4. k3 = [next |-> k3.next, prev |-> k3.prev] /\ k3.next = k1.next /\ k3.prev = [k1.prev EXCEPT ![f] = l] /\ k3.prev[l] = e
                BY <1>1, <1>3, <3>2, <4>2, <4>3
            <4>5. PICK k4 : k4 = [k3 EXCEPT !.next[k3.prev[l]] = l]
                OBVIOUS
            <4>6. k4.next = [k1.next EXCEPT ![e] = l] /\ k4.prev = k3.prev
                BY <4>4, <4>5
            <4>7. SetLinks(Reset(k4, m))
                <5>1. ~(size_[m] = 0)
                    BY <1>3, <1>12, <2>2
                <5>2. QED
                    BY <4>1, <4>3, <4>5, <5>1 DEF MoveConstruct
            <4>8. next_' = [k4.next EXCEPT ![m] = m] /\ prev_' = [k4.prev EXCEPT ![m] = m]
                BY <4>7 DEF SetLinks, Reset
            <4>9. QED
                BY <4>2, <4>4, <4>6, <4>8
        <3>5. QED
            BY <1>1, <1>3, <1>4, <3>2, <3>4 DEF LinkType
    <2>3. QED
        BY <1>3, <2>1, <2>2
<1>15. e \in DOMAIN S \cup NodesIn(S) \cup {l}
    BY <1>1, <1>3 DEF Ring, NodesIn
<1>16. Linked(S2, k2)
    <2>1. ASSUME NEW x \in DOMAIN S, x # m, NEW i \in 0 .. Len(S[x])
          PROVE  /\ k2.next[Ring(S[x], x, i)] = Ring(S[x], x, i + 1)
                 /\ k2.prev[Ring(S[x], x, i + 1)] = Ring(S[x], x, i)
        <3>1. i \in Int /\ i + 1 \in Int /\ i \in 0 .. Len(S[x]) + 1 /\ i + 1 \in 0 .. Len(S[x]) + 1
            BY <1>1, TypedFacts
        <3>2. \A y \in Int : Ring(S[x], x, y) \in Cell /\ Ring(S[x], x, y) # l
            BY <1>1, <1>2, <1>3, RingCells, TypedFacts DEF Ring
        <3>3. \A j \in 0 .. n + 1 : Ring(S[m], m, j) # Ring(S[x], x, i) /\ Ring(S[m], m, j) # Ring(S[x], x, i + 1)
            BY <1>1, <2>1, <3>1, RingsDiffer
        <3>4. /\ Ring(S[x], x, i) \notin {l, m, e} /\ Ring(S[x], x, i + 1) \notin {l, m, f}
            <4>1. Ring(S[m], m, 0) = m /\ 0 \in 0 .. n + 1
                BY <1>3 DEF Ring
            <4>2. e = l \/ (e = Ring(S[m], m, n) /\ n \in 0 .. n + 1)
                BY <1>3 DEF Ring
            <4>3. f = l \/ (f = Ring(S[m], m, 1) /\ 1 \in 0 .. n + 1)
                BY <1>3 DEF Ring
            <4>4. QED
                BY <3>1, <3>2, <3>3, <4>1, <4>2, <4>3
        <3>5. next_[Ring(S[x], x, i)] = Ring(S[x], x, i + 1) /\ prev_[Ring(S[x], x, i + 1)] = Ring(S[x], x, i)
            BY <1>1 DEF Linked
        <3>6. QED
            BY <1>14, <3>1, <3>2, <3>4, <3>5
    <2>2. ASSUME NEW i \in 0 .. 0
          PROVE  k2.next[Ring(<< >>, m, i)] = Ring(<< >>, m, i + 1) /\ k2.prev[Ring(<< >>, m, i + 1)] = Ring(<< >>, m, i)
        BY <1>6, <1>14 DEF Ring
    <2>3. ASSUME NEW i \in 0 .. n
          PROVE  k2.next[Ring(S[m], l, i)] = Ring(S[m], l, i + 1) /\ k2.prev[Ring(S[m], l, i + 1)] = Ring(S[m], l, i)
        <3>1. CASE i = 0
            <4>1. Ring(S[m], l, i) = l /\ Ring(S[m], l, i + 1) = f
                BY <1>3, <3>1 DEF Ring
            <4>2. QED
                BY <1>14, <4>1
        <3>2. CASE i > 0 /\ i = n
            <4>1. Ring(S[m], l, i) = e /\ Ring(S[m], l, i + 1) = l
                BY <1>3, <3>2 DEF Ring
            <4>2. QED
                BY <1>14, <4>1
        <3>3. CASE i > 0 /\ i < n
            <4>1. /\ i \in 1 .. n /\ i + 1 \in 1 .. n /\ i # n /\ i + 1 # 1 /\ 1 \in 1 .. n /\ n \in 1 .. n
                BY <1>3, <3>3
            <4>2. /\ Ring(S[m], l, i) = S[m][i] /\ Ring(S[m], l, i + 1) = S[m][i + 1]
                  /\ Ring(S[m], m, i) = S[m][i] /\ Ring(S[m], m, i + 1) = S[m][i + 1]
                  /\ f = S[m][1] /\ e = S[m][n]
                BY <4>1 DEF Ring
            <4>3. S[m][i] # e /\ S[m][i + 1] # f
                BY <1>1, <4>1, <4>2 DEF Apart
            <4>4. /\ S[m][i] \in Cell /\ S[m][i] # l /\ S[m][i] # m
                  /\ S[m][i + 1] \in Cell /\ S[m][i + 1] # l /\ S[m][i + 1] # m
                BY <1>2, <1>3, <4>1 DEF Cell
            <4>5. next_[S[m][i]] = S[m][i + 1] /\ prev_[S[m][i + 1]] = S[m][i]
                BY <1>5, <4>2
            <4>6. QED
                BY <1>14, <4>2, <4>3, <4>4, <4>5
        <3>4. QED
            BY <1>3, <3>1, <3>2, <3>3
    <2> HIDE DEF n, f, e
    <2>4. QED
        BY <1>3, <1>6, <1>8, <2>1, <2>2, <2>3 DEF Linked, n
<1>17. Occupied(k2) = DOMAIN S2 \cup NodesIn(S2)
    <2>1. \A x \in Cell : k2.next[x] # Null <=> next_[x] # Null \/ x \in {l, m, e}
        BY <1>2, <1>3, <1>14
    <2>2. Occupied(k2) = Occupied(Links) \cup {l, m, e}
        BY <1>1, <1>3, <1>14, <2>1 DEF Occupied
    <2>3. QED
        BY <1>1, <1>8, <1>11, <1>15, <2>2
<1>18. Represents(S2)'
    BY <1>4, <1>7, <1>10, <1>13, <1>14, <1>16, <1>17, RepresentsNext
<1>19. QED
    BY <1>18 DEF S2

-------------------------------------------------------------------------------

(* What a step does to the sequences, operation by operation.              *)

Constructed(S, l) == [x \in DOMAIN S \cup {l} |-> IF x = l THEN << >> ELSE S[x]]

MoveConstructed(S, l, m) ==
    [x \in DOMAIN S \cup {l} |-> IF x = l THEN S[m] ELSE IF x = m THEN << >> ELSE S[x]]

Destroyed(S, l) == [x \in DOMAIN S \ {l} |-> S[x]]

SequenceStep(S, T) ==
    \/ T = S
    \/ \E l \in List \ DOMAIN S : T = Constructed(S, l)
    \/ \E l \in List \ DOMAIN S, m \in DOMAIN S : T = MoveConstructed(S, l, m)
    \/ \E l \in DOMAIN S :
        \/ T = Destroyed(S, l)
        \/ \E i \in 1 .. Len(S[l]) : T = CutFrom(S, l, i, i)
        \/ \E pos \in Elements(S[l]) \cup {l} :
            \/ \E n \in Node \ NodesIn(S) :
                   T = PasteInto(S, l, Abstract!Index(S[l], pos), <<n>>)
            \/ \E m \in DOMAIN S : \E i \in 1 .. Len(S[m]) : \E j \in i .. Len(S[m]) :
                   pos \notin Between(S[m], i, j) /\ T = Spliced(S, l, pos, m, i, j)

LEMMA StepOnSequences ==
    ASSUME NEW S, Represents(S), ~SpliceInPlace, Next
    PROVE  \E T : SequenceStep(S, T) /\ Represents(T)'
<1>1. DOMAIN S = Live
    BY CellsOf
<1>2. \A l \in Live : Positions(l) = Elements(S[l]) \cup {l}
    BY ChainNodes DEF Positions, Elements
<1>3. ASSUME NEW l \in List, Construct(l)
      PROVE  \E T : SequenceStep(S, T) /\ Represents(T)'
    <2>1. PICK T : T = Constructed(S, l)
        OBVIOUS
    <2>2. Represents(T)'
        BY <1>3, <2>1, ConstructRings DEF Constructed
    <2>3. l \in List \ DOMAIN S
        BY <1>1, <1>3 DEF Construct
    <2>4. SequenceStep(S, T)
        BY <2>1, <2>3 DEF SequenceStep
    <2>5. QED
        BY <2>2, <2>4
<1>4. ASSUME NEW l \in List, NEW m \in Live, MoveConstruct(l, m)
      PROVE  \E T : SequenceStep(S, T) /\ Represents(T)'
    <2>1. PICK T : T = MoveConstructed(S, l, m)
        OBVIOUS
    <2>2. Represents(T)'
        <3>1. MoveConstruct(l, m)
            BY <1>4
        <3>2. Represents([x \in DOMAIN S \cup {l} |->
                              IF x = l THEN S[m] ELSE IF x = m THEN << >> ELSE S[x]])'
            BY <3>1, MoveConstructRings
        <3>3. QED
            BY <2>1, <3>2 DEF MoveConstructed
    <2>3. l \in List \ DOMAIN S /\ m \in DOMAIN S
        BY <1>1, <1>4 DEF MoveConstruct
    <2>4. SequenceStep(S, T)
        BY <2>1, <2>3 DEF SequenceStep
    <2>5. QED
        BY <2>2, <2>4
<1>5. ASSUME NEW l \in Live, Destroy(l)
      PROVE  \E T : SequenceStep(S, T) /\ Represents(T)'
    <2>1. PICK T : T = Destroyed(S, l)
        OBVIOUS
    <2>2. Represents(T)'
        BY <1>5, <2>1, DestroyRings DEF Destroyed
    <2>3. SequenceStep(S, T)
        BY <1>1, <2>1 DEF SequenceStep
    <2>4. QED
        BY <2>2, <2>3
<1>6. ASSUME NEW l \in Live, NEW n \in NodesOf(l), Erase(l, n)
      PROVE  \E T : SequenceStep(S, T) /\ Represents(T)'
    <2>1. PICK i \in 1 .. Len(S[l]) : Represents(CutFrom(S, l, i, i))'
        BY <1>6, EraseRings
    <2>2. SequenceStep(S, CutFrom(S, l, i, i))
        BY <1>1 DEF SequenceStep
    <2>3. QED
        BY <2>1, <2>2
<1>7. ASSUME NEW l \in Live, NEW pos \in Positions(l), NEW n \in Node, Insert(l, pos, n)
      PROVE  \E T : SequenceStep(S, T) /\ Represents(T)'
    <2>1. /\ Represents(PasteInto(S, l, Abstract!Index(S[l], pos), <<n>>))'
          /\ n \notin NodesIn(S)
        BY <1>7, InsertRings
    <2>2. l \in DOMAIN S /\ pos \in Elements(S[l]) \cup {l} /\ n \in Node \ NodesIn(S)
        BY <1>1, <1>2, <2>1
    <2>3. SequenceStep(S, PasteInto(S, l, Abstract!Index(S[l], pos), <<n>>))
        BY <2>2 DEF SequenceStep
    <2>4. QED
        BY <2>1, <2>3
<1>8. ASSUME NEW l \in Live, NEW pos \in Positions(l), NEW m \in Live,
             NEW i \in 1 .. Len(S[m]), NEW j \in i .. Len(S[m]),
             pos \notin Between(S[m], i, j), Represents(Spliced(S, l, pos, m, i, j))'
      PROVE  \E T : SequenceStep(S, T) /\ Represents(T)'
    <2>1. l \in DOMAIN S /\ m \in DOMAIN S /\ pos \in Elements(S[l]) \cup {l}
        BY <1>1, <1>2
    <2>2. PICK T : T = Spliced(S, l, pos, m, i, j)
        OBVIOUS
    <2>3. SequenceStep(S, T)
        BY <1>8, <2>1, <2>2 DEF SequenceStep
    <2>4. Represents(T)'
        BY <1>8, <2>2
    <2>5. QED
        BY <2>3, <2>4
<1>9. ASSUME NEW l \in Live, NEW pos \in Positions(l), NEW m \in Live, SpliceAll(l, pos, m)
      PROVE  \E T : SequenceStep(S, T) /\ Represents(T)'
    <2>1. \/ Represents(S)'
          \/ \E i \in 1 .. Len(S[m]) : \E j \in i .. Len(S[m]) :
                 pos \notin Between(S[m], i, j) /\ Represents(Spliced(S, l, pos, m, i, j))'
        BY <1>9, SpliceAllRings
    <2>2. SequenceStep(S, S)
        BY DEF SequenceStep
    <2>3. QED
        BY <1>8, <2>1, <2>2
<1>10. ASSUME NEW l \in Live, NEW pos \in Positions(l), NEW m \in Live, NEW it \in NodesOf(m),
              SpliceOne(l, pos, m, it)
       PROVE  \E T : SequenceStep(S, T) /\ Represents(T)'
    <2>1. PICK i \in 1 .. Len(S[m]) :
              pos \notin Between(S[m], i, i) /\ Represents(Spliced(S, l, pos, m, i, i))'
        BY <1>10, SpliceOneRings
    <2>2. i \in i .. Len(S[m])
        BY <1>1, TypedFacts, CellsOf
    <2>3. QED
        BY <1>8, <2>1, <2>2
<1>11. ASSUME NEW l \in Live, NEW pos \in Positions(l), NEW m \in Live, NEW r \in Ranges(m),
              SpliceRange(l, pos, m, r)
       PROVE  \E T : SequenceStep(S, T) /\ Represents(T)'
    <2>1. PICK i \in 1 .. Len(S[m]) : \E j \in i .. Len(S[m]) :
              pos \notin Between(S[m], i, j) /\ Represents(Spliced(S, l, pos, m, i, j))'
        BY <1>11, SpliceRangeRings
    <2>2. PICK j \in i .. Len(S[m]) :
              pos \notin Between(S[m], i, j) /\ Represents(Spliced(S, l, pos, m, i, j))'
        BY <2>1
    <2>3. QED
        BY <1>8, <2>2
<1>12. QED
    BY <1>3, <1>4, <1>5, <1>6, <1>7, <1>9, <1>10, <1>11 DEF Next

-------------------------------------------------------------------------------

(* A fact about every state is a fact about the next one.                  *)
LEMMA ChainsAreTheSequencesNext == (\A S : Represents(S) => Chains = S)'
BY ChainsAreTheSequences, PTL

LEMMA Invariant == ASSUME ~SpliceInPlace PROVE Spec => []IInv
<1>1. Init => IInv
    <2>1. SUFFICES ASSUME Init
                   PROVE  IInv
        OBVIOUS
    <2>2. Live = {} /\ Allocated = {}
        BY <2>1, IListAssumption DEF Init, Live, Allocated, Cell
    <2>3. DOMAIN Chains = {}
        BY <2>2 DEF Chains
    <2>4. Typed(Chains) /\ Apart(Chains) /\ Linked(Chains, Links) /\ NodesIn(Chains) = {}
        BY <2>2, <2>3 DEF Typed, Apart, Linked, NodesIn, Chains
    <2>5. Links \in LinkType /\ size_ \in [List -> Nat]
        BY <2>1 DEF Init, Links, LinkType
    <2>6. QED
        BY <2>2, <2>3, <2>4, <2>5 DEF IInv, Represents
<1>2. ASSUME IInv, [Next]_vars
      PROVE  IInv'
    <2>1. CASE Next
        <3>1. PICK S : S = Chains
            OBVIOUS
        <3>2. PICK T : Represents(T)'
            BY <1>2, <2>1, <3>1, StepOnSequences DEF IInv
        <3>3. Chains' = T
            BY <3>2, ChainsAreTheSequencesNext
        <3>4. QED
            BY <3>2, <3>3 DEF IInv
    <2>2. CASE UNCHANGED vars
        <3>1. PICK S : S = Chains
            OBVIOUS
        <3>2. Represents(S)'
            BY <1>2, <2>2, <3>1 DEF IInv, Represents, Live, Allocated, Links, vars
        <3>3. QED
            BY <3>2, ChainsAreTheSequencesNext DEF IInv
    <2>3. QED
        BY <1>2, <2>1, <2>2
<1>3. QED
    BY <1>1, <1>2, PTL DEF Spec

(* However a program constructs, moves and destroys lists, inserts, erases *)
(* and splices, next and prev of the cells that exist stay inverse: a walk *)
(* backwards over the blocks or instructions meets what a walk forwards    *)
(* does.  It must not splice a range of a list before the range's own end. *)
THEOREM IListLinksInverse == ASSUME ~SpliceInPlace PROVE Spec => []LinksInverse
<1>1. IInv => LinksInverse
    <2>1. SUFFICES ASSUME IInv
                   PROVE  LinksInverse
        OBVIOUS
    <2>2. PICK S : S = Chains
        OBVIOUS
    <2>3. Represents(S)
        BY <2>1, <2>2 DEF IInv
    <2>4. /\ DOMAIN S = Live /\ Typed(S) /\ Linked(S, Links)
          /\ Links.next = next_ /\ Links.prev = prev_
          /\ Allocated = NodesIn(S)
        BY <2>3, CellsOf DEF Represents
    <2>5. ASSUME NEW l \in DOMAIN S, NEW i \in Int, 0 <= i, i <= Len(S[l]) + 1
          PROVE  Ring(S[l], l, i) \in Live \cup Allocated
        BY <2>4 DEF Ring, NodesIn, Typed
    <2>6. ASSUME NEW x \in Live \cup Allocated
          PROVE  \E l \in DOMAIN S : \E i \in 0 .. Len(S[l]) : x = Ring(S[l], l, i)
        <3>1. CASE x \in Live
            BY <2>4, <3>1, TypedFacts DEF Ring
        <3>2. CASE x \in Allocated
            BY <2>4, <3>2, TypedFacts DEF Ring, NodesIn
        <3>3. QED
            BY <3>1, <3>2
    <2>7. ASSUME NEW x \in Live \cup Allocated
          PROVE  /\ next_[x] \in Live \cup Allocated /\ prev_[next_[x]] = x
                 /\ prev_[x] \in Live \cup Allocated /\ next_[prev_[x]] = x
        <3>0. PICK l \in DOMAIN S : \E i \in 0 .. Len(S[l]) : x = Ring(S[l], l, i)
            BY <2>6
        <3>1. PICK i \in 0 .. Len(S[l]) : x = Ring(S[l], l, i)
            BY <3>0
        <3>2. Len(S[l]) \in Nat
            BY <2>4, TypedFacts
        <3>3. next_[x] = Ring(S[l], l, i + 1) /\ prev_[Ring(S[l], l, i + 1)] = x
            BY <2>4, <3>1 DEF Linked
        <3>4. PICK j \in 0 .. Len(S[l]) : x = Ring(S[l], l, j + 1)
            <4>1. CASE i = 0
                BY <3>1, <3>2, <4>1 DEF Ring
            <4>2. CASE i > 0
                <5>1. i - 1 \in 0 .. Len(S[l]) /\ i - 1 + 1 = i
                    BY <3>2, <4>2
                <5>2. QED
                    BY <3>1, <5>1
            <4>3. QED
                BY <3>2, <4>1, <4>2
        <3>5. prev_[x] = Ring(S[l], l, j) /\ next_[Ring(S[l], l, j)] = x
            BY <2>4, <3>4 DEF Linked
        <3>6. Ring(S[l], l, i + 1) \in Live \cup Allocated /\ Ring(S[l], l, j) \in Live \cup Allocated
            BY <2>5, <3>2
        <3>7. QED
            BY <3>3, <3>5, <3>6
    <2>8. QED
        BY <2>7 DEF LinksInverse
<1>2. QED
    BY <1>1, Invariant, PTL

(* size() is the number of nodes a walk from begin() meets before end(),   *)
(* after every sequence of operations: no operation forgets to adjust the  *)
(* counts, and none adjusts them by more or less than it moves.            *)
THEOREM IListSizeIsLength == ASSUME ~SpliceInPlace PROVE Spec => []SizeIsLength
<1>1. IInv => SizeIsLength
    <2>1. SUFFICES ASSUME IInv
                   PROVE  SizeIsLength
        OBVIOUS
    <2>2. PICK S : S = Chains
        OBVIOUS
    <2>3. Represents(S)
        BY <2>1, <2>2 DEF IInv
    <2>4. ASSUME NEW l \in Live
          PROVE  size_[l] = Len(Chain(l)) /\ Walk(l)[size_[l]] = l
        <3>1. Chain(l) = S[l] /\ size_[l] = Len(S[l]) /\ Len(S[l]) \in Nat /\ Len(S[l]) <= Cardinality(Node)
            BY <2>3, ChainOfRing, CellsOf, LengthBounded, TypedFacts
        <3>2. Walk(l) = [n \in 0 .. Cardinality(Node) |-> Ring(S[l], l, n + 1)]
            BY <2>3, WalkOfRing
        <3>3. Cardinality(Node) \in Nat
            BY FS_CardinalityType, IListAssumption
        <3>4. Walk(l)[Len(S[l])] = Ring(S[l], l, Len(S[l]) + 1)
            BY <3>1, <3>2, <3>3
        <3>5. QED
            BY <3>1, <3>4 DEF Ring
    <2>5. QED
        BY <2>4 DEF SizeIsLength
<1>2. QED
    BY <1>1, Invariant, PTL

(* No node is lost and none is in two lists, so that the destructors free  *)
(* exactly what was allocated, once.                                       *)
THEOREM IListEachNodeOwnedOnce == ASSUME ~SpliceInPlace PROVE Spec => []EachNodeOwnedOnce
<1>1. IInv => EachNodeOwnedOnce
    <2>1. SUFFICES ASSUME IInv
                   PROVE  EachNodeOwnedOnce
        OBVIOUS
    <2>2. PICK S : S = Chains
        OBVIOUS
    <2>3. Represents(S)
        BY <2>1, <2>2 DEF IInv
    <2>4. DOMAIN S = Live /\ Typed(S) /\ Apart(S) /\ Allocated = NodesIn(S)
        BY <2>3 DEF Represents
    <2>5. \A l \in Live : \A n : n \in NodesOf(l) <=> \E i \in 1 .. Len(S[l]) : n = S[l][i]
        BY <2>3, ChainNodes
    <2>6. \A n : n \in Allocated <=> \E l \in Live : n \in NodesOf(l)
        <3>1. \A l \in Live : \A i \in 1 .. Len(S[l]) : S[l][i] \in Node
            BY <2>4, TypedFacts
        <3>2. QED
            BY <2>4, <2>5, <3>1 DEF NodesIn
    <2>7. \A l, m \in Live : l # m => NodesOf(l) \cap NodesOf(m) = {}
        BY <2>4, <2>5 DEF Apart
    <2>8. Allocated = UNION {NodesOf(l) : l \in Live}
        BY <2>6
    <2>9. QED
        BY <2>7, <2>8 DEF EachNodeOwnedOnce
<1>2. QED
    BY <1>1, Invariant, PTL

-------------------------------------------------------------------------------
(* A step of the sequences is one of the specification of sequences.       *)

LEMMA AbstractNames ==
    ASSUME NEW S, S = Chains, Represents(S)
    PROVE  /\ Abstract!Live = DOMAIN S
           /\ \A n : n \in Abstract!Owned <=> n \in NodesIn(S)
           /\ \A l \in DOMAIN S : /\ Chains[l] = S[l]
                                  /\ DOMAIN S[l] = 1 .. Len(S[l])
                                  /\ \A n : n \in Elements(S[l]) <=> n \in Abstract!ToSet(S[l])
<1>1. Typed(S)
    BY DEF Represents
<1>2. \A l \in DOMAIN S : DOMAIN S[l] = 1 .. Len(S[l]) /\ \A i \in 1 .. Len(S[l]) : S[l][i] \in Node
    BY <1>1, TypedFacts
<1>3. Abstract!Live = DOMAIN S
    BY DEF Abstract!Live, Chains
<1>4. \A l \in DOMAIN S : \A n : n \in Abstract!ToSet(S[l]) <=> \E i \in 1 .. Len(S[l]) : n = S[l][i]
    BY <1>2 DEF Abstract!ToSet
<1>5. Abstract!Owned = UNION {Abstract!ToSet(S[l]) : l \in DOMAIN S}
    BY <1>3 DEF Abstract!Owned, Chains
<1>6. \A n : n \in Abstract!Owned <=> \E l \in DOMAIN S : n \in Abstract!ToSet(S[l])
    BY <1>5
<1>7. QED
    BY <1>2, <1>3, <1>4, <1>6 DEF NodesIn, Elements

LEMMA AbstractStep ==
    ASSUME NEW S, S = Chains, Represents(S), NEW T, T = Chains', SequenceStep(S, T)
    PROVE  Abstract!Next \/ Chains' = Chains
<1>1. /\ Abstract!Live = DOMAIN S /\ DOMAIN S \subseteq List
      /\ \A n : n \in Abstract!Owned <=> n \in NodesIn(S)
      /\ \A l \in DOMAIN S : /\ DOMAIN S[l] = 1 .. Len(S[l])
                             /\ \A n : n \in Elements(S[l]) <=> n \in Abstract!ToSet(S[l])
    BY AbstractNames DEF Represents, Typed
<1>2. S = [l \in Live |-> Chain(l)] /\ T = [l \in Live |-> Chain(l)]'
    BY DEF Chains
<1>3. CASE T = S
    BY <1>3
<1>4. ASSUME NEW l \in List \ DOMAIN S, T = Constructed(S, l)
      PROVE  Abstract!Next
    <2>1. Abstract!Construct(l)
        BY <1>1, <1>2, <1>4 DEF Abstract!Construct, Constructed
    <2>2. QED
        BY <2>1 DEF Abstract!Next
<1>5. ASSUME NEW l \in List \ DOMAIN S, NEW m \in DOMAIN S, T = MoveConstructed(S, l, m)
      PROVE  Abstract!Next
    <2>1. Abstract!MoveConstruct(l, m)
        BY <1>1, <1>2, <1>5 DEF Abstract!MoveConstruct, MoveConstructed
    <2>2. QED
        BY <1>1, <2>1 DEF Abstract!Next
<1>6. ASSUME NEW l \in DOMAIN S, T = Destroyed(S, l)
      PROVE  Abstract!Next
    <2>1. Abstract!Destroy(l)
        BY <1>1, <1>2, <1>6 DEF Abstract!Destroy, Destroyed
    <2>2. QED
        BY <1>1, <2>1 DEF Abstract!Next
<1>7. ASSUME NEW l \in DOMAIN S, NEW i \in 1 .. Len(S[l]), T = CutFrom(S, l, i, i)
      PROVE  Abstract!Next
    <2>1. Abstract!Erase(l, i)
        BY <1>1, <1>2, <1>7 DEF Abstract!Erase, CutFrom
    <2>2. i \in DOMAIN [x \in Live |-> Chain(x)][l]
        BY <1>1, <1>2
    <2>3. QED
        BY <1>1, <2>1, <2>2 DEF Abstract!Next
<1>8. ASSUME NEW l \in DOMAIN S, NEW pos \in Elements(S[l]) \cup {l}, NEW n \in Node \ NodesIn(S),
             T = PasteInto(S, l, Abstract!Index(S[l], pos), <<n>>)
      PROVE  Abstract!Next
    <2>1. Abstract!Insert(l, pos, n)
        BY <1>1, <1>2, <1>8 DEF Abstract!Insert, PasteInto
    <2>2. pos \in Abstract!ToSet([x \in Live |-> Chain(x)][l]) \cup {l}
        BY <1>1, <1>2
    <2>3. QED
        BY <1>1, <2>1, <2>2 DEF Abstract!Next
<1>9. ASSUME NEW l \in DOMAIN S, NEW pos \in Elements(S[l]) \cup {l}, NEW m \in DOMAIN S,
             NEW i \in 1 .. Len(S[m]), NEW j \in i .. Len(S[m]),
             pos \notin Between(S[m], i, j), T = Spliced(S, l, pos, m, i, j)
      PROVE  Abstract!Next
    <2>1. pos \notin Abstract!ToSet(SubSeq(S[m], i, j))
        <3>1. /\ Len(S[m]) \in Nat /\ \A x \in i .. j : S[m][x] \in Node
            BY <1>1, TypedFacts DEF Represents
        <3>2. /\ SubSeq(S[m], i, j) \in Seq(Node)
              /\ Len(SubSeq(S[m], i, j)) = j - i + 1
              /\ \A x \in 1 .. j - i + 1 : SubSeq(S[m], i, j)[x] = S[m][i + x - 1]
            BY <3>1, SubSeqProperties
        <3> DEFINE t == SubSeq(S[m], i, j)
        <3> HIDE DEF t
        <3>3. DOMAIN t = 1 .. j - i + 1
            BY <3>2, LenProperties DEF t
        <3>4. ASSUME NEW x \in 1 .. j - i + 1
              PROVE  t[x] \in Between(S[m], i, j)
            BY <3>1, <3>2 DEF Between, t
        <3>5. QED
            BY <1>9, <3>3, <3>4 DEF Abstract!ToSet, t
    <2>2. Abstract!Splice(l, pos, m, i, j)
        BY <1>1, <1>2, <1>9, <2>1 DEF Abstract!Splice, Spliced, CutFrom, PasteInto
    <2>3. /\ pos \in Abstract!ToSet([x \in Live |-> Chain(x)][l]) \cup {l}
          /\ i \in DOMAIN [x \in Live |-> Chain(x)][m]
          /\ j \in i .. Len([x \in Live |-> Chain(x)][m])
        BY <1>1, <1>2
    <2>4. QED
        BY <1>1, <2>2, <2>3 DEF Abstract!Next
<1>10. CASE \E l \in DOMAIN S :
               \/ T = Destroyed(S, l)
               \/ \E i \in 1 .. Len(S[l]) : T = CutFrom(S, l, i, i)
               \/ \E pos \in Elements(S[l]) \cup {l} :
                   \/ \E n \in Node \ NodesIn(S) :
                          T = PasteInto(S, l, Abstract!Index(S[l], pos), <<n>>)
                   \/ \E m \in DOMAIN S : \E i \in 1 .. Len(S[m]) : \E j \in i .. Len(S[m]) :
                          pos \notin Between(S[m], i, j) /\ T = Spliced(S, l, pos, m, i, j)
    <2>1. PICK l \in DOMAIN S :
               \/ T = Destroyed(S, l)
               \/ \E i \in 1 .. Len(S[l]) : T = CutFrom(S, l, i, i)
               \/ \E pos \in Elements(S[l]) \cup {l} :
                   \/ \E n \in Node \ NodesIn(S) :
                          T = PasteInto(S, l, Abstract!Index(S[l], pos), <<n>>)
                   \/ \E m \in DOMAIN S : \E i \in 1 .. Len(S[m]) : \E j \in i .. Len(S[m]) :
                          pos \notin Between(S[m], i, j) /\ T = Spliced(S, l, pos, m, i, j)
        BY <1>10
    <2>2. CASE T = Destroyed(S, l)
        BY <1>6, <2>2
    <2>3. CASE \E i \in 1 .. Len(S[l]) : T = CutFrom(S, l, i, i)
        BY <1>7, <2>3
    <2>4. CASE \E pos \in Elements(S[l]) \cup {l} :
                   \/ \E n \in Node \ NodesIn(S) :
                          T = PasteInto(S, l, Abstract!Index(S[l], pos), <<n>>)
                   \/ \E m \in DOMAIN S : \E i \in 1 .. Len(S[m]) : \E j \in i .. Len(S[m]) :
                          pos \notin Between(S[m], i, j) /\ T = Spliced(S, l, pos, m, i, j)
        <3>1. PICK pos \in Elements(S[l]) \cup {l} :
                   \/ \E n \in Node \ NodesIn(S) :
                          T = PasteInto(S, l, Abstract!Index(S[l], pos), <<n>>)
                   \/ \E m \in DOMAIN S : \E i \in 1 .. Len(S[m]) : \E j \in i .. Len(S[m]) :
                          pos \notin Between(S[m], i, j) /\ T = Spliced(S, l, pos, m, i, j)
            BY <2>4
        <3>2. CASE \E n \in Node \ NodesIn(S) :
                       T = PasteInto(S, l, Abstract!Index(S[l], pos), <<n>>)
            BY <1>8, <3>2
        <3>3. CASE \E m \in DOMAIN S : \E i \in 1 .. Len(S[m]) : \E j \in i .. Len(S[m]) :
                       pos \notin Between(S[m], i, j) /\ T = Spliced(S, l, pos, m, i, j)
            BY <1>9, <3>3
        <3>4. QED
            BY <3>1, <3>2, <3>3
    <2>5. QED
        BY <2>1, <2>2, <2>3, <2>4
<1>11. QED
    BY <1>3, <1>4, <1>5, <1>10 DEF SequenceStep

(* The pointers implement sequences: every operation, the three splices    *)
(* included, moves the nodes it says it moves and keeps the order of all   *)
(* others, as long as callers do not splice a range before its own end.    *)
THEOREM IListImplementsSequences == ASSUME ~SpliceInPlace PROVE Spec => ImplementsSequences
<1>1. Init => Abstract!Init
    <2>1. SUFFICES ASSUME Init
                   PROVE  Abstract!Init
        OBVIOUS
    <2>2. Live = {}
        BY <2>1, IListAssumption DEF Init, Live, Cell
    <2>3. QED
        BY <2>2 DEF Abstract!Init
<1>2. ASSUME IInv, [Next]_vars
      PROVE  [Abstract!Next]_Chains
    <2>1. CASE Next
        <3>1. PICK S : S = Chains
            OBVIOUS
        <3>2. Represents(S)
            BY <1>2, <3>1 DEF IInv
        <3>3. PICK T : SequenceStep(S, T) /\ Represents(T)'
            BY <2>1, <3>2, StepOnSequences
        <3>4. Chains' = T
            BY <3>3, ChainsAreTheSequencesNext
        <3>5. QED
            BY <3>1, <3>2, <3>3, <3>4, AbstractStep
    <2>2. CASE UNCHANGED vars
        <3>1. PICK S : S = Chains
            OBVIOUS
        <3>2. Represents(S)'
            BY <1>2, <2>2, <3>1 DEF IInv, Represents, Live, Allocated, Links, vars
        <3>3. Chains' = S
            BY <3>2, ChainsAreTheSequencesNext
        <3>4. QED
            BY <3>1, <3>3
    <2>3. QED
        BY <1>2, <2>1, <2>2
<1>3. QED
    BY <1>1, <1>2, Invariant, PTL DEF Spec, ImplementsSequences, Abstract!Spec, Chains
===============================================================================
