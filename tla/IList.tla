--------------------------------- MODULE IList ---------------------------------
(***************************************************************************)
(* bjac::ilist (include/bjac/utils/ilist.hpp, ilist_node.hpp), the         *)
(* intrusive list that holds the basic blocks of a function and the        *)
(* instructions of a block: doubly linked rings of nodes through a         *)
(* sentinel inside the list object, and a separate count.                  *)
(*                                                                         *)
(* A list stands for its own sentinel, which is also its end().  Null is   *)
(* the link of a node or a list that does not exist.  SpliceInPlace says   *)
(* whether callers splice a range of a list before the range's own end,    *)
(* which for std::list changes nothing and which the code does not guard.  *)
(***************************************************************************)
EXTENDS FiniteSets, FiniteSetsExt, Integers, Sequences

CONSTANTS List, Node, Null, SpliceInPlace

ASSUME IListAssumption ==
    /\ IsFiniteSet(Node)
    /\ List \cap Node = {}
    /\ Null \notin List \cup Node
    /\ SpliceInPlace \in BOOLEAN

VARIABLES
    next_, prev_,   \* the links of nodes and sentinels
    size_           \* the count kept by each list

vars == <<next_, prev_, size_>>

Cell == List \cup Node

Live == {l \in List : next_[l] # Null}

Allocated == {n \in Node : next_[n] # Null}

-------------------------------------------------------------------------------
(* A pair of link functions, so that the code's sequences of assignments   *)
(* read in its order.                                                      *)

Links == [next |-> next_, prev |-> prev_]

(* ilist_node::connect *)
Connect(k, p, n) == [next |-> [k.next EXCEPT ![p] = n],
                     prev |-> [k.prev EXCEPT ![n] = p]]

(* ilist_node::reset *)
Reset(k, x) == [next |-> [k.next EXCEPT ![x] = x],
                prev |-> [k.prev EXCEPT ![x] = x]]

Freed(k, set) == [next |-> [x \in Cell |-> IF x \in set THEN Null ELSE k.next[x]],
                  prev |-> [x \in Cell |-> IF x \in set THEN Null ELSE k.prev[x]]]

SetLinks(k) == next_' = k.next /\ prev_' = k.prev

(* the nodes that n steps from a sentinel reach, n up to all nodes *)
Walk(l) ==
    LET at[n \in 0 .. Cardinality(Node)] ==
            IF n = 0 THEN next_[l]
            ELSE IF at[n - 1] \in Node THEN next_[at[n - 1]] ELSE at[n - 1]
    IN  at

(* the list as a sequence: the walk up to the first cell that is no node *)
Chain(l) ==
    LET at   == Walk(l)
        ends == {n \in DOMAIN at : at[n] \notin Node}
        len  == IF ends = {} THEN Cardinality(Node) ELSE Min(ends)
    IN  [n \in 1 .. len |-> at[n - 1]]

NodesOf(l) == {Chain(l)[n] : n \in DOMAIN Chain(l)}

Positions(l) == NodesOf(l) \cup {l}

(* the valid ranges [first; last) of l *)
Ranges(l) ==
    LET s  == Chain(l)
        at == [n \in 1 .. Len(s) + 1 |-> IF n = Len(s) + 1 THEN l ELSE s[n]]
    IN  UNION {{[first |-> at[i], last |-> at[j], nodes |-> {s[k] : k \in i .. j - 1}] :
                    j \in i .. Len(s) + 1} : i \in 1 .. Len(s) + 1}

-------------------------------------------------------------------------------

Init ==
    /\ next_ = [x \in Cell |-> Null]
    /\ prev_ = [x \in Cell |-> Null]
    /\ size_ = [l \in List |-> 0]

(* ilist() *)
Construct(l) ==
    /\ l \notin Live
    /\ SetLinks(Reset(Links, l))
    /\ size_' = [size_ EXCEPT ![l] = 0]

(* Mutant: rhs's nodes are not told about the new sentinel *)
MoveConstructNoFixup(l, m) ==
    LET k1 == IF size_[m] = 0
              THEN Reset(Links, l)
              ELSE [next |-> [next_ EXCEPT ![l] = next_[m]],
                    prev |-> [prev_ EXCEPT ![l] = prev_[m]]]
    IN  /\ l \notin Live
        /\ SetLinks(Reset(k1, m))
        /\ size_' = [size_ EXCEPT ![l] = size_[m], ![m] = 0]

(* Mutant: rhs is not reset *)
MoveConstructNoReset(l, m) ==
    LET k1 == IF size_[m] = 0
              THEN Reset(Links, l)
              ELSE [next |-> [next_ EXCEPT ![l] = next_[m]],
                    prev |-> [prev_ EXCEPT ![l] = prev_[m]]]
        k2 == [k1 EXCEPT !.prev[k1.next[l]] = l]
        k3 == [k2 EXCEPT !.next[k2.prev[l]] = l]
    IN  /\ l \notin Live
        /\ SetLinks(k3)
        /\ size_' = [size_ EXCEPT ![l] = size_[m], ![m] = 0]

(* ilist(ilist &&rhs): the sentinel takes over rhs's links, then the first *)
(* and the last node are pointed at it and rhs is reset.                   *)
MoveConstruct(l, m) ==
    LET k1 == IF size_[m] = 0
              THEN Reset(Links, l)
              ELSE [next |-> [next_ EXCEPT ![l] = next_[m]],
                    prev |-> [prev_ EXCEPT ![l] = prev_[m]]]
        k2 == [k1 EXCEPT !.prev[k1.next[l]] = l]
        k3 == [k2 EXCEPT !.next[k2.prev[l]] = l]
    IN  /\ l \notin Live
        /\ SetLinks(Reset(k3, m))
        /\ size_' = [size_ EXCEPT ![l] = size_[m], ![m] = 0]

(* ~ilist() deletes what its links reach *)
Destroy(l) ==
    /\ SetLinks(Freed(Links, NodesOf(l) \cup {l}))
    /\ size_' = [size_ EXCEPT ![l] = 0]

(* emplace and insert: insert_node(pos, new_node) *)
Insert(l, pos, n) ==
    /\ n \notin Allocated
    /\ SetLinks(Connect(Connect(Links, prev_[pos], n), n, pos))
    /\ size_' = [size_ EXCEPT ![l] = @ + 1]

(* Mutant: the count is not adjusted *)
EraseUncounted(l, n) ==
    /\ SetLinks(Freed(Connect(Links, prev_[n], next_[n]), {n}))
    /\ UNCHANGED size_

(* erase(pos) *)
Erase(l, n) ==
    /\ SetLinks(Freed(Connect(Links, prev_[n], next_[n]), {n}))
    /\ size_' = [size_ EXCEPT ![l] = @ - 1]

(* splice(pos, other).  When other is empty its sentinel is linked in and  *)
(* out again: other.tail() is read after the first connect.                *)
SpliceAll(l, pos, m) ==
    LET k1 == Connect(Links, prev_[pos], next_[m])
        k2 == Connect(k1, k1.prev[m], pos)
    IN  /\ l # m
        /\ SetLinks(Reset(k2, m))
        /\ size_' = [size_ EXCEPT ![l] = @ + size_[m], ![m] = 0]

(* splice(pos, other, it), which leaves a node alone that is already there *)
SpliceOne(l, pos, m, it) ==
    LET after == next_[it]
        k1    == Connect(Links, prev_[it], after)
        k2    == Connect(k1, k1.prev[pos], it)
    IN  /\ pos # it /\ pos # after
        /\ SetLinks(Connect(k2, it, pos))
        /\ size_' = [[size_ EXCEPT ![l] = @ + 1] EXCEPT ![m] = @ - 1]

(* Mutant: the node before the range is read after the first connect *)
SpliceRangeLateRead(l, pos, m, r) ==
    LET k1 == Connect(Links, prev_[pos], r.first)
        k2 == Connect(k1, k1.prev[r.last], pos)
        k3 == Connect(k2, k2.prev[r.first], r.last)
        n  == Cardinality(r.nodes)
    IN  /\ r.first # r.last
        /\ pos \notin r.nodes
        /\ pos # r.last \/ SpliceInPlace
        /\ SetLinks(k3)
        /\ size_' = [[size_ EXCEPT ![l] = @ + n] EXCEPT ![m] = @ - n]

(* splice(pos, other, first, last).  As for std::list, pos may not lie in  *)
(* the range.                                                              *)
SpliceRange(l, pos, m, r) ==
    LET before == prev_[r.first]
        k1 == Connect(Links, prev_[pos], r.first)
        k2 == Connect(k1, k1.prev[r.last], pos)
        k3 == Connect(k2, before, r.last)
        n  == Cardinality(r.nodes)
    IN  /\ r.first # r.last
        /\ pos \notin r.nodes
        /\ pos # r.last \/ SpliceInPlace
        /\ SetLinks(k3)
        /\ size_' = [[size_ EXCEPT ![l] = @ + n] EXCEPT ![m] = @ - n]

Next ==
    \/ \E l \in List : Construct(l)
    \/ \E l \in List, m \in Live : MoveConstruct(l, m)
    \/ \E l \in Live :
        \/ Destroy(l)
        \/ \E n \in NodesOf(l) : Erase(l, n)
        \/ \E pos \in Positions(l) :
            \/ \E n \in Node : Insert(l, pos, n)
            \/ \E m \in Live :
                \/ SpliceAll(l, pos, m)
                \/ \E it \in NodesOf(m) : SpliceOne(l, pos, m, it)
                \/ \E r \in Ranges(m) : SpliceRange(l, pos, m, r)

Spec == Init /\ [][Next]_vars

-------------------------------------------------------------------------------

(* ilist_node.hpp, lines 41-46: whatever was inserted, erased, moved and   *)
(* spliced, next and prev of the cells that exist are inverse, so that     *)
(* walking a list backwards gives the reverse of walking it forwards.      *)
LinksInverse ==
    \A x \in Live \cup Allocated :
        /\ next_[x] \in Live \cup Allocated /\ prev_[next_[x]] = x
        /\ prev_[x] \in Live \cup Allocated /\ next_[prev_[x]] = x

(* size() is the number of nodes a walk from begin() meets before end().   *)
SizeIsLength == \A l \in Live : size_[l] = Len(Chain(l)) /\ Walk(l)[size_[l]] = l

(* No node is lost and none is in two lists: the destructors free exactly  *)
(* what was allocated, once.                                               *)
EachNodeOwnedOnce ==
    /\ Allocated = UNION {NodesOf(l) : l \in Live}
    /\ \A l, m \in Live : l # m => NodesOf(l) \cap NodesOf(m) = {}

(* The pointers implement sequences: every operation, the three splices    *)
(* included, moves the nodes it says it moves and keeps the order of all   *)
(* others.                                                                 *)
Abstract == INSTANCE NodeSequences WITH seqs <- [l \in Live |-> Chain(l)]

ImplementsSequences == Abstract!Spec
===============================================================================
