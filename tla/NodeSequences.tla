---------------------------- MODULE NodeSequences -----------------------------
(***************************************************************************)
(* What the intrusive lists of the IR promise: every list is a sequence of *)
(* nodes it owns.  A node is inserted before a position and erased, and    *)
(* splice moves a stretch of one list before a position of a list, as      *)
(* std::list does.  Module IList implements this one with pointers.        *)
(***************************************************************************)
EXTENDS Sequences, SequencesExt

CONSTANTS List, Node

VARIABLE seqs       \* the sequence of every list that exists

Live == DOMAIN seqs

Owned == UNION {ToSet(seqs[l]) : l \in Live}

(* a position of a list: one of its nodes, or its end, which is the list   *)
Index(s, pos) == IF pos \in List THEN Len(s) + 1 ELSE CHOOSE k \in DOMAIN s : s[k] = pos

Paste(s, p, t) == SubSeq(s, 1, p - 1) \o t \o SubSeq(s, p, Len(s))

Cut(s, i, j) == SubSeq(s, 1, i - 1) \o SubSeq(s, j + 1, Len(s))

Construct(l) ==
    /\ l \notin Live
    /\ seqs' = [k \in Live \cup {l} |-> IF k = l THEN << >> ELSE seqs[k]]

MoveConstruct(l, m) ==
    /\ l \notin Live
    /\ seqs' = [k \in Live \cup {l} |->
                    IF k = l THEN seqs[m] ELSE IF k = m THEN << >> ELSE seqs[k]]

Destroy(l) == seqs' = [k \in Live \ {l} |-> seqs[k]]

Insert(l, pos, n) ==
    /\ n \notin Owned
    /\ seqs' = [seqs EXCEPT ![l] = Paste(@, Index(@, pos), <<n>>)]

Erase(l, i) == seqs' = [seqs EXCEPT ![l] = Cut(@, i, i)]

(* the nodes i to j of m go before pos *)
Splice(l, pos, m, i, j) ==
    LET t == SubSeq(seqs[m], i, j)
        s == [seqs EXCEPT ![m] = Cut(@, i, j)]
    IN  /\ pos \notin ToSet(t)
        /\ seqs' = [s EXCEPT ![l] = Paste(@, Index(@, pos), t)]

Init == seqs = << >>

Next ==
    \/ \E l \in List : Construct(l)
    \/ \E l \in List, m \in Live : MoveConstruct(l, m)
    \/ \E l \in Live :
        \/ Destroy(l)
        \/ \E i \in DOMAIN seqs[l] : Erase(l, i)
        \/ \E pos \in ToSet(seqs[l]) \cup {l} :
            \/ \E n \in Node : Insert(l, pos, n)
            \/ \E m \in Live : \E i \in DOMAIN seqs[m] : \E j \in i .. Len(seqs[m]) : Splice(l, pos, m, i, j)

Spec == Init /\ [][Next]_seqs
===============================================================================
