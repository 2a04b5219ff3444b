----------------------------- MODULE DominatorTree -----------------------------
(***************************************************************************)
(* bjac::DominatorTree (include/bjac/graphs/dominator_tree.hpp), the       *)
(* semidominator algorithm of Lengauer and Tarjan, each loop of the code a *)
(* fold in the loop's order.  A map from vertices is a function whose      *)
(* domain is the map's keys.                                               *)
(***************************************************************************)
EXTENDS DFS

Time(d, v) == d.info[v].discovery_time

(* std::ranges::min(vertices, {}, discovery_time) *)
Earliest(d, vertices) ==
    CHOOSE v \in vertices : \A u \in vertices : Time(d, v) <= Time(d, u)

(* pre_order without the source, last vertex first *)
Backwards(d) == Reverse(Tail(d.pre_order))

(* Mutant: only predecessors count, not the semidominators on the way *)
SDomCandidatesDirect(g, d, sdom, w) == {v \in Range(g.pred[w]) : Time(d, v) < Time(d, w)}

(* Lines 110-127.  The visited vertices are those that sdom has. *)
SDomCandidates(g, d, sdom, w) ==
    {v \in Range(g.pred[w]) : Time(d, v) < Time(d, w)}
    \cup {sdom[u] : u \in {x \in DOMAIN sdom :
                               \E v \in Range(g.pred[w]) : is_ancestor_of(d, v, x)}}

(* compute_semidominators *)
SemiDominators(g, d) ==
    FoldLeft(LAMBDA sdom, w :
                 Stored(sdom, w, Earliest(d, SDomCandidates(g, d, sdom, w))),
             << >>,
             Backwards(d))

(* the range [st_begin(w), st_begin(sdom[w])): w and its ancestors below   *)
(* sdom[w]                                                                 *)
BelowSDom(d, sdom, w) ==
    LET path == Ancestors(d, w)
    IN  SubSeq(path, 1, SelectInSeq(path, LAMBDA v : v = sdom[w]) - 1)

(* std::ranges::min_element: the first of them whose semidominator is      *)
(* discovered first                                                        *)
MinElement(d, sdom, path) ==
    path[SelectInSeq(path, LAMBDA u :
                         \A v \in Range(path) : Time(d, sdom[u]) <= Time(d, sdom[v]))]

(* Lines 145-163: the immediate dominator, or a vertex that has the same *)
RelativeDominator(d, sdom, w) ==
    LET u == MinElement(d, sdom, BelowSDom(d, sdom, w))
    IN  IF sdom[u] = sdom[w] THEN sdom[w] ELSE u

(* Mutant: the second pass is missing *)
IDomsOnePass(d, sdom) == [w \in DOMAIN sdom |-> RelativeDominator(d, sdom, w)]

(* compute_idoms; the second pass (lines 165-176) goes forwards *)
IDoms(d, sdom) ==
    FoldLeft(LAMBDA idom, w :
                 IF idom[w] = sdom[w] THEN idom ELSE [idom EXCEPT ![w] = idom[@]],
             [w \in DOMAIN sdom |-> RelativeDominator(d, sdom, w)],
             Tail(d.pre_order))

(* Lines 37-50; the source has no idom *)
DominatorTreeOf(g, d) ==
    LET idom == IDoms(d, SemiDominators(g, d))
    IN  [idom       |-> idom,
         successors |-> [u \in {Head(d.pre_order)} \cup DOMAIN idom |->
                            Filtered(Reverse(d.post_order), {v \in DOMAIN idom : idom[v] = u})]]

(* what the loop of is_dominator_of climbs through, v itself left out *)
IDomChain(tree, v) ==
    Tail(FoldLeft(LAMBDA path, n :
                      LET u == path[Len(path)]
                      IN  IF u \in DOMAIN tree.idom THEN Append(path, tree.idom[u]) ELSE path,
                  <<v>>,
                  Times(NumBlocks)))

(* u strictly dominates v *)
is_dominator_of(tree, v, u) == u \in Range(IDomChain(tree, v))
===============================================================================
