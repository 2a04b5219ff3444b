------------------------------- MODULE LoopTree -------------------------------
(***************************************************************************)
(* bjac::LoopTree and bjac::Loop (include/bjac/graphs/loop_tree.hpp,       *)
(* loop.hpp).  A loop owns its inner loops, so a loop is a record that     *)
(* holds the records of its inner loops under their headers; header_to_    *)
(* loop_ holds the loops that are in no other one.                         *)
(***************************************************************************)
EXTENDS DominatorTree

(* the edges from latch to itself and to the blocks that dominate it *)
BackEdgesFrom(g, tree, latch) ==
    LET headers == Filtered(g.succ[latch],
                            {h \in Range(g.succ[latch]) :
                                 h = latch \/ is_dominator_of(tree, latch, h)})
    IN  [j \in DOMAIN headers |-> [latch |-> latch, header |-> headers[j]]]

(* compute_back_edges: the latches in pre-order *)
BackEdges(g, d, tree) ==
    FoldLeft(LAMBDA edges, latch : edges \o BackEdgesFrom(g, tree, latch), << >>, d.pre_order)

(* Mutant: the reverse search is not stopped at the header *)
LoopBodyUnbounded(g, latch, header) ==
    IF latch = header THEN << >> ELSE DFSOf(ReverseGraph(g), latch, {}).post_order

(* Lines 33-34: what the reverse search from the latch adds to the loop *)
LoopBody(g, latch, header) ==
    IF latch = header
    THEN << >>
    ELSE DFSOf(ReverseGraph(g), latch, {header}).post_order

(* Mutant: a loop that turns out to be an inner one stays in the table *)
AddedLoopKeep(g, header_to_loop_, edge) ==
    LET body == LoopBody(g, edge.latch, edge.header)
        loop == [vertices    |-> <<edge.header>> \o body,
                 inner_loops |-> Restrict(header_to_loop_,
                                          Range(body) \cap DOMAIN header_to_loop_)]
    IN  IF edge.header \in DOMAIN header_to_loop_ THEN header_to_loop_
        ELSE Stored(header_to_loop_, edge.header, loop)

(* One turn of the loop of lines 29-47.  The loops found so far whose      *)
(* headers the body contains move into the new loop.  The table keeps the  *)
(* loop it already has for a header; the new one is then destroyed, with   *)
(* the inner loops it has taken.                                           *)
AddedLoop(g, header_to_loop_, edge) ==
    LET body  == LoopBody(g, edge.latch, edge.header)
        inner == Range(body) \cap DOMAIN header_to_loop_
        loop  == [vertices    |-> <<edge.header>> \o body,
                  inner_loops |-> Restrict(header_to_loop_, inner)]
        outer == Restrict(header_to_loop_, DOMAIN header_to_loop_ \ inner)
    IN  IF edge.header \in DOMAIN outer THEN outer
        ELSE Stored(outer, edge.header, loop)

LoopTreeOf(g, d, tree) ==
    FoldLeft(LAMBDA loops, edge : AddedLoop(g, loops, edge),
             << >>,
             BackEdges(g, d, tree))

(* is_header and get_loop(header).vertices() *)
is_header(loops, v) == v \in DOMAIN loops

LoopVertices(loops, v) == loops[v].vertices
===============================================================================
