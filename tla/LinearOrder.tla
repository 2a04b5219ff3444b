------------------------------ MODULE LinearOrder ------------------------------
(***************************************************************************)
(* bjac::LinearOrder (include/bjac/graphs/linear_order.hpp), the order in  *)
(* which LivenessAnalysis numbers the blocks of a function, with the       *)
(* DominatorTree and the LoopTree it is computed from.                     *)
(*                                                                         *)
(* One turn of the loop of lines 62-85 is a step.  The assertion of line   *)
(* 73 is a property: a Release build paints a black block black again.     *)
(***************************************************************************)
EXTENDS LoopTree

CONSTANT Functions

ASSUME FunctionsAssumption == Functions \subseteq [Block -> Paths]

VARIABLES
    graph,      \* the function's control-flow graph
    dfs, dom_tree, loop_tree,
    black,      \* the keys of color_table with Color::black
    queue,
    order       \* the vector that LinearOrder is

vars == <<graph, dfs, dom_tree, loop_tree, black, queue, order>>

analyses == <<graph, dfs, dom_tree, loop_tree>>

NotBuilt == << >>

InitOf(succ) ==
    /\ graph = GraphOf(succ)
    /\ NoDeadPredecessor(graph)
    /\ dfs = NotBuilt /\ dom_tree = NotBuilt /\ loop_tree = NotBuilt
    /\ black = {}
    /\ queue = << >>
    /\ order = << >>

Init == \E succ \in Functions : InitOf(succ)

(* The delegating constructors (lines 36-43) and lines 49-60 *)
Build ==
    /\ dfs = NotBuilt
    /\ dfs' = DFSOf(graph, Entry, {})
    /\ dom_tree' = DominatorTreeOf(graph, dfs')
    /\ loop_tree' = LoopTreeOf(graph, dfs', dom_tree')
    /\ black' = {Entry}
    /\ queue' = <<Entry>>
    /\ UNCHANGED <<graph, order>>

(* Mutant: the loop is queued in the opposite order *)
LoopBlocksBackwards(u) ==
    IF is_header(loop_tree, u) THEN Reverse(Tail(LoopVertices(loop_tree, u))) ELSE << >>

(* Lines 68-77: the loop's vertices but the header, to the front.  The     *)
(* loop goes backwards, so that they stand there in their own order.       *)
LoopBlocks(u) ==
    IF is_header(loop_tree, u) THEN Tail(LoopVertices(loop_tree, u)) ELSE << >>

(* Lines 79-84 *)
NewSuccessors(u) ==
    Filtered(dom_tree.successors[u], Block \ (black \cup Range(LoopBlocks(u))))

(* Mutant: blocks are painted when they are taken, not when they are queued *)
TurnPaintLate ==
    LET u == Head(queue)
    IN  /\ queue # << >>
        /\ order' = Append(order, u)
        /\ queue' = LoopBlocks(u) \o Tail(queue) \o NewSuccessors(u)
        /\ black' = black \cup {u}
        /\ UNCHANGED analyses

Turn ==
    LET u == Head(queue)
    IN  /\ queue # << >>
        /\ order' = Append(order, u)
        /\ queue' = LoopBlocks(u) \o Tail(queue) \o NewSuccessors(u)
        /\ black' = black \cup Range(LoopBlocks(u)) \cup Range(NewSuccessors(u))
        /\ UNCHANGED analyses

Finished == dfs # NotBuilt /\ queue = << >>

Done == Finished /\ UNCHANGED vars

Next == Build \/ Turn \/ Done

Spec == Init /\ [][Next]_vars

-------------------------------------------------------------------------------

(* Reference notions, from the graph's paths alone. *)

BackEdgeSet ==
    {e \in Reachable(graph) \X Block :
         e[2] \in Range(graph.succ[e[1]]) /\ Dominates(graph, e[2], e[1])}

Headers == {e[2] : e \in BackEdgeSet}

NaturalLoop(latch, header) ==
    {header} \cup Reach(ReverseGraph(graph), latch, {header})

ForwardEdges ==
    {e \in Reachable(graph) \X Block : e[2] \in Range(graph.succ[e[1]])} \ BackEdgeSet

(* the forward edges alone have no cycle *)
Reducible ==
    LET forward == [succ |-> [u \in Block |->
                       Filtered(graph.succ[u], {v \in Block : <<u, v>> \in ForwardEdges})]]
    IN  \A e \in ForwardEdges : e[1] \notin Reach(forward, e[2], {})

LoopsApart ==
    \A e, f \in BackEdgeSet :
        e # f => NaturalLoop(e[1], e[2]) \cap NaturalLoop(f[1], f[2]) = {}

(* A loop has one latch, and the latch of a loop inside it comes earlier   *)
(* in pre-order, so that LoopTree makes the inner loop first.              *)
InnerLatchesFirst ==
    \A e, f \in BackEdgeSet :
        e # f /\ f[2] \in NaturalLoop(e[1], e[2]) =>
            /\ f[2] # e[2]
            /\ dfs.info[f[1]].discovery_time < dfs.info[e[1]].discovery_time

Built == dfs # NotBuilt /\ order = << >>

LoopSet(h) == Range(LoopVertices(loop_tree, h))

Position(v) == CHOOSE i \in DOMAIN order : order[i] = v

Before(u, v) == Position(u) < Position(v)

(* dominator_tree.hpp, lines 100-177: the tree that semidominators and two *)
(* passes yield is the dominator tree of every graph, reducible or not:    *)
(* the idom of a block is the strict dominator that all others dominate,   *)
(* and is_dominator_of meets the strict dominators and nothing else.       *)
IDomIsImmediate ==
    Built =>
        /\ DOMAIN dom_tree.idom = Reachable(graph) \ {Entry}
        /\ \A v \in DOMAIN dom_tree.idom :
               /\ dom_tree.idom[v] \in StrictDominators(graph, v)
               /\ \A u \in StrictDominators(graph, v) :
                      Dominates(graph, u, dom_tree.idom[v])
        /\ \A u, v \in Reachable(graph) :
               is_dominator_of(dom_tree, v, u) <=> u \in StrictDominators(graph, v)

(* loop_tree.hpp, lines 30-36: the vertices of a loop are the natural loop *)
(* of one back edge, each once, the header first and the latch last, where *)
(* LivenessAnalysis looks for it (liveness.cpp, line 97).                  *)
LoopsAreNatural ==
    Built =>
        \A h \in DOMAIN loop_tree :
            LET vertices == LoopVertices(loop_tree, h)
            IN  /\ IsInjective(vertices)
                /\ Head(vertices) = h
                /\ <<Last(vertices), h>> \in BackEdgeSet
                /\ LoopSet(h) = NaturalLoop(Last(vertices), h)
                /\ \A v \in LoopSet(h) : Dominates(graph, h, v)

(* loop_tree.hpp, lines 37-46: when the latches come in the right order    *)
(* the outermost loops are disjoint.  In any order, a header is in one of  *)
(* the table's loops, or in the body of a loop whose header has a second   *)
(* latch: only there is a loop destroyed with the inner loops it has.      *)
LoopsNest ==
    Built =>
        /\ InnerLatchesFirst =>
               \A g, h \in DOMAIN loop_tree : g # h => LoopSet(g) \cap LoopSet(h) = {}
        /\ \A f \in Headers :
               \/ \E h \in DOMAIN loop_tree : f \in LoopSet(h)
               \/ \E e, d \in BackEdgeSet :
                      /\ e # d /\ e[2] = d[2]
                      /\ f \in NaturalLoop(e[1], e[2]) \ {e[2]}

(* Line 73, assert(color == Color::white): no vertex of the loop that is   *)
(* about to be queued has been queued before.                              *)
LoopVerticesWhite ==
    queue # << >> => Range(LoopBlocks(Head(queue))) \cap black = {}

(* Lines 62-85: every block of the function is numbered, once, when the   *)
(* latches come in the right order.                                        *)
EveryBlockOnce ==
    Finished /\ InnerLatchesFirst =>
        IsInjective(order) /\ Range(order) = Reachable(graph)

(* A block comes after its dominators, so that an operand is numbered      *)
(* before its users, in functions whose loops do not nest.  Where they     *)
(* nest, the two are out of order only in the body of one outermost loop.  *)
DominatorsFirst ==
    Finished =>
        /\ Reducible /\ LoopsApart =>
               \A v \in DOMAIN dom_tree.idom : Before(dom_tree.idom[v], v)
        /\ InnerLatchesFirst =>
               \A v \in DOMAIN dom_tree.idom :
                   \/ Before(dom_tree.idom[v], v)
                   \/ \E h \in DOMAIN loop_tree : {v, dom_tree.idom[v]} \subseteq LoopSet(h) \ {h}
===============================================================================
