--------------------------- MODULE LinearOrderProofs ---------------------------
(***************************************************************************)
(* Proofs about module LinearOrder, for every number of blocks and every   *)
(* set of functions: the trees that the order is computed from are right,  *)
(* and the order is of every block once, dominators first.                 *)
(***************************************************************************)
EXTENDS LinearOrder, GraphProofs

(* the trees are those of the graph                                        *)
Analysed ==
    /\ FlowOf(graph)
    /\ dfs # NotBuilt =>
           /\ dfs = DFSOf(graph, Entry, {})
           /\ dom_tree = DominatorTreeOf(graph, dfs)
           /\ loop_tree = LoopTreeOf(graph, dfs, dom_tree)

LEMMA AnalysedHolds == Spec => []Analysed
<1>1. Init => Analysed
    <2> SUFFICES ASSUME Init PROVE Analysed
        OBVIOUS
    <2>1. PICK succ \in Functions : InitOf(succ)
        BY DEF Init
    <2>2. succ \in [Block -> Paths]
        BY FunctionsAssumption
    <2>3. FlowOf(graph)
        BY <2>1, <2>2 DEF InitOf, FlowOf
    <2>4. QED
        BY <2>1, <2>3 DEF InitOf, Analysed
<1>2. ASSUME Analysed, [Next]_vars PROVE Analysed'
    <2>1. CASE Build
        <3>1. /\ dfs' = DFSOf(graph, Entry, {})
              /\ dom_tree' = DominatorTreeOf(graph, dfs')
              /\ loop_tree' = LoopTreeOf(graph, dfs', dom_tree')
              /\ graph' = graph
            BY <2>1 DEF Build
        <3>2. FlowOf(graph)
            BY <1>2 DEF Analysed
        <3>3. QED
            BY <3>1, <3>2 DEF Analysed
    <2>2. CASE Turn
        BY <1>2, <2>2 DEF Turn, Analysed, analyses
    <2>3. CASE UNCHANGED vars
        BY <1>2, <2>3 DEF vars, Analysed
    <2>4. QED
        BY <1>2, <2>1, <2>2, <2>3 DEF Next, Done
<1>3. QED
    BY <1>1, <1>2, PTL DEF Spec

LEMMA IDomsOfState ==
    ASSUME Analysed, dfs # NotBuilt
    PROVE  /\ DOMAIN dom_tree.idom = Reachable(graph) \ {Entry}
           /\ \A v \in Reachable(graph) \ {Entry} : IsIDom(graph, v, dom_tree.idom[v])
           /\ \A u, v \in Reachable(graph) :
                  is_dominator_of(dom_tree, v, u) <=> u \in StrictDominators(graph, v)
<1>1. /\ FlowOf(graph) /\ dfs = DFSOf(graph, Entry, {})
      /\ dom_tree = DominatorTreeOf(graph, dfs)
    BY DEF Analysed
<1>2. \A d : d = DFSOf(graph, Entry, {}) =>
       /\ DOMAIN DominatorTreeOf(graph, d).idom = Reachable(graph) \ {Entry}
       /\ \A v \in Reachable(graph) \ {Entry} : IsIDom(graph, v, DominatorTreeOf(graph, d).idom[v])
       /\ \A u, v \in Reachable(graph) :
              is_dominator_of(DominatorTreeOf(graph, d), v, u) <=> u \in StrictDominators(graph, v)
    BY <1>1, DominatorTreeComputed
<1>3. QED
    BY <1>1, <1>2

(* The tree that Lengauer and Tarjan's semidominators and the two passes   *)
(* yield is the dominator tree of every flow graph, and is_dominator_of    *)
(* meets the strict dominators (dominator_tree.hpp, lines 100-177).        *)
THEOREM LinearOrderIDoms == Spec => []IDomIsImmediate
<1>1. Analysed => IDomIsImmediate
    <2> SUFFICES ASSUME Analysed, Built PROVE IDomIsImmediate
        BY DEF IDomIsImmediate
    <2>1. dfs # NotBuilt
        BY DEF Built
    <2>2. QED
        BY <2>1, IDomsOfState DEF IDomIsImmediate, IsIDom
<1>2. QED
    BY <1>1, AnalysedHolds, PTL

LEMMA LoopsOfState ==
    ASSUME Analysed, dfs # NotBuilt
    PROVE  /\ FlowOf(graph) /\ AnalysedBy(graph, dfs, dom_tree)
           /\ \A h \in DOMAIN loop_tree : \E latch \in Block :
                  IsBackEdge(graph, latch, h) /\ IsLoopOf(graph, LoopVertices(loop_tree, h), latch, h)
<1>1. /\ FlowOf(graph)
      /\ dfs = DFSOf(graph, Entry, {})
      /\ dom_tree = DominatorTreeOf(graph, dfs)
      /\ loop_tree = LoopTreeOf(graph, dfs, dom_tree)
    BY DEF Analysed
<1>2. AnalysedBy(graph, dfs, dom_tree)
    BY <1>1, AnalysesOf
<1>3. QED
    BY <1>1, <1>2, LoopsOfTable

(* Every loop in the table has the vertices of one back edge's natural     *)
(* loop, each once, the header first and the latch last (loop_tree.hpp,    *)
(* lines 30-36).                                                           *)
THEOREM LinearOrderLoopsNatural == Spec => []LoopsAreNatural
<1>1. Analysed => LoopsAreNatural
    <2> SUFFICES ASSUME Analysed, Built, NEW h \in DOMAIN loop_tree
                 PROVE  LET vertices == LoopVertices(loop_tree, h)
                        IN  /\ IsInjective(vertices)
                            /\ Head(vertices) = h
                            /\ <<Last(vertices), h>> \in BackEdgeSet
                            /\ LoopSet(h) = NaturalLoop(Last(vertices), h)
                            /\ \A v \in LoopSet(h) : Dominates(graph, h, v)
        BY DEF LoopsAreNatural
    <2>1. PICK latch \in Block :
              IsBackEdge(graph, latch, h) /\ IsLoopOf(graph, LoopVertices(loop_tree, h), latch, h)
        BY LoopsOfState DEF Built
    <2>2. FlowOf(graph)
        BY DEF Analysed
    <2>3. PICK vertices : vertices = LoopVertices(loop_tree, h)
        OBVIOUS
    <2>4. /\ IsInjective(vertices) /\ Head(vertices) = h
          /\ Range(vertices) = LoopAround(graph, latch, h) /\ Last(vertices) = latch
        BY <2>1, <2>3 DEF IsLoopOf, Last
    <2>5. h \in Block
        BY <2>1, <2>2, EdgesOf DEF IsBackEdge
    <2>6. <<latch, h>> \in BackEdgeSet
        BY <2>1, <2>5 DEF BackEdgeSet, IsBackEdge
    <2>7. LoopSet(h) = NaturalLoop(latch, h)
        BY <2>3, <2>4 DEF LoopSet, NaturalLoop, LoopAround
    <2>8. \A v \in LoopSet(h) : Dominates(graph, h, v)
        BY <2>1, <2>2, <2>7, HeaderDominates DEF NaturalLoop, LoopAround
    <2>9. QED
        BY <2>3, <2>4, <2>6, <2>7, <2>8
<1>2. QED
    BY <1>1, AnalysedHolds, PTL

(* back edges as pairs and as records                                      *)
LEMMA EdgesOfState ==
    ASSUME FlowOf(graph)
    PROVE  /\ \A e \in BackEdgeSet : [latch |-> e[1], header |-> e[2]] \in EdgeRecords(graph)
           /\ \A e \in EdgeRecords(graph) : <<e.latch, e.header>> \in BackEdgeSet
           /\ \A e \in EdgeRecords(graph) : LoopOf(graph, e) = NaturalLoop(e.latch, e.header)
<1>1. Closed(graph, {}, Reachable(graph)) /\ Reachable(graph) \subseteq Block
    <2>1. Entry \in Block
        BY EdgesOf
    <2>2. Reach(graph, Entry, {}) \in SUBSET (Block \ {}) /\ Closed(graph, {}, Reach(graph, Entry, {}))
        BY <2>1, ReachIsLeast
    <2>3. QED
        BY <2>2 DEF Reachable
<1>2. ASSUME NEW e \in BackEdgeSet PROVE [latch |-> e[1], header |-> e[2]] \in EdgeRecords(graph)
    <2>1. PICK u \in Reachable(graph), h \in Block : e = <<u, h>>
        BY DEF BackEdgeSet
    <2>2. h \in Range(graph.succ[u]) /\ Dominates(graph, h, u)
        BY <2>1 DEF BackEdgeSet
    <2>3. h \in Reachable(graph)
        BY <1>1, <2>1, <2>2 DEF Closed
    <2>4. [latch |-> u, header |-> h] \in EdgeRecords(graph)
        BY <2>2, <2>3 DEF EdgeRecords, IsBackEdge
    <2>5. QED
        BY <2>1, <2>4
<1>3. ASSUME NEW e \in EdgeRecords(graph) PROVE <<e.latch, e.header>> \in BackEdgeSet
    BY <1>1 DEF EdgeRecords, IsBackEdge, BackEdgeSet
<1>4. \A e \in EdgeRecords(graph) : LoopOf(graph, e) = NaturalLoop(e.latch, e.header)
    BY DEF LoopOf, LoopAround, NaturalLoop
<1>5. QED
    BY <1>2, <1>3, <1>4

LEMMA InnerFirstNests ==
    ASSUME FlowOf(graph), InnerLatchesFirst
    PROVE  EdgesNest(graph, dfs)
<1> SUFFICES ASSUME NEW e \in EdgeRecords(graph), NEW f \in EdgeRecords(graph),
                    e # f, f.header \in LoopOf(graph, e)
             PROVE  f.header # e.header /\ Begin(dfs, f.latch) < Begin(dfs, e.latch)
    BY DEF EdgesNest
<1>1. PICK p : p = <<e.latch, e.header>>
    OBVIOUS
<1>2. PICK q : q = <<f.latch, f.header>>
    OBVIOUS
<1>3. p \in BackEdgeSet /\ q \in BackEdgeSet
    BY <1>1, <1>2, EdgesOfState
<1>4. p # q
    <2>1. e = [latch |-> e.latch, header |-> e.header] /\ f = [latch |-> f.latch, header |-> f.header]
        BY DEF EdgeRecords
    <2>2. QED
        BY <1>1, <1>2, <2>1
<1>5. q[2] \in NaturalLoop(p[1], p[2])
    <2>1. f.header \in NaturalLoop(e.latch, e.header)
        BY EdgesOfState
    <2>2. QED
        BY <1>1, <1>2, <2>1
<1>6. q[2] # p[2] /\ dfs.info[q[1]].discovery_time < dfs.info[p[1]].discovery_time
    BY <1>3, <1>4, <1>5 DEF InnerLatchesFirst
<1>7. QED
    BY <1>1, <1>2, <1>6 DEF Begin

LEMMA NestedOfState ==
    ASSUME Analysed, dfs # NotBuilt, InnerLatchesFirst
    PROVE  TableNests(graph, DOMAIN loop_tree, EdgeRecords(graph))
<1>1. /\ FlowOf(graph)
      /\ loop_tree = LoopTreeOf(graph, dfs, dom_tree)
    BY DEF Analysed
<1>2. AnalysedBy(graph, dfs, dom_tree)
    BY LoopsOfState
<1>3. QED
    BY <1>1, <1>2, InnerFirstNests, TableOfLoopsNests

(* A loop in the table is one back edge's.                                 *)
LEMMA EdgeOfLoop ==
    ASSUME Analysed, dfs # NotBuilt, NEW h \in DOMAIN loop_tree
    PROVE  \E e \in EdgeRecords(graph) :
               /\ e.header = h
               /\ LoopSet(h) = LoopOf(graph, e)
               /\ Body(loop_tree, h) = Inside(graph, e)
               /\ Gathered(graph, LoopVertices(loop_tree, h), e.latch, h)
<1>1. FlowOf(graph) /\ loop_tree = LoopTreeOf(graph, dfs, dom_tree)
    BY DEF Analysed
<1>2. AnalysedBy(graph, dfs, dom_tree)
    BY LoopsOfState
<1>3. QED
    BY <1>1, <1>2, EdgeOfHeader DEF LoopSet

LEMMA LoopsOfStateApart ==
    ASSUME Analysed, dfs # NotBuilt, InnerLatchesFirst,
           NEW g \in DOMAIN loop_tree, NEW h \in DOMAIN loop_tree, g # h
    PROVE  LoopSet(g) \cap LoopSet(h) = {}
<1>1. TableNests(graph, DOMAIN loop_tree, EdgeRecords(graph))
    BY NestedOfState
<1>2. PICK e \in EdgeRecords(graph) : e.header = g /\ LoopSet(g) = LoopOf(graph, e)
    BY EdgeOfLoop
<1>3. PICK f \in EdgeRecords(graph) : f.header = h /\ LoopSet(h) = LoopOf(graph, f)
    BY EdgeOfLoop
<1>4. LoopOf(graph, e) \cap LoopOf(graph, f) = {}
    BY <1>1, <1>2, <1>3 DEF TableNests
<1>5. QED
    BY <1>2, <1>3, <1>4

LEMMA HeadersKept ==
    ASSUME Analysed, dfs # NotBuilt, NEW f \in Headers
    PROVE  \/ \E h \in DOMAIN loop_tree : f \in LoopSet(h)
           \/ \E e, d \in BackEdgeSet :
                  /\ e # d /\ e[2] = d[2]
                  /\ f \in NaturalLoop(e[1], e[2]) \ {e[2]}
<1>1. /\ FlowOf(graph) /\ AnalysedBy(graph, dfs, dom_tree)
      /\ loop_tree = LoopTreeOf(graph, dfs, dom_tree)
    BY LoopsOfState DEF Analysed
<1>2. PICK E : E = EdgeRecords(graph)
    OBVIOUS
<1>3. PICK made : made = MadeOf(graph, loop_tree, E)
    OBVIOUS
<1>4. TableKeeps(graph, made, E)
    BY <1>1, <1>2, <1>3, TableOfLoopsKeeps
<1>5. PICK r \in E : r.header = f
    <2>1. PICK p \in BackEdgeSet : f = p[2]
        BY DEF Headers
    <2>2. QED
        BY <1>1, <1>2, <2>1, EdgesOfState
<1>6. CASE \E m \in made : r.header \in LoopOf(graph, m)
    <2>1. PICK m \in made : r.header \in LoopOf(graph, m)
        BY <1>6
    <2>2. PICK h \in DOMAIN loop_tree :
              /\ h = m.header /\ m \in E
              /\ Gathered(graph, LoopVertices(loop_tree, h), m.latch, h)
        BY <1>3, <2>1 DEF MadeOf
    <2>3. m.latch \in Block /\ h \in Block
        BY <1>1, <1>2, <2>2, InsideIsLeast DEF AnalysedBy, SearchTree
    <2>4. IsLoopOf(graph, LoopVertices(loop_tree, h), m.latch, h)
        BY <1>1, <2>2, <2>3, VerticesOf DEF Gathered
    <2>5. LoopSet(h) = LoopOf(graph, m)
        BY <2>2, <2>4 DEF IsLoopOf, LoopSet, LoopOf
    <2>6. QED
        BY <1>5, <2>1, <2>2, <2>5
<1>7. CASE \E m, n \in E : m # n /\ m.header = n.header /\ r.header \in Inside(graph, m)
    <2>1. PICK m \in E, n \in E : m # n /\ m.header = n.header /\ r.header \in Inside(graph, m)
        BY <1>7
    <2>2. PICK e : e = <<m.latch, m.header>>
        OBVIOUS
    <2>3. PICK d : d = <<n.latch, n.header>>
        OBVIOUS
    <2>4. e \in BackEdgeSet /\ d \in BackEdgeSet
        BY <1>1, <1>2, <2>2, <2>3, EdgesOfState
    <2>5. e # d
        <3>1. m = [latch |-> m.latch, header |-> m.header] /\ n = [latch |-> n.latch, header |-> n.header]
            BY <1>2 DEF EdgeRecords
        <3>2. QED
            BY <2>1, <2>2, <2>3, <3>1
    <2>6. e[2] = d[2] /\ e[2] = m.header
        BY <2>1, <2>2, <2>3
    <2>7. LoopOf(graph, m) = NaturalLoop(e[1], e[2])
        BY <1>1, <1>2, <2>2, EdgesOfState
    <2>8. LoopOf(graph, m) = {m.header} \cup Inside(graph, m) /\ m.header \notin Inside(graph, m)
        BY <1>1, <1>2, InsideIsLeast DEF AnalysedBy
    <2>9. QED
        BY <1>5, <2>1, <2>4, <2>5, <2>6, <2>7, <2>8
<1>8. QED
    BY <1>4, <1>5, <1>6, <1>7 DEF TableKeeps

(* When the latches of inner loops are discovered first, the loops in the  *)
(* table are apart.  In any case a header is in one of them, or in the     *)
(* body of a loop whose header has a second latch (loop_tree.hpp, lines    *)
(* 37-46).                                                                 *)
THEOREM LinearOrderLoopsNest == Spec => []LoopsNest
<1>1. Analysed => LoopsNest
    BY LoopsOfStateApart, HeadersKept DEF LoopsNest, Built
<1>2. QED
    BY <1>1, AnalysedHolds, PTL

LEMMA LoopBlocksAre ==
    ASSUME Analysed, dfs # NotBuilt, NEW u
    PROVE  /\ LoopBlocks(u) \in Seq(Block)
           /\ IsInjective(LoopBlocks(u))
           /\ Range(LoopBlocks(u)) = IF u \in DOMAIN loop_tree THEN Body(loop_tree, u) ELSE {}
           /\ Range(LoopBlocks(u)) \subseteq Reachable(graph)
<1>1. CASE u \in DOMAIN loop_tree
    <2>1. PICK latch : IsLoopOf(graph, LoopVertices(loop_tree, u), latch, u)
        BY <1>1, LoopsOfState
    <2>2. PICK vertices : vertices = LoopVertices(loop_tree, u)
        OBVIOUS
    <2>3. /\ vertices \in Seq(Block) /\ Len(vertices) # 0
          /\ IsInjective(vertices) /\ Head(vertices) = u
        BY <2>1, <2>2 DEF IsLoopOf
    <2>4. vertices # << >>
        BY <2>3
    <2>5. PICK t : t = Tail(vertices)
        OBVIOUS
    <2>6. /\ t \in Seq(Block) /\ Range(vertices) = {u} \cup Range(t)
          /\ IsInjective(t) /\ u \notin Range(t)
        BY <2>3, <2>4, <2>5, TailFacts
    <2>7. LoopBlocks(u) = t
        BY <1>1, <2>2, <2>5 DEF LoopBlocks, is_header
    <2>8. Body(loop_tree, u) = Range(t)
        BY <2>2, <2>6 DEF Body
    <2>9. PICK e \in EdgeRecords(graph) : Body(loop_tree, u) = Inside(graph, e)
        BY <1>1, EdgeOfLoop
    <2>10. Inside(graph, e) \subseteq Reachable(graph)
        BY LoopsOfState, HeaderAbove DEF AnalysedBy
    <2>11. QED
        BY <1>1, <2>6, <2>7, <2>8, <2>9, <2>10
<1>2. CASE u \notin DOMAIN loop_tree
    <2>1. PICK none : none = << >>
        OBVIOUS
    <2>2. LoopBlocks(u) = none
        BY <1>2, <2>1 DEF LoopBlocks, is_header
    <2>3. none \in Seq(Block) /\ Range(none) = {} /\ IsInjective(none)
        BY <2>1 DEF Range, IsInjective
    <2>4. QED
        BY <1>2, <2>2, <2>3
<1>3. QED
    BY <1>1, <1>2

LEMMA NewSuccessorsAre ==
    ASSUME Analysed, dfs # NotBuilt, NEW u \in Reachable(graph)
    PROVE  /\ NewSuccessors(u) \in Seq(Block)
           /\ IsInjective(NewSuccessors(u))
           /\ Range(NewSuccessors(u)) =
                  Children(graph, dom_tree, u) \ (black \cup Range(LoopBlocks(u)))
<1>1. /\ FlowOf(graph) /\ dfs = DFSOf(graph, Entry, {})
      /\ dom_tree = DominatorTreeOf(graph, dfs)
    BY DEF Analysed
<1>2. /\ dom_tree.successors[u] \in Seq(Block)
      /\ IsInjective(dom_tree.successors[u])
      /\ Range(dom_tree.successors[u]) = Children(graph, dom_tree, u)
    BY <1>1, ChildrenAre DEF Children
<1>3. PICK q \in Seq(Block) : q = dom_tree.successors[u]
    BY <1>2
<1>4. PICK set : set = Block \ (black \cup Range(LoopBlocks(u)))
    OBVIOUS
<1>5. /\ Filtered(q, set) \in Seq(Block)
      /\ Range(Filtered(q, set)) = Range(q) \cap set
      /\ IsInjective(Filtered(q, set))
    BY <1>2, <1>3, FilteredIs, FilteredInjective
<1>6. NewSuccessors(u) = Filtered(q, set)
    BY <1>3, <1>4 DEF NewSuccessors
<1>7. Range(q) \subseteq Block
    BY <1>3 DEF Range
<1>8. QED
    BY <1>2, <1>3, <1>4, <1>5, <1>6, <1>7

LEMMA IDomsInLoops ==
    ASSUME Analysed, dfs # NotBuilt, NEW h \in DOMAIN loop_tree, NEW v \in Body(loop_tree, h),
           v \in Reachable(graph) \ {Entry}
    PROVE  dom_tree.idom[v] \in Body(loop_tree, h) \cup {h}
<1>1. PICK e \in EdgeRecords(graph) :
          /\ e.header = h /\ LoopSet(h) = LoopOf(graph, e)
          /\ Body(loop_tree, h) = Inside(graph, e)
    BY EdgeOfLoop
<1>2. FlowOf(graph) /\ SearchTree(graph, dfs, Reachable(graph))
    BY LoopsOfState DEF AnalysedBy
<1>3. IsIDom(graph, v, dom_tree.idom[v])
    BY IDomsOfState
<1>4. dom_tree.idom[v] \in LoopOf(graph, e)
    BY <1>1, <1>2, <1>3, IDomInLoop
<1>5. QED
    BY <1>1, <1>4 DEF Body, LoopSet

(* What the loop of lines 62-85 keeps when the latches come in the right   *)
(* order.                                                                  *)
Listed ==
    /\ dfs = NotBuilt => order = << >> /\ queue = << >>
    /\ dfs # NotBuilt /\ InnerLatchesFirst =>
           TurnsListed(graph, dom_tree, loop_tree, order, queue, black)

LEMMA TurnLists ==
    ASSUME Analysed, InnerLatchesFirst, Listed, Turn
    PROVE  TurnsListed(graph, dom_tree, loop_tree, order', queue', black')
<1>1. dfs # NotBuilt
    BY DEF Listed, Turn
<1>2. TurnsListed(graph, dom_tree, loop_tree, order, queue, black) /\ queue # << >>
    BY <1>1 DEF Listed, Turn
<1>3. PICK u : u = Head(queue)
    OBVIOUS
<1>4. u \in Reachable(graph)
    <2>1. PICK q \in Seq(Block) : q = queue
        BY <1>2 DEF TurnsListed
    <2>2. Head(q) \in Range(q)
        BY <1>2, <2>1, TailFacts
    <2>3. QED
        BY <1>2, <1>3, <2>1, <2>2 DEF TurnsListed
<1>5. PICK body : body = LoopBlocks(u)
    OBVIOUS
<1>6. PICK new : new = NewSuccessors(u)
    OBVIOUS
<1>7. /\ order' = Append(order, u)
      /\ queue' = body \o Tail(queue) \o new
      /\ black' = black \cup Range(body) \cup Range(new)
    BY <1>3, <1>5, <1>6 DEF Turn
<1>8. /\ body \in Seq(Block) /\ IsInjective(body)
      /\ Range(body) = IF u \in DOMAIN loop_tree THEN Body(loop_tree, u) ELSE {}
      /\ Range(body) \subseteq Reachable(graph)
    BY <1>1, <1>5, LoopBlocksAre
<1>9. /\ new \in Seq(Block) /\ IsInjective(new)
      /\ Range(new) = Children(graph, dom_tree, u) \ (black \cup Range(body))
    BY <1>1, <1>4, <1>5, <1>6, NewSuccessorsAre
<1>10. ASSUME NEW h \in DOMAIN loop_tree, u \in DOMAIN loop_tree, h # u
       PROVE  Body(loop_tree, h) \cap Body(loop_tree, u) = {}
    BY <1>1, <1>10, LoopsOfStateApart DEF Body, LoopSet
<1>11. ASSUME NEW h \in DOMAIN loop_tree, NEW v \in Body(loop_tree, h),
              v \in Reachable(graph) \ {Entry}
       PROVE  dom_tree.idom[v] \in Body(loop_tree, h) \cup {h}
    BY <1>1, <1>11, IDomsInLoops
<1>12. TurnsListed(graph, dom_tree, loop_tree, Append(order, Head(queue)), body \o Tail(queue) \o new,
             black \cup Range(body) \cup Range(new))
    BY <1>2, <1>3, <1>8, <1>9, <1>10, <1>11, TakenNext
<1>13. QED
    BY <1>3, <1>7, <1>12

LEMMA ListedHolds == Spec => []Listed
<1>1. Init => Listed
    BY DEF Init, InitOf, Listed
<1>2. ASSUME Analysed, Analysed', Listed, [Next]_vars PROVE Listed'
    <2>1. CASE Build
        <3>1. /\ dfs' = DFSOf(graph, Entry, {})
              /\ dom_tree' = DominatorTreeOf(graph, dfs')
              /\ loop_tree' = LoopTreeOf(graph, dfs', dom_tree')
              /\ black' = {Entry} /\ queue' = <<Entry>>
              /\ graph' = graph /\ order' = order /\ order = << >>
            BY <1>2, <2>1 DEF Build, Listed
        <3>2. FlowOf(graph)
            BY <1>2 DEF Analysed
        <3>3. AnalysedBy(graph, dfs', dom_tree')
            BY <3>1, <3>2, AnalysesOf
        <3>4. TurnsListed(graph, dom_tree', loop_tree', order', queue', black')
            BY <3>1, <3>2, <3>3, EntryListed
        <3>5. dfs' # NotBuilt
            BY <3>1, <3>2, SearchIsRecord DEF NotBuilt
        <3>6. QED
            BY <3>1, <3>4, <3>5 DEF Listed
    <2>2. CASE Turn
        <3>1. graph' = graph /\ dfs' = dfs /\ dom_tree' = dom_tree /\ loop_tree' = loop_tree
            BY <2>2 DEF Turn, analyses
        <3>2. InnerLatchesFirst' => InnerLatchesFirst
            BY <3>1 DEF InnerLatchesFirst, BackEdgeSet, NaturalLoop
        <3>3. dfs # NotBuilt
            BY <1>2, <2>2 DEF Listed, Turn
        <3>4. ASSUME InnerLatchesFirst PROVE TurnsListed(graph, dom_tree, loop_tree, order', queue', black')
            BY <1>2, <2>2, <3>4, TurnLists
        <3>5. QED
            BY <3>1, <3>2, <3>3, <3>4 DEF Listed
    <2>3. CASE UNCHANGED vars
        <3>1. /\ graph' = graph /\ dfs' = dfs /\ dom_tree' = dom_tree /\ loop_tree' = loop_tree
              /\ black' = black /\ queue' = queue /\ order' = order
            BY <2>3 DEF vars
        <3>2. InnerLatchesFirst' => InnerLatchesFirst
            BY <3>1 DEF InnerLatchesFirst, BackEdgeSet, NaturalLoop
        <3>3. QED
            BY <1>2, <3>1, <3>2 DEF Listed
    <2>4. QED
        BY <1>2, <2>1, <2>2, <2>3 DEF Next, Done
<1>3. QED
    BY <1>1, <1>2, AnalysedHolds, PTL DEF Spec

(* The order has every block of the function, and each once, when the      *)
(* latches come in the right order (linear_order.hpp, lines 62-85).        *)
THEOREM LinearOrderEveryBlockOnce == Spec => []EveryBlockOnce
<1>1. Analysed /\ Listed => EveryBlockOnce
    <2> SUFFICES ASSUME Analysed, Listed, Finished, InnerLatchesFirst
                 PROVE  IsInjective(order) /\ Range(order) = Reachable(graph)
        BY DEF EveryBlockOnce
    <2>1. dfs # NotBuilt /\ queue = << >>
        BY DEF Finished
    <2>2. TurnsListed(graph, dom_tree, loop_tree, order, queue, black)
        BY <2>1 DEF Listed
    <2>3. SearchTree(graph, dfs, Reachable(graph))
        BY <2>1, LoopsOfState DEF AnalysedBy
    <2>4. \A v \in Reachable(graph) \ {Entry} : IsIDom(graph, v, dom_tree.idom[v])
        BY <2>1, IDomsOfState
    <2>5. Range(order) = Reachable(graph)
        BY <2>1, <2>2, <2>3, <2>4, NoneMissed
    <2>6. QED
        BY <2>2, <2>5 DEF TurnsListed
<1>2. QED
    BY <1>1, AnalysedHolds, ListedHolds, PTL

LEMMA ApartFirst ==
    ASSUME LoopsApart PROVE InnerLatchesFirst
<1> SUFFICES ASSUME NEW e \in BackEdgeSet, NEW f \in BackEdgeSet, e # f,
                    f[2] \in NaturalLoop(e[1], e[2])
             PROVE  FALSE
    BY DEF InnerLatchesFirst
<1>1. NaturalLoop(e[1], e[2]) \cap NaturalLoop(f[1], f[2]) = {}
    BY DEF LoopsApart
<1>2. f[2] \in NaturalLoop(f[1], f[2])
    BY DEF NaturalLoop
<1>3. QED
    BY <1>1, <1>2

LEMMA ApartEdges ==
    ASSUME FlowOf(graph), LoopsApart PROVE EdgesApart(graph)
<1> SUFFICES ASSUME NEW e \in EdgeRecords(graph), NEW f \in EdgeRecords(graph), e # f
             PROVE  LoopOf(graph, e) \cap LoopOf(graph, f) = {}
    BY DEF EdgesApart
<1>1. PICK p : p = <<e.latch, e.header>>
    OBVIOUS
<1>2. PICK q : q = <<f.latch, f.header>>
    OBVIOUS
<1>3. p \in BackEdgeSet /\ q \in BackEdgeSet
    BY <1>1, <1>2, EdgesOfState
<1>4. p # q
    <2>1. e = [latch |-> e.latch, header |-> e.header] /\ f = [latch |-> f.latch, header |-> f.header]
        BY DEF EdgeRecords
    <2>2. QED
        BY <1>1, <1>2, <2>1
<1>5. NaturalLoop(p[1], p[2]) \cap NaturalLoop(q[1], q[2]) = {}
    BY <1>3, <1>4 DEF LoopsApart
<1>6. /\ LoopOf(graph, e) = NaturalLoop(e.latch, e.header)
      /\ LoopOf(graph, f) = NaturalLoop(f.latch, f.header)
    BY EdgesOfState
<1>7. QED
    BY <1>1, <1>2, <1>5, <1>6

LEMMA ReducibleForward ==
    ASSUME Reducible PROVE NoForwardCycle(graph)
<1>1. ForwardEdges = ForwardPairs(graph)
    BY DEF ForwardEdges, ForwardPairs, BackEdgeSet
<1>2. QED
    BY <1>1 DEF Reducible, NoForwardCycle, ForwardGraph

LEMMA LoopBlocksFollow ==
    ASSUME Analysed, dfs # NotBuilt, Reducible, LoopsApart, NEW u
    PROVE  Follows(dom_tree.idom, {u}, LoopBlocks(u))
<1>1. CASE u \in DOMAIN loop_tree
    <2>1. FlowOf(graph) /\ SearchTree(graph, dfs, Reachable(graph))
        BY LoopsOfState DEF AnalysedBy
    <2>2. PICK e \in EdgeRecords(graph) :
              e.header = u /\ Gathered(graph, LoopVertices(loop_tree, u), e.latch, u)
        BY <1>1, EdgeOfLoop
    <2>3. PICK body : body = LoopBody(graph, e.latch, e.header)
        OBVIOUS
    <2>4. EdgesApart(graph) /\ NoForwardCycle(graph)
        BY <2>1, ApartEdges, ReducibleForward
    <2>5. \A v \in Reachable(graph) \ {Entry} : IsIDom(graph, v, dom_tree.idom[v])
        BY IDomsOfState
    <2>6. Follows(dom_tree.idom, {e.header}, body)
        BY <2>1, <2>3, <2>4, <2>5, BodyFollows
    <2>7. e.latch \in Block /\ e.header \in Block
        BY <2>1, InsideIsLeast DEF SearchTree
    <2>8. body \in Seq(Block)
        BY <2>1, <2>3, <2>7, LoopBodyIs
    <2>9. LoopBlocks(u) = body
        <3>1. PICK c : c = LoopVertices(loop_tree, u)
            OBVIOUS
        <3>2. c = <<u>> \o body
            BY <2>2, <2>3, <3>1 DEF Gathered
        <3>3. Tail(c) = body
            BY <2>2, <2>7, <2>8, <3>2, TailOfConcat
        <3>4. QED
            BY <1>1, <3>1, <3>3 DEF LoopBlocks, is_header
    <2>10. QED
        BY <2>2, <2>6, <2>9
<1>2. CASE u \notin DOMAIN loop_tree
    <2>1. PICK none : none = LoopBlocks(u)
        OBVIOUS
    <2>2. DOMAIN none = {}
        BY <1>2, <2>1 DEF LoopBlocks, is_header
    <2>3. Follows(dom_tree.idom, {u}, none)
        BY <2>2 DEF Follows
    <2>4. QED
        BY <2>1, <2>3
<1>3. QED
    BY <1>1, <1>2

(* The outermost loops that v and its immediate dominator are both in the  *)
(* body of.                                                                *)
Enclosing(v) ==
    {h \in DOMAIN loop_tree : {v, dom_tree.idom[v]} \subseteq Body(loop_tree, h)}

(* the block that v is queued behind when inner latches come first         *)
Anchor ==
    [v \in Block |->
        IF Enclosing(v) = {} THEN dom_tree.idom[v] ELSE CHOOSE h \in Enclosing(v) : TRUE]

LEMMA LoopBlocksAnchored ==
    ASSUME Analysed, dfs # NotBuilt, InnerLatchesFirst, NEW u
    PROVE  Follows(Anchor, {u}, LoopBlocks(u))
<1>1. PICK body \in Seq(Block) : body = LoopBlocks(u)
    BY LoopBlocksAre
<1>2. SUFFICES ASSUME NEW j \in DOMAIN body, body[j] # Entry PROVE Anchor[body[j]] = u
    BY <1>1 DEF Follows
<1>3. PICK v \in Block : v = body[j]
    OBVIOUS
<1>4. v \in Range(body)
    BY <1>3 DEF Range
<1>5. /\ u \in DOMAIN loop_tree /\ v \in Body(loop_tree, u)
      /\ v \in Reachable(graph) \ {Entry}
    BY <1>1, <1>2, <1>3, <1>4, LoopBlocksAre
<1>6. dom_tree.idom[v] \in Body(loop_tree, u) \cup {u}
    BY <1>5, IDomsInLoops
<1>7. \A h \in Enclosing(v) : h = u
    BY <1>5, LoopsOfStateApart DEF Enclosing, Body, LoopSet
<1>8. Enclosing(v) = {} => dom_tree.idom[v] = u
    BY <1>5, <1>6 DEF Enclosing
<1>9. Anchor[v] = u
    BY <1>7, <1>8 DEF Anchor
<1>10. QED
    BY <1>3, <1>9

(* In functions whose loops are apart each block is taken, and queued,     *)
(* behind its immediate dominator; where they nest, behind its anchor.     *)
Ranked ==
    dfs # NotBuilt =>
        /\ Reducible /\ LoopsApart => KeepsOrder(dom_tree.idom, order, queue)
        /\ InnerLatchesFirst => KeepsOrder(Anchor, order, queue)

LEMMA HeadOfQueue ==
    ASSUME Analysed, Listed, Turn, InnerLatchesFirst, NEW u, u = Head(queue)
    PROVE  /\ dfs # NotBuilt /\ u \in Reachable(graph) /\ u \in black
           /\ order \in Seq(Block) /\ queue \in Seq(Block) /\ queue # << >>
           /\ \A h \in DOMAIN loop_tree : u \in Body(loop_tree, h) => h \in Range(order)
<1>1. dfs # NotBuilt /\ queue # << >>
    BY DEF Listed, Turn
<1>2. TurnsListed(graph, dom_tree, loop_tree, order, queue, black)
    BY <1>1 DEF Listed
<1>3. PICK q \in Seq(Block) : q = queue
    BY <1>2 DEF TurnsListed
<1>4. Head(q) \in Range(q)
    BY <1>1, <1>3, TailFacts
<1>5. QED
    BY <1>1, <1>2, <1>3, <1>4 DEF TurnsListed

LEMMA TurnKeepsOrder ==
    ASSUME Analysed, Listed, Turn, InnerLatchesFirst, NEW u, u = Head(queue),
           NEW idom, KeepsOrder(idom, order, queue), Follows(idom, {u}, LoopBlocks(u)),
           \A v \in Range(NewSuccessors(u)) : idom[v] \in Range(order) \cup {u}
    PROVE  KeepsOrder(idom, order', queue')
<1>1. dfs # NotBuilt /\ u \in Reachable(graph)
      /\ order \in Seq(Block) /\ queue \in Seq(Block) /\ queue # << >>
    BY HeadOfQueue
<1>2. PICK body : body = LoopBlocks(u)
    OBVIOUS
<1>3. PICK new : new = NewSuccessors(u)
    OBVIOUS
<1>4. body \in Seq(Block) /\ Follows(idom, {u}, body)
    BY <1>1, <1>2, LoopBlocksAre
<1>5. new \in Seq(Block) /\ \A v \in Range(new) : idom[v] \in Range(order) \cup {u}
    BY <1>1, <1>3, NewSuccessorsAre
<1>6. PICK next : next = Append(order, u)
    OBVIOUS
<1>7. PICK rest : rest = body \o Tail(queue) \o new
    OBVIOUS
<1>8. order' = next /\ queue' = rest
    BY <1>2, <1>3, <1>6, <1>7 DEF Turn
<1>9. KeepsOrder(idom, next, rest)
    BY <1>1, <1>4, <1>5, <1>6, <1>7, TakenFollows
<1>10. QED
    BY <1>8, <1>9

LEMMA TurnKeepsDominators ==
    ASSUME Analysed, Listed, Ranked, Turn, Reducible, LoopsApart
    PROVE  KeepsOrder(dom_tree.idom, order', queue')
<1>1. PICK u : u = Head(queue)
    OBVIOUS
<1>2. InnerLatchesFirst
    BY ApartFirst
<1>3. dfs # NotBuilt /\ u \in Reachable(graph)
    BY <1>1, <1>2, HeadOfQueue
<1>4. KeepsOrder(dom_tree.idom, order, queue)
    BY <1>3 DEF Ranked
<1>5. Follows(dom_tree.idom, {u}, LoopBlocks(u))
    BY <1>3, LoopBlocksFollow
<1>6. \A v \in Range(NewSuccessors(u)) : dom_tree.idom[v] = u
    BY <1>3, NewSuccessorsAre DEF Children
<1>7. QED
    BY <1>1, <1>2, <1>4, <1>5, <1>6, TurnKeepsOrder

LEMMA TurnKeepsAnchors ==
    ASSUME Analysed, Listed, Ranked, Turn, InnerLatchesFirst
    PROVE  KeepsOrder(Anchor, order', queue')
<1>1. PICK u : u = Head(queue)
    OBVIOUS
<1>2. /\ dfs # NotBuilt /\ u \in Reachable(graph)
      /\ \A h \in DOMAIN loop_tree : u \in Body(loop_tree, h) => h \in Range(order)
    BY <1>1, HeadOfQueue
<1>3. KeepsOrder(Anchor, order, queue)
    BY <1>2 DEF Ranked
<1>4. Follows(Anchor, {u}, LoopBlocks(u))
    BY <1>2, LoopBlocksAnchored
<1>5. ASSUME NEW v \in Range(NewSuccessors(u))
      PROVE  Anchor[v] \in Range(order) \cup {u}
    <2>1. PICK new \in Seq(Block) : new = NewSuccessors(u)
        BY <1>2, NewSuccessorsAre
    <2>2. v \in Block
        BY <2>1 DEF Range
    <2>3. dom_tree.idom[v] = u
        BY <1>2, NewSuccessorsAre DEF Children
    <2>4. \A h \in Enclosing(v) : h \in Range(order)
        BY <1>2, <2>3 DEF Enclosing
    <2>5. QED
        BY <2>2, <2>3, <2>4 DEF Anchor
<1>6. QED
    BY <1>1, <1>3, <1>4, <1>5, TurnKeepsOrder

LEMMA SameNotionsNext ==
    ASSUME UNCHANGED analyses
    PROVE  /\ Reducible' => Reducible
           /\ LoopsApart' => LoopsApart
           /\ InnerLatchesFirst' => InnerLatchesFirst
           /\ Anchor' = Anchor
<1>1. graph' = graph /\ dfs' = dfs /\ dom_tree' = dom_tree /\ loop_tree' = loop_tree
    BY DEF analyses
<1>2. BackEdgeSet' = BackEdgeSet
    BY <1>1 DEF BackEdgeSet
<1>3. ForwardEdges' = ForwardEdges
    BY <1>1, <1>2 DEF ForwardEdges
<1>4. Reducible' => Reducible
    BY <1>1, <1>3 DEF Reducible
<1>5. LoopsApart' => LoopsApart
    BY <1>1, <1>2 DEF LoopsApart, NaturalLoop
<1>6. InnerLatchesFirst' => InnerLatchesFirst
    BY <1>1, <1>2 DEF InnerLatchesFirst, NaturalLoop
<1>7. Anchor' = Anchor
    BY <1>1 DEF Anchor, Enclosing
<1>8. QED
    BY <1>4, <1>5, <1>6, <1>7

LEMMA RankedHolds == Spec => []Ranked
<1>1. Init => Ranked
    BY DEF Init, InitOf, Ranked
<1>2. ASSUME Analysed, Listed, Ranked, [Next]_vars PROVE Ranked'
    <2>1. CASE Build
        <3>1. order' = << >> /\ queue' = <<Entry>>
            BY <1>2, <2>1 DEF Build, Listed
        <3>2. \A idom : KeepsOrder(idom, order', queue')
            BY <3>1, EntryFollows
        <3>3. QED
            BY <3>2 DEF Ranked
    <2>2. CASE Turn
        <3>1. UNCHANGED analyses /\ dom_tree' = dom_tree /\ dfs' = dfs
            BY <2>2 DEF Turn, analyses
        <3>2. /\ (Reducible' => Reducible) /\ (LoopsApart' => LoopsApart)
              /\ (InnerLatchesFirst' => InnerLatchesFirst) /\ Anchor' = Anchor
            BY <3>1, SameNotionsNext
        <3>3. ASSUME Reducible, LoopsApart PROVE KeepsOrder(dom_tree.idom, order', queue')
            BY <1>2, <2>2, <3>3, TurnKeepsDominators
        <3>4. ASSUME InnerLatchesFirst PROVE KeepsOrder(Anchor, order', queue')
            BY <1>2, <2>2, <3>4, TurnKeepsAnchors
        <3>5. QED
            BY <3>1, <3>2, <3>3, <3>4 DEF Ranked
    <2>3. CASE UNCHANGED vars
        <3>1. UNCHANGED analyses /\ dom_tree' = dom_tree /\ dfs' = dfs
              /\ queue' = queue /\ order' = order
            BY <2>3 DEF vars, analyses
        <3>2. /\ (Reducible' => Reducible) /\ (LoopsApart' => LoopsApart)
              /\ (InnerLatchesFirst' => InnerLatchesFirst) /\ Anchor' = Anchor
            BY <3>1, SameNotionsNext
        <3>3. QED
            BY <1>2, <3>1, <3>2 DEF Ranked
    <2>4. QED
        BY <1>2, <2>1, <2>2, <2>3 DEF Next, Done
<1>3. QED
    BY <1>1, <1>2, AnalysedHolds, ListedHolds, PTL DEF Spec

LEMMA StandsBefore ==
    ASSUME Analysed, Listed, Finished, InnerLatchesFirst,
           NEW idom, KeepsOrder(idom, order, queue), NEW v \in Reachable(graph) \ {Entry}
    PROVE  Before(idom[v], v)
<1>1. dfs # NotBuilt /\ queue = << >>
    BY DEF Finished
<1>2. TurnsListed(graph, dom_tree, loop_tree, order, queue, black)
    BY <1>1 DEF Listed
<1>3. SearchTree(graph, dfs, Reachable(graph))
    BY <1>1, LoopsOfState DEF AnalysedBy
<1>4. \A x \in Reachable(graph) \ {Entry} : IsIDom(graph, x, dom_tree.idom[x])
    BY <1>1, IDomsOfState
<1>5. Range(order) = Reachable(graph)
    BY <1>1, <1>2, <1>3, <1>4, NoneMissed
<1>6. PICK j \in DOMAIN order : order[j] = v
    BY <1>5 DEF Range
<1>7. PICK i \in DOMAIN order : i < j /\ order[i] = idom[v]
    BY <1>6 DEF KeepsOrder, Follows
<1>8. \A x, k : k \in DOMAIN order /\ order[k] = x => Position(x) = k
    BY <1>2 DEF Position, IsInjective, TurnsListed
<1>9. Position(v) = j /\ Position(idom[v]) = i
    BY <1>6, <1>7, <1>8
<1>10. QED
    BY <1>7, <1>9 DEF Before

(* In functions whose loops are apart the order has each block behind its  *)
(* immediate dominator, so that LivenessAnalysis numbers an operand before *)
(* its users (linear_order.hpp, lines 62-85).  In functions whose inner    *)
(* latches come first, the two are out of order only in the body of one    *)
(* loop of the table.                                                      *)
THEOREM LinearOrderDominatorsFirst == Spec => []DominatorsFirst
<1>1. Analysed /\ Listed /\ Ranked => DominatorsFirst
    <2> SUFFICES ASSUME Analysed, Listed, Ranked, Finished, NEW v \in DOMAIN dom_tree.idom
                 PROVE  /\ Reducible /\ LoopsApart => Before(dom_tree.idom[v], v)
                        /\ InnerLatchesFirst =>
                               \/ Before(dom_tree.idom[v], v)
                               \/ \E h \in DOMAIN loop_tree :
                                      {v, dom_tree.idom[v]} \subseteq LoopSet(h) \ {h}
        BY DEF DominatorsFirst
    <2>1. dfs # NotBuilt
        BY DEF Finished
    <2>2. v \in Reachable(graph) \ {Entry}
        BY <2>1, IDomsOfState
    <2>3. v \in Block
        BY <2>1, <2>2, LoopsOfState DEF AnalysedBy, SearchTree
    <2>4. ASSUME Reducible, LoopsApart PROVE Before(dom_tree.idom[v], v)
        BY <2>1, <2>2, <2>4, ApartFirst, StandsBefore DEF Ranked
    <2>5. ASSUME InnerLatchesFirst, Enclosing(v) = {} PROVE Before(dom_tree.idom[v], v)
        <3>1. Before(Anchor[v], v)
            BY <2>1, <2>2, <2>5, StandsBefore DEF Ranked
        <3>2. Anchor[v] = dom_tree.idom[v]
            BY <2>3, <2>5 DEF Anchor
        <3>3. QED
            BY <3>1, <3>2
    <2>6. Enclosing(v) # {} =>
              \E h \in DOMAIN loop_tree : {v, dom_tree.idom[v]} \subseteq LoopSet(h) \ {h}
        BY DEF Enclosing, Body, LoopSet
    <2>7. QED
        BY <2>4, <2>5, <2>6
<1>2. QED
    BY <1>1, AnalysedHolds, ListedHolds, RankedHolds, PTL
===============================================================================
