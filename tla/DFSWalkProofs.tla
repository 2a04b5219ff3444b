----------------------------- MODULE DFSWalkProofs -----------------------------
(***************************************************************************)
(* Proofs about module DFSWalk, for every number of blocks, every graph,   *)
(* source and set of visited vertices: its steps are the calls and the     *)
(* returns that module GraphProofs speaks of.                                *)
(***************************************************************************)
EXTENDS DFSWalk, GraphProofs

(* The inductive invariant, and what follows from it by a second one.      *)
IInv == Consistent(graph, visited, dfs)

Explored == Recorded(graph, visited, dfs)

LEMMA SameNotions ==
    /\ Found = FoundBy(visited, dfs)
    /\ source_ = Root(dfs)
    /\ \A v : Discovered(v) = Begin(dfs, v) /\ Finished(v) = End(dfs, v) /\ Open(v) = Running(dfs, v)
BY DEF Found, FoundBy, source_, Root, Discovered, Begin, Finished, End, Open, Running

LEMMA InvariantStates ==
    IInv => TypeOK /\ CallsNest /\ PostOrderForward
<1> SUFFICES ASSUME IInv PROVE TypeOK /\ CallsNest /\ PostOrderForward
    OBVIOUS
<1>1. WellFormed(graph, visited, dfs) /\ Nested(visited, dfs) /\ Forward(graph, visited, dfs)
    BY DEF IInv, Consistent
<1>2. TypeOK
    BY <1>1 DEF WellFormed, TypeOK, Nodes, Node, Found, FoundBy
<1>3. CallsNest
    BY <1>1, SameNotions DEF Nested, CallsNest
<1>4. PostOrderForward
    BY <1>1, SameNotions DEF Forward, PostOrderForward
<1>5. QED
    BY <1>2, <1>3, <1>4

LEMMA InitStarts == Init => Starts(graph, visited, dfs)
<1> SUFFICES ASSUME Init PROVE Starts(graph, visited, dfs)
    OBVIOUS
<1>1. PICK succ \in [Block -> Paths] : graph = GraphOf(succ)
    BY DEF Init
<1>2. graph.succ \in [Block -> Seq(Block)]
    BY <1>1, PathsAreSequences DEF GraphOf
<1>3. QED
    BY <1>2 DEF Init, Starts

LEMMA StepIsOfTheSearch ==
    [Next]_vars =>
        /\ UNCHANGED <<graph, visited>>
        /\ Calls(graph, dfs, dfs') \/ Returns(graph, dfs, dfs') \/ UNCHANGED dfs
BY DEF Next, Call, Return, Done, vars, Calls, Returns

LEMMA Invariant == Spec => [](IInv /\ Explored)
<1>1. Init => IInv /\ Explored
    BY InitStarts, StartConsistent, StartRecorded DEF IInv, Explored
<1>2. IInv /\ Explored /\ [Next]_vars => (IInv /\ Explored)'
    <2> SUFFICES ASSUME IInv, Explored, [Next]_vars PROVE (IInv /\ Explored)'
        OBVIOUS
    <2>1. graph' = graph /\ visited' = visited
        BY StepIsOfTheSearch
    <2>2. CASE Calls(graph, dfs, dfs')
        BY <2>1, <2>2, CallConsistent, CallRecorded DEF IInv, Explored
    <2>3. CASE Returns(graph, dfs, dfs')
        BY <2>1, <2>3, ReturnConsistent, ReturnRecorded DEF IInv, Explored
    <2>4. CASE dfs' = dfs
        BY <2>1, <2>4 DEF IInv, Explored
    <2>5. QED
        BY <2>2, <2>3, <2>4, StepIsOfTheSearch
<1>3. QED
    BY <1>1, <1>2, PTL DEF Spec

-------------------------------------------------------------------------------

(* The state of a depth-first search is always well formed.                *)
THEOREM DFSTypeOK == Spec => []TypeOK
BY Invariant, InvariantStates, PTL

(* Lines 141-158 of dfs.hpp: whatever the graph, the source and the        *)
(* vertices taken as visited, the calls nest, which is what comparing      *)
(* times in is_ancestor_of relies on.                                      *)
THEOREM DFSCallsNest == Spec => []CallsNest
BY Invariant, InvariantStates, PTL

(* Line 155: post_order lists a vertex after all the vertices its edges    *)
(* lead to, the ends of back edges excepted.                               *)
THEOREM DFSPostOrderForward == Spec => []PostOrderForward
BY Invariant, InvariantStates, PTL

(* Lines 141-158: when the constructor returns, exactly the vertices that  *)
(* a path from the source around the visited ones leads to are known, and  *)
(* both orders list each of them once, in the order of its times.          *)
THEOREM DFSFindsReachable == Spec => []FindsReachable
<1>1. IInv /\ Explored => FindsReachable
    <2> SUFFICES ASSUME IInv, Explored, dfs.current = NoBlock PROVE FindsReachable
        BY DEF FindsReachable
    <2>1. /\ FoundBy(visited, dfs) = Reach(graph, Root(dfs), visited)
          /\ Range(dfs.post_order) = FoundBy(visited, dfs)
        BY AllFound DEF IInv, Explored
    <2>2. Ordered(visited, dfs)
        BY DEF Explored, Recorded
    <2>3. QED
        BY <2>1, <2>2, SameNotions DEF FindsReachable, Ordered
<1>2. QED
    BY <1>1, Invariant, PTL

(* Lines 128-134: when the constructor has returned, is_ancestor_of, which *)
(* compares times, holds of exactly the vertices that the links lead to,   *)
(* the ones an st_iterator visits.                                         *)
THEOREM DFSAncestorsByTime == Spec => []AncestorsByTime
<1>1. IInv /\ Explored => AncestorsByTime
    BY TimesTellAncestors, SameNotions DEF IInv, Explored, AncestorsByTime
<1>2. QED
    BY <1>1, Invariant, PTL
===============================================================================
