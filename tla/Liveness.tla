-------------------------------- MODULE Liveness --------------------------------
(***************************************************************************)
(* bjac::LivenessAnalysis (lib/analysis/liveness.cpp).  The constructor    *)
(* takes the blocks' LinearOrder, numbers the instructions in it, and goes *)
(* through the blocks backwards, collecting the values that are live into  *)
(* each block and the Lifetime of every value.                             *)
(*                                                                         *)
(* func is what the analysis reads of a Function besides its graph: the    *)
(* names of each block's PHI instructions and of the others in order, the  *)
(* inputs() of an instruction, PHIInstruction::get_value, and which        *)
(* instructions are void.  Returns have a value here: the inputs() of a    *)
(* void return are one null pointer (ret_instruction.hpp, lines 44-45),    *)
(* which trips the assertion of line 85.                                   *)
(*                                                                         *)
(* The assertion of line 79 is a property: a Release build goes on with    *)
(* what it has.                                                            *)
(***************************************************************************)
EXTENDS LoopTree, LifetimeSegments

CONSTANTS Functions, Instructions(_)

VARIABLES
    func,
    graph, dfs, dom_tree, loop_tree, black, queue, order,   \* LinearOrder
    numbering,
    live_ins,       \* the values live into each block, so far
    lifetimes,      \* the map that LivenessAnalysis is
    todo,           \* the blocks not reached yet, in linear order
    bb,             \* the block at hand
    instrs          \* its instructions not reached yet, without PHIs

order_vars == <<graph, dfs, dom_tree, loop_tree, black, queue, order>>

vars == <<func, order_vars, numbering, live_ins, lifetimes, todo, bb, instrs>>

LO == INSTANCE LinearOrder

NotNumbered == << >>

-------------------------------------------------------------------------------

(* operator[] of the two maps *)
LiveIn(b) == IF b \in DOMAIN live_ins THEN live_ins[b] ELSE {}

LifetimeOf(map, i) == IF i \in DOMAIN map THEN map[i] ELSE {}

(* add(seg) on the lifetime of every value of a set *)
AddedTo(map, values, seg) ==
    [i \in DOMAIN map \cup values |->
        IF i \in values THEN Added(LifetimeOf(map, i), seg) ELSE map[i]]

FirstNumber(b) == numbering[Head(func.phis[b] \o func.body[b])]

LastNumber(b) == numbering[Last(func.body[b])]

(* Lines 30-42.  The PHIs of a block share a number.  emplace keeps the    *)
(* number of an instruction that has one.                                  *)
Numbering ==
    FoldLeft(LAMBDA acc, b :
                 LET first == acc.n + (IF func.phis[b] = << >> THEN 0 ELSE 1)
                 IN  [n   |-> first + Len(func.body[b]),
                      map |-> acc.map
                              @@ [i \in Range(func.phis[b]) |-> acc.n]
                              @@ [i \in Range(func.body[b]) |->
                                     first - 1 + SelectInSeq(func.body[b], LAMBDA j : j = i)]],
             [n |-> 0, map |-> << >>],
             order).map

Init ==
    /\ LO!Init
    /\ func \in Instructions(graph)
    /\ numbering = NotNumbered
    /\ live_ins = << >>
    /\ lifetimes = << >>
    /\ todo = << >>
    /\ bb = NoBlock
    /\ instrs = << >>

(* Lines 22-25 *)
Order ==
    /\ numbering = NotNumbered
    /\ LO!Build \/ LO!Turn
    /\ UNCHANGED <<func, numbering, live_ins, lifetimes, todo, bb, instrs>>

Number ==
    /\ numbering = NotNumbered
    /\ LO!Finished
    /\ numbering' = Numbering
    /\ todo' = order
    /\ UNCHANGED <<func, order_vars, live_ins, lifetimes, bb, instrs>>

(* Mutant: what PHIs of the successors take from b is forgotten *)
LiveOutNoPhis(b) == UNION {LiveIn(s) : s \in Range(graph.succ[b])}

(* Lines 47-56 *)
LiveOut(b) ==
    UNION {LiveIn(s) \cup {func.phi_value[phi][b] : phi \in Range(func.phis[s])} :
           s \in Range(graph.succ[b])}

(* Mutant: what is live out of the block gets no lifetime in it *)
BeginBlockUnseen ==
    /\ bb = NoBlock
    /\ todo # << >>
    /\ bb' = Last(todo)
    /\ todo' = Front(todo)
    /\ instrs' = func.body[bb']
    /\ live_ins' = Stored(live_ins, bb', LiveIn(bb') \cup LiveOut(bb'))
    /\ UNCHANGED <<func, order_vars, numbering, lifetimes>>

(* Lines 44-64 *)
BeginBlock ==
    /\ bb = NoBlock
    /\ todo # << >>
    /\ bb' = Last(todo)
    /\ todo' = Front(todo)
    /\ instrs' = func.body[bb']
    /\ live_ins' = Stored(live_ins, bb', LiveIn(bb') \cup LiveOut(bb'))
    /\ lifetimes' = AddedTo(lifetimes, live_ins'[bb'],
                            [start |-> FirstNumber(bb'), end |-> LastNumber(bb')])
    /\ UNCHANGED <<func, order_vars, numbering>>

(* std::set::find: of several segments equivalent to seg, the first *)
Found(set, seg) ==
    CHOOSE s \in EqualRange(set, seg) : \A t \in EqualRange(set, seg) : s.start <= t.start

(* Mutant: the part of the lifetime before the definition is kept *)
CutAtUncut(set, n, last) == Added(set, [start |-> n, end |-> last])

(* Lines 71-80: a value lives from its definition n on *)
CutAt(set, n, last) ==
    LET seg == [start |-> n, end |-> last]
        it  == Found(set, seg)
    IN  IF EqualRange(set, seg) = {}
        THEN Added(set, seg)
        ELSE IF it.start < n
             THEN Added(set \ {it}, [start |-> n, end |-> it.end])
             ELSE set

(* Line 76: the segment found may end before the definition.  Segment's    *)
(* constructor then throws, and nothing catches that.                      *)
CutThrows ==
    LET i   == Last(instrs)
        set == LifetimeOf(lifetimes, i)
        seg == [start |-> numbering[i], end |-> LastNumber(bb)]
    IN  /\ instrs # << >>
        /\ i \notin func.void
        /\ EqualRange(set, seg) # {}
        /\ Found(set, seg).end < numbering[i]

(* Lines 66-90 *)
Instruction ==
    LET i      == Last(instrs)
        n      == numbering[i]
        at_def == IF i \in func.void
                  THEN [live |-> LiveIn(bb), map |-> lifetimes]
                  ELSE [live |-> LiveIn(bb) \ {i},
                        map  |-> Stored(lifetimes, i,
                                        CutAt(LifetimeOf(lifetimes, i), n, LastNumber(bb)))]
    IN  /\ instrs # << >>
        /\ ~CutThrows
        /\ instrs' = Front(instrs)
        /\ live_ins' = [live_ins EXCEPT ![bb] = at_def.live \cup func.inputs[i]]
        /\ lifetimes' = AddedTo(at_def.map, func.inputs[i],
                                [start |-> FirstNumber(bb), end |-> n])
        /\ UNCHANGED <<func, order_vars, numbering, todo, bb>>

LoopEnd == LastNumber(Last(LoopVertices(loop_tree, bb)))

(* Mutant: live ranges are not stretched over loops *)
AroundLoopNone(live) == lifetimes

(* Lines 96-103: what is live into a loop is live to the loop's end *)
AroundLoop(live) ==
    IF is_header(loop_tree, bb)
    THEN AddedTo(lifetimes, live, [start |-> FirstNumber(bb), end |-> LoopEnd])
    ELSE lifetimes

LiveBeforePhis == LiveIn(bb) \ Range(func.phis[bb])

(* Line 101: the loop's last block may have smaller numbers than its header *)
StretchThrows ==
    /\ bb # NoBlock
    /\ instrs = << >>
    /\ is_header(loop_tree, bb)
    /\ LiveBeforePhis # {}
    /\ LoopEnd < FirstNumber(bb)

(* Lines 92-103 *)
EndBlock ==
    LET live == LiveBeforePhis
    IN  /\ bb # NoBlock
        /\ instrs = << >>
        /\ ~StretchThrows
        /\ live_ins' = [live_ins EXCEPT ![bb] = live]
        /\ lifetimes' = AroundLoop(live)
        /\ bb' = NoBlock
        /\ UNCHANGED <<func, order_vars, numbering, todo, instrs>>

Finished == numbering # NotNumbered /\ todo = << >> /\ bb = NoBlock

Done == (Finished \/ CutThrows \/ StretchThrows) /\ UNCHANGED vars

Next == Order \/ Number \/ BeginBlock \/ Instruction \/ EndBlock \/ Done

Spec == Init /\ [][Next]_vars

-------------------------------------------------------------------------------

(* Reference: where a value is live, from the function's paths alone. *)

Reached == Reachable(graph)

Phis(b) == Range(func.phis[b])

Instrs(b) == Phis(b) \cup Range(func.body[b])

DefBlock(v) == CHOOSE b \in Block : v \in Instrs(b)

(* the blocks of which a PHI takes v at the end *)
PhiEnds(v) ==
    {b \in Reached : \E s \in Range(graph.succ[b]) :
                         \E phi \in Phis(s) : func.phi_value[phi][b] = v}

Uses(v, b) == {i \in Range(func.body[b]) : v \in func.inputs[i]}

(* the blocks v is live into if control flows along the reversed edges of  *)
(* back: a path leads to a use and meets no definition                     *)
LiveIntoAlong(back, v) ==
    UNION {Reach(back, b, {DefBlock(v)}) :
           b \in {c \in Reached : Uses(v, c) # {}} \cup PhiEnds(v)}

TrulyLiveInto(v) == LiveIntoAlong(ReverseGraph(graph), v)

(* the edges that go forward in the linear order, reversed *)
OrderedEdges ==
    [succ |-> [b \in Block |->
                  Filtered(graph.pred[b], {p \in Range(order) : LO!Before(p, b)})]]

TrulyLiveOutOf(v) ==
    PhiEnds(v)
    \cup {b \in Reached : Range(graph.succ[b]) \cap TrulyLiveInto(v) # {}}

(* the numbers of the instructions in block b at which v is needed *)
TrulyLiveIn(v, b) ==
    LET from == IF b = DefBlock(v) THEN numbering[v] ELSE FirstNumber(b)
        uses == {numbering[i] : i \in Uses(v, b)}
    IN  IF b \notin {DefBlock(v)} \cup TrulyLiveInto(v) THEN {}
        ELSE from .. (IF b \in TrulyLiveOutOf(v) THEN LastNumber(b)
                      ELSE Max(uses \cup {from}))

TrulyLive(v) == UNION {TrulyLiveIn(v, b) : b \in Reached}

Values ==
    {v \in UNION {Instrs(b) : b \in Reached} : v \notin func.void}

IsUsed(v) == PhiEnds(v) \cup {b \in Reached : Uses(v, b) # {}} # {}

(* What the one backward pass relies on: an edge goes forward in the order *)
(* or back to a loop's header, and no two loops share a block.             *)
WellOrdered ==
    /\ LO!LoopsApart
    /\ \A e \in LO!ForwardEdges : LO!Before(e[1], e[2])

(* Lines 44-104: a lifetime has every point at which the value is needed.  *)
(* RegAlloc gives the value's register away outside of it.                 *)
LifetimesCover ==
    Finished /\ WellOrdered =>
        \A v \in Values : IsUsed(v) => TrulyLive(v) \subseteq Points(LifetimeOf(lifetimes, v))

(* ... and no other point: the holes of a lifetime are all there. *)
LifetimesTight ==
    Finished /\ WellOrdered =>
        \A v \in Values : IsUsed(v) => Points(LifetimeOf(lifetimes, v)) \subseteq TrulyLive(v)

(* Lines 44-105: one pass from the last block to the first solves the      *)
(* data-flow equations along the edges that go forward in the order, in    *)
(* whatever order each block is listed once; what is live across an edge   *)
(* against the order is missed.  When only back edges are, as WellOrdered  *)
(* says, headers and blocks outside of loops have all that is live, from   *)
(* which AroundLoop makes up for the rest of the loop.                     *)
LiveIntoHeaders ==
    Finished /\ IsInjective(order) =>
        LET back   == OrderedEdges
            found  == [v \in Values |-> LiveIntoAlong(back, v)]
            inside == UNION {LO!LoopSet(h) : h \in LO!Headers} \ LO!Headers
        IN  /\ \A b \in Reached : live_ins[b] = {v \in DOMAIN found : b \in found[v]}
            /\ WellOrdered => \A v \in DOMAIN found : TrulyLiveInto(v) \ found[v] \subseteq inside

(* Lines 71-80, assert(it->start() == instr_n): a segment found for the    *)
(* value that an instruction defines begins at the instruction or before   *)
(* it, and does not end before it.                                         *)
SegmentFoundStartsHere ==
    instrs # << >> =>
        LET i   == Last(instrs)
            n   == numbering[i]
            seg == [start |-> n, end |-> LastNumber(bb)]
            set == LifetimeOf(lifetimes, i)
        IN  \/ i \in func.void
            \/ EqualRange(set, seg) = {}
            \/ n \in Found(set, seg).start .. Found(set, seg).end
            \/ ~WellOrdered
===============================================================================
