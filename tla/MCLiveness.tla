------------------------------- MODULE MCLiveness -------------------------------
(***************************************************************************)
(* Small functions for LivenessAnalysis.  Every block computes one value   *)
(* and ends with a branch or a return; one value of the function is        *)
(* followed, with a choice of the instructions that use it.                *)
(***************************************************************************)
EXTENDS Liveness

(* the names of the PHI, the value and the terminator of a block *)
Phi(b) == <<b, 0>>
Value(b) == <<b, 1>>
Terminator(b) == <<b, 2>>

(* Blocks of joins have a PHI, which takes v from the predecessors in from *)
(* and their own values from the others.  Branches with two paths, and     *)
(* returns, read v or the value of their block.                            *)
FuncOf(g, v, users, joins, from) ==
    [phis      |-> [b \in Block |-> IF b \in joins THEN <<Phi(b)>> ELSE << >>],
     body      |-> [b \in Block |-> <<Value(b), Terminator(b)>>],
     void      |-> {Terminator(b) : b \in Block},
     phi_value |-> [i \in {Phi(b) : b \in joins} |->
                       [p \in Range(g.pred[i[1]]) |-> IF p \in from THEN v ELSE Value(p)]],
     inputs    |-> [i \in {Value(b) : b \in Block} \cup {Terminator(b) : b \in Block} |->
                       IF i \in users THEN {v}
                       ELSE IF i[2] = 2 /\ Len(g.succ[i[1]]) # 1 THEN {Value(i[1])}
                       ELSE {}]]

UpTo(n, set) == UNION {kSubset(k, set) : k \in 0 .. n}

(* dom[b]: the blocks that b dominates.  Instruction i may read v if it    *)
(* comes after it, and a PHI may take v from the blocks that v dominates.  *)
InstructionsOf(g, max_users, max_sources) ==
    LET blocks == Reachable(g)
        dom    == [b \in blocks |-> {c \in blocks : Dominates(g, b, c)}]
        joins  == {b \in blocks \ {Entry} : Len(g.pred[b]) >= 2}
        reads  == {Value(b) : b \in blocks}
                  \cup {Terminator(b) : b \in {c \in blocks : Len(g.succ[c]) # 1}}
        CanRead(v) == {i \in reads : i[1] \in dom[v[1]] /\ (i[1] = v[1] => v[2] < i[2])}
    IN  {FuncOf(g, choice[1], choice[2], joins, choice[3]) :
            choice \in UNION {{v} \X UpTo(max_users, CanRead(v)) \X UpTo(max_sources, dom[v[1]]) :
                              v \in {Value(b) : b \in blocks} \cup {Phi(b) : b \in joins}}}

(* Blocks are in pre-order, the paths of a branch lead to two blocks.      *)
FirstReached(n) ==
    {succ \in [Block -> {p \in Paths : IsInjective(p)}] :
        /\ DFSOf(GraphOf(succ), Entry, {}).pre_order = Times(n)
        /\ \A b \in Block \ (1 .. n) : succ[b] = << >>}

(* All blocks are reached, the entry only once, and the value is read in   *)
(* one place; or the last block is dead and there may be three readers.    *)
MCFunctions ==
    {succ \in FirstReached(NumBlocks) : \A b \in Block : Entry \notin Range(succ[b])}
    \cup FirstReached(NumBlocks - 1)

MCInstructions(g) ==
    IF NumBlocks \in Reachable(g)
    THEN InstructionsOf(g, 1, 0) \cup InstructionsOf(g, 0, 1)
    ELSE InstructionsOf(g, 2, 1)
===============================================================================
