------------------------------- MODULE FlowGraph -------------------------------
(***************************************************************************)
(* The control-flow graph of a function as the graph algorithms see it     *)
(* through FunctionGraphTraits and ReverseGraphTraits, and the textbook    *)
(* notions (reachability, dominance) that the algorithms are checked       *)
(* against.                                                                *)
(*                                                                         *)
(* A block is its id.  graph.succ[b] lists the paths of b's terminator:    *)
(* none, one, or two, which may be the same block.  graph.pred[b] lists    *)
(* the blocks that branch to b in the order of their ids, the order of     *)
(* the set BasicBlock::predecessors_.                                      *)
(***************************************************************************)
EXTENDS Integers, SequencesExt

CONSTANT NumBlocks

ASSUME FlowGraphAssumption == NumBlocks \in Nat \ {0}

Block == 1 .. NumBlocks

(* Traits::source, the front of the function *)
Entry == 1

Paths == UNION {[1 .. n -> Block] : n \in 0 .. 2}

Times(n) == [k \in 1 .. n |-> k]

(* the elements of list that are in set, in the order of list *)
Filtered(list, set) ==
    FoldLeft(LAMBDA kept, x : IF x \in set THEN Append(kept, x) ELSE kept, << >>, list)

Predecessors(succ, v) == {u \in Block : v \in Range(succ[u])}

GraphOf(succ) ==
    [succ |-> succ,
     pred |-> [v \in Block |-> Filtered(Times(NumBlocks), Predecessors(succ, v))]]

ReverseGraph(g) == [succ |-> g.pred, pred |-> g.succ]

-------------------------------------------------------------------------------
(* Reference notions: nothing of the code. *)

(* what paths from v reach that do not enter avoided *)
Reach(g, v, avoided) ==
    LET Grow(set, k) ==
            set \cup {w \in Block \ avoided : \E u \in set : w \in Range(g.succ[u])}
    IN  FoldLeft(Grow, {v} \ avoided, Times(NumBlocks))

Reachable(g) == Reach(g, Entry, {})

(* u is on every path from the entry to v *)
Dominates(g, u, v) == v \notin Reach(g, Entry, {u})

StrictDominators(g, v) == {u \in Reachable(g) \ {v} : Dominates(g, u, v)}

(* No block that the entry does not reach branches to one that it does:    *)
(* DominatorTree looks every predecessor up in the DFS (dfs.info(v), an    *)
(* unordered_map::at), which throws for a block that was not found.        *)
NoDeadPredecessor(g) ==
    \A v \in Reachable(g) : Range(g.pred[v]) \subseteq Reachable(g)
===============================================================================
