----------------------------- MODULE MCLinearOrder -----------------------------
(* The block orders of all functions of a few blocks. *)
EXTENDS LinearOrder

(* Every block is reached, the paths of a branch lead to two blocks, and   *)
(* the ids, which only decide the order of predecessors, increase in       *)
(* pre-order.                                                              *)
OrderedFunctions ==
    {succ \in [Block -> {p \in Paths : IsInjective(p)}] :
         DFSOf(GraphOf(succ), Entry, {}).pre_order = Times(NumBlocks)}

(* The last block is dead; the others branch to each other in any way.     *)
LastBlockDead ==
    {succ \in [Block -> Paths] :
         /\ succ[NumBlocks] = << >>
         /\ \A b \in Block : NumBlocks \notin Range(succ[b])}

MCFunctions == OrderedFunctions \cup LastBlockDead
===============================================================================
