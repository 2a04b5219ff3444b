-------------------------- MODULE MCCheckElimination --------------------------
(* All functions of four blocks that are reached, whose branches lead to   *)
(* two blocks, and the entry only once; ids increase in pre-order.  One of  *)
(* them may have three checks, the others have none or one.                *)
EXTENDS CheckElimination

MCFunctions ==
    {succ \in [Block -> {p \in Paths : IsInjective(p) /\ Entry \notin Range(p)}] :
         DFSOf(GraphOf(succ), Entry, {}).pre_order = Times(NumBlocks)}

MCChecks(succ) ==
    {[b \in Block |-> [k \in DOMAIN inputs[b] |-> <<inputs[b][k], b, k>>]] :
        inputs \in UNION {[Block -> {<< >>, <<"pointer">>}],
                          {[short EXCEPT ![b] = <<"pointer", "array", "pointer">>] :
                              b \in Block, short \in [Block -> {<< >>, <<"pointer">>}]}}}
===============================================================================
