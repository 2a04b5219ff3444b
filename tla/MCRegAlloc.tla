------------------------------ MODULE MCRegAlloc ------------------------------
(* Linear scan over every assignment of short lifetimes to a few values. *)
EXTENDS RegAlloc

(* What LivenessAnalysis yields for the values of a block without phis:    *)
(* each has an instruction number of its own and is used later.            *)
OneBlockInit ==
    /\ Init
    /\ \A i \in Instr : lifetime[i].start < lifetime[i].end
    /\ \A i, j \in Instr : lifetime[i].start = lifetime[j].start => i = j

OneBlockSpec == OneBlockInit /\ [][Next]_vars
===============================================================================
