---------------------------------- MODULE MCIR ----------------------------------
(* A few instructions in any order, in two blocks. *)
EXTENDS IR

IRSymmetry == Permutations(Instr) \cup Permutations(Block)
===============================================================================
