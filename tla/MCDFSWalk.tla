------------------------------- MODULE MCDFSWalk -------------------------------
(* Depth-first search of every graph of a few blocks. *)
EXTENDS DFSWalk
===============================================================================
