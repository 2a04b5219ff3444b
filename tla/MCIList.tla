-------------------------------- MODULE MCIList --------------------------------
(* Two lists and a few nodes, in every order of calls. *)
EXTENDS IList
===============================================================================
