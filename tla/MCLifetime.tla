------------------------------ MODULE MCLifetime ------------------------------
(* Lifetime over a narrow std::size_t. *)
EXTENDS Lifetime
===============================================================================
