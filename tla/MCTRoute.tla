------------------------------ MODULE MCTRoute ------------------------------
(* Two interfaces on two networks, the smallest instance with a choice. *)
EXTENDS TRoute
=============================================================================
