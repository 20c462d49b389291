------------------------------- MODULE MCTUdp -------------------------------
(* Three pcbs: one removed, one behind it on the list, one bound in front of *)
(* both.  Ports for port 0 are 3 and, wrapped around, 0.  Addresses are that *)
(* of the interface and 0.0.0.0.                                             *)
EXTENDS TUdp, TLC
CONSTANTS p1, p2, p3, any, ours
MCAddrs == {any, ours}
MCPcbs == {p1, p2, p3}
Symmetry == Permutations(MCPcbs)
=============================================================================
