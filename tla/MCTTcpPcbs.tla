---------------------------- MODULE MCTTcpPcbs ----------------------------
(* Four pcbs: two to move past each other, one being connected meanwhile,    *)
(* and one after that.  The build has two.                                   *)
EXTENDS TTcpPcbs
CONSTANTS p1, p2, p3, p4
MCPcbs == {p1, p2, p3, p4}
=============================================================================
