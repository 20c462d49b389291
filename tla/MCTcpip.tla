------------------------------ MODULE MCTcpip ------------------------------
(* Three buffers, so that rx, task and its ACK can exhaust the pool with the *)
(* application waiting, and the SYNs of both connections leave a single one; *)
(* three messages and a queue of two, so that the queue has an order to keep *)
(* and the poster can find it full.                                          *)
EXTENDS Tcpip
CONSTANTS b1, b2, b3, m1, m2, m3
MCPbufs == {b1, b2, b3}
MCMsgs  == {m1, m2, m3}
=============================================================================
