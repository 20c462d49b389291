--------------------------- MODULE MCTTcpThreads ---------------------------
(* Three pbufs: the SYN (or a keepalive), the frame and a bare ACK exhaust   *)
(* the pool, with and without the rest of the program taking some.           *)
EXTENDS TTcpThreads
=============================================================================
