------------------------------- MODULE MCTTcp -------------------------------
(* Seven bytes of send buffer (five in the runs that look for one exception) *)
(* in segments of two: a write makes up to four, and two writes may merge.   *)
(* Sequence numbers wrap at ISS, as the SYN's is ISS - 1, and the peer's     *)
(* wrap at rcv_nxt.                                                          *)
EXTENDS TTcp
MCSeqSpace == 32
MCPeerISS  == 31
=============================================================================
