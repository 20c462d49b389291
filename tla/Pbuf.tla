-------------------------------- MODULE Pbuf --------------------------------
(***************************************************************************)
(* One packet buffer (core/t_pbuf.c), as the layers see it: where payload  *)
(* points, counted from the first byte behind the struct, and how many     *)
(* bytes are said to follow.  len and tot_len are u16 and always set       *)
(* together, as buffers are never chained; both are kept, because one      *)
(* layer reads this one and another that.  Which buffers are free is the   *)
(* subject of Tcpip and TTcp.                                              *)
(***************************************************************************)
EXTENDS Integers

CONSTANTS BUFSIZE,  \* T_PBUF_BUFSIZE
          STRUCT    \* sizeof(struct t_pbuf)

U16 == 65536

ASSUME SizeAssumption ==
  /\ BUFSIZE \in Nat \ {0} /\ BUFSIZE < U16
  /\ STRUCT \in Nat /\ STRUCT + 1 < BUFSIZE

\* The check of t_pbuf_alloc(offset, length), and the buffer it then returns.
Fits(offset, length) == (offset + length) % U16 <= BUFSIZE
t_pbuf_alloc(offset, length) == [off |-> offset, len |-> length, tot_len |-> length]

\* Where t_pbuf_header lets payload point: not before the data area, and (the
\* limit is counted from the struct) not quite to its end.
InWindow(off) == off >= 0 /\ off + STRUCT < BUFSIZE - 1

Moved(p, increment) ==
  [off     |-> p.off + increment,
   len     |-> (p.len - increment) % U16,
   tot_len |-> (p.tot_len - increment) % U16]

\* t_pbuf_header.  When it refuses it leaves the buffer as it is.
t_pbuf_header(p, increment) ==
  IF InWindow(p.off + increment) THEN Moved(p, increment) ELSE p

\* t_pbuf_cat copies n bytes behind those p has.
t_pbuf_cat(p, n) ==
  [off |-> p.off, len |-> (p.len + n) % U16, tot_len |-> (p.tot_len + n) % U16]
=============================================================================
