-------------------------------- MODULE TTcp --------------------------------
(***************************************************************************)
(* One TCP client connection: t_tcp_connect (core/t_tcp.c), t_tcp_write,   *)
(* t_tcp_enqueue and t_tcp_output (core/t_tcp_out.c), t_tcp_input and      *)
(* t_tcp_process (core/t_tcp_in.c).  Each call is one action, as if the    *)
(* application ran in the tcpip thread; module TTcpThreads takes t_tcp_    *)
(* connect and t_tcp_input apart.                                          *)
(*                                                                         *)
(* Kept of the pcb: what decides the control flow.  Left out: fields that  *)
(* are written and never read (snd_max, snd_wl1, rtime, rttest, ...),      *)
(* ports, addresses, checksums and the bytes themselves; of local_ip only  *)
(* whether it is set, as the first transmission does.  A segment is its    *)
(* sequence number, its length and whether it is the SYN.                  *)
(*                                                                         *)
(* Where a definition follows one like it under a name that says what is   *)
(* wrong (NoSizeCheck before MayEnqueue), the first is a fault the         *)
(* properties are known to find; nothing uses it.                          *)
(*                                                                         *)
(* The network and the peer are external: any segment the peer could send, *)
(* given what is on the wire, may arrive at any time, any number of times, *)
(* in any order, or never.                                                 *)
(***************************************************************************)
EXTENDS Integers, FiniteSets, SequencesExt

CONSTANTS MSS,        \* T_TCP_MSS
          SND_BUF,    \* T_TCP_SND_BUF
          WND,        \* T_TCP_WND, our receive and first send window
          QUEUELEN,   \* T_TCP_SND_QUEUELEN
          POOL,       \* T_PBUF_POOL_SIZE
          SEGS,       \* T_MEMP_NUM_TCP_SEG
          SeqSpace,   \* sequence numbers are taken modulo SeqSpace (2^32)
          ISS,        \* t_tcp_next_iss: always the same, tcp_ticks never moves
          PeerISS, PeerWnds, PeerMss,   \* what the peer may offer
          Copies      \* values of the copy argument the application uses

NoMss == MSS  \* a SYN|ACK without the option leaves pcb->mss as it is

ASSUME SizeAssumption ==
  /\ {MSS, SND_BUF, WND, QUEUELEN, POOL, SEGS, SeqSpace} \subseteq Nat \ {0}
  /\ 2 * (SND_BUF + MSS + 2) < SeqSpace
  /\ ISS \in 0..SeqSpace - 1 /\ PeerISS \in 0..SeqSpace - 1
  /\ PeerWnds \subseteq Nat /\ PeerMss \subseteq Nat
  /\ Copies \subseteq BOOLEAN

VARIABLES pcb,
          pool,   \* [buf |-> free pbufs, seg |-> free tcp_segs]
          lent,   \* pbufs in use elsewhere in the program
          wire,   \* the segments transmitted so far
          opened, \* t_tcp_connect has returned ERR_OK
          acked,  \* history: bytes acknowledged by the peer, the SYN's included
          lost,   \* history: pbufs t_pbuf_cat's callers have forgotten
          up      \* FALSE once the process is gone

vars == <<pcb, pool, lent, wire, opened, acked, lost, up>>

Plus(a, b)  == (a + b) % SeqSpace
Minus(a, b) == (a - b) % SeqSpace
SEQ_LT(a, b) == Minus(a, b) > SeqSpace \div 2   \* (s32_t)(a - b) < 0
Least(a, b) == IF a > b THEN b ELSE a         \* the MIN macro
Highest(a, b) == IF a > b THEN a ELSE b
TCPLEN(s) == s.len + (IF s.syn THEN 1 ELSE 0)

-----------------------------------------------------------------------------
(* t_tcp_enqueue(len, syn, copy) on pcb c with pools p.                     *)

NoSizeCheck(c, len) == c.snd_queuelen < QUEUELEN

\* The early returns.
MayEnqueue(c, len) == len <= c.snd_buf /\ c.snd_queuelen < QUEUELEN

\* How many segments len bytes make.  The loop runs once for an empty SYN, and
\* with mss 0 until it runs out of something.
Count(c, len) == CASE len = 0  -> 1
                   [] c.mss = 0 -> QUEUELEN + 1
                   [] OTHER     -> (len + c.mss - 1) \div c.mss

\* pbufs per segment: zero-copy takes one for the data and one for the header.
Cost(syn, copy) == IF syn \/ copy THEN 1 ELSE 2

\* Every allocation of the loop succeeds, and no queue-too-long.
Room(c, p, n, cost) == /\ n <= p.seg
                       /\ n * cost <= p.buf
                       /\ c.snd_queuelen + n * cost <= QUEUELEN

\* The bodies of the loop that run to their end before the one that fails ...
Whole(c, p, cost) ==
  Least(p.seg, Least(p.buf \div cost, (QUEUELEN - c.snd_queuelen) \div cost))

\* ... and what that one has by then: its tcp_seg, and as many of its pbufs as
\* there are.
Half(c, p, cost) ==
  LET w == Whole(c, p, cost)
      s == IF w < p.seg THEN 1 ELSE 0
  IN [seg |-> s, buf |-> s * Least(cost, p.buf - w * cost)]

FailedFreesFirst(c, p, cost) ==
  LET w == Whole(c, p, cost)
      h == Half(c, p, cost)
  IN [seg |-> p.seg - (w + h.seg) + Least(1, w + h.seg),
      buf |-> p.buf - (w * cost + h.buf) + Least(1, w + h.buf)]

FailedKeepsData(c, p, cost) ==
  LET w == Whole(c, p, cost)
      h == Half(c, p, cost)
  IN [seg |-> p.seg - (w + h.seg) + (w + h.seg),
      buf |-> p.buf - (w * cost + h.buf) + (w + (IF h.buf = cost THEN 1 ELSE 0))]

\* memerr: t_tcp_segs_free returns every tcp_seg and the pbuf in its p; a data
\* pbuf for which no header could be had is returned before.
Failed(c, p, cost) ==
  LET w == Whole(c, p, cost)
      h == Half(c, p, cost)
  IN [seg |-> p.seg - (w + h.seg) + (w + h.seg),
      buf |-> p.buf - (w * cost + h.buf) + (w + Least(1, h.buf))]

\* t_pbuf_cat copies its second buffer, and its callers forget it.  The loop
\* calls it for each zero-copy segment whose two pbufs it has.
CatsOfFailed(c, p, cost) ==
  IF cost = 1 THEN 0
  ELSE Whole(c, p, cost) + (IF Half(c, p, cost).buf = 2 THEN 1 ELSE 0)

SameSeqno(c, len, syn, n) ==
  [i \in 1..n |-> [seq |-> c.snd_lbb,
                   len |-> Least(c.mss, len - (i - 1) * c.mss), syn |-> syn]]

\* The loop's segments.
Cut(c, len, syn, n) ==
  [i \in 1..n |-> [seq |-> Plus(c.snd_lbb, (i - 1) * c.mss),
                   len |-> Least(c.mss, len - (i - 1) * c.mss), syn |-> syn]]

\* The first new segment is copied into the last unsent one if both fit.
Merges(c, q) ==
  /\ c.unsent # <<>>
  /\ TCPLEN(Last(c.unsent)) # 0
  /\ ~Last(c.unsent).syn /\ ~q[1].syn
  /\ Last(c.unsent).len + q[1].len <= c.mss

Queued(c, q) ==
  IF Merges(c, q)
  THEN Front(c.unsent) \o <<[Last(c.unsent) EXCEPT !.len = @ + q[1].len]>> \o Tail(q)
  ELSE c.unsent \o q

\* A merged segment gives its tcp_seg back, not its pbuf.
PoolAfter(c, p, q, n, cost) ==
  [buf |-> p.buf - n * cost, seg |-> p.seg - n + (IF Merges(c, q) THEN 1 ELSE 0)]

\* A merge calls t_pbuf_cat too.
Cats(c, q, n, cost) == n * (cost - 1) + (IF Merges(c, q) THEN 1 ELSE 0)

t_tcp_enqueue(c, p, len, syn, copy) ==
  LET n    == Count(c, len)
      cost == Cost(syn, copy)
      q    == Cut(c, len, syn, n)
      used == len + (IF syn THEN 1 ELSE 0)
  IN CASE ~MayEnqueue(c, len)   -> [ok |-> FALSE, pcb |-> c, pool |-> p, cats |-> 0]
       [] MayEnqueue(c, len) /\ ~Room(c, p, n, cost) ->
            [ok |-> FALSE, pcb |-> c, pool |-> Failed(c, p, cost),
             cats |-> CatsOfFailed(c, p, cost)]
       [] MayEnqueue(c, len) /\ Room(c, p, n, cost) ->
            [ok   |-> TRUE,
             pcb  |-> [c EXCEPT !.unsent = Queued(c, q),
                                !.snd_lbb = Plus(@, used),
                                !.snd_buf = @ - used,
                                !.snd_queuelen = @ + n * cost],
             pool |-> PoolAfter(c, p, q, n, cost),
             cats |-> Cats(c, q, n, cost)]

-----------------------------------------------------------------------------
(* t_tcp_output on pcb c with pools p.                                      *)

WithinIgnoringLength(c, s) == Minus(s.seq, c.lastack) <= Least(c.snd_wnd, c.cwnd)

\* The window test.
Within(c, s) == Plus(Minus(s.seq, c.lastack), s.len) <= Least(c.snd_wnd, c.cwnd)

\* An ACK is due and no segment can carry it.
BareAck(c) == c.ack_now /\ (c.unsent = <<>> \/ ~Within(c, c.unsent[1]))

\* The loop stops at the first segment outside the window.
Sendable(c) ==
  LET fits == {k \in 0..Len(c.unsent) : \A i \in 1..k : Within(c, c.unsent[i])}
  IN IF BareAck(c) THEN 0 ELSE Cardinality(fits) - 1

\* Where a transmitted segment goes in the unacked list.
OnUnacked(q, s) == IF q # <<>> /\ SEQ_LT(s.seq, Last(q).seq) THEN <<s>> \o q ELSE Append(q, s)

\* unacked once the first k unsent segments are on it.
UnackedAfter(c, k) ==
  LET q[i \in 0..k] == IF i = 0 THEN c.unacked ELSE OnUnacked(q[i - 1], c.unsent[i])
  IN q[k]

OnWireNoAck(c, s) == [seq |-> s.seq, len |-> s.len, syn |-> s.syn, ack |-> FALSE]

\* What t_tcp_output_segment puts on the wire.
OnWire(c, s) == [seq |-> s.seq, len |-> s.len, syn |-> s.syn, ack |-> c.state # "SYN_SENT"]

\* Data sent on an established connection carries the ACK.
AckPending(c) == c.ack_now /\ (Sendable(c) = 0 \/ c.state = "SYN_SENT")

t_tcp_output(c, p) ==
  LET k   == Sendable(c)
      out == SubSeq(c.unsent, 1, k)
  IN IF BareAck(c)
     THEN IF p.buf = 0
          THEN [pcb |-> c, out |-> {}, wild |-> FALSE]  \* a later call tries again
          ELSE [pcb |-> [c EXCEPT !.ack_now = FALSE],
                out |-> {[seq |-> c.snd_nxt, len |-> 0, syn |-> FALSE, ack |-> TRUE]},
                wild |-> FALSE]
     ELSE [pcb |-> [c EXCEPT !.unsent = SubSeq(@, k + 1, Len(@)),
                             !.unacked = UnackedAfter(c, k),
                             !.snd_nxt = IF k = 0 THEN @ ELSE Plus(out[k].seq, TCPLEN(out[k])),
                             !.ack_now = AckPending(c),
                             !.local_ip = @ \/ k > 0],
           out |-> {OnWire(c, out[i]) : i \in 1..k},
           \* netif is assigned only while local_ip is still 0: any later
           \* segment goes to t_ip_output with an indeterminate netif.
           wild |-> k > 1 \/ (k = 1 /\ c.local_ip)]

\* An indeterminate netif either still is the interface, or the call through
\* it takes the process down.
Crash == up' = FALSE /\ UNCHANGED <<pcb, pool, lent, wire, opened, acked, lost>>

-----------------------------------------------------------------------------
(* The handshake in t_tcp_process.                                          *)

\* unacked is not empty here: a segment finds the pcb only once local_ip is
\* set, by the transmission of the SYN.
AckOfSyn(c, s) == /\ c.state = "SYN_SENT" /\ s.syn
                  /\ s.ackno = Plus(c.unacked[1].seq, 1)

BufSlotNotReturned(c) == c.snd_buf

\* The SYN took one byte of the send buffer (snd_lbb and snd_buf move by one).
BufSlotReturned(c) == c.snd_buf + 1

QueueSlotKept(c) == c.snd_queuelen

QueueSlotReturned(c) == c.snd_queuelen - 1

\* The MSS option, capped; NoMss stands for an absent or malformed one.
t_tcp_parseopt(s) == Least(s.mss, MSS)

\* cwnd takes mss before the MSS option is parsed; t_tcp_ack_now comes last.
Established(c, s) ==
  [c EXCEPT !.snd_buf = BufSlotReturned(c),
            !.rcv_nxt = Plus(s.seq, 1),
            !.lastack = s.ackno,
            !.snd_wnd = s.wnd,
            !.state = "ESTABLISHED",
            !.cwnd = c.mss,
            !.snd_queuelen = QueueSlotReturned(c),
            !.unacked = Tail(@),
            !.mss = t_tcp_parseopt(s),
            !.ack_now = TRUE]

\* t_tcp_seg_free: the SYN's tcp_seg and its pbuf.
SynFreed(p) == [buf |-> p.buf + 1, seg |-> p.seg + 1]

-----------------------------------------------------------------------------
\* t_tcp_alloc, and the pool left to this connection.
Init ==
  /\ pcb = [state |-> "CLOSED", snd_buf |-> SND_BUF, snd_queuelen |-> 0,
            snd_lbb |-> ISS, snd_nxt |-> ISS, lastack |-> ISS, rcv_nxt |-> 0,
            snd_wnd |-> 0, cwnd |-> 1, mss |-> MSS, ack_now |-> FALSE,
            unsent |-> <<>>, unacked |-> <<>>, local_ip |-> FALSE]
  /\ pool = [buf |-> POOL, seg |-> SEGS]
  /\ lent = 0 /\ wire = {} /\ opened = FALSE /\ acked = 0 /\ lost = 0 /\ up = TRUE

WideOpen(c) == [c EXCEPT !.snd_nxt = ISS, !.lastack = Minus(ISS, 1), !.snd_lbb = Minus(ISS, 1),
                         !.rcv_nxt = 0, !.snd_wnd = WND, !.mss = MSS, !.cwnd = MSS,
                         !.state = "SYN_SENT"]

\* The assignments of t_tcp_connect.  cwnd 1 keeps all but the SYN back.
Opening(c) == [c EXCEPT !.snd_nxt = ISS, !.lastack = Minus(ISS, 1), !.snd_lbb = Minus(ISS, 1),
                        !.rcv_nxt = 0, !.snd_wnd = WND, !.mss = MSS, !.cwnd = 1,
                        !.state = "SYN_SENT"]

\* Called once for a pcb.  A failed enqueue leaves it registered in SYN_SENT.
\* (A SYN is neither zero-copy nor merged: no t_pbuf_cat.)
t_tcp_connect ==
  /\ up /\ pcb.state = "CLOSED"
  /\ LET e == t_tcp_enqueue(Opening(pcb), pool, 0, TRUE, FALSE)
         o == t_tcp_output(e.pcb, e.pool)
     IN /\ pcb' = IF e.ok THEN o.pcb ELSE e.pcb
        /\ wire' = IF e.ok THEN wire \cup o.out ELSE wire
        /\ pool' = e.pool
        /\ opened' = e.ok
  /\ UNCHANGED <<lent, acked, lost, up>>

\* t_tcp_write, by an application that heeds t_tcp_connect's answer, in a state
\* it accepts.  It queues; t_tcp_output sends.
t_tcp_write ==
  /\ up /\ opened
  /\ \E len \in 1..SND_BUF, copy \in Copies :
       LET e == t_tcp_enqueue(pcb, pool, len, FALSE, copy)
       IN /\ pcb' = e.pcb /\ pool' = e.pool
          /\ lost' = lost + e.cats
  /\ UNCHANGED <<lent, wire, opened, acked, up>>

\* t_tcp_output called by the application.
Output ==
  /\ up /\ pcb.state # "CLOSED"
  /\ LET o == t_tcp_output(pcb, pool)
     IN \/ /\ pcb' = o.pcb /\ wire' = wire \cup o.out
           /\ UNCHANGED <<pool, lent, opened, acked, lost, up>>
        \/ o.wild /\ Crash

\* External: the segments the peer may send, given what it may have received.
\* It answers the SYN, or sends a SYN|ACK of an earlier connection with another
\* ackno; it acknowledges any of our data.  (Nothing it sends is of interest
\* before the SYN: t_tcp_input would not find the pcb.)
PeerSynAck ==
  [syn : {TRUE}, ackno : {ISS, Plus(ISS, 1)}, seq : {PeerISS},
   wnd : PeerWnds, mss : PeerMss \cup {NoMss}]
PeerOther ==
  {[syn |-> FALSE, ackno |-> a, seq |-> Plus(PeerISS, 1), wnd |-> WND, mss |-> NoMss] :
     a \in {Plus(s.seq, TCPLEN(s)) : s \in wire}}
PeerSegs == PeerSynAck \cup PeerOther

\* t_tcp_input on a segment that matches the pcb: t_tcp_process, then t_tcp_
\* output.  The frame itself sits in a pbuf until the end.
t_tcp_input(s) ==
  /\ up /\ pcb.local_ip /\ pool.buf > 0
  /\ LET hs == AckOfSyn(pcb, s)
         p  == [pool EXCEPT !.buf = @ - 1]
         p2 == IF hs THEN SynFreed(p) ELSE p
         o  == t_tcp_output(IF hs THEN Established(pcb, s) ELSE pcb, p2)
     IN \/ /\ pcb' = o.pcb /\ wire' = wire \cup o.out
           /\ pool' = [p2 EXCEPT !.buf = @ + 1]
           /\ acked' = IF hs \/ (o.pcb.state = "ESTABLISHED" /\ ~s.syn)
                       THEN Highest(acked, Minus(s.ackno, Minus(ISS, 1))) ELSE acked
           /\ UNCHANGED <<lent, opened, lost, up>>
        \/ o.wild /\ Crash

Input == \E s \in PeerSegs : t_tcp_input(s)

\* The rest of the program takes buffers from the pool and returns them.
Lend   == /\ up /\ pool.buf > 0
          /\ pool' = [pool EXCEPT !.buf = @ - 1] /\ lent' = lent + 1
          /\ UNCHANGED <<pcb, wire, opened, acked, lost, up>>
Return == /\ up /\ lent > 0
          /\ pool' = [pool EXCEPT !.buf = @ + 1] /\ lent' = lent - 1
          /\ UNCHANGED <<pcb, wire, opened, acked, lost, up>>

Next == t_tcp_connect \/ t_tcp_write \/ Output \/ Input \/ Lend \/ Return
Spec == Init /\ [][Next]_vars

-----------------------------------------------------------------------------
Outstanding == pcb.unacked \o pcb.unsent
Bytes(q)    == LET sum[i \in 0..Len(q)] == IF i = 0 THEN 0 ELSE sum[i - 1] + q[i].len
               IN sum[Len(q)]

Segment == [seq : 0..SeqSpace - 1, len : 0..SND_BUF, syn : BOOLEAN]

\* The widths of the pcb's fields: snd_buf (u16) and snd_queuelen (u8) never
\* go below zero, where they would wrap, and no counter of a pool does.
TypeOK ==
  /\ pcb.state \in {"CLOSED", "SYN_SENT", "ESTABLISHED"}
  /\ pcb.snd_buf \in 0..SND_BUF /\ pcb.snd_queuelen \in 0..QUEUELEN
  /\ {pcb.snd_lbb, pcb.snd_nxt, pcb.lastack, pcb.rcv_nxt} \subseteq 0..SeqSpace - 1
  /\ pcb.snd_wnd \in Nat /\ pcb.cwnd \in Nat /\ pcb.mss \in 0..MSS
  /\ pcb.ack_now \in BOOLEAN /\ pcb.local_ip \in BOOLEAN
  /\ Outstanding \in Seq(Segment)
  /\ pool.buf \in 0..POOL /\ pool.seg \in 0..SEGS /\ {lent, lost} \subseteq 0..POOL
  /\ opened \in BOOLEAN /\ up \in BOOLEAN

\* Send buffer space is neither lost nor invented over connect, write, output
\* and the SYN|ACK: what is not free is on one of the two queues.
SendBufConserved ==
  pcb.snd_buf + Bytes(Outstanding) + Cardinality({i \in 1..Len(Outstanding) : Outstanding[i].syn})
    = SND_BUF

\* Every tcp_seg is in the pool or on a queue: failed and merged enqueues and
\* the SYN's release return exactly what they took.
SegsConserved == pool.seg + Len(Outstanding) = SEGS

\* The assertions t_tcp_enqueue carries (compiled out): pbufs on the queue
\* when and only when a queue is non-empty.  And snd_queuelen, which stands for
\* every pbuf behind a queued segment in the limit, counts at least these.
QueueLenSound ==
  /\ pcb.snd_queuelen = 0 <=> Outstanding = <<>>
  /\ Len(Outstanding) <= pcb.snd_queuelen

\* "These are ordered by sequence number": unacked followed by unsent is the
\* sequence space up to snd_lbb without gap or overlap, across wrap-around,
\* merging, and the move from one queue to the other; snd_nxt is where the
\* two meet.
QueuesContiguous ==
  LET q == Outstanding
  IN /\ \A i \in 1..Len(q) : Plus(q[i].seq, TCPLEN(q[i])) =
                               IF i = Len(q) THEN pcb.snd_lbb ELSE q[i + 1].seq
     /\ opened => pcb.snd_nxt = IF pcb.unsent = <<>> THEN pcb.snd_lbb ELSE pcb.unsent[1].seq

\* Nothing is in flight beyond the window the peer and cwnd left, although
\* both change under the queued segments when the SYN|ACK arrives.
InFlightWithinWindow ==
  \A i \in 1..Len(pcb.unacked) : LET s == pcb.unacked[i] IN
    Minus(s.seq, pcb.lastack) + s.len <= Least(pcb.snd_wnd, pcb.cwnd)

\* The third step of the handshake is never forgotten: once the SYN|ACK is
\* in, something that acknowledges it has been sent or is still due, whether
\* data was queued meanwhile and carries it, or lies outside the new window.
HandshakeAckOwed ==
  pcb.state = "ESTABLISHED" => pcb.ack_now \/ \E s \in wire : s.ack

\* Every pbuf that is not free is lent to the rest of the program, or is the
\* one of a queued segment, or went through t_pbuf_cat: writes that fail at
\* any point of the loop return all the others, and so does the SYN|ACK.
PbufsAccounted == POOL - pool.buf - lent = Len(Outstanding) + lost

\* Bytes accepted by t_tcp_write are transmitted once, in order, and only after
\* the handshake.
Stream == INSTANCE TcpStream WITH
            Limit    <- SND_BUF,
            phase    <- CASE ~opened -> "closed"
                          [] opened /\ pcb.state = "SYN_SENT" -> "opening"
                          [] opened /\ pcb.state = "ESTABLISHED" -> "open",
            accepted <- IF opened THEN Minus(pcb.snd_lbb, ISS) ELSE 0,
            sent     <- IF opened THEN Minus(pcb.snd_nxt, ISS) ELSE 0
StreamSpec == Stream!Spec

-----------------------------------------------------------------------------
(* What the comments say and the code does not do.                          *)

\* t_tcp.h: unacked holds "Sent but unacknowledged segments."
UnackedNotAcked ==
  \A i \in 1..Len(pcb.unacked) : LET s == pcb.unacked[i] IN
    Minus(s.seq, Minus(ISS, 1)) + TCPLEN(s) > acked

\* t_tcp_enqueue: "Concatenate the headers and data pbufs together": a pbuf
\* taken for a segment stays reachable from it, so each one that is not free
\* belongs to a queued segment or to somebody else.
PbufsConserved == POOL - pool.buf - lent = Len(Outstanding)
=============================================================================
