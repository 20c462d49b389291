----------------------------- MODULE TTcpProofs -----------------------------
(***************************************************************************)
(* One TCP connection, for any sizes of segments, buffers, windows and     *)
(* pools, wherever the sequence numbers wrap.                              *)
(*                                                                         *)
(* Sequence numbers are compared by their distance from the SYN (Off).     *)
(* snd_buf is never replenished, so a connection sends less than half the  *)
(* sequence space and distances add up without wrapping: the two queues    *)
(* are chains of distances (Chain), which concatenation, splitting and     *)
(* t_tcp_enqueue's cutting and merging preserve.                           *)
(***************************************************************************)
EXTENDS TTcp, LinkedLists, SequenceTheorems, TLAPS

(***************************************************************************)
(* Arithmetic.                                                             *)
(***************************************************************************)

Sq == 0..SeqSpace - 1

\* Distance of a sequence number from the SYN's.
Off(x) == Minus(x, Minus(ISS, 1))

LEMMA Sizes ==
  /\ MSS \in Nat \ {0} /\ SND_BUF \in Nat \ {0} /\ WND \in Nat \ {0} /\ QUEUELEN \in Nat \ {0}
  /\ POOL \in Nat /\ SEGS \in Nat /\ SeqSpace \in Nat
  /\ 2 * (SND_BUF + MSS + 2) < SeqSpace
  /\ ISS \in Sq /\ PeerISS \in Sq
  BY SizeAssumption DEF Sq

\* On sequence numbers the three operators wrap at most once.
LEMMA PlusIs ==
  ASSUME NEW a \in Sq, NEW d \in Nat, d < SeqSpace
  PROVE  /\ Plus(a, d) = IF a + d < SeqSpace THEN a + d ELSE a + d - SeqSpace
         /\ Plus(a, d) \in Sq
<1>1. /\ SeqSpace \in Nat \ {0} /\ a \in Int /\ a >= 0 /\ a < SeqSpace
  BY Sizes DEF Sq
<1>2. a + d \in Int /\ 0 <= a + d /\ a + d < 2 * SeqSpace
  BY <1>1
<1> DEFINE x == a + d
<1> HIDE DEF x
<1>3. x \in Int /\ 0 <= x /\ x < 2 * SeqSpace
  BY <1>2 DEF x
<1>4. /\ x % SeqSpace = IF x < SeqSpace THEN x ELSE x - SeqSpace
      /\ x % SeqSpace \in 0..SeqSpace - 1
  BY <1>1, <1>3
<1>5. /\ Plus(a, d) = IF x < SeqSpace THEN x ELSE x - SeqSpace
      /\ Plus(a, d) \in Sq
  BY <1>4 DEF Plus, Sq, x
<1> QED BY <1>1, <1>5 DEF x

LEMMA MinusIs ==
  ASSUME NEW a \in Sq, NEW b \in Sq
  PROVE  /\ Minus(a, b) = IF b <= a THEN a - b ELSE a - b + SeqSpace
         /\ Minus(a, b) \in Sq
<1>1. SeqSpace \in Nat \ {0} /\ a \in 0..SeqSpace - 1 /\ b \in 0..SeqSpace - 1
  BY Sizes DEF Sq
<1>2. a - b \in Int /\ -SeqSpace <= a - b /\ a - b < SeqSpace
  BY <1>1
<1>3. /\ 0 <= a - b => (a - b) % SeqSpace = a - b
      /\ a - b < 0 => (a - b) % SeqSpace = a - b + SeqSpace
      /\ (a - b) % SeqSpace \in 0..SeqSpace - 1
  BY <1>1, <1>2
<1>4. (a - b) % SeqSpace = IF b <= a THEN a - b ELSE a - b + SeqSpace
  BY <1>1, <1>2, <1>3
<1> QED BY <1>3, <1>4 DEF Minus, Sq

LEMMA Before ==
  /\ Minus(ISS, 1) \in Sq /\ ISS \in Sq /\ SeqSpace \in Nat
  /\ Off(Minus(ISS, 1)) = 0 /\ Off(ISS) = 1
  /\ Plus(Minus(ISS, 1), 1) = ISS
<1>1. 1 \in Sq /\ ISS \in Sq /\ SeqSpace \in Nat /\ SeqSpace > 1
  BY Sizes DEF Sq
<1>2. Minus(ISS, 1) = IF 1 <= ISS THEN ISS - 1 ELSE ISS - 1 + SeqSpace
  BY <1>1, MinusIs
<1>3. Minus(ISS, 1) \in Sq
  BY <1>1, MinusIs
<1>4. Off(Minus(ISS, 1)) = 0
  BY <1>1, <1>3, MinusIs DEF Off, Sq
<1>5. Off(ISS) = 1
  BY <1>1, <1>2, <1>3, MinusIs DEF Off, Sq
<1>6. Plus(Minus(ISS, 1), 1) = ISS
  BY <1>1, <1>2, <1>3, PlusIs DEF Sq
<1> QED BY <1>1, <1>3, <1>4, <1>5, <1>6

LEMMA OffType ==
  ASSUME NEW x \in Sq
  PROVE  Off(x) \in Sq /\ Off(x) \in Nat /\ Off(x) < SeqSpace
<1>1. Off(x) \in Sq
  BY Before, MinusIs DEF Off
<1> QED BY <1>1, Before DEF Sq

LEMMA OffPlus ==
  ASSUME NEW x \in Sq, NEW d \in Nat, Off(x) + d < SeqSpace
  PROVE  Plus(x, d) \in Sq /\ Off(Plus(x, d)) = Off(x) + d
<1> DEFINE z == Minus(ISS, 1)
<1>1. z \in Sq /\ SeqSpace \in Nat /\ x \in Sq /\ Off(x) \in Nat
  BY Before, OffType
<1>2. d < SeqSpace
  BY <1>1
<1>3. /\ Plus(x, d) = IF x + d < SeqSpace THEN x + d ELSE x + d - SeqSpace
      /\ Plus(x, d) \in Sq
  BY <1>2, PlusIs
<1>4. Off(x) = IF z <= x THEN x - z ELSE x - z + SeqSpace
  BY <1>1, MinusIs DEF Off
<1>5. Off(Plus(x, d)) = IF z <= Plus(x, d) THEN Plus(x, d) - z ELSE Plus(x, d) - z + SeqSpace
  BY <1>1, <1>3, MinusIs DEF Off
<1> HIDE DEF z
<1> QED BY <1>1, <1>2, <1>3, <1>4, <1>5 DEF Sq

LEMMA OffMinus ==
  ASSUME NEW x \in Sq, NEW y \in Sq, Off(y) <= Off(x)
  PROVE  Minus(x, y) = Off(x) - Off(y)
<1> DEFINE z == Minus(ISS, 1)
<1>1. z \in Sq /\ SeqSpace \in Nat
  BY Before
<1>2. /\ Off(x) = IF z <= x THEN x - z ELSE x - z + SeqSpace
      /\ Off(y) = IF z <= y THEN y - z ELSE y - z + SeqSpace
      /\ Minus(x, y) = IF y <= x THEN x - y ELSE x - y + SeqSpace
  BY <1>1, MinusIs DEF Off
<1> HIDE DEF z
<1> QED BY <1>1, <1>2 DEF Sq

LEMMA OffInjective ==
  ASSUME NEW x \in Sq, NEW y \in Sq, Off(x) = Off(y)
  PROVE  x = y
<1>1. /\ SeqSpace \in Int /\ x \in Int /\ y \in Int
      /\ 0 <= x /\ x < SeqSpace /\ 0 <= y /\ y < SeqSpace
  BY Before DEF Sq
<1>2. Off(x) = Off(y) /\ Off(x) \in Int
  BY OffType
<1>3. Minus(x, y) = 0
  BY <1>2, OffMinus
<1>4. Minus(x, y) = IF y <= x THEN x - y ELSE x - y + SeqSpace
  BY MinusIs
<1> QED BY <1>1, <1>3, <1>4

\* What is a little ahead is not before.
LEMMA Ahead ==
  ASSUME NEW x \in Sq, NEW y \in Sq, Off(y) <= Off(x), 2 * (Off(x) - Off(y)) < SeqSpace
  PROVE  ~SEQ_LT(x, y)
<1>1. Minus(x, y) = Off(x) - Off(y) /\ Off(x) \in Nat /\ Off(y) \in Nat /\ SeqSpace \in Nat
  BY OffMinus, OffType, Before
<1>2. ASSUME NEW d \in Nat, 2 * d < SeqSpace
      PROVE  ~(d > SeqSpace \div 2)
  BY <1>1, <1>2
<1>3. Off(x) - Off(y) \in Nat
  BY <1>1
<1> QED BY <1>1, <1>2, <1>3 DEF SEQ_LT

(***************************************************************************)
(* The invariant.                                                          *)
(***************************************************************************)

Seg == [seq : Sq, len : Nat, syn : BOOLEAN]

Pcb ==
  [state : {"CLOSED", "SYN_SENT", "ESTABLISHED"}, snd_buf : Nat, snd_queuelen : Nat,
   snd_lbb : Sq, snd_nxt : Sq, lastack : Sq, rcv_nxt : Sq, snd_wnd : Nat, cwnd : Nat,
   mss : Nat, ack_now : BOOLEAN, unsent : Seq(Seg), unacked : Seq(Seg), local_ip : BOOLEAN]

\* Where a segment ends.
End(s) == Off(s.seq) + TCPLEN(s)

\* The segments of q cover the distances a to b, in order.
Chain(q, a, b) ==
  /\ a <= b
  /\ q = <<>> => a = b
  /\ q # <<>> => Off(q[1].seq) = a /\ End(q[Len(q)]) = b
  /\ \A i \in 1..Len(q) : a <= Off(q[i].seq) /\ End(q[i]) <= b
  /\ \A i \in 1..Len(q) - 1 : End(q[i]) = Off(q[i + 1].seq)
  /\ \A i, j \in 1..Len(q) : i < j => End(q[i]) <= Off(q[j].seq)

Data(q) == \A i \in 1..Len(q) : ~q[i].syn /\ q[i].len >= 1

TheSyn == [seq |-> Minus(ISS, 1), len |-> 0, syn |-> TRUE]

\* Before the SYN is queued, and for good if it cannot be.
Unused(c) ==
  /\ c.state # "ESTABLISHED"
  /\ c.unsent = <<>> /\ c.unacked = <<>>
  /\ c.snd_buf = SND_BUF /\ c.snd_queuelen = 0
  /\ ~c.ack_now /\ ~c.local_ip

\* The SYN is out and unanswered.  cwnd keeps everything else back.
SynOut(c) ==
  /\ c.lastack = Minus(ISS, 1) /\ c.snd_nxt = ISS
  /\ c.unacked = <<TheSyn>>
  /\ c.snd_wnd = WND /\ c.cwnd = 1
  /\ ~c.ack_now
  /\ c.unsent = <<>> => c.snd_queuelen = 1

Open(c) ==
  /\ c.lastack = ISS
  /\ Data(c.unacked)
  /\ c.unacked = <<>> /\ c.unsent = <<>> => c.snd_queuelen = 0

\* What the window test says of the segments in flight.
InFlight(c) ==
  \A i \in 1..Len(c.unacked) :
    Off(c.unacked[i].seq) - Off(c.lastack) + c.unacked[i].len <= Least(c.snd_wnd, c.cwnd)

Conn(c) ==
  /\ c.state # "CLOSED" /\ c.local_ip
  /\ Chain(c.unacked, Off(c.lastack), Off(c.snd_nxt))
  /\ Chain(c.unsent, Off(c.snd_nxt), Off(c.snd_lbb))
  /\ Data(c.unsent)
  /\ c.snd_buf + Off(c.snd_lbb) - Off(c.lastack) = SND_BUF
  /\ Len(c.unacked) + Len(c.unsent) <= c.snd_queuelen
  /\ InFlight(c)
  /\ c.state = "SYN_SENT" => SynOut(c)
  /\ c.state = "ESTABLISHED" => Open(c)

\* The pbufs: a free, i lent, j forgotten, and one for each tcp_seg in use, of
\* which s are free.
AllBufs(a, s, i, j) == a + i + j + SEGS = POOL + s

Pools(c, p, l, x) ==
  /\ p \in [buf : Nat, seg : Nat] /\ l \in Nat /\ x \in Nat
  /\ p.seg + Len(c.unacked) + Len(c.unsent) = SEGS
  /\ AllBufs(p.buf, p.seg, l, x)

\* Pcb c, pools p, with l pbufs lent, x lost and t_tcp_connect's answer o.
Good(c, p, l, x, o) ==
  /\ c \in Pcb /\ c.snd_queuelen <= QUEUELEN /\ c.mss <= MSS
  /\ o \in BOOLEAN /\ Pools(c, p, l, x)
  /\ o => Conn(c)
  /\ ~o => Unused(c)

IInv == Good(pcb, pool, lent, lost, opened) /\ up \in BOOLEAN /\ HandshakeAckOwed

(***************************************************************************)
(* Chains.                                                                 *)
(***************************************************************************)

LEMMA SegFacts ==
  ASSUME NEW s \in Seg
  PROVE  /\ s.seq \in Sq /\ s.len \in Nat /\ s.syn \in BOOLEAN
         /\ TCPLEN(s) = IF s.syn THEN s.len + 1 ELSE s.len
         /\ TCPLEN(s) \in Nat /\ s.len <= TCPLEN(s) /\ TCPLEN(s) <= s.len + 1
         /\ Off(s.seq) \in Nat /\ End(s) \in Nat /\ End(s) = Off(s.seq) + TCPLEN(s)
<1>1. s.seq \in Sq /\ s.len \in Nat /\ s.syn \in BOOLEAN
  BY DEF Seg
<1>2. Off(s.seq) \in Nat
  BY <1>1, OffType
<1>3. TCPLEN(s) = IF s.syn THEN s.len + 1 ELSE s.len
  BY <1>1 DEF TCPLEN
<1> QED BY <1>1, <1>2, <1>3 DEF End

LEMMA EmptyLen ==
  ASSUME NEW S, NEW q \in Seq(S)
  PROVE  Len(q) \in Nat /\ (q = <<>> <=> Len(q) = 0)
  BY EmptySeq

LEMMA ChainAt ==
  ASSUME NEW q \in Seq(Seg), NEW a \in Nat, NEW b \in Nat, Chain(q, a, b), NEW i \in 1..Len(q)
  PROVE  /\ q[i] \in Seg
         /\ a <= Off(q[i].seq) /\ Off(q[i].seq) <= End(q[i]) /\ End(q[i]) <= b
         /\ Off(q[i].seq) \in Nat /\ End(q[i]) \in Nat
<1>1. q[i] \in Seg
  OBVIOUS
<1>2. /\ Off(q[i].seq) \in Nat /\ End(q[i]) \in Nat
      /\ TCPLEN(q[i]) \in Nat /\ End(q[i]) = Off(q[i].seq) + TCPLEN(q[i])
  BY <1>1, SegFacts
<1>3. a <= Off(q[i].seq) /\ End(q[i]) <= b
  BY Zenon DEF Chain
<1> QED BY <1>1, <1>2, <1>3

LEMMA ChainConcat ==
  ASSUME NEW q \in Seq(Seg), NEW r \in Seq(Seg), NEW a \in Nat, NEW b \in Nat, NEW c \in Nat,
         Chain(q, a, b), Chain(r, b, c)
  PROVE  Chain(q \o r, a, c)
<1> DEFINE t == q \o r
           m == Len(q)
           n == Len(r)
<1>1. /\ t \in Seq(Seg) /\ Len(t) = m + n /\ m \in Nat /\ n \in Nat
      /\ \A i \in 1..m : t[i] = q[i]
      /\ \A i \in 1..n : t[m + i] = r[i]
  OBVIOUS
<1>2. /\ q = <<>> <=> m = 0
      /\ r = <<>> <=> n = 0
      /\ t = <<>> <=> m + n = 0
  BY <1>1, EmptyLen
<1>3. /\ a <= b /\ b <= c
      /\ m = 0 => a = b
      /\ n = 0 => b = c
      /\ m # 0 => Off(q[1].seq) = a /\ End(q[m]) = b
      /\ n # 0 => Off(r[1].seq) = b /\ End(r[n]) = c
  BY <1>2 DEF Chain
<1>4. ASSUME NEW i \in 1..m
      PROVE  /\ a <= Off(q[i].seq) /\ End(q[i]) <= b
             /\ Off(q[i].seq) \in Nat /\ End(q[i]) \in Nat
  BY ChainAt
<1>5. ASSUME NEW i \in 1..n
      PROVE  /\ b <= Off(r[i].seq) /\ End(r[i]) <= c
             /\ Off(r[i].seq) \in Nat /\ End(r[i]) \in Nat
  BY ChainAt
<1>6. /\ \A i \in 1..m - 1 : End(q[i]) = Off(q[i + 1].seq)
      /\ \A i, j \in 1..m : i < j => End(q[i]) <= Off(q[j].seq)
      /\ \A i \in 1..n - 1 : End(r[i]) = Off(r[i + 1].seq)
      /\ \A i, j \in 1..n : i < j => End(r[i]) <= Off(r[j].seq)
  BY DEF Chain
<1> HIDE DEF t, m, n
<1>0. m \in Nat /\ n \in Nat
  BY <1>1
<1>7. ASSUME NEW i \in 1..m + n
      PROVE  \/ i \in 1..m /\ t[i] = q[i]
             \/ i - m \in 1..n /\ t[i] = r[i - m] /\ i > m
  <2>1. CASE i \in 1..m
    BY <1>1, <2>1
  <2>2. CASE i \notin 1..m
    <3>1. i - m \in 1..n /\ m + (i - m) = i /\ i > m
      BY <1>0, <2>2
    <3> QED BY <1>1, <3>1
  <2> QED BY <2>1, <2>2
<1>8. ASSUME NEW i \in 1..m + n
      PROVE  a <= Off(t[i].seq) /\ End(t[i]) <= c
  <2>1. CASE i \in 1..m /\ t[i] = q[i]
    BY <1>3, <1>4, <2>1
  <2>2. CASE i - m \in 1..n /\ t[i] = r[i - m]
    BY <1>3, <1>5, <2>2
  <2> QED BY <1>7, <2>1, <2>2
<1>9. ASSUME NEW i \in 1..m + n - 1
      PROVE  End(t[i]) = Off(t[i + 1].seq)
  <2>1. i \in 1..m + n /\ i + 1 \in 1..m + n
    BY <1>0
  <2>2. CASE i < m
    <3>1. i \in 1..m - 1 /\ i \in 1..m /\ i + 1 \in 1..m
      BY <1>0, <2>2
    <3>2. t[i] = q[i] /\ t[i + 1] = q[i + 1]
      BY <1>1, <3>1
    <3> QED BY <1>6, <3>1, <3>2
  <2>3. CASE i = m
    <3>1. m # 0 /\ n # 0 /\ m \in 1..m /\ 1 \in 1..n /\ i + 1 = m + 1
      BY <1>0, <2>1, <2>3
    <3>2. t[i] = q[m] /\ t[i + 1] = r[1]
      BY <1>1, <2>3, <3>1
    <3> QED BY <1>3, <3>1, <3>2
  <2>4. CASE i > m
    <3> DEFINE k == i - m
    <3>1. k \in 1..n - 1 /\ k \in 1..n /\ k + 1 \in 1..n /\ i = m + k /\ i + 1 = m + (k + 1)
      BY <1>0, <2>4
    <3> HIDE DEF k
    <3>2. t[i] = r[k] /\ t[i + 1] = r[k + 1]
      BY <1>1, <3>1
    <3> QED BY <1>6, <3>1, <3>2
  <2> QED BY <1>0, <2>2, <2>3, <2>4
<1>10. ASSUME NEW i \in 1..m + n, NEW j \in 1..m + n, i < j
       PROVE  End(t[i]) <= Off(t[j].seq)
  <2>1. CASE i \in 1..m /\ t[i] = q[i] /\ j \in 1..m /\ t[j] = q[j]
    BY <1>6, <1>10, <2>1
  <2>2. CASE i \in 1..m /\ t[i] = q[i] /\ j - m \in 1..n /\ t[j] = r[j - m]
    BY <1>4, <1>5, <2>2
  <2>3. CASE i - m \in 1..n /\ t[i] = r[i - m] /\ j - m \in 1..n /\ t[j] = r[j - m]
    <3>1. i - m < j - m
      BY <1>0, <1>10
    <3> QED BY <1>6, <2>3, <3>1
  <2>4. ~(i > m /\ j \in 1..m)
    BY <1>0, <1>10
  <2> QED BY <1>7, <2>1, <2>2, <2>3, <2>4
<1>11. m + n # 0 => Off(t[1].seq) = a /\ End(t[m + n]) = c
  <2>1. CASE m = 0 /\ n # 0
    <3>1. t[1] = r[1] /\ t[m + n] = r[n]
      BY <1>1, <2>1
    <3> QED BY <1>3, <2>1, <3>1
  <2>2. CASE m # 0 /\ n = 0
    <3>1. t[1] = q[1] /\ t[m + n] = q[m]
      BY <1>1, <2>2
    <3> QED BY <1>3, <2>2, <3>1
  <2>3. CASE m # 0 /\ n # 0
    <3>1. t[1] = q[1] /\ t[m + n] = r[n]
      BY <1>1, <2>3
    <3> QED BY <1>3, <2>3, <3>1
  <2> QED BY <1>0, <2>1, <2>2, <2>3
<1>12. t = <<>> => a = c
  BY <1>1, <1>2, <1>3
<1>13. a <= c
  BY <1>3
<1>14. Chain(t, a, c)
  BY <1>1, <1>2, <1>8, <1>9, <1>10, <1>11, <1>12, <1>13 DEF Chain
<1> QED BY <1>14 DEF t

\* Where the first k segments of a chain from a end.
Cursor(q, a, k) == IF k = 0 THEN a ELSE End(q[k])

LEMMA ChainSplit ==
  ASSUME NEW q \in Seq(Seg), NEW a \in Nat, NEW b \in Nat, Chain(q, a, b), NEW k \in 0..Len(q)
  PROVE  /\ Cursor(q, a, k) \in Nat /\ a <= Cursor(q, a, k) /\ Cursor(q, a, k) <= b
         /\ Chain(SubSeq(q, 1, k), a, Cursor(q, a, k))
         /\ Chain(SubSeq(q, k + 1, Len(q)), Cursor(q, a, k), b)
<1> DEFINE m == Cursor(q, a, k)
           n == Len(q)
           f == SubSeq(q, 1, k)
           g == SubSeq(q, k + 1, n)
<1>1. /\ f \in Seq(Seg) /\ Len(f) = k /\ n \in Nat /\ k \in Nat /\ k <= n
      /\ \A i \in 1..k : f[i] = q[i]
  OBVIOUS
<1>2. /\ g \in Seq(Seg) /\ Len(g) = n - k
      /\ \A i \in 1..n - k : g[i] = q[k + i]
  OBVIOUS
<1>3. /\ f = <<>> <=> k = 0
      /\ g = <<>> <=> n = k
      /\ q = <<>> <=> n = 0
  <2> HIDE DEF f, g, n
  <2>1. f = <<>> <=> k = 0
    BY <1>1, EmptyLen
  <2>2. g = <<>> <=> n = k
    BY <1>1, <1>2, EmptyLen
  <2>3. q = <<>> <=> n = 0
    BY EmptyLen DEF n
  <2> QED BY <2>1, <2>2, <2>3
<1>4. /\ a <= b
      /\ n = 0 => a = b
      /\ n # 0 => Off(q[1].seq) = a /\ End(q[n]) = b
  BY <1>3 DEF Chain
<1>5. ASSUME NEW i \in 1..n
      PROVE  /\ a <= Off(q[i].seq) /\ Off(q[i].seq) <= End(q[i]) /\ End(q[i]) <= b
             /\ Off(q[i].seq) \in Nat /\ End(q[i]) \in Nat
  BY ChainAt
<1>6. /\ \A i \in 1..n - 1 : End(q[i]) = Off(q[i + 1].seq)
      /\ \A i, j \in 1..n : i < j => End(q[i]) <= Off(q[j].seq)
  BY DEF Chain
<1> HIDE DEF f, g, n
<1>7. n \in Nat /\ k \in Nat /\ k <= n
  BY <1>1
<1>8. /\ k = 0 => m = a
      /\ k # 0 => m = End(q[k]) /\ k \in 1..n
  BY <1>7 DEF Cursor
<1> HIDE DEF m
<1>9. m \in Nat /\ a <= m /\ m <= b
  <2>1. CASE k = 0
    BY <1>4, <1>8, <2>1
  <2>2. CASE k # 0
    BY <1>5, <1>8, <2>2
  <2> QED BY <2>1, <2>2
<1>10. Chain(f, a, m)
  <2>1. ASSUME NEW i \in 1..k
        PROVE  /\ a <= Off(f[i].seq) /\ End(f[i]) <= m
               /\ i # k => End(f[i]) = Off(f[i + 1].seq)
    <3>1. i \in 1..n /\ k \in 1..n /\ k # 0 /\ f[i] = q[i]
      BY <1>1, <1>7
    <3>2. i # k => i \in 1..n - 1 /\ i + 1 \in 1..k /\ i < k
      BY <1>7
    <3>3. i # k => f[i + 1] = q[i + 1]
      BY <1>1, <3>2
    <3>4. CASE i = k
      BY <1>5, <1>8, <3>1, <3>4
    <3>5. CASE i # k
      <4>1. End(q[i]) <= Off(q[k].seq) /\ End(q[i]) = Off(q[i + 1].seq)
        BY <1>6, <3>1, <3>2, <3>5
      <4>2. End(q[i]) \in Nat /\ Off(q[k].seq) \in Nat /\ Off(q[k].seq) <= m /\ m \in Nat
        BY <1>5, <1>8, <3>1
      <4>3. End(q[i]) <= m
        BY <4>1, <4>2
      <4> QED BY <1>5, <3>1, <3>3, <3>5, <4>1, <4>3
    <3> QED BY <3>4, <3>5
  <2>2. ASSUME NEW i \in 1..k, NEW j \in 1..k, i < j
        PROVE  End(f[i]) <= Off(f[j].seq)
    <3>1. i \in 1..n /\ j \in 1..n
      BY <1>7
    <3> QED BY <1>1, <1>6, <2>2, <3>1
  <2>3. k # 0 => Off(f[1].seq) = a /\ End(f[k]) = m
    <3>1. k # 0 => 1 \in 1..k /\ k \in 1..k /\ n # 0
      BY <1>7
    <3> QED BY <1>1, <1>4, <1>8, <3>1
  <2>4. \A i \in 1..k - 1 : i \in 1..k /\ i # k
    BY <1>7
  <2> QED BY <1>1, <1>3, <1>8, <1>9, <2>1, <2>2, <2>3, <2>4 DEF Chain
<1>11. Chain(g, m, b)
  <2>1. ASSUME NEW i \in 1..n - k
        PROVE  /\ m <= Off(g[i].seq) /\ End(g[i]) <= b
               /\ i # n - k => End(g[i]) = Off(g[i + 1].seq)
    <3> DEFINE j == k + i
    <3>1. j \in 1..n /\ j > k /\ g[i] = q[j]
      BY <1>2, <1>7
    <3>2. i # n - k => j \in 1..n - 1 /\ i + 1 \in 1..n - k /\ k + (i + 1) = j + 1
      BY <1>7
    <3> HIDE DEF j
    <3>3. i # n - k => g[i + 1] = q[j + 1]
      BY <1>2, <3>2
    <3>4. i # n - k => End(g[i]) = Off(g[i + 1].seq)
      BY <1>6, <3>1, <3>2, <3>3
    <3>5. CASE k = 0
      BY <1>5, <1>8, <3>1, <3>4, <3>5
    <3>6. CASE k # 0
      <4>1. End(q[k]) <= Off(q[j].seq) /\ m = End(q[k])
        BY <1>6, <1>8, <3>1, <3>6
      <4> QED BY <1>5, <3>1, <3>4, <4>1
    <3> QED BY <3>5, <3>6
  <2>2. ASSUME NEW i \in 1..n - k, NEW j \in 1..n - k, i < j
        PROVE  End(g[i]) <= Off(g[j].seq)
    <3>1. k + i \in 1..n /\ k + j \in 1..n /\ k + i < k + j
      BY <1>7, <2>2
    <3> QED BY <1>2, <1>6, <3>1
  <2>3. n # k => Off(g[1].seq) = m /\ End(g[n - k]) = b
    <3>1. n # k => 1 \in 1..n - k /\ n - k \in 1..n - k /\ k + (n - k) = n /\ n # 0
      BY <1>7
    <3>2. n # k => g[1] = q[k + 1] /\ g[n - k] = q[n]
      BY <1>2, <3>1
    <3>3. n # k /\ k # 0 => k \in 1..n - 1
      BY <1>7
    <3>4. n # k => Off(q[k + 1].seq) = m
      <4>1. CASE k = 0
        BY <1>4, <1>8, <3>1, <4>1
      <4>2. CASE k # 0
        BY <1>6, <1>8, <3>3, <4>2
      <4> QED BY <4>1, <4>2
    <3> QED BY <1>4, <3>1, <3>2, <3>4
  <2>4. \A i \in 1..n - k - 1 : i \in 1..n - k /\ i # n - k
    BY <1>7
  <2>5. n = k => m = b
    BY <1>4, <1>8
  <2> QED BY <1>2, <1>3, <1>9, <2>1, <2>2, <2>3, <2>4, <2>5 DEF Chain
<1> QED BY <1>9, <1>10, <1>11 DEF f, g, m, n

(***************************************************************************)
(* t_tcp_output moves a prefix of unsent to the end of unacked.            *)
(***************************************************************************)

LEMMA OnUnackedAppends ==
  ASSUME NEW q \in Seq(Seg), NEW s \in Seg, NEW a \in Nat, NEW b \in Nat,
         Chain(q, a, b), b <= Off(s.seq), 2 * (Off(s.seq) - a) < SeqSpace
  PROVE  OnUnacked(q, s) = Append(q, s)
<1>1. CASE q = <<>>
  BY <1>1 DEF OnUnacked
<1>2. CASE q # <<>>
  <2>1. Len(q) \in 1..Len(q) /\ Last(q) = q[Len(q)]
    BY <1>2, EmptyLen DEF Last
  <2>2. /\ Last(q) \in Seg
        /\ a <= Off(Last(q).seq) /\ Off(Last(q).seq) <= End(Last(q)) /\ End(Last(q)) <= b
        /\ Off(Last(q).seq) \in Nat /\ End(Last(q)) \in Nat
    BY <2>1, ChainAt
  <2>3. s.seq \in Sq /\ Last(q).seq \in Sq /\ Off(s.seq) \in Nat
    BY <2>2, SegFacts
  <2>4. Off(Last(q).seq) <= Off(s.seq) /\ Off(s.seq) - Off(Last(q).seq) <= Off(s.seq) - a
    BY <2>2, <2>3
  <2>5. 2 * (Off(s.seq) - Off(Last(q).seq)) < SeqSpace
    BY <2>2, <2>3, <2>4, Sizes
  <2>6. ~SEQ_LT(s.seq, Last(q).seq)
    BY <2>3, <2>4, <2>5, Ahead
  <2> QED BY <2>6 DEF OnUnacked
<1> QED BY <1>1, <1>2

LEMMA ConcatSegs ==
  ASSUME NEW u \in Seq(Seg), NEW w \in Seq(Seg), NEW z \in Seq(Seg)
  PROVE  (u \o w) \o z = u \o (w \o z)
  OBVIOUS

LEMMA OneMore ==
  ASSUME NEW u \in Seq(Seg), NEW v \in Seq(Seg), NEW i \in 1..Len(v)
  PROVE  Append(u \o SubSeq(v, 1, i - 1), v[i]) = u \o SubSeq(v, 1, i)
<1> DEFINE w == SubSeq(v, 1, i - 1)
<1>1. w \in Seq(Seg) /\ v[i] \in Seg /\ <<v[i]>> \in Seq(Seg)
  OBVIOUS
<1>2. SubSeq(v, 1, i) = w \o <<v[i]>>
  <2>1. 1 \in 1..Len(v) /\ i \in 1..Len(v)
    OBVIOUS
  <2> QED BY <2>1, SubSeqRecursiveSecond
<1> HIDE DEF w
<1>3. Append(u \o w, v[i]) = (u \o w) \o <<v[i]>>
  <2>1. u \o w \in Seq(Seg)
    BY <1>1
  <2> QED BY <1>1, <2>1, AppendIsConcat
<1>4. (u \o w) \o <<v[i]>> = u \o (w \o <<v[i]>>)
  BY <1>1, ConcatSegs
<1> QED BY <1>2, <1>3, <1>4 DEF w

LEMMA UnackedIs ==
  ASSUME NEW c \in Pcb, NEW a \in Nat, NEW b \in Nat, NEW e \in Nat,
         Chain(c.unacked, a, b), Chain(c.unsent, b, e), 2 * (e - a) < SeqSpace,
         NEW k \in 0..Len(c.unsent)
  PROVE  UnackedAfter(c, k) = c.unacked \o SubSeq(c.unsent, 1, k)
<1> DEFINE u == c.unacked
           v == c.unsent
           h == [i \in 0..k |-> u \o SubSeq(v, 1, i)]
           F(g) == [i \in 0..k |-> IF i = 0 THEN u ELSE OnUnacked(g[i - 1], v[i])]
           g == CHOOSE x : x = F(x)
<1>1. u \in Seq(Seg) /\ v \in Seq(Seg) /\ k \in Nat /\ k <= Len(v) /\ Len(v) \in Nat
  <2>1. u \in Seq(Seg) /\ v \in Seq(Seg)
    BY DEF Pcb
  <2>2. Len(v) \in Nat
    BY <2>1, EmptyLen
  <2> QED BY <2>1, <2>2
<1>2. UnackedAfter(c, k) = g[k]
  BY DEF UnackedAfter
<1>3. Chain(u, a, b) /\ Chain(v, b, e)
  OBVIOUS
<1> HIDE DEF u, v
<1>4. ASSUME NEW i \in 1..k
      PROVE  h[i] = OnUnacked(h[i - 1], v[i])
  <2> DEFINE w == SubSeq(v, 1, i - 1)
             q == u \o w
  <2>1. i - 1 \in 0..Len(v) /\ i \in 1..Len(v) /\ i - 1 \in 0..k /\ i \in 0..k
    BY <1>1
  <2>2. /\ Cursor(v, b, i - 1) \in Nat
        /\ Chain(w, b, Cursor(v, b, i - 1))
    BY <1>1, <1>3, <2>1, ChainSplit
  <2>3. w \in Seq(Seg) /\ q \in Seq(Seg)
    <3>1. w \in Seq(Seg)
      BY <1>1, <2>1
    <3> HIDE DEF w
    <3> QED BY <1>1, <3>1
  <2>4. Chain(q, a, Cursor(v, b, i - 1))
    BY <1>1, <1>3, <2>2, <2>3, ChainConcat
  <2>5. /\ v[i] \in Seg /\ b <= Off(v[i].seq) /\ Off(v[i].seq) <= End(v[i]) /\ End(v[i]) <= e
        /\ Off(v[i].seq) \in Nat /\ End(v[i]) \in Nat
    BY <1>1, <1>3, <2>1, ChainAt
  <2>6. Cursor(v, b, i - 1) <= Off(v[i].seq)
    <3>1. CASE i = 1
      BY <2>5, <3>1 DEF Cursor
    <3>2. CASE i # 1
      <4>1. i - 1 \in 1..Len(v) /\ i - 1 < i /\ i - 1 # 0
        BY <2>1, <3>2
      <4>2. End(v[i - 1]) <= Off(v[i].seq)
        BY <1>3, <2>1, <4>1 DEF Chain
      <4> QED BY <4>1, <4>2 DEF Cursor
    <3> QED BY <3>1, <3>2
  <2>7. 2 * (Off(v[i].seq) - a) < SeqSpace
    BY <2>5, Sizes
  <2>8. OnUnacked(q, v[i]) = Append(q, v[i])
    <3> HIDE DEF q
    <3> QED BY <2>2, <2>3, <2>4, <2>5, <2>6, <2>7, OnUnackedAppends
  <2>9. Append(q, v[i]) = u \o SubSeq(v, 1, i)
    BY <1>1, <2>1, OneMore
  <2> QED BY <2>1, <2>8, <2>9
<1>5. h[0] = u
  BY <1>1
<1>6. h = F(h)
  <2>1. ASSUME NEW i \in 0..k
        PROVE  h[i] = IF i = 0 THEN u ELSE OnUnacked(h[i - 1], v[i])
    <3>1. CASE i = 0
      BY <1>5, <3>1
    <3>2. CASE i # 0
      <4>1. i \in 1..k
        BY <1>1, <3>2
      <4> QED BY <1>4, <3>2, <4>1
    <3> QED BY <3>1, <3>2
  <2>2. h = [i \in 0..k |-> h[i]]
    OBVIOUS
  <2> HIDE DEF h
  <2> QED BY <2>1, <2>2
<1> HIDE DEF h, F
<1>7. g = F(g)
  BY <1>6
<1> HIDE DEF g
<1>8. /\ g[0] = u
      /\ \A i \in 1..k : g[i] = OnUnacked(g[i - 1], v[i])
  <2>1. \A i \in 0..k : g[i] = IF i = 0 THEN u ELSE OnUnacked(g[i - 1], v[i])
    BY <1>7, Zenon DEF F
  <2>2. 0 \in 0..k /\ \A i \in 1..k : i \in 0..k /\ i # 0
    BY <1>1
  <2> QED BY <2>1, <2>2
<1> DEFINE G == {i \in 0..k : g[i] = h[i]}
<1>9. 0 \in G
  BY <1>1, <1>5, <1>8
<1>10. ASSUME NEW i \in 0..k - 1, i \in G
       PROVE  i + 1 \in G
  <2>1. i + 1 \in 1..k /\ (i + 1) - 1 = i /\ i + 1 \in 0..k
    BY <1>1
  <2> QED BY <1>4, <1>8, <1>10, <2>1
<1> HIDE DEF G
<1>11. 0..k \subseteq G
  BY <1>1, <1>9, <1>10, Induct
<1>12. g[k] = h[k] /\ k \in 0..k
  BY <1>1, <1>11 DEF G
<1>13. h[k] = u \o SubSeq(v, 1, k)
  BY <1>12 DEF h
<1> QED BY <1>2, <1>12, <1>13 DEF u, v

\* A set of numbers closed downwards is an interval.
LEMMA Prefix ==
  ASSUME NEW n \in Nat, NEW D \in SUBSET (0..n), 0 \in D, \A k \in D : \A j \in 0..k : j \in D
  PROVE  \E m \in 0..n : D = 0..m /\ Cardinality(D) = m + 1
<1> DEFINE T == {k \in Nat : k \notin D}
<1>1. T \in SUBSET Nat /\ n + 1 \in T
  OBVIOUS
<1>2. PICK t \in T : \A k \in T : t <= k
  BY <1>1, NatMin
<1>3. t \in Nat /\ t \notin D /\ t # 0 /\ t <= n + 1
  BY <1>1, <1>2
<1>4. ASSUME NEW j \in 0..t - 1
      PROVE  j \in D
  BY <1>2, <1>3
<1>5. ASSUME NEW j \in D
      PROVE  j \in 0..t - 1
  <2>1. j \in Nat /\ ~(t \in 0..j)
    BY <1>3
  <2> QED BY <1>3, <2>1
<1>6. D = 0..t - 1
  BY <1>4, <1>5
<1>7. 0 \in Int /\ t - 1 \in Int /\ t - 1 \in 0..n
  BY <1>3
<1>8. Cardinality(0..t - 1) = t
  <2>1. Cardinality(0..t - 1) = IF 0 > t - 1 THEN 0 ELSE (t - 1) - 0 + 1
    BY <1>7, FS_Interval
  <2> QED BY <1>3, <2>1
<1> QED BY <1>3, <1>6, <1>7, <1>8

\* The segments t_tcp_output sends are the first ones, each inside the window.
LEMMA SendableIs ==
  ASSUME NEW c \in Pcb
  PROVE  /\ Sendable(c) \in 0..Len(c.unsent) /\ Len(c.unsent) \in Nat
         /\ \A i \in 1..Sendable(c) : Within(c, c.unsent[i])
         /\ BareAck(c) => Sendable(c) = 0
<1> DEFINE n == Len(c.unsent)
           D == {k \in 0..n : \A i \in 1..k : Within(c, c.unsent[i])}
<1>1. n \in Nat
  BY EmptyLen DEF Pcb
<1> HIDE DEF n
<1>2. D \in SUBSET (0..n) /\ 0 \in D
  BY <1>1
<1>3. ASSUME NEW k \in D, NEW j \in 0..k
      PROVE  j \in D
  <2>1. k \in 0..n /\ j \in 0..n /\ 1..j \subseteq 1..k
    BY <1>1
  <2> QED BY <2>1
<1>4. Sendable(c) = IF BareAck(c) THEN 0 ELSE Cardinality(D) - 1
  BY DEF Sendable, n
<1>5. \E m \in 0..n : D = 0..m /\ Cardinality(D) = m + 1
  <2> HIDE DEF D
  <2> QED BY <1>1, <1>2, <1>3, Prefix
<1>6. PICK m \in 0..n : D = 0..m /\ Cardinality(D) = m + 1
  BY <1>5
<1>7. m \in D
  BY <1>6
<1>8. \A i \in 1..m : Within(c, c.unsent[i])
  BY <1>7
<1>9. Sendable(c) = IF BareAck(c) THEN 0 ELSE m
  BY <1>4, <1>6
<1> QED BY <1>1, <1>8, <1>9 DEF n

LEMMA PcbFacts ==
  ASSUME NEW c \in Pcb
  PROVE  /\ c.unsent \in Seq(Seg) /\ c.unacked \in Seq(Seg)
         /\ c.lastack \in Sq /\ c.snd_nxt \in Sq /\ c.snd_lbb \in Sq /\ c.rcv_nxt \in Sq
         /\ c.snd_buf \in Nat /\ c.snd_queuelen \in Nat
         /\ c.snd_wnd \in Nat /\ c.cwnd \in Nat /\ c.mss \in Nat
         /\ c.ack_now \in BOOLEAN /\ c.local_ip \in BOOLEAN
         /\ c.state \in {"CLOSED", "SYN_SENT", "ESTABLISHED"}
  BY DEF Pcb

LEMMA PcbOffs ==
  ASSUME NEW c \in Pcb
  PROVE  Off(c.lastack) \in Nat /\ Off(c.snd_nxt) \in Nat /\ Off(c.snd_lbb) \in Nat
  BY PcbFacts, OffType

LEMMA LeastIs ==
  ASSUME NEW a \in Nat, NEW b \in Nat
  PROVE  Least(a, b) \in Nat /\ Least(a, b) <= a /\ Least(a, b) <= b /\ Least(a, b) \in {a, b}
  BY DEF Least

LEMMA WithinIs ==
  ASSUME NEW c \in Pcb, NEW s \in Seg, Off(c.lastack) <= Off(s.seq),
         Off(s.seq) - Off(c.lastack) + s.len < SeqSpace
  PROVE  Within(c, s) <=> Off(s.seq) - Off(c.lastack) + s.len <= Least(c.snd_wnd, c.cwnd)
<1> DEFINE d == Off(s.seq) - Off(c.lastack)
<1>1. /\ s.seq \in Sq /\ c.lastack \in Sq /\ s.len \in Nat
      /\ Off(s.seq) \in Nat /\ Off(c.lastack) \in Nat
  BY SegFacts, PcbFacts, PcbOffs
<1>2. Minus(s.seq, c.lastack) = d
  BY <1>1, OffMinus
<1>3. d \in Nat /\ d + s.len < SeqSpace /\ SeqSpace \in Nat
  BY <1>1, Before
<1> HIDE DEF d
<1>4. d \in Sq /\ s.len < SeqSpace
  BY <1>1, <1>3 DEF Sq
<1>5. Plus(d, s.len) = d + s.len
  BY <1>1, <1>3, <1>4, PlusIs
<1>6. Within(c, s) <=> d + s.len <= Least(c.snd_wnd, c.cwnd)
  BY <1>2, <1>5 DEF Within
<1> QED BY <1>6 DEF d

\* A connection never uses more than SND_BUF and the SYN of the sequence space.
LEMMA Short ==
  ASSUME NEW c \in Pcb, Conn(c)
  PROVE  /\ Off(c.lastack) \in {0, 1}
         /\ Off(c.lastack) <= Off(c.snd_nxt) /\ Off(c.snd_nxt) <= Off(c.snd_lbb)
         /\ Off(c.snd_lbb) = SND_BUF - c.snd_buf + Off(c.lastack)
         /\ Off(c.snd_lbb) <= SND_BUF + 1
         /\ 2 * (Off(c.snd_lbb) + MSS) < SeqSpace
<1>1. Off(c.lastack) \in {0, 1}
  <2>1. c.state \in {"SYN_SENT", "ESTABLISHED"}
    BY PcbFacts DEF Conn
  <2>2. c.lastack = Minus(ISS, 1) \/ c.lastack = ISS
    BY <2>1 DEF Conn, SynOut, Open
  <2> QED BY <2>2, Before
<1>2. /\ Off(c.lastack) <= Off(c.snd_nxt) /\ Off(c.snd_nxt) <= Off(c.snd_lbb)
      /\ c.snd_buf + Off(c.snd_lbb) - Off(c.lastack) = SND_BUF
  BY DEF Conn, Chain
<1>3. /\ c.snd_buf \in Nat /\ Off(c.snd_lbb) \in Nat /\ SND_BUF \in Nat /\ MSS \in Nat
      /\ SeqSpace \in Nat /\ 2 * (SND_BUF + MSS + 2) < SeqSpace
  BY PcbFacts, PcbOffs, Sizes
<1> QED BY <1>1, <1>2, <1>3

\* What is queued lies between lastack and snd_lbb.
LEMMA Unsent ==
  ASSUME NEW c \in Pcb, Conn(c), NEW i \in 1..Len(c.unsent)
  PROVE  LET s == c.unsent[i] IN
         /\ s \in Seg /\ ~s.syn /\ s.len >= 1 /\ s.len \in Nat
         /\ Off(s.seq) \in Nat /\ End(s) = Off(s.seq) + s.len
         /\ Off(c.snd_nxt) <= Off(s.seq) /\ End(s) <= Off(c.snd_lbb)
         /\ Within(c, s) <=> Off(s.seq) - Off(c.lastack) + s.len <= Least(c.snd_wnd, c.cwnd)
<1> DEFINE s == c.unsent[i]
<1>1. /\ s \in Seg /\ Off(s.seq) \in Nat /\ End(s) \in Nat
      /\ Off(c.snd_nxt) <= Off(s.seq) /\ End(s) <= Off(c.snd_lbb)
  <2>1. Chain(c.unsent, Off(c.snd_nxt), Off(c.snd_lbb))
    BY DEF Conn
  <2> QED BY <2>1, PcbFacts, PcbOffs, ChainAt
<1>2. ~s.syn /\ s.len >= 1
  BY DEF Conn, Data
<1> HIDE DEF s
<1>3. s.len \in Nat /\ End(s) = Off(s.seq) + s.len
  BY <1>1, <1>2, SegFacts
<1>4. /\ Off(c.lastack) <= Off(s.seq) /\ Off(s.seq) - Off(c.lastack) + s.len < SeqSpace
  <2>1. /\ Off(c.lastack) \in Nat /\ Off(c.snd_nxt) \in Nat /\ Off(c.snd_lbb) \in Nat
        /\ MSS \in Nat /\ SeqSpace \in Nat
    BY PcbOffs, Sizes
  <2>2. Off(c.lastack) <= Off(c.snd_nxt) /\ 2 * (Off(c.snd_lbb) + MSS) < SeqSpace
    BY Short
  <2>3. Off(c.snd_lbb) < SeqSpace
    BY <2>1, <2>2
  <2>4. Off(c.lastack) <= Off(s.seq)
    BY <1>1, <2>1, <2>2
  <2>5. Off(s.seq) - Off(c.lastack) + s.len <= Off(s.seq) + s.len
    BY <1>1, <1>3, <2>1
  <2> QED BY <1>1, <1>3, <2>1, <2>3, <2>4, <2>5
<1>5. Within(c, s) <=> Off(s.seq) - Off(c.lastack) + s.len <= Least(c.snd_wnd, c.cwnd)
  BY <1>1, <1>4, WithinIs
<1> QED BY <1>1, <1>2, <1>3, <1>5 DEF s

\* cwnd 1 keeps data back until the SYN is answered.
LEMMA NothingBeforeTheAnswer ==
  ASSUME NEW c \in Pcb, Conn(c), c.state = "SYN_SENT"
  PROVE  Sendable(c) = 0 /\ ~BareAck(c)
<1>1. SynOut(c)
  BY DEF Conn
<1>2. ~BareAck(c)
  BY <1>1 DEF SynOut, BareAck
<1>3. ASSUME Sendable(c) # 0
      PROVE  FALSE
  <2>1. 1 \in 1..Sendable(c) /\ 1 \in 1..Len(c.unsent)
    BY <1>3, SendableIs
  <2>2. Within(c, c.unsent[1])
    BY <2>1, SendableIs
  <2>3. /\ Off(c.unsent[1].seq) \in Nat /\ c.unsent[1].len \in Nat /\ c.unsent[1].len >= 1
        /\ Off(c.snd_nxt) <= Off(c.unsent[1].seq)
        /\ Off(c.unsent[1].seq) - Off(c.lastack) + c.unsent[1].len <= Least(c.snd_wnd, c.cwnd)
    BY <2>1, <2>2, Unsent
  <2>4. Off(c.snd_nxt) = 1 /\ Off(c.lastack) = 0 /\ c.cwnd = 1 /\ c.snd_wnd \in Nat
    BY <1>1, Before, PcbFacts DEF SynOut
  <2>5. Least(c.snd_wnd, c.cwnd) <= 1 /\ Least(c.snd_wnd, c.cwnd) \in Nat
    BY <2>4, LeastIs
  <2> QED BY <2>3, <2>4, <2>5
<1> QED BY <1>2, <1>3

\* The fields t_tcp_output sets when it looks at unsent.
LEMMA OutputFields ==
  ASSUME NEW c \in Pcb, NEW p, ~BareAck(c), NEW k, k = Sendable(c)
  PROVE  LET o == t_tcp_output(c, p)
             out == SubSeq(c.unsent, 1, k)
         IN /\ o.pcb = [c EXCEPT !.unsent = SubSeq(@, k + 1, Len(@)),
                                 !.unacked = UnackedAfter(c, k),
                                 !.snd_nxt = IF k = 0 THEN @ ELSE Plus(out[k].seq, TCPLEN(out[k])),
                                 !.ack_now = AckPending(c),
                                 !.local_ip = @ \/ k > 0]
            /\ o.out = {OnWire(c, out[i]) : i \in 1..k}
  BY Zenon DEF t_tcp_output

LEMMA BareAckFields ==
  ASSUME NEW c \in Pcb, NEW p, BareAck(c)
  PROVE  LET o == t_tcp_output(c, p)
         IN \/ o.pcb = c
            \/ /\ o.pcb = [c EXCEPT !.ack_now = FALSE]
               /\ o.out = {[seq |-> c.snd_nxt, len |-> 0, syn |-> FALSE, ack |-> TRUE]}
<1>1. CASE p.buf = 0
  BY <1>1, Zenon DEF t_tcp_output
<1>2. CASE p.buf # 0
  BY <1>2, Zenon DEF t_tcp_output
<1> QED BY <1>1, <1>2

\* Where snd_nxt goes.
LEMMA NextIs ==
  ASSUME NEW c \in Pcb, NEW k \in 1..Len(c.unsent), End(c.unsent[k]) < SeqSpace
  PROVE  LET out == SubSeq(c.unsent, 1, k)
             x   == Plus(out[k].seq, TCPLEN(out[k]))
         IN x \in Sq /\ Off(x) = End(c.unsent[k]) /\ out[k] = c.unsent[k]
<1> DEFINE s == c.unsent[k]
<1>1. c.unsent \in Seq(Seg) /\ SubSeq(c.unsent, 1, k)[k] = s /\ s \in Seg
  <2>1. c.unsent \in Seq(Seg)
    BY PcbFacts
  <2> QED BY <2>1
<1>2. s.seq \in Sq /\ TCPLEN(s) \in Nat /\ End(s) = Off(s.seq) + TCPLEN(s)
  BY <1>1, SegFacts
<1> HIDE DEF s
<1>3. End(s) < SeqSpace
  BY DEF s
<1>4. Plus(s.seq, TCPLEN(s)) \in Sq /\ Off(Plus(s.seq, TCPLEN(s))) = End(s)
  BY <1>2, <1>3, OffPlus
<1> QED BY <1>1, <1>4 DEF s

(***************************************************************************)
(* Sequences cut in two and put together again.                            *)
(***************************************************************************)

LEMMA SplitFacts ==
  ASSUME NEW q \in Seq(Seg), NEW k \in 0..Len(q)
  PROVE  LET f == SubSeq(q, 1, k)
             g == SubSeq(q, k + 1, Len(q))
         IN /\ f \in Seq(Seg) /\ Len(f) = k /\ \A i \in 1..k : f[i] = q[i]
            /\ g \in Seq(Seg) /\ Len(g) = Len(q) - k
            /\ \A i \in 1..Len(g) : \E j \in 1..Len(q) : g[i] = q[j]
            /\ k = 0 => f = <<>> /\ g = q
<1> DEFINE f == SubSeq(q, 1, k)
           g == SubSeq(q, k + 1, Len(q))
<1>1. f \in Seq(Seg) /\ Len(f) = k /\ \A i \in 1..k : f[i] = q[i]
  OBVIOUS
<1>2. /\ g \in Seq(Seg) /\ Len(g) = Len(q) - k
      /\ \A i \in 1..Len(g) : g[i] = q[k + i]
  OBVIOUS
<1>3. ASSUME NEW i \in 1..Len(g)
      PROVE  \E j \in 1..Len(q) : g[i] = q[j]
  <2>1. k + i \in 1..Len(q)
    BY <1>2
  <2> QED BY <1>2, <2>1
<1>4. k = 0 => f = <<>>
  <2> HIDE DEF f
  <2> QED BY <1>1, EmptyLen
<1>5. k = 0 => g = q
  OBVIOUS
<1> HIDE DEF f, g
<1>6. /\ f \in Seq(Seg) /\ Len(f) = k /\ \A i \in 1..k : f[i] = q[i]
      /\ g \in Seq(Seg) /\ Len(g) = Len(q) - k
      /\ \A i \in 1..Len(g) : \E j \in 1..Len(q) : g[i] = q[j]
      /\ k = 0 => f = <<>> /\ g = q
  BY <1>1, <1>2, <1>3, <1>4, <1>5
<1> QED BY <1>6, Zenon DEF f, g

LEMMA ConcatFacts ==
  ASSUME NEW q \in Seq(Seg), NEW r \in Seq(Seg)
  PROVE  /\ q \o r \in Seq(Seg) /\ Len(q \o r) = Len(q) + Len(r)
         /\ \A i \in 1..Len(q \o r) : \/ \E j \in 1..Len(q) : (q \o r)[i] = q[j]
                                      \/ \E j \in 1..Len(r) : (q \o r)[i] = r[j]
         /\ r = <<>> => q \o r = q
         /\ q = <<>> => q \o r = r
<1> DEFINE t == q \o r
<1>1. /\ t \in Seq(Seg) /\ Len(t) = Len(q) + Len(r)
      /\ \A i \in 1..Len(q) : t[i] = q[i]
      /\ \A i \in 1..Len(r) : t[Len(q) + i] = r[i]
  OBVIOUS
<1>2. Len(q) \in Nat /\ Len(r) \in Nat
  BY EmptyLen
<1>3. /\ r = <<>> => t = q
      /\ q = <<>> => t = r
  OBVIOUS
<1> HIDE DEF t
<1>4. ASSUME NEW i \in 1..Len(t), i \notin 1..Len(q)
      PROVE  \E j \in 1..Len(r) : t[i] = r[j]
  <2>1. i - Len(q) \in 1..Len(r) /\ Len(q) + (i - Len(q)) = i
    BY <1>1, <1>2, <1>4
  <2> QED BY <1>1, <2>1
<1>5. /\ t \in Seq(Seg) /\ Len(t) = Len(q) + Len(r)
      /\ \A i \in 1..Len(t) : \/ \E j \in 1..Len(q) : t[i] = q[j]
                              \/ \E j \in 1..Len(r) : t[i] = r[j]
  BY <1>1, <1>4
<1> QED BY <1>3, <1>5, Zenon DEF t

\* t_tcp_output's new pcb, once k segments have moved and snd_nxt is x.
Moved(c, k, x) ==
  [c EXCEPT !.unsent = SubSeq(@, k + 1, Len(@)),
            !.unacked = c.unacked \o SubSeq(c.unsent, 1, k),
            !.snd_nxt = x, !.ack_now = AckPending(c), !.local_ip = @ \/ k > 0]

\* The fields t_tcp_output leaves alone.
Same(c, d) ==
  /\ d.state = c.state /\ d.snd_buf = c.snd_buf /\ d.snd_queuelen = c.snd_queuelen
  /\ d.snd_lbb = c.snd_lbb /\ d.lastack = c.lastack /\ d.rcv_nxt = c.rcv_nxt
  /\ d.snd_wnd = c.snd_wnd /\ d.cwnd = c.cwnd /\ d.mss = c.mss
  /\ Len(d.unacked) + Len(d.unsent) = Len(c.unacked) + Len(c.unsent)

LEMMA MovedFacts ==
  ASSUME NEW c \in Pcb, NEW k \in 0..Len(c.unsent), NEW x \in Sq,
         NEW d, d = Moved(c, k, x)
  PROVE  /\ d \in Pcb /\ Same(c, d)
         /\ d.unsent = SubSeq(c.unsent, k + 1, Len(c.unsent))
         /\ d.unacked = c.unacked \o SubSeq(c.unsent, 1, k)
         /\ d.snd_nxt = x /\ (d.ack_now <=> AckPending(c)) /\ (d.local_ip <=> c.local_ip \/ k > 0)
<1> DEFINE v == SubSeq(c.unsent, k + 1, Len(c.unsent))
           f == SubSeq(c.unsent, 1, k)
           u == c.unacked \o f
<1>1. c.unsent \in Seq(Seg) /\ c.unacked \in Seq(Seg)
  BY PcbFacts
<1>2. /\ v \in Seq(Seg) /\ Len(v) = Len(c.unsent) - k
      /\ f \in Seq(Seg) /\ Len(f) = k
  BY <1>1, SplitFacts
<1>3. u \in Seq(Seg) /\ Len(u) = Len(c.unacked) + k
  <2> HIDE DEF f
  <2> QED BY <1>1, <1>2, ConcatFacts
<1>4. Len(c.unsent) \in Nat /\ Len(c.unacked) \in Nat /\ k \in Nat
  BY <1>1, EmptyLen
<1>5. d = [c EXCEPT !.unsent = v, !.unacked = u, !.snd_nxt = x,
                    !.ack_now = AckPending(c), !.local_ip = @ \/ k > 0]
  BY Zenon DEF Moved
<1> HIDE DEF v, u, f
<1>6. d.unsent = v /\ d.unacked = u
  BY <1>5 DEF Pcb
<1>7. /\ d.snd_nxt = x
      /\ d.state = c.state /\ d.snd_buf = c.snd_buf /\ d.snd_queuelen = c.snd_queuelen
      /\ d.snd_lbb = c.snd_lbb /\ d.lastack = c.lastack /\ d.rcv_nxt = c.rcv_nxt
      /\ d.snd_wnd = c.snd_wnd /\ d.cwnd = c.cwnd /\ d.mss = c.mss
  BY <1>5 DEF Pcb
<1>8. (d.ack_now <=> AckPending(c)) /\ (d.local_ip <=> c.local_ip \/ k > 0)
  BY <1>5 DEF Pcb
<1>9. d \in Pcb
  <2>1. AckPending(c) \in BOOLEAN /\ (c.local_ip \/ k > 0) \in BOOLEAN
    BY DEF AckPending
  <2>2. ASSUME NEW a \in BOOLEAN, NEW l \in BOOLEAN
        PROVE  [c EXCEPT !.unsent = v, !.unacked = u, !.snd_nxt = x,
                         !.ack_now = a, !.local_ip = l] \in Pcb
    BY <1>2, <1>3 DEF Pcb
  <2> QED BY <1>5, <2>1, <2>2, Zenon
<1>10. Len(d.unacked) + Len(d.unsent) = Len(c.unacked) + Len(c.unsent)
  <2>1. ASSUME NEW i \in Nat, NEW j \in Nat, k \in Nat
        PROVE  (i + k) + (j - k) = i + j
    BY <2>1
  <2>2. Len(d.unacked) = Len(c.unacked) + k /\ Len(d.unsent) = Len(c.unsent) - k
    BY <1>2, <1>3, <1>6, Zenon
  <2> QED BY <1>4, <2>1, <2>2, Zenon
<1>11. Same(c, d)
  BY <1>7, <1>10 DEF Same
<1> QED BY <1>6, <1>7, <1>8, <1>9, <1>11 DEF v, u, f

\* A call that looks at unsent ends in such a pcb.
LEMMA OutputMoves ==
  ASSUME NEW c \in Pcb, NEW p, ~BareAck(c), NEW a \in Nat, NEW b \in Nat, NEW e \in Nat,
         Chain(c.unacked, a, b), Chain(c.unsent, b, e), 2 * (e - a) < SeqSpace, e < SeqSpace
  PROVE  LET o == t_tcp_output(c, p)
             k == Sendable(c)
         IN \E x \in Sq :
              /\ o.pcb = Moved(c, k, x)
              /\ k = 0 => x = c.snd_nxt
              /\ k # 0 => Off(x) = End(c.unsent[k])
<1> DEFINE k == Sendable(c)
           out == SubSeq(c.unsent, 1, k)
           y == Plus(out[k].seq, TCPLEN(out[k]))
           x == IF k = 0 THEN c.snd_nxt ELSE y
<1>1. k \in 0..Len(c.unsent) /\ c.unsent \in Seq(Seg) /\ Len(c.unsent) \in Nat /\ c.snd_nxt \in Sq
  BY SendableIs, PcbFacts
<1>2. k # 0 => y \in Sq /\ Off(y) = End(c.unsent[k])
  <2>1. SUFFICES ASSUME k # 0
                 PROVE  y \in Sq /\ Off(y) = End(c.unsent[k])
    OBVIOUS
  <2>2. k \in 1..Len(c.unsent)
    BY <1>1, <2>1
  <2> HIDE DEF k
  <2>3. End(c.unsent[k]) <= e /\ End(c.unsent[k]) \in Nat
    BY <1>1, <2>2, ChainAt
  <2>4. End(c.unsent[k]) < SeqSpace
    BY <2>3, Sizes
  <2> QED BY <2>2, <2>4, NextIs
<1>3. UnackedAfter(c, k) = c.unacked \o out
  <2> HIDE DEF k
  <2> QED BY <1>1, UnackedIs
<1>4. t_tcp_output(c, p).pcb =
        [c EXCEPT !.unsent = SubSeq(@, k + 1, Len(@)), !.unacked = UnackedAfter(c, k),
                  !.snd_nxt = IF k = 0 THEN @ ELSE y,
                  !.ack_now = AckPending(c), !.local_ip = @ \/ k > 0]
  BY OutputFields, Zenon
<1>5. t_tcp_output(c, p).pcb = Moved(c, k, x)
  BY <1>3, <1>4, Zenon DEF Moved
<1> HIDE DEF y, k, out
<1>6. x \in Sq /\ (k = 0 => x = c.snd_nxt) /\ (k # 0 => Off(x) = End(c.unsent[k]))
  BY <1>1, <1>2
<1> HIDE DEF x
<1> QED BY <1>5, <1>6 DEF k

\* Moving segments that lie inside the window keeps a connection in order.
LEMMA PrefixConn ==
  ASSUME NEW c \in Pcb, Conn(c), NEW k \in 0..Len(c.unsent), NEW x \in Sq, NEW d, Same(c, d),
         d.unsent = SubSeq(c.unsent, k + 1, Len(c.unsent)),
         d.unacked = c.unacked \o SubSeq(c.unsent, 1, k),
         d.snd_nxt = x, d.local_ip,
         k = 0 => x = c.snd_nxt,
         k # 0 => Off(x) = End(c.unsent[k]),
         \A i \in 1..k : Within(c, c.unsent[i]),
         c.state = "SYN_SENT" => k = 0 /\ ~d.ack_now
  PROVE  Conn(d)
<1> DEFINE f == SubSeq(c.unsent, 1, k)
           g == SubSeq(c.unsent, k + 1, Len(c.unsent))
           u == c.unacked \o f
           m == Cursor(c.unsent, Off(c.snd_nxt), k)
<1>1. c.unsent \in Seq(Seg) /\ c.unacked \in Seq(Seg)
  BY PcbFacts
<1>2. /\ f \in Seq(Seg) /\ Len(f) = k /\ \A i \in 1..k : f[i] = c.unsent[i]
      /\ g \in Seq(Seg) /\ Len(g) = Len(c.unsent) - k
      /\ \A i \in 1..Len(g) : \E j \in 1..Len(c.unsent) : g[i] = c.unsent[j]
      /\ k = 0 => f = <<>> /\ g = c.unsent
  BY <1>1, SplitFacts
<1>3. d.unsent = g /\ d.unacked = u
  OBVIOUS
<1>4. /\ d.state = c.state /\ d.snd_buf = c.snd_buf /\ d.snd_queuelen = c.snd_queuelen
      /\ d.snd_lbb = c.snd_lbb /\ d.lastack = c.lastack
      /\ d.snd_wnd = c.snd_wnd /\ d.cwnd = c.cwnd
      /\ Len(d.unacked) + Len(d.unsent) = Len(c.unacked) + Len(c.unsent)
  BY DEF Same
<1>5. /\ Off(c.lastack) \in Nat /\ Off(c.snd_nxt) \in Nat /\ Off(c.snd_lbb) \in Nat
      /\ Chain(c.unacked, Off(c.lastack), Off(c.snd_nxt))
      /\ Chain(c.unsent, Off(c.snd_nxt), Off(c.snd_lbb))
  BY PcbOffs DEF Conn
<1>6. /\ m \in Nat /\ Chain(f, Off(c.snd_nxt), m) /\ Chain(g, m, Off(c.snd_lbb))
  BY <1>1, <1>5, ChainSplit
<1>7. Off(x) = m
  BY DEF Cursor
<1> HIDE DEF f, g, m
<1>8. Chain(u, Off(c.lastack), m)
  BY <1>1, <1>2, <1>5, <1>6, ChainConcat
<1>9. /\ u \in Seq(Seg) /\ Len(u) = Len(c.unacked) + k
      /\ \A i \in 1..Len(u) : \/ \E j \in 1..Len(c.unacked) : u[i] = c.unacked[j]
                              \/ \E j \in 1..k : u[i] = c.unsent[j]
      /\ k = 0 => u = c.unacked
  <2>1. /\ u \in Seq(Seg) /\ Len(u) = Len(c.unacked) + Len(f)
        /\ \A i \in 1..Len(u) : \/ \E j \in 1..Len(c.unacked) : u[i] = c.unacked[j]
                                \/ \E j \in 1..Len(f) : u[i] = f[j]
        /\ f = <<>> => u = c.unacked
    <3>1. f \in Seq(Seg)
      BY <1>2
    <3> QED BY <1>1, <3>1, ConcatFacts
  <2> HIDE DEF u
  <2>2. Len(f) = k
    BY <1>2
  <2>3. ASSUME NEW j \in 1..Len(f)
        PROVE  j \in 1..k /\ f[j] = c.unsent[j]
    BY <1>2
  <2>4. ASSUME NEW i \in 1..Len(u)
        PROVE  \/ \E j \in 1..Len(c.unacked) : u[i] = c.unacked[j]
               \/ \E j \in 1..k : u[i] = c.unsent[j]
    BY <2>1, <2>3, Zenon
  <2>5. k = 0 => u = c.unacked
    BY <1>2, <2>1
  <2> QED BY <2>1, <2>2, <2>4, <2>5, Zenon
<1>10. k \in Nat /\ Len(c.unsent) \in Nat /\ Len(c.unacked) \in Nat
  BY <1>1, EmptyLen
<1>11. \A j \in 1..k : j \in 1..Len(c.unsent)
  BY <1>10
<1> HIDE DEF u
<1>12. \A j \in 1..Len(c.unsent) : ~c.unsent[j].syn /\ c.unsent[j].len >= 1
  BY DEF Conn, Data
<1>13. Data(g)
  <2>1. \A i \in 1..Len(g) : \E j \in 1..Len(c.unsent) : g[i] = c.unsent[j]
    BY <1>2
  <2> QED BY <1>12, <2>1, Zenon DEF Data
<1>14. InFlight(d)
  <2>1. ASSUME NEW i \in 1..Len(u)
        PROVE  Off(u[i].seq) - Off(c.lastack) + u[i].len <= Least(c.snd_wnd, c.cwnd)
    <3>1. CASE \E j \in 1..Len(c.unacked) : u[i] = c.unacked[j]
      BY <3>1, Zenon DEF Conn, InFlight
    <3>2. CASE \E j \in 1..k : u[i] = c.unsent[j]
      <4>1. PICK j \in 1..k : u[i] = c.unsent[j]
        BY <3>2
      <4>2. j \in 1..Len(c.unsent) /\ Within(c, c.unsent[j])
        BY <1>11
      <4>3. Off(c.unsent[j].seq) - Off(c.lastack) + c.unsent[j].len <= Least(c.snd_wnd, c.cwnd)
        BY <4>2, Unsent
      <4> QED BY <4>1, <4>3
    <3> QED BY <1>9, <3>1, <3>2
  <2> QED BY <1>3, <1>4, <2>1 DEF InFlight
<1>15. c.state = "SYN_SENT" => SynOut(d)
  <2>1. SUFFICES ASSUME c.state = "SYN_SENT"
                 PROVE  SynOut(d)
    OBVIOUS
  <2>2. SynOut(c) /\ k = 0 /\ ~d.ack_now
    BY <2>1 DEF Conn
  <2>3. d.unsent = c.unsent /\ d.unacked = c.unacked /\ d.snd_nxt = c.snd_nxt
    BY <1>2, <1>3, <1>9, <2>2
  <2> QED BY <1>4, <2>2, <2>3, Zenon DEF SynOut
<1>16. c.state = "ESTABLISHED" => Open(d)
  <2>1. SUFFICES ASSUME c.state = "ESTABLISHED"
                 PROVE  Open(d)
    OBVIOUS
  <2>2. Open(c)
    BY <2>1 DEF Conn
  <2>3. Data(u)
    BY <1>9, <1>11, <1>12, <2>2 DEF Open, Data
  <2>4. u = <<>> /\ g = <<>> => c.unacked = <<>> /\ c.unsent = <<>>
    <3>1. u = <<>> /\ g = <<>> => Len(c.unacked) + k = 0 /\ Len(c.unsent) - k = 0
      BY <1>2, <1>9, EmptyLen
    <3>2. u = <<>> /\ g = <<>> => Len(c.unacked) = 0 /\ Len(c.unsent) = 0
      BY <1>10, <3>1
    <3> QED BY <1>1, <3>2, EmptyLen
  <2> QED BY <1>3, <1>4, <2>2, <2>3, <2>4 DEF Open
<1>17. /\ c.state # "CLOSED"
       /\ c.snd_buf + Off(c.snd_lbb) - Off(c.lastack) = SND_BUF
       /\ Len(c.unacked) + Len(c.unsent) <= c.snd_queuelen
  BY DEF Conn
<1>18. /\ Chain(d.unacked, Off(d.lastack), Off(d.snd_nxt))
       /\ Chain(d.unsent, Off(d.snd_nxt), Off(d.snd_lbb))
  BY <1>3, <1>4, <1>6, <1>7, <1>8
<1>19. Data(d.unsent)
  BY <1>3, <1>13
<1> QED BY <1>4, <1>14, <1>15, <1>16, <1>17, <1>18, <1>19 DEF Conn

(***************************************************************************)
(* t_tcp_output.                                                           *)
(***************************************************************************)

\* The header of an established connection's segment, and a bare one, carry
\* the ACK that is due.
Answers(c, w) == c.state = "ESTABLISHED" => c.ack_now \/ \E s \in w : s.ack

LEMMA OutputKeeps ==
  ASSUME NEW c \in Pcb, Conn(c), NEW p, NEW d, d = t_tcp_output(c, p).pcb
  PROVE  /\ d \in Pcb /\ Conn(d) /\ Same(c, d)
         /\ Off(c.snd_nxt) <= Off(d.snd_nxt)
         /\ c.state = "SYN_SENT" => d.snd_nxt = c.snd_nxt
         /\ ~BareAck(c) => (d.ack_now <=> AckPending(c))
<1>1. CASE BareAck(c)
  <2>1. d = c \/ d = [c EXCEPT !.ack_now = FALSE]
    BY <1>1, BareAckFields, Zenon
  <2>2. CASE d = c
    BY <1>1, <2>2, PcbOffs DEF Same
  <2>3. CASE d = [c EXCEPT !.ack_now = FALSE]
    <3>1. d \in Pcb
      BY <2>3 DEF Pcb
    <3>2. /\ d.state = c.state /\ d.snd_buf = c.snd_buf /\ d.snd_queuelen = c.snd_queuelen
          /\ d.snd_lbb = c.snd_lbb /\ d.lastack = c.lastack /\ d.rcv_nxt = c.rcv_nxt
          /\ d.snd_wnd = c.snd_wnd /\ d.cwnd = c.cwnd /\ d.mss = c.mss
          /\ d.unacked = c.unacked /\ d.unsent = c.unsent /\ d.snd_nxt = c.snd_nxt
      BY <2>3 DEF Pcb
    <3>3. ~d.ack_now /\ (d.local_ip <=> c.local_ip)
      BY <2>3 DEF Pcb
    <3>4. (c.state = "SYN_SENT" => SynOut(d)) /\ (c.state = "ESTABLISHED" => Open(d))
      <4>1. (c.state = "SYN_SENT" => SynOut(c)) /\ (c.state = "ESTABLISHED" => Open(c))
        BY Zenon DEF Conn
      <4>2. SynOut(c) => SynOut(d)
        BY <3>2, <3>3, Zenon DEF SynOut
      <4>3. Open(c) => Open(d)
        BY <3>2, Zenon DEF Open
      <4> QED BY <4>1, <4>2, <4>3, Zenon
    <3>5. InFlight(d)
      <4>1. InFlight(c)
        BY Zenon DEF Conn
      <4> QED BY <3>2, <4>1, Zenon DEF InFlight
    <3>6. Conn(d)
      BY <3>2, <3>3, <3>4, <3>5, Zenon DEF Conn
    <3> QED BY <1>1, <3>1, <3>2, <3>6, PcbOffs DEF Same
  <2> QED BY <2>1, <2>2, <2>3
<1>2. CASE ~BareAck(c)
  <2> DEFINE k == Sendable(c)
  <2>1. /\ Off(c.lastack) \in Nat /\ Off(c.snd_nxt) \in Nat /\ Off(c.snd_lbb) \in Nat
        /\ Chain(c.unacked, Off(c.lastack), Off(c.snd_nxt))
        /\ Chain(c.unsent, Off(c.snd_nxt), Off(c.snd_lbb))
        /\ c.local_ip
    BY PcbOffs DEF Conn
  <2>2. 2 * (Off(c.snd_lbb) - Off(c.lastack)) < SeqSpace /\ Off(c.snd_lbb) < SeqSpace
    <3>1. 2 * (Off(c.snd_lbb) + MSS) < SeqSpace
      BY Short
    <3> QED BY <2>1, <3>1, Sizes
  <2>3. k \in 0..Len(c.unsent) /\ \A i \in 1..k : Within(c, c.unsent[i])
    BY SendableIs
  <2>4. PICK x \in Sq : /\ d = Moved(c, k, x)
                        /\ k = 0 => x = c.snd_nxt
                        /\ k # 0 => Off(x) = End(c.unsent[k])
    BY <1>2, <2>1, <2>2, OutputMoves
  <2>5. c.state = "SYN_SENT" => k = 0 /\ ~c.ack_now
    BY NothingBeforeTheAnswer DEF Conn, SynOut
  <2>6. c.state = "SYN_SENT" => ~AckPending(c)
    BY <2>5 DEF AckPending
  <2>7. Off(c.snd_nxt) <= Off(x)
    <3>1. CASE k = 0
      BY <2>1, <2>4, <3>1
    <3>2. CASE k # 0
      <4>1. k \in 1..Len(c.unsent)
        BY <2>3, <3>2
      <4> HIDE DEF k
      <4>2. Off(c.snd_nxt) <= Off(c.unsent[k].seq) /\ Off(c.unsent[k].seq) <= End(c.unsent[k])
            /\ Off(c.unsent[k].seq) \in Nat /\ End(c.unsent[k]) \in Nat
        BY <2>1, <4>1, PcbFacts, ChainAt
      <4> QED BY <2>1, <2>4, <3>2, <4>2
    <3> QED BY <3>1, <3>2
  <2> HIDE DEF k
  <2>8. /\ d \in Pcb /\ Same(c, d)
        /\ d.unsent = SubSeq(c.unsent, k + 1, Len(c.unsent))
        /\ d.unacked = c.unacked \o SubSeq(c.unsent, 1, k)
        /\ d.snd_nxt = x /\ (d.ack_now <=> AckPending(c)) /\ (d.local_ip <=> c.local_ip \/ k > 0)
    BY <2>3, <2>4, MovedFacts
  <2>9. d.local_ip /\ (c.state = "SYN_SENT" => k = 0 /\ ~d.ack_now)
    BY <2>1, <2>5, <2>6, <2>8
  <2>10. Conn(d)
    BY <2>3, <2>4, <2>8, <2>9, PrefixConn
  <2> QED BY <2>4, <2>5, <2>7, <2>8, <2>10
<1> QED BY <1>1, <1>2

\* The ACK of the SYN|ACK is still due after a call, or on the wire.
LEMMA OutputAnswers ==
  ASSUME NEW c \in Pcb, Conn(c), NEW p, NEW w, Answers(c, w),
         NEW d, d = t_tcp_output(c, p).pcb
  PROVE  Answers(d, w \cup t_tcp_output(c, p).out)
<1> DEFINE o == t_tcp_output(c, p).out
<1>1. SUFFICES ASSUME c.state = "ESTABLISHED", c.ack_now, ~d.ack_now
               PROVE  \E s \in o : s.ack
  <2>1. Same(c, d)
    BY OutputKeeps
  <2> QED BY <2>1 DEF Answers, Same
<1>2. CASE BareAck(c)
  <2>1. d # c
    BY <1>1
  <2>2. o = {[seq |-> c.snd_nxt, len |-> 0, syn |-> FALSE, ack |-> TRUE]}
    BY <1>2, <2>1, BareAckFields, Zenon
  <2> QED BY <2>2
<1>3. CASE ~BareAck(c)
  <2> DEFINE k == Sendable(c)
             out == SubSeq(c.unsent, 1, k)
  <2>1. ~AckPending(c)
    BY <1>1, <1>3, OutputKeeps
  <2>2. k # 0
    BY <1>1, <2>1 DEF AckPending
  <2>3. k \in 0..Len(c.unsent) /\ Len(c.unsent) \in Nat
    BY SendableIs
  <2>4. 1 \in 1..k
    BY <2>2, <2>3
  <2>5. o = {OnWire(c, out[i]) : i \in 1..k}
    BY <1>3, Zenon DEF t_tcp_output
  <2>6. OnWire(c, out[1]) \in o
    BY <2>4, <2>5, Zenon
  <2>7. OnWire(c, out[1]).ack
    BY <1>1 DEF OnWire
  <2> QED BY <2>6, <2>7, Zenon
<1> QED BY <1>2, <1>3

(***************************************************************************)
(* t_tcp_enqueue: the bytes cut into segments, the first perhaps merged.   *)
(***************************************************************************)

LEMMA Times ==
  ASSUME NEW m \in Nat, NEW i \in Nat, NEW j \in Nat, i <= j
  PROVE  i * m \in Nat /\ j * m \in Nat /\ i * m <= j * m /\ (i + 1) * m = i * m + m
<1>1. i * m \in Nat /\ (i + 1) * m = i * m + m
  OBVIOUS
<1>2. PICK k \in Nat : j = i + k
  <2>1. j - i \in Nat /\ j = i + (j - i)
    OBVIOUS
  <2> QED BY <2>1
<1>3. (i + k) * m = i * m + k * m /\ k * m \in Nat
  OBVIOUS
<1> QED BY <1>1, <1>2, <1>3

LEMMA CountIs ==
  ASSUME NEW m \in Nat, m >= 1, NEW len \in Nat, len >= 1
  PROVE  LET n == (len + m - 1) \div m
         IN n \in Nat /\ n >= 1 /\ (n - 1) * m < len /\ len <= n * m
<1> DEFINE x == len + m - 1
           n == x \div m
<1>1. x \in Nat /\ x >= m /\ x = len + m - 1
  OBVIOUS
<1> HIDE DEF x
<1>2. n \in Int /\ n * m <= x /\ x < n * m + m
  BY <1>1
<1>3. n \in Nat /\ n >= 1
  BY <1>1
<1> HIDE DEF n
<1>4. (n - 1) * m = n * m - m
  BY <1>3
<1>5. (n - 1) * m < len /\ len <= n * m
  <2>1. n * m \in Int
    BY <1>3
  <2> QED BY <1>1, <1>2, <1>4, <2>1
<1> QED BY <1>3, <1>5 DEF n, x

LEMMA FunSeq ==
  ASSUME NEW S, NEW n \in Nat, NEW q \in [1..n -> S]
  PROVE  q \in Seq(S) /\ Len(q) = n
<1>1. q \in Seq(S)
  BY SeqDef, Zenon
<1>2. DOMAIN q = 1..n /\ DOMAIN q = 1..Len(q) /\ Len(q) \in Nat
  BY <1>1, LenProperties
<1> QED BY <1>1, <1>2

\* A sequence of segments whose ends are the values of a growing T.
LEMMA LaidOut ==
  ASSUME NEW q \in Seq(Seg), NEW n \in Nat, n >= 1, Len(q) = n, NEW T \in [0..n -> Nat],
         \A i, j \in 0..n : i <= j => T[i] <= T[j],
         \A i \in 1..n : Off(q[i].seq) = T[i - 1] /\ End(q[i]) = T[i]
  PROVE  Chain(q, T[0], T[n])
<1>1. q # <<>>
  BY EmptyLen
<1>2. ASSUME NEW i \in 1..n
      PROVE  /\ i \in 0..n /\ i - 1 \in 0..n /\ 0 <= i - 1 /\ i <= n
             /\ 0 \in 0..n /\ n \in 0..n
  OBVIOUS
<1>3. ASSUME NEW i \in 1..n
      PROVE  T[0] <= Off(q[i].seq) /\ End(q[i]) <= T[n]
  <2>1. T[0] <= T[i - 1] /\ T[i] <= T[n]
    BY <1>2
  <2> QED BY <2>1
<1>4. ASSUME NEW i \in 1..n - 1
      PROVE  End(q[i]) = Off(q[i + 1].seq)
  <2>1. i \in 1..n /\ i + 1 \in 1..n /\ (i + 1) - 1 = i
    OBVIOUS
  <2>2. End(q[i]) = T[i] /\ Off(q[i + 1].seq) = T[(i + 1) - 1]
    BY <2>1
  <2> QED BY <2>1, <2>2
<1>5. ASSUME NEW i \in 1..n, NEW j \in 1..n, i < j
      PROVE  End(q[i]) <= Off(q[j].seq)
  <2>1. i \in 0..n /\ j - 1 \in 0..n /\ i <= j - 1
    BY <1>5
  <2>2. T[i] <= T[j - 1]
    BY <2>1
  <2>3. End(q[i]) = T[i] /\ Off(q[j].seq) = T[j - 1]
    OBVIOUS
  <2> QED BY <2>2, <2>3
<1>6. T[0] <= T[n] /\ 0 \in 0..n /\ n \in 0..n
  OBVIOUS
<1>7. Off(q[1].seq) = T[0] /\ End(q[n]) = T[n]
  <2>1. 1 \in 1..n /\ n \in 1..n /\ 1 - 1 = 0
    OBVIOUS
  <2>2. Off(q[1].seq) = T[1 - 1] /\ End(q[n]) = T[n]
    BY <2>1
  <2> QED BY <2>1, <2>2
<1> QED BY <1>1, <1>3, <1>4, <1>5, <1>6, <1>7 DEF Chain

\* Where the i-th of n segments of len bytes ends.
Cuts(c, len, n) == [i \in 0..n |-> Off(c.snd_lbb) + (IF i = n THEN len ELSE i * c.mss)]

\* They grow from snd_lbb by the segments' lengths.
Growing(T, L, m, len, n) ==
  /\ n \in Nat /\ n >= 1 /\ T \in [0..n -> Nat]
  /\ T[0] = L /\ T[n] = L + len
  /\ \A i, j \in 0..n : i <= j => T[i] <= T[j]
  /\ \A i \in 1..n : /\ (i - 1) * m \in Nat /\ (i - 1) * m < len
                     /\ T[i - 1] = L + (i - 1) * m
                     /\ T[i] = T[i - 1] + Least(m, len - (i - 1) * m)

LEMMA CutsFacts ==
  ASSUME NEW c \in Pcb, c.mss >= 1, NEW len \in Nat, len >= 1,
         NEW n, n = Count(c, len), NEW T, T = Cuts(c, len, n)
  PROVE  Growing(T, Off(c.snd_lbb), c.mss, len, n)
<1> DEFINE m == c.mss
           L == Off(c.snd_lbb)
           U(i) == IF i = n THEN len ELSE i * m
<1>1. m \in Nat /\ m >= 1 /\ L \in Nat
  BY PcbFacts, PcbOffs
<1>2. n = (len + m - 1) \div m
  BY <1>1 DEF Count
<1>3. T = [i \in 0..n |-> L + U(i)]
  BY DEF Cuts
<1> HIDE DEF m, L
<1>4. n \in Nat /\ n >= 1 /\ (n - 1) * m < len /\ len <= n * m
  BY <1>1, <1>2, CountIs
<1> DEFINE k == (n - 1) * m
<1>5. k \in Nat /\ k < len /\ n - 1 \in Nat
  <2>1. n - 1 \in Nat /\ n - 1 <= n - 1
    BY <1>4
  <2>2. k \in Nat
    BY <1>1, <2>1, Times
  <2> QED BY <1>4, <2>1, <2>2
<1>6. ASSUME NEW i \in 0..n, i # n
      PROVE  U(i) = i * m /\ U(i) \in Nat /\ U(i) <= k
  <2>1. i \in Nat /\ i <= n - 1 /\ n - 1 \in Nat
    BY <1>4, <1>6
  <2> QED BY <1>1, <1>6, <2>1, Times
<1> HIDE DEF k
<1>7. ASSUME NEW i \in 0..n
      PROVE  U(i) \in Nat /\ U(i) <= len
  <2>1. CASE i = n
    BY <2>1
  <2>2. CASE i # n
    <3> HIDE DEF U
    <3> QED BY <1>5, <1>6, <2>2
  <2> QED BY <2>1, <2>2
<1>8. ASSUME NEW i \in 0..n, NEW j \in 0..n, i <= j
      PROVE  U(i) <= U(j)
  <2>1. CASE j = n
    <3>1. U(j) = len
      BY <2>1
    <3> HIDE DEF U
    <3> QED BY <1>7, <3>1
  <2>2. CASE j # n
    <3>1. i \in Nat /\ j \in Nat /\ i # n
      BY <1>4, <1>8, <2>2
    <3>2. i * m <= j * m
      BY <1>1, <1>8, <3>1, Times
    <3> QED BY <2>2, <3>1, <3>2
  <2> QED BY <2>1, <2>2
<1>9. U(0) = 0 /\ U(n) = len
  <2>1. 0 * m = 0
    BY <1>1
  <2> QED BY <1>4, <2>1
<1>10. ASSUME NEW i \in 1..n
       PROVE  /\ (i - 1) * m \in Nat /\ (i - 1) * m < len /\ U(i - 1) = (i - 1) * m
              /\ U(i) = (i - 1) * m + Least(m, len - (i - 1) * m)
  <2>1. i - 1 \in 0..n /\ i - 1 # n /\ i - 1 \in Nat /\ (i - 1) + 1 = i /\ i \in 0..n
    BY <1>4
  <2>2. U(i - 1) = (i - 1) * m /\ U(i - 1) \in Nat /\ U(i - 1) <= k
    BY <1>6, <2>1
  <2>3. i * m = (i - 1) * m + m
    BY <1>1, <2>1, Times
  <2>4. i = n => len <= i * m /\ U(i) = len
    BY <1>4
  <2>5. i # n => U(i) = i * m /\ U(i) <= k
    BY <1>6, <2>1
  <2> DEFINE t == (i - 1) * m
             u == i * m
  <2> HIDE DEF U, t, u
  <2>6. t \in Nat /\ t < len /\ u = t + m
    BY <1>5, <2>2, <2>3 DEF t, u
  <2>7. (i = n => len <= u /\ U(i) = len) /\ (i # n => U(i) = u /\ u < len)
    BY <1>1, <1>5, <2>4, <2>5, <2>6 DEF u
  <2>8. U(i) = t + Least(m, len - t)
    BY <1>1, <2>6, <2>7 DEF Least
  <2> QED BY <2>2, <2>6, <2>8 DEF t
<1> HIDE DEF U
<1>11. \A i \in 0..n : T[i] = L + U(i)
  BY <1>3
<1>12. T \in [0..n -> Nat]
  <2>1. \A i \in 0..n : L + U(i) \in Nat
    BY <1>1, <1>7
  <2> QED BY <1>3, <2>1
<1>13. 0 \in 0..n /\ n \in 0..n /\ \A i \in 1..n : i \in 0..n /\ i - 1 \in 0..n
  BY <1>4
<1>14. T[0] = L /\ T[n] = L + len
  BY <1>1, <1>9, <1>11, <1>13
<1>15. ASSUME NEW i \in 0..n, NEW j \in 0..n, i <= j
       PROVE  T[i] <= T[j]
  <2>1. U(i) <= U(j) /\ U(i) \in Nat /\ U(j) \in Nat
    BY <1>7, <1>8, <1>15
  <2> QED BY <1>1, <1>11, <2>1
<1>16. ASSUME NEW i \in 1..n
       PROVE  /\ (i - 1) * m \in Nat /\ (i - 1) * m < len
              /\ T[i - 1] = L + (i - 1) * m
              /\ T[i] = T[i - 1] + Least(m, len - (i - 1) * m)
  <2> DEFINE t == (i - 1) * m
             z == Least(m, len - t)
  <2>1. t \in Nat /\ t < len /\ U(i - 1) = t /\ U(i) = t + z
    BY <1>10
  <2>2. T[i - 1] = L + U(i - 1) /\ T[i] = L + U(i)
    BY <1>11, <1>13
  <2> HIDE DEF t
  <2>3. z \in Int
    BY <1>1, <2>1 DEF Least
  <2> HIDE DEF z
  <2>4. T[i] = T[i - 1] + z
    BY <1>1, <2>1, <2>2, <2>3
  <2> QED BY <2>1, <2>2, <2>4 DEF t, z
<1>17. Growing(T, L, m, len, n)
  BY <1>4, <1>12, <1>14, <1>15, <1>16 DEF Growing
<1> QED BY <1>17 DEF m, L

\* The loop's segments hold the bytes, without gap or overlap.
LEMMA CutIs ==
  ASSUME NEW c \in Pcb, c.mss >= 1, NEW len \in Nat, len >= 1, Off(c.snd_lbb) + len < SeqSpace,
         NEW n, n = Count(c, len), NEW q, q = Cut(c, len, FALSE, n)
  PROVE  /\ n \in Nat /\ n >= 1 /\ q \in Seq(Seg) /\ Len(q) = n /\ Data(q)
         /\ Chain(q, Off(c.snd_lbb), Off(c.snd_lbb) + len)
<1> DEFINE m == c.mss
           L == Off(c.snd_lbb)
           Q(i) == [seq |-> Plus(c.snd_lbb, (i - 1) * m), len |-> Least(m, len - (i - 1) * m),
                    syn |-> FALSE]
<1>1. m \in Nat /\ m >= 1 /\ L \in Nat /\ c.snd_lbb \in Sq /\ SeqSpace \in Nat
  BY PcbFacts, PcbOffs, Sizes
<1>2. PICK T : T = Cuts(c, len, n)
  OBVIOUS
<1>3. Growing(T, L, m, len, n)
  BY <1>2, CutsFacts
<1>4. q = [i \in 1..n |-> Q(i)]
  BY DEF Cut
<1>5. L + len < SeqSpace
  OBVIOUS
<1> HIDE DEF m, L
<1>6. ASSUME NEW i \in 1..n
      PROVE  /\ Q(i) \in Seg /\ ~Q(i).syn /\ Q(i).len >= 1
             /\ Off(Q(i).seq) = T[i - 1] /\ End(Q(i)) = T[i]
  <2> DEFINE t == (i - 1) * m
             z == Least(m, len - t)
             s == Q(i)
  <2>1. t \in Nat /\ t < len /\ T[i - 1] = L + t /\ T[i] = T[i - 1] + z
    BY <1>3 DEF Growing
  <2>2. s = [seq |-> Plus(c.snd_lbb, t), len |-> z, syn |-> FALSE]
    OBVIOUS
  <2> HIDE DEF t, s
  <2>3. z \in Nat /\ z >= 1
    BY <1>1, <2>1 DEF Least
  <2> HIDE DEF z
  <2>4. L + t < SeqSpace
    BY <1>1, <1>5, <2>1
  <2>5. Plus(c.snd_lbb, t) \in Sq /\ Off(Plus(c.snd_lbb, t)) = L + t
    BY <1>1, <2>1, <2>4, OffPlus DEF L
  <2>6. s \in Seg /\ ~s.syn /\ s.len = z /\ Off(s.seq) = L + t
    BY <2>2, <2>3, <2>5 DEF Seg
  <2>7. End(s) = Off(s.seq) + z
    BY <2>6, SegFacts
  <2> QED BY <2>1, <2>3, <2>6, <2>7 DEF s
<1>7. q \in Seq(Seg) /\ Len(q) = n /\ \A i \in 1..n : q[i] = Q(i)
  <2>1. \A i \in 1..n : Q(i) \in Seg
    BY <1>6
  <2> HIDE DEF Q
  <2>2. q \in [1..n -> Seg]
    BY <1>4, <2>1
  <2>3. n \in Nat
    BY <1>3 DEF Growing
  <2>4. q \in Seq(Seg) /\ Len(q) = n
    BY <2>2, <2>3, FunSeq
  <2> QED BY <1>4, <2>4
<1> HIDE DEF Q
<1>8. Data(q)
  <2>1. ASSUME NEW i \in 1..n
        PROVE  ~q[i].syn /\ q[i].len >= 1
    BY <1>6, <1>7
  <2> QED BY <1>7, <2>1 DEF Data
<1>9. \A i \in 1..n : Off(q[i].seq) = T[i - 1] /\ End(q[i]) = T[i]
  BY <1>6, <1>7
<1>10. n \in Nat /\ n >= 1 /\ T \in [0..n -> Nat] /\ \A i, j \in 0..n : i <= j => T[i] <= T[j]
  BY <1>3 DEF Growing
<1>11. Chain(q, T[0], T[n])
  BY <1>7, <1>9, <1>10, LaidOut
<1>12. Chain(q, L, L + len)
  BY <1>3, <1>11 DEF Growing
<1> QED BY <1>7, <1>8, <1>10, <1>12 DEF L

LEMMA ConcatLen ==
  ASSUME NEW q \in Seq(Seg), NEW r \in Seq(Seg)
  PROVE  q \o r \in Seq(Seg) /\ Len(q \o r) = Len(q) + Len(r)
  OBVIOUS

LEMMA ChainEnds ==
  ASSUME NEW q, NEW a, NEW b, Chain(q, a, b), q # <<>>
  PROVE  Off(q[1].seq) = a /\ End(q[Len(q)]) = b
  BY Zenon DEF Chain

LEMMA TailFacts ==
  ASSUME NEW q \in Seq(Seg), Len(q) >= 1
  PROVE  LET z == SubSeq(q, 2, Len(q))
         IN /\ z \in Seq(Seg) /\ Len(z) = Len(q) - 1
            /\ \A i \in 1..Len(z) : \E j \in 1..Len(q) : z[i] = q[j]
<1>1. 1 \in 0..Len(q) /\ 1 + 1 = 2
  BY EmptyLen
<1>2. LET z == SubSeq(q, 1 + 1, Len(q))
      IN /\ z \in Seq(Seg) /\ Len(z) = Len(q) - 1
         /\ \A i \in 1..Len(z) : \E j \in 1..Len(q) : z[i] = q[j]
  BY <1>1, SplitFacts, Zenon
<1> QED BY <1>1, <1>2, Zenon

LEMMA LastFacts ==
  ASSUME NEW q \in Seq(Seg), Len(q) >= 1
  PROVE  LET g == SubSeq(q, Len(q), Len(q)) IN g # <<>> /\ g[1] = q[Len(q)]
<1> DEFINE n == Len(q)
           g == SubSeq(q, n, n)
<1>1. n \in Nat /\ n >= 1
  BY EmptyLen
<1> HIDE DEF n
<1>2. g \in Seq(Seg) /\ Len(g) = 1 /\ g[1] = q[n]
  BY <1>1 DEF n
<1> HIDE DEF g
<1>3. g # <<>>
  <2>1. Len(<<>>) = 0 /\ 1 # 0
    OBVIOUS
  <2> QED BY <1>2, <2>1, Zenon
<1> QED BY <1>2, <1>3 DEF g, n

LEMMA DataConcat ==
  ASSUME NEW q \in Seq(Seg), NEW r \in Seq(Seg), Data(q), Data(r)
  PROVE  Data(q \o r)
<1>1. /\ \A j \in 1..Len(q) : ~q[j].syn /\ q[j].len >= 1
      /\ \A j \in 1..Len(r) : ~r[j].syn /\ r[j].len >= 1
  BY DEF Data
<1>2. ASSUME NEW i \in 1..Len(q \o r)
      PROVE  ~(q \o r)[i].syn /\ (q \o r)[i].len >= 1
  <2> DEFINE s == (q \o r)[i]
  <2>1. \/ \E j \in 1..Len(q) : s = q[j]
        \/ \E j \in 1..Len(r) : s = r[j]
    BY ConcatFacts
  <2> HIDE DEF s
  <2>2. ~s.syn /\ s.len >= 1
    BY <1>1, <2>1, Zenon
  <2> QED BY <2>2 DEF s
<1> QED BY <1>2 DEF Data

LEMMA ChainOne ==
  ASSUME NEW s \in Seg
  PROVE  /\ <<s>> \in Seq(Seg) /\ Len(<<s>>) = 1
         /\ Chain(<<s>>, Off(s.seq), End(s))
         /\ ~s.syn /\ s.len >= 1 => Data(<<s>>)
<1> DEFINE q == <<s>>
<1>1. q \in Seq(Seg) /\ Len(q) = 1 /\ q[1] = s /\ q # <<>>
  OBVIOUS
<1>2. Off(s.seq) \in Nat /\ End(s) \in Nat /\ Off(s.seq) <= End(s)
  BY SegFacts
<1> HIDE DEF q
<1>3. \A i \in 1..1 : i = 1
  OBVIOUS
<1>4. \A i \in 1..Len(q) : q[i] = s
  BY <1>1, <1>3
<1>5. 1..Len(q) - 1 = {} /\ \A i, j \in 1..Len(q) : ~(i < j)
  BY <1>1
<1>6. Chain(q, Off(s.seq), End(s))
  BY <1>1, <1>2, <1>4, <1>5 DEF Chain
<1>7. ~s.syn /\ s.len >= 1 => Data(q)
  BY <1>4 DEF Data
<1> QED BY <1>1, <1>6, <1>7 DEF q

\* Appended, or merged into the last unsent segment, the new bytes follow on.
LEMMA Lengthened ==
  ASSUME NEW t \in Seg, NEW k \in Nat
  PROVE  LET s == [t EXCEPT !.len = @ + k]
         IN s \in Seg /\ s.seq = t.seq /\ s.len = t.len + k /\ s.syn = t.syn
  BY DEF Seg

LEMMA QueuedIs ==
  ASSUME NEW c \in Pcb, NEW q \in Seq(Seg), Len(q) >= 1, NEW b \in Nat, NEW l \in Nat, NEW e \in Nat,
         Chain(c.unsent, b, l), Data(c.unsent), Chain(q, l, e), Data(q),
         NEW r, r = Queued(c, q)
  PROVE  /\ r \in Seq(Seg) /\ Chain(r, b, e) /\ Data(r)
         /\ Len(r) = Len(c.unsent) + Len(q) - (IF Merges(c, q) THEN 1 ELSE 0)
         /\ Len(r) >= 1
<1>1. c.unsent \in Seq(Seg)
  BY PcbFacts
<1>2. Len(q) \in Nat /\ Len(c.unsent) \in Nat
  BY <1>1, EmptyLen
<1>3. CASE ~Merges(c, q)
  <2>1. r = c.unsent \o q
    BY <1>3 DEF Queued
  <2>2. r \in Seq(Seg) /\ Len(r) = Len(c.unsent) + Len(q)
    BY <1>1, <2>1, ConcatFacts
  <2>3. Data(r)
    BY <1>1, <2>1, DataConcat
  <2>4. Chain(r, b, e)
    BY <1>1, <2>1, ChainConcat
  <2> QED BY <1>2, <1>3, <2>2, <2>3, <2>4
<1>4. CASE Merges(c, q)
  <2> DEFINE v == c.unsent
             n == Len(v)
             t == v[n]
             s == [t EXCEPT !.len = @ + q[1].len]
             f == SubSeq(v, 1, n - 1)
             z == SubSeq(q, 2, Len(q))
             h == f \o <<s>>
  <2>1. v # <<>>
    BY <1>4 DEF Merges
  <2>2. n \in Nat /\ n >= 1 /\ n - 1 \in 0..n /\ n \in 1..n /\ (n - 1) + 1 = n
    BY <1>1, <2>1, EmptyLen
  <2>3. r = h \o z
    <3>1. Last(v) = t /\ Front(v) = f /\ Tail(q) = z
      BY DEF Last, Front
    <3> HIDE DEF z, f, t, v
    <3> QED BY <1>4, <3>1, Zenon DEF Queued, v
  <2>4. /\ v \in Seq(Seg) /\ Chain(v, b, l) /\ Data(v)
    BY <1>1
  <2>5. 1 \in 1..Len(q) /\ 1 \in 0..Len(q) /\ 1 + 1 = 2
    BY <1>2
  <2> HIDE DEF v
  <2>6. t \in Seg /\ Off(t.seq) \in Nat /\ ~t.syn /\ t.len >= 1
    <3>1. t \in Seg
      BY <2>2, <2>4
    <3> QED BY <2>2, <2>4, <3>1, SegFacts DEF Data
  <2>7. q[1] \in Seg /\ ~q[1].syn /\ q[1].len >= 1
    BY <2>5 DEF Data
  <2>8. t.len \in Nat /\ q[1].len \in Nat /\ TCPLEN(t) = t.len /\ TCPLEN(q[1]) = q[1].len
        /\ End(t) = Off(t.seq) + t.len /\ End(q[1]) = Off(q[1].seq) + q[1].len
    BY <2>6, <2>7, SegFacts
  <2>9. s \in Seg /\ s.seq = t.seq /\ s.len = t.len + q[1].len /\ ~s.syn
    <3> HIDE DEF t
    <3>1. s \in Seg /\ s.seq = t.seq /\ s.len = t.len + q[1].len /\ s.syn = t.syn
      BY <2>6, <2>8, Lengthened
    <3> QED BY <2>6, <3>1, Zenon
  <2>10. Off(q[1].seq) = l
    <3>1. q # <<>>
      BY EmptyLen
    <3> QED BY <3>1, ChainEnds
  <2>11. End(t) = l
    BY <2>1, <2>4, ChainEnds, Zenon
  <2> HIDE DEF s, t
  <2>12. s.len >= 1 /\ End(s) = End(q[1]) /\ End(s) \in Nat /\ End(s) = l + q[1].len
    <3>1. End(s) = Off(s.seq) + s.len
      BY <2>9, SegFacts, Zenon
    <3>2. PICK i \in Nat : i = t.len
      BY <2>8
    <3>3. PICK j \in Nat : j = q[1].len
      BY <2>8
    <3>4. PICK o \in Nat : o = Off(t.seq)
      BY <2>6
    <3>5. i >= 1 /\ j >= 1
      BY <2>6, <2>7, <3>2, <3>3, Zenon
    <3>6. l = o + i /\ End(q[1]) = l + j
      BY <2>8, <2>10, <2>11, <3>2, <3>3, <3>4, Zenon
    <3>7. s.len = i + j /\ End(s) = o + (i + j)
      BY <2>9, <3>1, <3>2, <3>3, <3>4, Zenon
    <3>8. o + (i + j) = l + j /\ l + j \in Nat /\ i + j >= 1
      BY <3>5, <3>6
    <3> QED BY <3>3, <3>6, <3>7, <3>8, Zenon
  <2>13. Chain(f, b, Off(t.seq)) /\ f \in Seq(Seg) /\ Len(f) = n - 1 /\ Data(f)
    <3> DEFINE x == Cursor(v, b, n - 1)
    <3>1. Chain(f, b, x) /\ Chain(SubSeq(v, (n - 1) + 1, n), x, l)
      BY <2>2, <2>4, ChainSplit DEF n
    <3>2. x = Off(t.seq)
      <4> DEFINE g == SubSeq(v, n, n)
      <4>1. g # <<>> /\ g[1] = t
        <5>1. v \in Seq(Seg) /\ Len(v) >= 1
          BY <2>2, <2>4
        <5> QED BY <5>1, LastFacts, Zenon DEF t
      <4>2. Chain(g, x, l)
        BY <2>2, <3>1
      <4> HIDE DEF g, x
      <4> QED BY <4>1, <4>2, ChainEnds
    <3>3. f \in Seq(Seg) /\ Len(f) = n - 1 /\ \A i \in 1..n - 1 : f[i] = v[i]
      BY <2>2, <2>4, SplitFacts DEF n
    <3> HIDE DEF f, x
    <3>4. \A i \in 1..n - 1 : i \in 1..n
      BY <2>2
    <3>5. Data(f)
      BY <2>4, <3>3, <3>4 DEF Data, n
    <3> QED BY <3>1, <3>2, <3>3, <3>5
  <2>14. Chain(<<s>>, Off(t.seq), End(s)) /\ <<s>> \in Seq(Seg) /\ Len(<<s>>) = 1 /\ Data(<<s>>)
    BY <2>9, <2>12, ChainOne
  <2>15. /\ Chain(z, End(s), e) /\ z \in Seq(Seg) /\ Len(z) = Len(q) - 1 /\ Data(z)
    <3>1. Cursor(q, l, 1) = End(s)
      BY <2>12 DEF Cursor
    <3>2. Chain(z, End(s), e)
      BY <2>5, <3>1, ChainSplit
    <3>3. /\ z \in Seq(Seg) /\ Len(z) = Len(q) - 1
          /\ \A i \in 1..Len(z) : \E j \in 1..Len(q) : z[i] = q[j]
      BY TailFacts, Zenon
    <3> HIDE DEF z
    <3>4. Data(z)
      <4>1. \A i \in 1..Len(q) : ~q[i].syn /\ q[i].len >= 1
        BY Zenon DEF Data
      <4>2. ASSUME NEW i \in 1..Len(z)
            PROVE  ~z[i].syn /\ z[i].len >= 1
        <5>1. PICK j \in 1..Len(q) : z[i] = q[j]
          BY <3>3, Zenon
        <5>2. ~q[j].syn /\ q[j].len >= 1
          BY <4>1, Zenon
        <5> QED BY <5>1, <5>2, Zenon
      <4> QED BY <4>2, Zenon DEF Data
    <3> QED BY <3>2, <3>3, <3>4, Zenon
  <2> HIDE DEF f, z
  <2>16. h \in Seq(Seg) /\ Len(h) = n /\ Data(h) /\ Chain(h, b, End(s))
    <3>1. h \in Seq(Seg) /\ Len(h) = n - 1 + 1
      <4>1. f \in Seq(Seg) /\ <<s>> \in Seq(Seg)
        BY <2>13, <2>14, Zenon
      <4>2. h \in Seq(Seg) /\ Len(h) = Len(f) + Len(<<s>>)
        BY <4>1, ConcatLen, Zenon
      <4> QED BY <2>13, <2>14, <4>2, Zenon
    <3>2. Data(h)
      BY <2>13, <2>14, DataConcat
    <3>3. Chain(h, b, End(s))
      BY <2>6, <2>12, <2>13, <2>14, ChainConcat
    <3>4. n - 1 + 1 = n
      BY <2>2
    <3> QED BY <3>1, <3>2, <3>3, <3>4, Zenon
  <2> HIDE DEF h
  <2>17. r \in Seq(Seg) /\ Len(r) = Len(h) + Len(z)
    <3>1. h \in Seq(Seg) /\ z \in Seq(Seg)
      BY <2>15, <2>16, Zenon
    <3>2. h \o z \in Seq(Seg) /\ Len(h \o z) = Len(h) + Len(z)
      BY <3>1, ConcatLen, Zenon
    <3> QED BY <2>3, <3>2, Zenon
  <2>18. Data(r)
    <3>1. Data(h \o z)
      BY <2>15, <2>16, DataConcat
    <3> QED BY <2>3, <3>1, Zenon
  <2>19. Chain(r, b, e)
    BY <2>3, <2>12, <2>15, <2>16, ChainConcat
  <2>20. Len(r) = n + (Len(q) - 1)
    BY <2>15, <2>16, <2>17
  <2>21. Len(r) = Len(c.unsent) + Len(q) - 1 /\ Len(r) >= 1
    BY <1>2, <2>2, <2>20 DEF n, v
  <2> QED BY <1>4, <2>17, <2>18, <2>19, <2>21, Zenon
<1> QED BY <1>3, <1>4

\* t_tcp_enqueue's new pcb: the queue r, snd_lbb x, f bytes free, k pbufs queued.
Longer(c, r, x, f, k) ==
  [c EXCEPT !.unsent = r, !.snd_lbb = x, !.snd_buf = f, !.snd_queuelen = k]

Grown(c, d, r, x, f, k) ==
  /\ d.unsent = r /\ d.snd_lbb = x /\ d.snd_buf = f /\ d.snd_queuelen = k
  /\ d.state = c.state /\ d.snd_nxt = c.snd_nxt /\ d.lastack = c.lastack
  /\ d.rcv_nxt = c.rcv_nxt /\ d.snd_wnd = c.snd_wnd /\ d.cwnd = c.cwnd /\ d.mss = c.mss
  /\ d.unacked = c.unacked
  /\ (d.ack_now <=> c.ack_now) /\ (d.local_ip <=> c.local_ip)

LEMMA LongerFacts ==
  ASSUME NEW c \in Pcb, NEW r \in Seq(Seg), NEW x \in Sq, NEW f \in Nat, NEW k \in Nat,
         NEW d, d = Longer(c, r, x, f, k)
  PROVE  d \in Pcb /\ Grown(c, d, r, x, f, k)
<1>1. d = [c EXCEPT !.unsent = r, !.snd_lbb = x, !.snd_buf = f, !.snd_queuelen = k]
  BY DEF Longer
<1>2. d \in Pcb
  BY <1>1 DEF Pcb
<1>3. /\ d.unsent = r /\ d.snd_lbb = x /\ d.snd_buf = f /\ d.snd_queuelen = k
      /\ d.state = c.state /\ d.snd_nxt = c.snd_nxt /\ d.lastack = c.lastack
      /\ d.rcv_nxt = c.rcv_nxt /\ d.snd_wnd = c.snd_wnd /\ d.cwnd = c.cwnd /\ d.mss = c.mss
      /\ d.unacked = c.unacked
  BY <1>1 DEF Pcb
<1>4. (d.ack_now <=> c.ack_now) /\ (d.local_ip <=> c.local_ip)
  BY <1>1 DEF Pcb
<1> QED BY <1>2, <1>3, <1>4, Zenon DEF Grown

LEMMA LongerConn ==
  ASSUME NEW c \in Pcb, Conn(c),
         NEW r \in Seq(Seg), NEW x \in Sq, NEW f \in Nat, NEW k \in Nat,
         NEW d, Grown(c, d, r, x, f, k),
         Chain(r, Off(c.snd_nxt), Off(x)), Data(r), r # <<>>,
         f + Off(x) - Off(c.lastack) = SND_BUF, Len(c.unacked) + Len(r) <= k
  PROVE  Conn(d)
<1>1. /\ d.unsent = r /\ d.snd_lbb = x /\ d.snd_buf = f /\ d.snd_queuelen = k
      /\ d.state = c.state /\ d.snd_nxt = c.snd_nxt /\ d.lastack = c.lastack
      /\ d.snd_wnd = c.snd_wnd /\ d.cwnd = c.cwnd
      /\ d.unacked = c.unacked
  BY DEF Grown
<1>2. (d.ack_now <=> c.ack_now) /\ (d.local_ip <=> c.local_ip)
  BY DEF Grown
<1>3. /\ c.state # "CLOSED" /\ c.local_ip
      /\ Chain(c.unacked, Off(c.lastack), Off(c.snd_nxt))
      /\ InFlight(c)
      /\ c.state = "SYN_SENT" => SynOut(c)
      /\ c.state = "ESTABLISHED" => Open(c)
  BY DEF Conn
<1>4. InFlight(d)
  BY <1>1, <1>3, Zenon DEF InFlight
<1>5. c.state = "SYN_SENT" => SynOut(d)
  BY <1>1, <1>2, <1>3, Zenon DEF SynOut
<1>6. c.state = "ESTABLISHED" => Open(d)
  BY <1>1, <1>3, Zenon DEF Open
<1> QED BY <1>1, <1>2, <1>3, <1>4, <1>5, <1>6, Zenon DEF Conn

Refused(e, c, g, z) ==
  e.ok \in BOOLEAN /\ ~e.ok /\ e.pcb = c /\ e.pool = g /\ e.cats = z
Accepted(e, d, g, z) ==
  e.ok \in BOOLEAN /\ e.ok /\ e.pcb = d /\ e.pool = g /\ e.cats = z

LEMMA ResultIs ==
  ASSUME NEW d, NEW g, NEW z, NEW e
  PROVE  /\ e = [ok |-> FALSE, pcb |-> d, pool |-> g, cats |-> z] => Refused(e, d, g, z)
         /\ e = [ok |-> TRUE, pcb |-> d, pool |-> g, cats |-> z] => Accepted(e, d, g, z)
<1>1. ASSUME e = [ok |-> FALSE, pcb |-> d, pool |-> g, cats |-> z]
      PROVE  Refused(e, d, g, z)
  BY <1>1 DEF Refused
<1>2. ASSUME e = [ok |-> TRUE, pcb |-> d, pool |-> g, cats |-> z]
      PROVE  Accepted(e, d, g, z)
  BY <1>2 DEF Accepted
<1> QED BY <1>1, <1>2, Zenon

\* t_tcp_enqueue queues all or nothing.
LEMMA EnqueueFields ==
  ASSUME NEW c, NEW p, NEW len, NEW syn \in BOOLEAN, NEW copy, NEW n, n = Count(c, len),
         NEW cost, cost = Cost(syn, copy), NEW q, q = Cut(c, len, syn, n),
         NEW used, used = len + (IF syn THEN 1 ELSE 0),
         NEW e, e = t_tcp_enqueue(c, p, len, syn, copy)
  PROVE  \/ Refused(e, c, p, 0)
         \/ /\ MayEnqueue(c, len)
            /\ Refused(e, c, Failed(c, p, cost), CatsOfFailed(c, p, cost))
         \/ /\ MayEnqueue(c, len) /\ Room(c, p, n, cost)
            /\ Accepted(e, Longer(c, Queued(c, q), Plus(c.snd_lbb, used), c.snd_buf - used,
                                  c.snd_queuelen + n * cost),
                        PoolAfter(c, p, q, n, cost), Cats(c, q, n, cost))
<1>1. CASE ~MayEnqueue(c, len)
  <2>1. e = [ok |-> FALSE, pcb |-> c, pool |-> p, cats |-> 0]
    BY <1>1, Zenon DEF t_tcp_enqueue
  <2> QED BY <2>1, ResultIs, Zenon
<1>2. CASE MayEnqueue(c, len) /\ ~Room(c, p, n, cost)
  <2>1. e = [ok |-> FALSE, pcb |-> c, pool |-> Failed(c, p, cost),
             cats |-> CatsOfFailed(c, p, cost)]
    BY <1>2, Zenon DEF t_tcp_enqueue
  <2> QED BY <1>2, <2>1, ResultIs, Zenon
<1>3. CASE MayEnqueue(c, len) /\ Room(c, p, n, cost)
  <2> DEFINE d == Longer(c, Queued(c, q), Plus(c.snd_lbb, used), c.snd_buf - used,
                         c.snd_queuelen + n * cost)
             g == PoolAfter(c, p, q, n, cost)
             z == Cats(c, q, n, cost)
  <2>1. e = [ok |-> TRUE, pcb |-> d, pool |-> g, cats |-> z]
    BY <1>3, Zenon DEF t_tcp_enqueue, Longer
  <2>2. Accepted(e, d, g, z)
    <3> HIDE DEF d, g, z
    <3> QED BY <2>1, ResultIs, Zenon
  <2> QED BY <1>3, <2>2, Zenon
<1> QED BY <1>1, <1>2, <1>3, Zenon

\* A failed write returns every tcp_seg it took, and every pbuf but those that
\* went through t_pbuf_cat.
LEMMA FailedIs ==
  ASSUME NEW c, c.snd_queuelen \in Nat, c.snd_queuelen <= QUEUELEN,
         NEW p \in [buf : Nat, seg : Nat], NEW cost \in {1, 2},
         NEW z, z = CatsOfFailed(c, p, cost)
  PROVE  /\ z \in Nat /\ z <= p.buf
         /\ Failed(c, p, cost) = [p EXCEPT !.buf = @ - z]
         /\ cost = 1 => z = 0
<1>1. PICK a \in Nat, s \in Nat, f \in Nat : a = p.buf /\ s = p.seg /\ f = QUEUELEN - c.snd_queuelen
  <2>1. p.buf \in Nat /\ p.seg \in Nat /\ QUEUELEN - c.snd_queuelen \in Nat
    BY Sizes
  <2> QED BY <2>1, Zenon
<1>2. PICK w : w = Whole(c, p, cost)
  OBVIOUS
<1>3. w = Least(s, Least(a \div cost, f \div cost))
  BY <1>1, <1>2, Zenon DEF Whole
<1>4. w \in Nat /\ w <= s /\ w <= a \div cost /\ a \div cost \in Nat
  <2>1. a \div cost \in Nat /\ f \div cost \in Nat
    OBVIOUS
  <2> QED BY <1>3, <2>1 DEF Least
<1>5. PICK t \in {0, 1} : t = Half(c, p, cost).seg /\ t = IF w < s THEN 1 ELSE 0
  <2>1. Half(c, p, cost).seg = IF w < s THEN 1 ELSE 0
    BY <1>1, <1>2 DEF Half
  <2> QED BY <2>1
<1>6. PICK h : h = Half(c, p, cost).buf /\ h = t * Least(cost, a - w * cost)
  <2>1. Half(c, p, cost).buf = (IF w < s THEN 1 ELSE 0) * Least(cost, a - w * cost)
    BY <1>1, <1>2 DEF Half
  <2> QED BY <1>5, <2>1
<1>7. z = IF cost = 1 THEN 0 ELSE w + (IF h = 2 THEN 1 ELSE 0)
  BY <1>2, <1>6, Zenon DEF CatsOfFailed
<1>8. Failed(c, p, cost) = [seg |-> s - (w + t) + (w + t),
                            buf |-> a - (w * cost + h) + (w + Least(1, h))]
  BY <1>1, <1>2, <1>5, <1>6, Zenon DEF Failed
<1>9. s - (w + t) + (w + t) = s
  BY <1>4
<1>10. z \in Nat /\ z <= a /\ a - (w * cost + h) + (w + Least(1, h)) = a - z
  <2>1. CASE cost = 1
    <3>1. w <= a /\ w * cost = w
      BY <1>4, <2>1
    <3>2. h \in {0, 1}
      BY <1>4, <1>6, <2>1, <3>1 DEF Least
    <3> QED BY <1>4, <1>7, <2>1, <3>1, <3>2 DEF Least
  <2>2. CASE cost = 2
    <3>1. 2 * w <= a /\ w * cost = 2 * w
      BY <1>4, <2>2
    <3>2. h \in {0, 1, 2} /\ 2 * w + h <= a
      BY <1>4, <1>6, <2>2, <3>1 DEF Least
    <3> QED BY <1>4, <1>7, <2>2, <3>1, <3>2 DEF Least
  <2> QED BY <2>1, <2>2
<1>11. Failed(c, p, cost) = [seg |-> s, buf |-> a - z]
  BY <1>8, <1>9, <1>10, Zenon
<1>12. [p EXCEPT !.buf = @ - z] = [seg |-> s, buf |-> a - z]
  BY <1>1
<1>13. cost = 1 => z = 0
  BY <1>7
<1> QED BY <1>1, <1>10, <1>11, <1>12, <1>13, Zenon

\* What holds of pcb d, pools g and y lost pbufs after a write on c.
Kept(c, d, g, l, y) ==
  /\ d \in Pcb /\ Conn(d) /\ d.snd_queuelen <= QUEUELEN /\ d.mss <= MSS
  /\ Pools(d, g, l, y)
  /\ d.state = c.state /\ (d.ack_now <=> c.ack_now)
  /\ d.snd_nxt = c.snd_nxt /\ d.lastack = c.lastack
  /\ Off(c.snd_lbb) <= Off(d.snd_lbb)

LEMMA PoolLoses ==
  ASSUME NEW b \in Nat, NEW s \in Nat, NEW l \in Nat, NEW x \in Nat, NEW z \in Nat, z <= b,
         AllBufs(b, s, l, x)
  PROVE  b - z \in Nat /\ x + z \in Nat /\ AllBufs(b - z, s, l, x + z)
  BY Sizes DEF AllBufs

LEMMA WriteFails ==
  ASSUME NEW c \in Pcb, Conn(c), c.snd_queuelen <= QUEUELEN, c.mss <= MSS,
         NEW p, NEW l, NEW x, Pools(c, p, l, x), NEW z \in Nat, z <= p.buf,
         NEW g, g = [p EXCEPT !.buf = @ - z]
  PROVE  Kept(c, c, g, l, x + z)
<1>1. p \in [buf : Nat, seg : Nat] /\ p.seg + Len(c.unacked) + Len(c.unsent) = SEGS
  BY DEF Pools
<1>2. /\ p.buf \in Nat /\ p.seg \in Nat /\ l \in Nat /\ x \in Nat
      /\ AllBufs(p.buf, p.seg, l, x)
  BY DEF Pools
<1>3. p.buf - z \in Nat /\ x + z \in Nat /\ AllBufs(p.buf - z, p.seg, l, x + z)
  BY <1>2, PoolLoses
<1>4. g = [p EXCEPT !.buf = p.buf - z]
  OBVIOUS
<1>5. g \in [buf : Nat, seg : Nat] /\ g.buf = p.buf - z /\ g.seg = p.seg
  BY <1>1, <1>3, <1>4
<1>6. Pools(c, g, l, x + z)
  BY <1>1, <1>2, <1>3, <1>5, Zenon DEF Pools
<1>7. Off(c.snd_lbb) <= Off(c.snd_lbb)
  BY PcbOffs
<1> QED BY <1>6, <1>7 DEF Kept

\* The counts once n segments, k pbufs and, when the first merges, m = 1 are
\* in: one pbuf stays for each segment.
Taken(b, s, l, x, j, n, k, u, m, r) ==
  /\ b - k \in Nat /\ s - n + m \in Nat /\ j + k \in Nat /\ x + (k - n + m) \in Nat
  /\ (s - n + m) + u + r = SEGS
  /\ AllBufs(b - k, s - n + m, l, x + (k - n + m))
  /\ u + r <= j + k

LEMMA PoolTakes ==
  ASSUME NEW b \in Nat, NEW s \in Nat, NEW l \in Nat, NEW x \in Nat, NEW j \in Nat,
         NEW n \in Nat, NEW k \in Nat, NEW u \in Nat, NEW v \in Nat, NEW m \in Nat, m <= 1,
         NEW r \in Nat,
         n <= k, k <= b, n <= s, u + v <= j, r = v + n - m,
         s + u + v = SEGS, AllBufs(b, s, l, x)
  PROVE  Taken(b, s, l, x, j, n, k, u, m, r)
  BY Sizes DEF Taken, AllBufs

Spent(f, len, L, A) ==
  f - len \in Nat /\ L <= L + len /\ (f - len) + (L + len) - A = SND_BUF

LEMMA BytesTake ==
  ASSUME NEW f \in Nat, NEW len \in Nat, NEW L \in Nat, NEW A \in Nat,
         len <= f, f + L - A = SND_BUF
  PROVE  Spent(f, len, L, A)
  BY DEF Spent

\* A new queue, of the same bytes and len more, that the pools have paid for.
LEMMA WriteKept ==
  ASSUME NEW c \in Pcb, Conn(c), c.mss <= MSS, NEW r \in Seq(Seg), NEW y \in Sq,
         NEW f \in Nat, NEW j \in Nat, NEW d, d = Longer(c, r, y, f, j), j <= QUEUELEN,
         Chain(r, Off(c.snd_nxt), Off(y)), Data(r), r # <<>>,
         Off(c.snd_lbb) <= Off(y), f + Off(y) - Off(c.lastack) = SND_BUF,
         Len(c.unacked) + Len(r) <= j,
         NEW l \in Nat, NEW x \in Nat, NEW g \in [buf : Nat, seg : Nat],
         g.seg + Len(c.unacked) + Len(r) = SEGS, AllBufs(g.buf, g.seg, l, x)
  PROVE  Kept(c, d, g, l, x)
<1>1. d \in Pcb /\ Grown(c, d, r, y, f, j)
  BY LongerFacts
<1>2. Conn(d)
  BY <1>1, LongerConn
<1>3. /\ d.unsent = r /\ d.snd_lbb = y /\ d.snd_queuelen = j
      /\ d.state = c.state /\ d.snd_nxt = c.snd_nxt /\ d.lastack = c.lastack
      /\ d.mss = c.mss /\ d.unacked = c.unacked
  BY <1>1 DEF Grown
<1>4. d.ack_now <=> c.ack_now
  BY <1>1 DEF Grown
<1>5. Pools(d, g, l, x)
  BY <1>3, Zenon DEF Pools
<1> QED BY <1>1, <1>2, <1>3, <1>4, <1>5, Zenon DEF Kept

LEMMA WriteRoom ==
  ASSUME NEW c \in Pcb, NEW p, NEW len \in Nat, len >= 1, NEW n, n = Count(c, len),
         NEW cost \in {1, 2}, Room(c, p, n, cost)
  PROVE  c.mss >= 1
<1>1. c.snd_queuelen \in Nat /\ c.mss \in Nat /\ QUEUELEN \in Nat
  BY PcbFacts, Sizes
<1>2. SUFFICES ASSUME c.mss = 0
               PROVE  FALSE
  BY <1>1
<1>3. n = QUEUELEN + 1
  BY <1>2 DEF Count
<1>4. n * cost >= QUEUELEN + 1 /\ n * cost \in Nat
  BY <1>1, <1>3
<1>5. c.snd_queuelen + n * cost <= QUEUELEN
  BY DEF Room
<1> QED BY <1>1, <1>4, <1>5

\* A queue of n segments of data from distance b to e.
Queue(r, b, e, n) ==
  r \in Seq(Seg) /\ Chain(r, b, e) /\ Data(r) /\ Len(r) = n /\ n \in Nat /\ n >= 1

LEMMA QueuedQueue ==
  ASSUME NEW c \in Pcb, NEW b \in Nat, NEW l \in Nat, NEW e \in Nat,
         Chain(c.unsent, b, l), Data(c.unsent), NEW q, NEW n, Queue(q, l, e, n),
         NEW m \in {0, 1}, m = 1 <=> Merges(c, q)
  PROVE  Queue(Queued(c, q), b, e, Len(c.unsent) + n - m)
<1>1. q \in Seq(Seg) /\ Chain(q, l, e) /\ Data(q)
  BY DEF Queue
<1>2. Len(q) = n /\ n \in Nat /\ n >= 1
  BY DEF Queue
<1>3. PICK r : r = Queued(c, q)
  OBVIOUS
<1>4. /\ r \in Seq(Seg) /\ Chain(r, b, e) /\ Data(r)
      /\ Len(r) = Len(c.unsent) + Len(q) - (IF Merges(c, q) THEN 1 ELSE 0)
      /\ Len(r) >= 1
  BY <1>1, <1>2, <1>3, QueuedIs
<1>5. Len(c.unsent) \in Nat
  BY PcbFacts, EmptyLen
<1>6. r \in Seq(Seg) /\ Chain(r, b, e) /\ Data(r)
  BY <1>4
<1>7. /\ Merges(c, q) => Len(r) = Len(c.unsent) + n - 1
      /\ ~Merges(c, q) => Len(r) = Len(c.unsent) + n - 0
      /\ Len(r) >= 1
  BY <1>2, <1>4, Zenon
<1>8. Len(r) = Len(c.unsent) + n - m /\ Len(r) >= 1
  BY <1>7
<1>9. Len(c.unsent) + n - m \in Nat
  BY <1>2, <1>5
<1> QED BY <1>3, <1>6, <1>8, <1>9, Zenon DEF Queue

LEMMA WriteCut ==
  ASSUME NEW c \in Pcb, Conn(c), c.mss >= 1, NEW len \in Nat, len >= 1,
         NEW L \in Nat, L = Off(c.snd_lbb), L + len < SeqSpace,
         NEW n, n = Count(c, len), NEW q, q = Cut(c, len, FALSE, n),
         NEW m \in {0, 1}, m = 1 <=> Merges(c, q)
  PROVE  /\ n \in Nat /\ n >= 1
         /\ Queue(Queued(c, q), Off(c.snd_nxt), L + len, Len(c.unsent) + n - m)
<1>1. n \in Nat /\ n >= 1 /\ q \in Seq(Seg) /\ Len(q) = n /\ Data(q) /\ Chain(q, L, L + len)
  BY CutIs
<1>2. Queue(q, L, L + len, n)
  BY <1>1, Zenon DEF Queue
<1>3. Off(c.snd_nxt) \in Nat /\ L + len \in Nat
  BY PcbOffs
<1>4. Chain(c.unsent, Off(c.snd_nxt), L) /\ Data(c.unsent)
  BY DEF Conn
<1>5. Queue(Queued(c, q), Off(c.snd_nxt), L + len, Len(c.unsent) + n - m)
  BY <1>2, <1>3, <1>4, QueuedQueue
<1>6. n \in Nat /\ n >= 1
  BY <1>1
<1> QED BY <1>5, <1>6, Zenon

LEMMA WriteTaken ==
  ASSUME NEW c \in Pcb, Conn(c), c.mss <= MSS,
         NEW p, NEW l, NEW x, Pools(c, p, l, x), NEW len \in Nat, len <= c.snd_buf,
         NEW n \in Nat, NEW k \in Nat, n <= k, n <= p.seg, k <= p.buf,
         c.snd_queuelen + k <= QUEUELEN, NEW m \in Nat, m <= 1,
         NEW r \in Seq(Seg), Chain(r, Off(c.snd_nxt), Off(c.snd_lbb) + len), Data(r),
         Len(r) = Len(c.unsent) + n - m, Len(r) >= 1,
         NEW y \in Sq, Off(y) = Off(c.snd_lbb) + len,
         NEW d, d = Longer(c, r, y, c.snd_buf - len, c.snd_queuelen + k),
         NEW g, g = [buf |-> p.buf - k, seg |-> p.seg - n + m]
  PROVE  Kept(c, d, g, l, x + (k - n + m))
<1>1. /\ p.buf \in Nat /\ p.seg \in Nat /\ l \in Nat /\ x \in Nat
      /\ p.seg + Len(c.unacked) + Len(c.unsent) = SEGS
      /\ AllBufs(p.buf, p.seg, l, x)
  BY DEF Pools
<1>2. /\ c.snd_buf \in Nat /\ c.snd_queuelen \in Nat
      /\ Len(c.unacked) \in Nat /\ Len(c.unsent) \in Nat /\ Len(r) \in Nat
  BY PcbFacts, EmptyLen
<1>3. Off(c.snd_lbb) \in Nat /\ Off(c.lastack) \in Nat
  BY PcbOffs
<1>4. c.snd_buf + Off(c.snd_lbb) - Off(c.lastack) = SND_BUF
  BY DEF Conn
<1>5. Len(c.unacked) + Len(c.unsent) <= c.snd_queuelen
  BY DEF Conn
<1>6. r # <<>>
  BY <1>2, EmptyLen
<1>14. Taken(p.buf, p.seg, l, x, c.snd_queuelen, n, k, Len(c.unacked), m, Len(r))
  BY <1>1, <1>2, <1>5, PoolTakes
<1>7. /\ p.buf - k \in Nat /\ p.seg - n + m \in Nat /\ c.snd_queuelen + k \in Nat
      /\ (p.seg - n + m) + Len(c.unacked) + Len(r) = SEGS
      /\ AllBufs(p.buf - k, p.seg - n + m, l, x + (k - n + m)) /\ x + (k - n + m) \in Nat
      /\ Len(c.unacked) + Len(r) <= c.snd_queuelen + k
  BY <1>14, Zenon DEF Taken
<1>8. ASSUME NEW a \in Nat, NEW b \in Nat, g = [buf |-> a, seg |-> b]
      PROVE  g \in [buf : Nat, seg : Nat] /\ g.buf = a /\ g.seg = b
  BY <1>8
<1>9. g \in [buf : Nat, seg : Nat] /\ g.buf = p.buf - k /\ g.seg = p.seg - n + m
  BY <1>7, <1>8, Zenon
<1>10. /\ c.snd_buf - len \in Nat /\ Off(c.snd_lbb) <= Off(y)
       /\ (c.snd_buf - len) + Off(y) - Off(c.lastack) = SND_BUF
  <2>1. Spent(c.snd_buf, len, Off(c.snd_lbb), Off(c.lastack))
    BY <1>2, <1>3, <1>4, BytesTake
  <2> QED BY <2>1, Zenon DEF Spent
<1>11. /\ g.seg + Len(c.unacked) + Len(r) = SEGS
       /\ AllBufs(g.buf, g.seg, l, x + (k - n + m))
  BY <1>7, <1>9, Zenon
<1>12. Chain(r, Off(c.snd_nxt), Off(y))
  OBVIOUS
<1>13. l \in Nat /\ x + (k - n + m) \in Nat /\ c.snd_queuelen + k \in Nat 
       /\ Len(c.unacked) + Len(r) <= c.snd_queuelen + k
  BY <1>1, <1>7
<1> QED BY <1>6, <1>9, <1>10, <1>11, <1>12, <1>13, WriteKept

LEMMA WriteQueues ==
  ASSUME NEW c \in Pcb, Conn(c), c.snd_queuelen <= QUEUELEN, c.mss <= MSS,
         NEW p, NEW l, NEW x, Pools(c, p, l, x),
         NEW len \in Nat, len >= 1, NEW n, n = Count(c, len), NEW cost \in {1, 2},
         NEW q, q = Cut(c, len, FALSE, n), MayEnqueue(c, len), Room(c, p, n, cost)
  PROVE  Kept(c, Longer(c, Queued(c, q), Plus(c.snd_lbb, len), c.snd_buf - len,
                        c.snd_queuelen + n * cost),
              PoolAfter(c, p, q, n, cost), l, x + Cats(c, q, n, cost))
<1>1. PICK r : r = Queued(c, q)
  OBVIOUS
<1>2. PICK m \in {0, 1} : (m = 1 <=> Merges(c, q)) /\ m = IF Merges(c, q) THEN 1 ELSE 0
  <2>1. CASE Merges(c, q)
    <3>1. 1 \in {0, 1} /\ (1 = 1 <=> Merges(c, q)) /\ 1 = IF Merges(c, q) THEN 1 ELSE 0
      BY <2>1, Zenon
    <3> QED BY <3>1, Zenon
  <2>2. CASE ~Merges(c, q)
    <3>1. 0 # 1
      OBVIOUS
    <3>2. 0 \in {0, 1} /\ (0 = 1 <=> Merges(c, q)) /\ 0 = IF Merges(c, q) THEN 1 ELSE 0
      BY <2>2, <3>1, Zenon
    <3> QED BY <3>2, Zenon
  <2> QED BY <2>1, <2>2, Zenon
<1>3. PICK y : y = Plus(c.snd_lbb, len)
  OBVIOUS
<1>4. PICK L : L = Off(c.snd_lbb)
  OBVIOUS
<1>5. PICK k : k = n * cost
  OBVIOUS
<1>6. c.mss >= 1
  BY WriteRoom
<1>7. len <= c.snd_buf /\ n <= p.seg /\ k <= p.buf /\ c.snd_queuelen + k <= QUEUELEN
  BY <1>5, Zenon DEF MayEnqueue, Room
<1>8. L \in Nat /\ c.snd_lbb \in Sq
  BY <1>4, PcbFacts, PcbOffs
<1>9. L + len < SeqSpace
  <2>1. Off(c.lastack) \in {0, 1} /\ L = SND_BUF - c.snd_buf + Off(c.lastack)
    BY <1>4, Short
  <2>2. SND_BUF \in Nat /\ MSS \in Nat /\ SeqSpace \in Nat /\ 2 * (SND_BUF + MSS + 2) < SeqSpace
    BY Sizes
  <2>3. c.snd_buf \in Nat
    BY PcbFacts
  <2> QED BY <1>7, <2>1, <2>2, <2>3
<1>11. m \in Nat /\ m <= 1
  BY m \in {0, 1}
<1>17. /\ n \in Nat /\ n >= 1
       /\ Queue(Queued(c, q), Off(c.snd_nxt), L + len, Len(c.unsent) + n - m)
  BY <1>2, <1>4, <1>6, <1>8, <1>9, WriteCut
<1>10. /\ n \in Nat /\ n >= 1
       /\ r \in Seq(Seg) /\ Chain(r, Off(c.snd_nxt), L + len) /\ Data(r)
       /\ Len(r) = Len(c.unsent) + n - m /\ Len(r) >= 1
  BY <1>1, <1>17, Zenon DEF Queue
<1>12. y \in Sq /\ Off(y) = L + len
  BY <1>3, <1>4, <1>8, <1>9, OffPlus
<1>13. k \in Nat /\ n <= k
  <2>1. n \in Nat
    BY <1>10
  <2> QED BY <1>5, <2>1
<1>14. PoolAfter(c, p, q, n, cost) = [buf |-> p.buf - k, seg |-> p.seg - n + m]
  BY <1>2, <1>5, Zenon DEF PoolAfter
<1>18. Cats(c, q, n, cost) = k - n + m
  <2>1. Cats(c, q, n, cost) = n * (cost - 1) + m
    BY <1>2, Zenon DEF Cats
  <2>2. n * (cost - 1) = k - n
    BY <1>5, <1>10
  <2> QED BY <1>11, <2>1, <2>2
<1>15. /\ Chain(r, Off(c.snd_nxt), Off(c.snd_lbb) + len) /\ Off(y) = Off(c.snd_lbb) + len
       /\ n \in Nat /\ r \in Seq(Seg) /\ Data(r)
       /\ Len(r) = Len(c.unsent) + n - m /\ Len(r) >= 1
  BY <1>4, <1>10, <1>12, Zenon
<1>16. Kept(c, Longer(c, r, y, c.snd_buf - len, c.snd_queuelen + k),
            [buf |-> p.buf - k, seg |-> p.seg - n + m], l, x + (k - n + m))
  BY <1>7, <1>11, <1>12, <1>13, <1>15, WriteTaken
<1> QED BY <1>1, <1>3, <1>5, <1>14, <1>16, <1>18, Zenon

\* t_tcp_write, whatever becomes of it.
LEMMA WriteKeeps ==
  ASSUME NEW c \in Pcb, Conn(c), c.snd_queuelen <= QUEUELEN, c.mss <= MSS,
         NEW p, NEW l, NEW x, Pools(c, p, l, x), NEW len \in Nat, len >= 1, NEW copy,
         NEW e, e = t_tcp_enqueue(c, p, len, FALSE, copy)
  PROVE  Kept(c, e.pcb, e.pool, l, x + e.cats)
<1>1. PICK n : n = Count(c, len)
  OBVIOUS
<1>2. PICK cost : cost = Cost(FALSE, copy)
  OBVIOUS
<1>3. PICK q : q = Cut(c, len, FALSE, n)
  OBVIOUS
<1>4. cost \in {1, 2}
  BY <1>2 DEF Cost
<1>5. \/ Refused(e, c, p, 0)
      \/ /\ MayEnqueue(c, len)
         /\ Refused(e, c, Failed(c, p, cost), CatsOfFailed(c, p, cost))
      \/ /\ MayEnqueue(c, len) /\ Room(c, p, n, cost)
         /\ Accepted(e, Longer(c, Queued(c, q), Plus(c.snd_lbb, len), c.snd_buf - len,
                               c.snd_queuelen + n * cost),
                     PoolAfter(c, p, q, n, cost), Cats(c, q, n, cost))
  <2>1. len = len + (IF FALSE THEN 1 ELSE 0)
    OBVIOUS
  <2> QED BY <1>1, <1>2, <1>3, <2>1, EnqueueFields
<1>6. p \in [buf : Nat, seg : Nat]
  BY DEF Pools
<1>7. ASSUME NEW z \in Nat, z <= p.buf, Refused(e, c, [p EXCEPT !.buf = @ - z], z)
      PROVE  Kept(c, e.pcb, e.pool, l, x + e.cats)
  <2>1. PICK g : g = [p EXCEPT !.buf = @ - z]
    OBVIOUS
  <2>2. e.pcb = c /\ e.pool = g /\ e.cats = z
    BY <1>7, <2>1, Zenon DEF Refused
  <2>3. Kept(c, c, g, l, x + z)
    BY <1>7, <2>1, WriteFails
  <2> QED BY <2>2, <2>3, Zenon
<1>8. CASE Refused(e, c, p, 0)
  <2>1. p = [p EXCEPT !.buf = @ - 0] /\ 0 \in Nat /\ 0 <= p.buf
    BY <1>6
  <2>2. Refused(e, c, [p EXCEPT !.buf = @ - 0], 0)
    BY <1>8, <2>1, Zenon
  <2> QED BY <1>7, <2>1, <2>2, Zenon
<1>9. CASE Refused(e, c, Failed(c, p, cost), CatsOfFailed(c, p, cost))
  <2>1. PICK z : z = CatsOfFailed(c, p, cost)
    OBVIOUS
  <2>2. c.snd_queuelen \in Nat
    BY PcbFacts
  <2>3. z \in Nat /\ z <= p.buf /\ Failed(c, p, cost) = [p EXCEPT !.buf = @ - z]
    BY <1>4, <1>6, <2>1, <2>2, FailedIs
  <2> QED BY <1>7, <1>9, <2>1, <2>3, Zenon
<1>10. CASE /\ MayEnqueue(c, len) /\ Room(c, p, n, cost)
            /\ Accepted(e, Longer(c, Queued(c, q), Plus(c.snd_lbb, len), c.snd_buf - len,
                                  c.snd_queuelen + n * cost),
                        PoolAfter(c, p, q, n, cost), Cats(c, q, n, cost))
  <2>1. /\ e.cats = Cats(c, q, n, cost) /\ e.pool = PoolAfter(c, p, q, n, cost)
        /\ e.pcb = Longer(c, Queued(c, q), Plus(c.snd_lbb, len), c.snd_buf - len,
                          c.snd_queuelen + n * cost)
    BY <1>10, Zenon DEF Accepted
  <2>2. Kept(c, Longer(c, Queued(c, q), Plus(c.snd_lbb, len), c.snd_buf - len,
                       c.snd_queuelen + n * cost),
             PoolAfter(c, p, q, n, cost), l, x + Cats(c, q, n, cost))
    BY <1>1, <1>3, <1>4, <1>10, WriteQueues
  <2> QED BY <2>1, <2>2, Zenon
<1> QED BY <1>5, <1>8, <1>9, <1>10, Zenon

(***************************************************************************)
(* t_tcp_connect: the SYN is queued and sent.                              *)
(***************************************************************************)

\* The pcb t_tcp_connect has prepared.
Fresh(b) ==
  /\ b.state = "SYN_SENT" /\ b.snd_nxt = ISS /\ b.lastack = Minus(ISS, 1)
  /\ b.snd_lbb = Minus(ISS, 1) /\ b.snd_wnd = WND /\ b.cwnd = 1 /\ b.mss = MSS
  /\ b.unsent = <<>> /\ b.unacked = <<>> /\ b.snd_buf = SND_BUF /\ b.snd_queuelen = 0
  /\ ~b.ack_now /\ ~b.local_ip

States == {"CLOSED", "SYN_SENT", "ESTABLISHED"}

\* The assignments t_tcp_connect and t_tcp_process have in common.
Windowing(a, w, m, k, s) == [a EXCEPT !.snd_wnd = w, !.mss = m, !.cwnd = k, !.state = s]
Windowed(a, b, w, m, k, s) ==
  /\ b.snd_wnd = w /\ b.mss = m /\ b.cwnd = k /\ b.state = s
  /\ b.snd_nxt = a.snd_nxt /\ b.lastack = a.lastack /\ b.snd_lbb = a.snd_lbb
  /\ b.unsent = a.unsent /\ b.unacked = a.unacked /\ b.snd_buf = a.snd_buf
  /\ b.snd_queuelen = a.snd_queuelen
  /\ (b.ack_now <=> a.ack_now) /\ (b.local_ip <=> a.local_ip)

LEMMA WindowIs ==
  ASSUME NEW a \in Pcb, NEW w \in Nat, NEW m \in Nat, NEW k \in Nat, NEW s \in States,
         NEW b, b = Windowing(a, w, m, k, s)
  PROVE  b \in Pcb /\ Windowed(a, b, w, m, k, s)
<1>0. b = [a EXCEPT !.snd_wnd = w, !.mss = m, !.cwnd = k, !.state = s]
  BY DEF Windowing
<1>1. b \in Pcb
  <2> DEFINE d == [a EXCEPT !.snd_wnd = w, !.mss = m, !.cwnd = k]
  <2>1. d \in Pcb
    BY DEF Pcb
  <2>2. b = [d EXCEPT !.state = s]
    BY <1>0
  <2> HIDE DEF d
  <2> QED BY <2>1, <2>2 DEF Pcb, States
<1>2. /\ b.snd_wnd = w /\ b.mss = m /\ b.cwnd = k /\ b.state = s
      /\ b.snd_nxt = a.snd_nxt /\ b.lastack = a.lastack /\ b.snd_lbb = a.snd_lbb
      /\ b.unsent = a.unsent /\ b.unacked = a.unacked /\ b.snd_buf = a.snd_buf
      /\ b.snd_queuelen = a.snd_queuelen
  BY <1>0 DEF Pcb
<1>3. (b.ack_now <=> a.ack_now) /\ (b.local_ip <=> a.local_ip)
  BY <1>0 DEF Pcb
<1> QED BY <1>1, <1>2, <1>3, Zenon DEF Windowed

LEMMA OpeningFacts ==
  ASSUME NEW c \in Pcb, Unused(c), NEW b, b = Opening(c)
  PROVE  b \in Pcb /\ Fresh(b)
<1> DEFINE z == Minus(ISS, 1)
           a == [c EXCEPT !.snd_nxt = ISS, !.lastack = z, !.snd_lbb = z, !.rcv_nxt = 0]
<1>1. z \in Sq /\ ISS \in Sq /\ WND \in Nat /\ MSS \in Nat /\ 0 \in Sq
  BY Before, Sizes DEF Sq
<1>2. b = Windowing(a, WND, MSS, 1, "SYN_SENT")
  BY Zenon DEF Opening, Windowing
<1> HIDE DEF z
<1>3. a \in Pcb
  BY <1>1 DEF Pcb
<1>4. /\ a.snd_nxt = ISS /\ a.lastack = z /\ a.snd_lbb = z
      /\ a.unsent = c.unsent /\ a.unacked = c.unacked /\ a.snd_buf = c.snd_buf
      /\ a.snd_queuelen = c.snd_queuelen
  BY DEF Pcb
<1>5. (a.ack_now <=> c.ack_now) /\ (a.local_ip <=> c.local_ip)
  BY DEF Pcb
<1> HIDE DEF a
<1>6. 1 \in Nat /\ "SYN_SENT" \in States
  BY DEF States
<1>7. b \in Pcb /\ Windowed(a, b, WND, MSS, 1, "SYN_SENT")
  BY <1>1, <1>2, <1>3, <1>6, WindowIs
<1>9. /\ c.unsent = <<>> /\ c.unacked = <<>> /\ c.snd_buf = SND_BUF /\ c.snd_queuelen = 0
      /\ ~c.ack_now /\ ~c.local_ip
  BY DEF Unused
<1> QED BY <1>4, <1>5, <1>7, <1>9, Zenon DEF Fresh, Windowed, z

LEMMA SynFacts ==
  /\ TheSyn \in Seg /\ Off(TheSyn.seq) = 0 /\ End(TheSyn) = 1 /\ TheSyn.len = 0 /\ TheSyn.syn
  /\ <<TheSyn>> \in Seq(Seg) /\ Len(<<TheSyn>>) = 1 /\ Chain(<<TheSyn>>, 0, 1)
  /\ \A i \in 1..Len(<<TheSyn>>) : <<TheSyn>>[i] = TheSyn
<1>1. Minus(ISS, 1) \in Sq /\ Off(Minus(ISS, 1)) = 0
  BY Before
<1>2. TheSyn \in Seg /\ TheSyn.seq = Minus(ISS, 1) /\ TheSyn.len = 0 /\ TheSyn.syn
  BY <1>1 DEF TheSyn, Seg
<1>3. TCPLEN(TheSyn) = 1
  BY <1>2, SegFacts
<1>4. Off(TheSyn.seq) = 0 /\ End(TheSyn) = 1
  BY <1>1, <1>2, <1>3 DEF End
<1> DEFINE s == TheSyn
<1> HIDE DEF s
<1>5. \A i \in 1..Len(<<s>>) : <<s>>[i] = s
  OBVIOUS
<1>6. \A i \in 1..Len(<<TheSyn>>) : <<TheSyn>>[i] = TheSyn
  BY <1>5 DEF s
<1>7. <<TheSyn>> \in Seq(Seg) /\ Len(<<TheSyn>>) = 1 /\ Chain(<<TheSyn>>, 0, 1)
  BY <1>2, <1>4, ChainOne
<1> QED BY <1>2, <1>4, <1>6, <1>7, Zenon

LEMMA SynCut ==
  ASSUME NEW b, Fresh(b)
  PROVE  /\ Count(b, 0) = 1 /\ Cost(TRUE, FALSE) = 1
         /\ Cut(b, 0, TRUE, 1) = <<TheSyn>>
         /\ ~Merges(b, <<TheSyn>>) /\ Queued(b, <<TheSyn>>) = <<TheSyn>>
<1>1. b.snd_lbb = Minus(ISS, 1) /\ b.mss = MSS /\ b.unsent = <<>> /\ MSS \in Nat /\ MSS >= 1
  BY Sizes DEF Fresh
<1>2. Count(b, 0) = 1 /\ Cost(TRUE, FALSE) = 1
  <2>1. Count(b, 0) = 1
    <3>1. Count(b, 0) = CASE 0 = 0 -> 1
                          [] b.mss = 0 -> QUEUELEN + 1
                          [] OTHER -> (0 + b.mss - 1) \div b.mss
      BY DEF Count
    <3>2. ASSUME NEW x, NEW y, b.mss # 0
          PROVE  (CASE 0 = 0 -> 1 [] b.mss = 0 -> x [] OTHER -> y) = 1
      BY <3>2
    <3>3. b.mss # 0
      BY <1>1
    <3> QED BY <3>1, <3>2, <3>3, Zenon
  <2>2. Cost(TRUE, FALSE) = 1
    BY DEF Cost
  <2> QED BY <2>1, <2>2
<1> DEFINE z == Minus(ISS, 1)
           f == [i \in 1..1 |-> TheSyn]
<1>3. Plus(z, 0) = z
  <2>1. z \in Sq /\ 0 \in Nat /\ 0 < SeqSpace /\ SeqSpace \in Nat
    BY Before, Sizes
  <2>2. Plus(z, 0) = IF z + 0 < SeqSpace THEN z + 0 ELSE z + 0 - SeqSpace
    BY <2>1, PlusIs
  <2> HIDE DEF z
  <2> QED BY <2>1, <2>2 DEF Sq
<1>4. Least(MSS, 0) = 0
  BY <1>1 DEF Least
<1>5. ASSUME NEW i \in 1..1
      PROVE  (i - 1) * MSS = 0 /\ 0 - (i - 1) * MSS = 0
  <2>1. i - 1 = 0
    OBVIOUS
  <2>2. 0 * MSS = 0
    BY <1>1
  <2> QED BY <2>1, <2>2
<1>6. Cut(b, 0, TRUE, 1) = f
  <2>1. Cut(b, 0, TRUE, 1) =
          [i \in 1..1 |-> [seq |-> Plus(z, (i - 1) * MSS),
                           len |-> Least(MSS, 0 - (i - 1) * MSS), syn |-> TRUE]]
    BY <1>1, Zenon DEF Cut
  <2>2. ASSUME NEW i \in 1..1
        PROVE  [seq |-> Plus(z, (i - 1) * MSS),
                len |-> Least(MSS, 0 - (i - 1) * MSS), syn |-> TRUE] = TheSyn
    BY <1>3, <1>4, <1>5, Zenon DEF TheSyn
  <2> QED BY <2>1, <2>2, Zenon
<1>7. f = <<TheSyn>>
  OBVIOUS
<1>8. ~Merges(b, <<TheSyn>>)
  BY <1>1, Zenon DEF Merges
<1>9. <<>> \o <<TheSyn>> = <<TheSyn>>
  BY SynFacts, ConcatEmptySeq
<1>10. Queued(b, <<TheSyn>>) = <<TheSyn>>
  BY <1>1, <1>8, <1>9, Zenon DEF Queued
<1> QED BY <1>2, <1>6, <1>7, <1>8, <1>10, Zenon

\* The pcb with the SYN queued.
SynQueued(b, d) ==
  /\ d \in Pcb
  /\ d.state = "SYN_SENT" /\ d.snd_nxt = ISS /\ d.lastack = Minus(ISS, 1) /\ d.snd_lbb = ISS
  /\ d.snd_wnd = WND /\ d.cwnd = 1 /\ d.mss = MSS
  /\ d.unsent = <<TheSyn>> /\ d.unacked = <<>>
  /\ d.snd_buf = SND_BUF - 1 /\ d.snd_queuelen = 1
  /\ ~d.ack_now /\ ~d.local_ip

LEMMA SynEnqueued ==
  ASSUME NEW b \in Pcb, Fresh(b), NEW p \in [buf : Nat, seg : Nat],
         NEW e, e = t_tcp_enqueue(b, p, 0, TRUE, FALSE)
  PROVE  \/ Refused(e, b, p, e.cats)
         \/ /\ p.buf >= 1 /\ p.seg >= 1 /\ e.ok \in BOOLEAN /\ e.ok
            /\ e.pool = [buf |-> p.buf - 1, seg |-> p.seg - 1]
            /\ SynQueued(b, e.pcb)
<1>1. /\ Count(b, 0) = 1 /\ Cost(TRUE, FALSE) = 1
      /\ Cut(b, 0, TRUE, 1) = <<TheSyn>>
      /\ ~Merges(b, <<TheSyn>>) /\ Queued(b, <<TheSyn>>) = <<TheSyn>>
  BY SynCut
<1>2. /\ b.snd_lbb = Minus(ISS, 1) /\ b.snd_buf = SND_BUF /\ b.snd_queuelen = 0
      /\ b.unacked = <<>> /\ b.state = "SYN_SENT" /\ b.snd_nxt = ISS /\ b.lastack = Minus(ISS, 1)
      /\ b.snd_wnd = WND /\ b.cwnd = 1 /\ b.mss = MSS /\ ~b.ack_now /\ ~b.local_ip
  BY DEF Fresh
<1>3. 0 + (IF TRUE THEN 1 ELSE 0) = 1 /\ b.snd_queuelen + 1 * 1 = 1 /\ TRUE \in BOOLEAN
  BY <1>2
<1>4. [p EXCEPT !.buf = @ - 0] = p
  OBVIOUS
<1>5. Failed(b, p, 1) = p
  <2>1. PICK z : z = CatsOfFailed(b, p, 1)
    OBVIOUS
  <2>2. b.snd_queuelen \in Nat /\ b.snd_queuelen <= QUEUELEN /\ 1 \in {1, 2}
    BY <1>2, Sizes
  <2>3. z = 0 /\ Failed(b, p, 1) = [p EXCEPT !.buf = @ - z]
    BY <2>1, <2>2, FailedIs
  <2> QED BY <1>4, <2>3, Zenon
<1>6. SND_BUF - 1 \in Nat /\ ISS \in Sq /\ Plus(Minus(ISS, 1), 1) = ISS
  BY Sizes, Before
<1>7. PICK d : d = Longer(b, <<TheSyn>>, ISS, SND_BUF - 1, 1)
  OBVIOUS
<1>8. \/ Refused(e, b, p, e.cats)
      \/ Refused(e, b, Failed(b, p, 1), e.cats)
      \/ /\ MayEnqueue(b, 0) /\ Room(b, p, 1, 1)
         /\ Accepted(e, Longer(b, Queued(b, <<TheSyn>>), Plus(b.snd_lbb, 1), b.snd_buf - 1,
                               b.snd_queuelen + 1 * 1),
                     PoolAfter(b, p, <<TheSyn>>, 1, 1), e.cats)
  <2>1. PICK q : q = <<TheSyn>>
    OBVIOUS
  <2>2. 1 = Count(b, 0) /\ 1 = Cost(TRUE, FALSE) /\ q = Cut(b, 0, TRUE, 1)
    BY <1>1, <2>1, Zenon
  <2>3. \/ Refused(e, b, p, 0)
        \/ MayEnqueue(b, 0) /\ Refused(e, b, Failed(b, p, 1), CatsOfFailed(b, p, 1))
        \/ /\ MayEnqueue(b, 0) /\ Room(b, p, 1, 1)
           /\ Accepted(e, Longer(b, Queued(b, q), Plus(b.snd_lbb, 1), b.snd_buf - 1,
                                 b.snd_queuelen + 1 * 1),
                       PoolAfter(b, p, q, 1, 1), Cats(b, q, 1, 1))
    BY <1>3, <2>2, EnqueueFields
  <2> QED BY <2>1, <2>3, Zenon DEF Refused, Accepted
<1>9. \/ Refused(e, b, p, e.cats)
      \/ Room(b, p, 1, 1) /\ Accepted(e, d, PoolAfter(b, p, <<TheSyn>>, 1, 1), e.cats)
  <2>1. Longer(b, Queued(b, <<TheSyn>>), Plus(b.snd_lbb, 1), b.snd_buf - 1, b.snd_queuelen + 1 * 1) = d
    BY <1>1, <1>2, <1>3, <1>6, <1>7, Zenon
  <2> QED BY <1>5, <1>8, <2>1, Zenon
<1>10. Room(b, p, 1, 1) => p.buf >= 1 /\ p.seg >= 1
  BY DEF Room
<1>11. PoolAfter(b, p, <<TheSyn>>, 1, 1) = [buf |-> p.buf - 1, seg |-> p.seg - 1]
  <2>1. PoolAfter(b, p, <<TheSyn>>, 1, 1) = [buf |-> p.buf - 1 * 1, seg |-> p.seg - 1 + 0]
    BY <1>1, Zenon DEF PoolAfter
  <2>2. p.buf - 1 * 1 = p.buf - 1 /\ p.seg - 1 + 0 = p.seg - 1
    OBVIOUS
  <2> QED BY <2>1, <2>2, Zenon
<1>12. d \in Pcb /\ Grown(b, d, <<TheSyn>>, ISS, SND_BUF - 1, 1)
  <2>1. <<TheSyn>> \in Seq(Seg) /\ 1 \in Nat
    BY SynFacts
  <2> QED BY <1>6, <1>7, <2>1, LongerFacts
<1>13. SynQueued(b, d)
  BY <1>2, <1>12, Zenon DEF SynQueued, Grown
<1>14. ASSUME Accepted(e, d, PoolAfter(b, p, <<TheSyn>>, 1, 1), e.cats)
       PROVE  /\ e.ok \in BOOLEAN /\ e.ok
              /\ e.pool = [buf |-> p.buf - 1, seg |-> p.seg - 1]
              /\ SynQueued(b, e.pcb)
  <2>1. /\ e.ok \in BOOLEAN /\ e.ok /\ e.pcb = d
        /\ e.pool = PoolAfter(b, p, <<TheSyn>>, 1, 1)
    BY <1>14, Zenon DEF Accepted
  <2> QED BY <1>11, <1>13, <2>1, Zenon
<1> QED BY <1>9, <1>10, <1>14, Zenon

\* The window t_tcp_connect leaves open takes the SYN.
LEMMA SynSendable ==
  ASSUME NEW b, NEW d, SynQueued(b, d)
  PROVE  ~BareAck(d) /\ Sendable(d) = 1
<1>1. /\ d \in Pcb /\ d.lastack = Minus(ISS, 1) /\ d.snd_wnd = WND /\ d.cwnd = 1
      /\ d.unsent = <<TheSyn>> /\ ~d.ack_now
  BY DEF SynQueued
<1>2. ~BareAck(d)
  BY <1>1 DEF BareAck
<1>3. Within(d, TheSyn)
  <2>1. /\ TheSyn \in Seg /\ Off(TheSyn.seq) = 0 /\ TheSyn.len = 0 /\ Off(d.lastack) = 0
        /\ SeqSpace > 0
    BY <1>1, SynFacts, Before, Sizes
  <2>2. Within(d, TheSyn) <=>
          Off(TheSyn.seq) - Off(d.lastack) + TheSyn.len <= Least(d.snd_wnd, d.cwnd)
    <3>1. /\ Off(d.lastack) <= Off(TheSyn.seq)
          /\ Off(TheSyn.seq) - Off(d.lastack) + TheSyn.len < SeqSpace
      BY <2>1
    <3> QED BY <1>1, <2>1, <3>1, WithinIs
  <2>3. Least(d.snd_wnd, d.cwnd) \in Nat
    BY <1>1, PcbFacts, LeastIs
  <2> QED BY <2>1, <2>2, <2>3
<1> DEFINE D == {k \in 0..Len(d.unsent) : \A i \in 1..k : Within(d, d.unsent[i])}
<1>4. Len(d.unsent) = 1 /\ \A i \in 1..Len(d.unsent) : d.unsent[i] = TheSyn
  BY <1>1, SynFacts
<1>5. \A k \in 0..1 : \A i \in 1..k : i \in 1..Len(d.unsent)
  BY <1>4
<1>6. D = 0..1
  BY <1>3, <1>4, <1>5
<1>7. Cardinality(0..1) = 2
  <2>1. ASSUME NEW i \in Int, NEW j \in Int, i <= j
        PROVE  Cardinality(i..j) = j - i + 1
    BY <2>1, FS_Interval
  <2>2. 0 \in Int /\ 1 \in Int /\ 0 <= 1 /\ 1 - 0 + 1 = 2
    OBVIOUS
  <2> QED BY <2>1, <2>2, Zenon
<1>8. Sendable(d) = Cardinality(D) - 1
  BY <1>2, Zenon DEF Sendable
<1> HIDE DEF D
<1> QED BY <1>2, <1>6, <1>7, <1>8

SynGone(d, f) ==
  /\ f \in Pcb /\ Same(d, f)
  /\ f.unsent = <<>> /\ f.unacked = <<TheSyn>> /\ f.snd_nxt = ISS
  /\ ~f.ack_now /\ f.local_ip

LEMMA SynSent ==
  ASSUME NEW b, NEW d, SynQueued(b, d), NEW p, NEW f, f = t_tcp_output(d, p).pcb
  PROVE  SynGone(d, f)
<1>1. ~BareAck(d) /\ Sendable(d) = 1
  BY SynSendable
<1>2. d \in Pcb /\ d.unsent = <<TheSyn>> /\ d.unacked = <<>> /\ ~d.ack_now
  BY DEF SynQueued
<1>3. /\ <<TheSyn>> \in Seq(Seg) /\ Len(<<TheSyn>>) = 1 /\ Chain(<<TheSyn>>, 0, 1)
      /\ <<TheSyn>>[1] = TheSyn /\ End(TheSyn) = 1
  BY SynFacts
<1>4. Chain(<<>>, 0, 0)
  BY DEF Chain
<1>5. 2 * (1 - 0) < SeqSpace /\ 1 < SeqSpace
  BY Sizes
<1>6. PICK x \in Sq : /\ f = Moved(d, Sendable(d), x)
                      /\ Sendable(d) # 0 => Off(x) = End(d.unsent[Sendable(d)])
  <2>1. /\ Chain(d.unacked, 0, 0) /\ Chain(d.unsent, 0, 1) /\ 0 \in Nat /\ 1 \in Nat
    BY <1>2, <1>3, <1>4
  <2> QED BY <1>1, <1>2, <1>5, <2>1, OutputMoves
<1>7. f = Moved(d, 1, x) /\ Off(x) = 1
  <2>1. 1 # 0
    OBVIOUS
  <2>2. Off(x) = End(d.unsent[1])
    BY <1>1, <1>6, <2>1, Zenon
  <2>3. d.unsent[1] = TheSyn
    BY <1>2, <1>3, Zenon
  <2>4. f = Moved(d, 1, x)
    BY <1>1, <1>6, Zenon
  <2> QED BY <1>3, <2>2, <2>3, <2>4, Zenon
<1>8. x = ISS
  BY <1>7, Before, OffInjective
<1>9. 1 \in 0..Len(d.unsent)
  BY <1>2, <1>3
<1>10. /\ f \in Pcb /\ Same(d, f)
       /\ f.unsent = SubSeq(d.unsent, 1 + 1, Len(d.unsent))
       /\ f.unacked = d.unacked \o SubSeq(d.unsent, 1, 1)
       /\ f.snd_nxt = x /\ (f.ack_now <=> AckPending(d)) /\ (f.local_ip <=> d.local_ip \/ 1 > 0)
  <2>1. d \in Pcb /\ 1 \in 0..Len(d.unsent) /\ f = Moved(d, 1, x)
    BY <1>2, <1>7, <1>9, Zenon
  <2> QED BY <2>1, MovedFacts, Zenon
<1>11. ~AckPending(d)
  BY <1>2 DEF AckPending
<1>12. 1 + 1 = 2 /\ SubSeq(d.unsent, 2, 1) = <<>>
  BY SubSeqEmpty
<1>13. SubSeq(d.unsent, 1, 1) = <<TheSyn>>
  BY <1>2, <1>3, SubSeqFull, Zenon
<1>14. <<>> \o <<TheSyn>> = <<TheSyn>>
  BY <1>3, ConcatEmptySeq
<1>15. f.unsent = <<>> /\ f.unacked = <<TheSyn>>
  <2>1. Len(d.unsent) = 1
    BY <1>2, <1>3, Zenon
  <2>2. f.unsent = SubSeq(d.unsent, 2, 1) /\ f.unacked = <<>> \o <<TheSyn>>
    BY <1>2, <1>10, <1>12, <1>13, <2>1, Zenon
  <2> QED BY <1>12, <1>14, <2>2, Zenon
<1>16. f.local_ip
  BY <1>10
<1>17. f.snd_nxt = ISS /\ ~f.ack_now /\ f \in Pcb /\ Same(d, f)
  BY <1>8, <1>10, <1>11
<1> QED BY <1>15, <1>16, <1>17, Zenon DEF SynGone

LEMMA SynOutConn ==
  ASSUME NEW b, NEW d, SynQueued(b, d), NEW f \in Pcb, Same(d, f),
         f.unsent = <<>>, f.unacked = <<TheSyn>>, f.snd_nxt = ISS, ~f.ack_now, f.local_ip
  PROVE  Conn(f)
<1>1. /\ f.state = "SYN_SENT" /\ f.lastack = Minus(ISS, 1) /\ f.snd_lbb = ISS
      /\ f.snd_wnd = WND /\ f.cwnd = 1 /\ f.snd_buf = SND_BUF - 1 /\ f.snd_queuelen = 1
  BY Zenon DEF Same, SynQueued
<1>2. Off(f.lastack) = 0 /\ Off(f.snd_nxt) = 1 /\ Off(f.snd_lbb) = 1
  BY <1>1, Before
<1>3. Chain(<<TheSyn>>, 0, 1) /\ Len(<<TheSyn>>) = 1
  BY SynFacts
<1>4. Chain(<<>>, 1, 1) /\ Data(<<>>) /\ Len(<<>>) = 0
  BY DEF Chain, Data
<1>5. f.snd_buf + Off(f.snd_lbb) - Off(f.lastack) = SND_BUF
  <2>1. SND_BUF \in Nat
    BY Sizes
  <2>2. SND_BUF - 1 + 1 - 0 = SND_BUF
    BY <2>1
  <2> QED BY <1>1, <1>2, <2>2, Zenon
<1>6. Len(f.unacked) + Len(f.unsent) <= f.snd_queuelen
  <2>1. 1 + 0 <= 1
    OBVIOUS
  <2> QED BY <1>1, <1>3, <1>4, <2>1, Zenon
<1>7. InFlight(f)
  <2>1. Least(f.snd_wnd, f.cwnd) \in Nat
    BY PcbFacts, LeastIs
  <2>2. Off(TheSyn.seq) = 0 /\ TheSyn.len = 0
    BY SynFacts
  <2>3. Off(TheSyn.seq) - Off(f.lastack) + TheSyn.len <= Least(f.snd_wnd, f.cwnd)
    BY <1>2, <2>1, <2>2
  <2>4. \A i \in 1..Len(f.unacked) : f.unacked[i] = TheSyn
    BY SynFacts, Zenon
  <2> QED BY <2>3, <2>4, Zenon DEF InFlight
<1>8. SynOut(f)
  BY <1>1, Zenon DEF SynOut
<1>9. f.state # "CLOSED" /\ f.state # "ESTABLISHED"
  BY <1>1
<1>10. /\ Chain(f.unacked, Off(f.lastack), Off(f.snd_nxt))
       /\ Chain(f.unsent, Off(f.snd_nxt), Off(f.snd_lbb))
       /\ Data(f.unsent)
  BY <1>2, <1>3, <1>4, Zenon
<1> QED BY <1>5, <1>6, <1>7, <1>8, <1>9, <1>10, Zenon DEF Conn

Dialled(d, g, l, x) ==
  /\ d \in Pcb /\ d.snd_queuelen <= QUEUELEN /\ d.mss <= MSS
  /\ Pools(d, g, l, x) /\ d.state = "SYN_SENT"

Connected(d, g, l, x) ==
  Dialled(d, g, l, x) /\ Conn(d) /\ d.snd_nxt = ISS /\ d.snd_lbb = ISS

LEMMA SynKept ==
  ASSUME NEW b, NEW a, SynQueued(b, a), NEW p \in [buf : Nat, seg : Nat],
         NEW l \in Nat, NEW x \in Nat, p.buf >= 1, p.seg >= 1, p.seg = SEGS, AllBufs(p.buf, p.seg, l, x),
         NEW g, g = [buf |-> p.buf - 1, seg |-> p.seg - 1],
         NEW d, d = t_tcp_output(a, g).pcb
  PROVE  Connected(d, g, l, x)
<1>1. /\ d \in Pcb /\ Same(a, d)
      /\ d.unsent = <<>> /\ d.unacked = <<TheSyn>> /\ d.snd_nxt = ISS
      /\ ~d.ack_now /\ d.local_ip
  <2>1. SynGone(a, d)
    BY SynSent
  <2> QED BY <2>1 DEF SynGone
<1>2. Conn(d)
  BY <1>1, SynOutConn
<1>3. d.state = "SYN_SENT" /\ d.snd_lbb = ISS /\ d.snd_queuelen = 1 /\ d.mss = MSS
  BY <1>1, Zenon DEF Same, SynQueued
<1>4. /\ p.buf - 1 \in Nat /\ p.seg - 1 \in Nat
      /\ AllBufs(p.buf - 1, p.seg - 1, l, x) /\ (p.seg - 1) + 1 + 0 = SEGS
  BY Sizes DEF AllBufs
<1>5. Len(d.unacked) = 1 /\ Len(d.unsent) = 0
  BY <1>1, SynFacts
<1>6. ASSUME NEW i \in Nat, NEW j \in Nat, g = [buf |-> i, seg |-> j]
      PROVE  g \in [buf : Nat, seg : Nat] /\ g.buf = i /\ g.seg = j
  BY <1>6
<1>7. g \in [buf : Nat, seg : Nat] /\ g.buf = p.buf - 1 /\ g.seg = p.seg - 1
  BY <1>4, <1>6, Zenon
<1>8. Pools(d, g, l, x)
  <2>1. AllBufs(g.buf, g.seg, l, x)
    BY <1>4, <1>7, Zenon
  <2>2. g.seg + Len(d.unacked) + Len(d.unsent) = SEGS
    BY <1>4, <1>5, <1>7
  <2> QED BY <1>7, <2>1, <2>2 DEF Pools
<1>9. d.snd_queuelen <= QUEUELEN /\ d.mss <= MSS
  BY <1>3, Sizes
<1> QED BY <1>1, <1>2, <1>3, <1>8, <1>9, Zenon DEF Dialled, Connected

LEMMA SynRefused ==
  ASSUME NEW b \in Pcb, Fresh(b), NEW p \in [buf : Nat, seg : Nat],
         NEW l \in Nat, NEW x \in Nat, p.seg = SEGS, AllBufs(p.buf, p.seg, l, x)
  PROVE  Dialled(b, p, l, x) /\ Unused(b)
<1>1. /\ b.state = "SYN_SENT" /\ b.unsent = <<>> /\ b.unacked = <<>> /\ b.snd_buf = SND_BUF
      /\ b.snd_queuelen = 0 /\ b.mss = MSS /\ ~b.ack_now /\ ~b.local_ip
  BY DEF Fresh
<1>2. Unused(b)
  BY <1>1 DEF Unused
<1>3. Len(<<>>) = 0 /\ p.seg + 0 + 0 = SEGS
  OBVIOUS
<1>4. Pools(b, p, l, x)
  BY <1>1, <1>3, Zenon DEF Pools
<1>5. b.snd_queuelen <= QUEUELEN /\ b.mss <= MSS
  BY <1>1, Sizes
<1> QED BY <1>1, <1>2, <1>4, <1>5, Zenon DEF Dialled

LEMMA ConnectKeeps ==
  ASSUME NEW c \in Pcb, Unused(c), NEW p, NEW l, NEW x, Pools(c, p, l, x),
         NEW e, e = t_tcp_enqueue(Opening(c), p, 0, TRUE, FALSE)
  PROVE  \/ /\ e.ok \in BOOLEAN /\ ~e.ok
            /\ Dialled(e.pcb, e.pool, l, x) /\ Unused(e.pcb)
         \/ LET d == t_tcp_output(e.pcb, e.pool).pcb
            IN e.ok \in BOOLEAN /\ e.ok /\ Connected(d, e.pool, l, x)
<1>1. PICK b : b = Opening(c)
  OBVIOUS
<1>2. b \in Pcb /\ Fresh(b)
  BY <1>1, OpeningFacts
<1>3. /\ p \in [buf : Nat, seg : Nat] /\ l \in Nat /\ x \in Nat
      /\ p.seg = SEGS /\ AllBufs(p.buf, p.seg, l, x)
  <2>1. /\ p \in [buf : Nat, seg : Nat] /\ l \in Nat /\ x \in Nat
        /\ p.seg + Len(c.unacked) + Len(c.unsent) = SEGS
        /\ AllBufs(p.buf, p.seg, l, x)
    BY DEF Pools
  <2>2. Len(c.unsent) = 0 /\ Len(c.unacked) = 0
    BY DEF Unused
  <2> QED BY <2>1, <2>2
<1>4. \/ Refused(e, b, p, e.cats)
      \/ /\ p.buf >= 1 /\ p.seg >= 1 /\ e.ok \in BOOLEAN /\ e.ok
         /\ e.pool = [buf |-> p.buf - 1, seg |-> p.seg - 1]
         /\ SynQueued(b, e.pcb)
  BY <1>1, <1>2, <1>3, SynEnqueued
<1>5. CASE Refused(e, b, p, e.cats)
  <2>1. e.ok \in BOOLEAN /\ ~e.ok /\ e.pool = p /\ e.pcb = b
    BY <1>5, Zenon DEF Refused
  <2>2. Dialled(b, p, l, x) /\ Unused(b)
    BY <1>2, <1>3, SynRefused
  <2> QED BY <2>1, <2>2, Zenon
<1>6. CASE /\ p.buf >= 1 /\ p.seg >= 1 /\ e.ok \in BOOLEAN /\ e.ok
           /\ e.pool = [buf |-> p.buf - 1, seg |-> p.seg - 1]
           /\ SynQueued(b, e.pcb)
  <2>1. PICK a : a = e.pcb
    OBVIOUS
  <2>2. PICK g : g = e.pool
    OBVIOUS
  <2>3. PICK d : d = t_tcp_output(a, g).pcb
    OBVIOUS
  <2>4. SynQueued(b, a) /\ g = [buf |-> p.buf - 1, seg |-> p.seg - 1] /\ p.buf >= 1 /\ p.seg >= 1
    BY <1>6, <2>1, <2>2, Zenon
  <2>5. Connected(d, g, l, x)
    BY <1>3, <2>3, <2>4, SynKept
  <2> QED BY <1>6, <2>1, <2>2, <2>3, <2>5, Zenon
<1> QED BY <1>4, <1>5, <1>6, Zenon

(***************************************************************************)
(* t_tcp_input: the SYN|ACK opens the connection.                          *)
(***************************************************************************)

\* The pcb d a SYN|ACK makes of c.
Answered(c, d, f, r, k, w, j, u, m) ==
  /\ d \in Pcb
  /\ d.snd_buf = f /\ d.rcv_nxt = r /\ d.lastack = k
  /\ d.snd_wnd = w /\ d.state = "ESTABLISHED" /\ d.cwnd = c.mss
  /\ d.snd_queuelen = j /\ d.unacked = u /\ d.mss = m
  /\ d.snd_nxt = c.snd_nxt /\ d.snd_lbb = c.snd_lbb /\ d.unsent = c.unsent
  /\ d.ack_now /\ (d.local_ip <=> c.local_ip)

LEMMA AnsweredIs ==
  ASSUME NEW c \in Pcb, NEW f \in Nat, NEW r \in Sq, NEW k \in Sq, NEW w \in Nat, NEW h \in Nat,
         h = c.mss, NEW j \in Nat, NEW u \in Seq(Seg), NEW m \in Nat,
         NEW d, d = [c EXCEPT !.snd_buf = f, !.rcv_nxt = r, !.lastack = k,
                              !.snd_wnd = w, !.state = "ESTABLISHED", !.cwnd = h,
                              !.snd_queuelen = j, !.unacked = u, !.mss = m, !.ack_now = TRUE]
  PROVE  Answered(c, d, f, r, k, w, j, u, m)
<1> DEFINE a1 == [c EXCEPT !.snd_buf = f, !.rcv_nxt = r, !.lastack = k]
           a2 == [a1 EXCEPT !.snd_wnd = w, !.state = "ESTABLISHED", !.cwnd = h]
<1>1. d = [a2 EXCEPT !.snd_queuelen = j, !.unacked = u, !.mss = m, !.ack_now = TRUE]
  BY Zenon
<1>2. a1 \in Pcb
  BY DEF Pcb
<1>3. /\ a1.snd_buf = f /\ a1.rcv_nxt = r /\ a1.lastack = k /\ a1.snd_nxt = c.snd_nxt
      /\ a1.snd_lbb = c.snd_lbb /\ a1.unsent = c.unsent
  BY DEF Pcb
<1>4. a1.local_ip <=> c.local_ip
  BY DEF Pcb
<1> HIDE DEF a1
<1>5. a2 \in Pcb
  <2> DEFINE b == [a1 EXCEPT !.snd_wnd = w]
             e == [b EXCEPT !.state = "ESTABLISHED"]
  <2>1. b \in Pcb
    BY <1>2 DEF Pcb
  <2> HIDE DEF b
  <2>2. e \in Pcb
    BY <2>1 DEF Pcb
  <2>3. a2 = [e EXCEPT !.cwnd = h]
    BY Zenon DEF b
  <2> HIDE DEF e, a2
  <2> QED BY <2>2, <2>3 DEF Pcb
<1>6. /\ a2.snd_buf = a1.snd_buf /\ a2.rcv_nxt = a1.rcv_nxt /\ a2.lastack = a1.lastack
      /\ a2.snd_nxt = a1.snd_nxt /\ a2.snd_lbb = a1.snd_lbb /\ a2.unsent = a1.unsent
      /\ a2.snd_wnd = w /\ a2.state = "ESTABLISHED" /\ a2.cwnd = h
  BY <1>2 DEF Pcb
<1>7. a2.local_ip <=> a1.local_ip
  BY <1>2 DEF Pcb
<1> HIDE DEF a2
<1>8. d \in Pcb
  <2> DEFINE b == [a2 EXCEPT !.snd_queuelen = j, !.unacked = u, !.mss = m]
  <2>1. b \in Pcb
    BY <1>5 DEF Pcb
  <2>2. d = [b EXCEPT !.ack_now = TRUE]
    BY <1>1, Zenon
  <2> HIDE DEF b
  <2> QED BY <2>1, <2>2 DEF Pcb
<1>9. /\ d.snd_buf = a2.snd_buf /\ d.rcv_nxt = a2.rcv_nxt /\ d.lastack = a2.lastack
      /\ d.snd_nxt = a2.snd_nxt /\ d.snd_lbb = a2.snd_lbb /\ d.unsent = a2.unsent
      /\ d.snd_wnd = a2.snd_wnd /\ d.state = a2.state /\ d.cwnd = a2.cwnd
      /\ d.snd_queuelen = j /\ d.unacked = u /\ d.mss = m
  BY <1>1, <1>5 DEF Pcb
<1>10. d.ack_now /\ (d.local_ip <=> a2.local_ip)
  BY <1>1, <1>5 DEF Pcb
<1> QED BY <1>3, <1>4, <1>6, <1>7, <1>8, <1>9, <1>10 DEF Answered

LEMMA PeerFacts ==
  ASSUME NEW s \in PeerSegs, s.syn
  PROVE  s.seq = PeerISS /\ s.wnd \in Nat /\ s.mss \in Nat /\ s.ackno \in Sq
<1>1. PeerISS \in Sq /\ MSS \in Nat /\ PeerWnds \subseteq Nat /\ PeerMss \subseteq Nat /\ ISS \in Sq
  BY Sizes, SizeAssumption
<1>2. Plus(ISS, 1) \in Sq
  BY <1>1, PlusIs, Sizes
<1>3. s \notin PeerOther
  BY DEF PeerOther
<1>4. s \in PeerSynAck
  BY <1>3 DEF PeerSegs
<1> QED BY <1>1, <1>2, <1>4 DEF PeerSynAck, NoMss

LEMMA ParseoptIs ==
  ASSUME NEW s, s.mss \in Nat
  PROVE  t_tcp_parseopt(s) \in Nat /\ t_tcp_parseopt(s) <= MSS
<1>1. MSS \in Nat
  BY Sizes
<1> QED BY <1>1 DEF t_tcp_parseopt, Least

\* Only the SYN's own acknowledgement is taken.
LEMMA AckOfSynIs ==
  ASSUME NEW c \in Pcb, Conn(c), NEW s, AckOfSyn(c, s)
  PROVE  /\ SynOut(c) /\ c.state = "SYN_SENT" /\ s.syn /\ s.ackno = ISS
         /\ Tail(c.unacked) = <<>>
<1>1. c.state = "SYN_SENT" /\ s.syn /\ s.ackno = Plus(c.unacked[1].seq, 1)
  BY DEF AckOfSyn
<1>2. SynOut(c)
  BY <1>1 DEF Conn
<1>3. c.unacked = <<TheSyn>>
  BY <1>2 DEF SynOut
<1>4. <<TheSyn>>[1] = TheSyn /\ TheSyn.seq = Minus(ISS, 1)
  BY SynFacts DEF TheSyn
<1>5. s.ackno = ISS
  BY <1>1, <1>3, <1>4, Before, Zenon
<1> DEFINE t == TheSyn
<1> HIDE DEF t
<1>6. Tail(<<t>>) = <<>>
  OBVIOUS
<1> QED BY <1>1, <1>2, <1>3, <1>5, <1>6 DEF t

LEMMA EstablishedIs ==
  ASSUME NEW c \in Pcb, Conn(c), NEW s \in PeerSegs, AckOfSyn(c, s), NEW d, d = Established(c, s)
  PROVE  /\ c.snd_queuelen >= 1
         /\ Answered(c, d, c.snd_buf + 1, Plus(PeerISS, 1), ISS, s.wnd, c.snd_queuelen - 1, <<>>,
                     t_tcp_parseopt(s))
<1>1. SynOut(c) /\ s.syn /\ s.ackno = ISS /\ Tail(c.unacked) = <<>>
  BY AckOfSynIs
<1>2. s.seq = PeerISS /\ s.wnd \in Nat /\ s.mss \in Nat
  BY <1>1, PeerFacts
<1>3. t_tcp_parseopt(s) \in Nat
  BY <1>2, ParseoptIs
<1>4. Plus(PeerISS, 1) \in Sq /\ ISS \in Sq
  BY Sizes, PlusIs
<1>5. c.snd_queuelen >= 1 /\ c.snd_queuelen - 1 \in Nat /\ c.snd_buf + 1 \in Nat
  <2>1. Len(c.unacked) + Len(c.unsent) <= c.snd_queuelen
    BY DEF Conn
  <2>2. Len(c.unacked) = 1
    BY <1>1, SynFacts DEF SynOut
  <2>3. Len(c.unsent) \in Nat /\ c.snd_queuelen \in Nat /\ c.snd_buf \in Nat
    BY PcbFacts, EmptyLen
  <2> QED BY <2>1, <2>2, <2>3
<1>6. d = [c EXCEPT !.snd_buf = c.snd_buf + 1, !.rcv_nxt = Plus(PeerISS, 1), !.lastack = ISS,
                    !.snd_wnd = s.wnd, !.state = "ESTABLISHED", !.cwnd = c.mss,
                    !.snd_queuelen = c.snd_queuelen - 1, !.unacked = <<>>,
                    !.mss = t_tcp_parseopt(s), !.ack_now = TRUE]
  BY <1>1, <1>2, Zenon DEF Established, BufSlotReturned, QueueSlotReturned
<1>7. c.mss \in Nat /\ <<>> \in Seq(Seg)
  BY PcbFacts
<1>8. Answered(c, d, c.snd_buf + 1, Plus(PeerISS, 1), ISS, s.wnd, c.snd_queuelen - 1, <<>>,
               t_tcp_parseopt(s))
  BY <1>2, <1>3, <1>4, <1>5, <1>6, <1>7, AnsweredIs
<1> QED BY <1>5, <1>8, Zenon

LEMMA AnsweredConn ==
  ASSUME NEW c \in Pcb, Conn(c), SynOut(c), NEW d, NEW r, NEW w, NEW m,
         Answered(c, d, c.snd_buf + 1, r, ISS, w, c.snd_queuelen - 1, <<>>, m)
  PROVE  d \in Pcb /\ Conn(d)
<1>1. /\ d \in Pcb /\ d.snd_buf = c.snd_buf + 1 /\ d.lastack = ISS
      /\ d.state = "ESTABLISHED" /\ d.snd_queuelen = c.snd_queuelen - 1 /\ d.unacked = <<>>
      /\ d.snd_nxt = c.snd_nxt /\ d.snd_lbb = c.snd_lbb /\ d.unsent = c.unsent
      /\ (d.local_ip <=> c.local_ip)
  BY DEF Answered
<1>2. /\ c.local_ip /\ Chain(c.unsent, Off(c.snd_nxt), Off(c.snd_lbb)) /\ Data(c.unsent)
      /\ c.snd_buf + Off(c.snd_lbb) - Off(c.lastack) = SND_BUF
      /\ Len(c.unacked) + Len(c.unsent) <= c.snd_queuelen
  BY DEF Conn
<1>3. /\ c.lastack = Minus(ISS, 1) /\ c.snd_nxt = ISS /\ c.unacked = <<TheSyn>>
      /\ c.unsent = <<>> => c.snd_queuelen = 1
  BY DEF SynOut
<1>4. Off(c.lastack) = 0 /\ Off(d.lastack) = 1 /\ Off(d.snd_nxt) = 1
  BY <1>1, <1>3, Before
<1>5. Chain(<<>>, 1, 1) /\ Data(<<>>) /\ Len(<<>>) = 0
  BY DEF Chain, Data
<1>6. Len(c.unacked) = 1 /\ Len(c.unsent) \in Nat /\ c.snd_queuelen \in Nat
  BY <1>3, PcbFacts, EmptyLen, SynFacts
<1>7. 0 + Len(c.unsent) <= c.snd_queuelen - 1
  BY <1>2, <1>6
<1>8. d.snd_buf + Off(d.snd_lbb) - Off(d.lastack) = SND_BUF
  <2>1. c.snd_buf \in Nat /\ Off(c.snd_lbb) \in Nat
    BY PcbFacts, PcbOffs
  <2>2. c.snd_buf + Off(c.snd_lbb) - 0 = SND_BUF
    BY <1>2, <1>4
  <2>3. (c.snd_buf + 1) + Off(c.snd_lbb) - 1 = SND_BUF
    BY <2>1, <2>2
  <2> QED BY <1>1, <1>4, <2>3, Zenon
<1>9. Len(d.unacked) + Len(d.unsent) <= d.snd_queuelen
  BY <1>1, <1>5, <1>7, Zenon
<1>10. InFlight(d)
  BY <1>1, <1>5 DEF InFlight
<1>11. Open(d)
  <2>1. c.unsent = <<>> => c.snd_queuelen - 1 = 0
    BY <1>3
  <2> QED BY <1>1, <1>5, <2>1, Zenon DEF Open
<1>12. Chain(d.unacked, Off(d.lastack), Off(d.snd_nxt))
  BY <1>1, <1>4, <1>5, Zenon
<1>13. Chain(d.unsent, Off(d.snd_nxt), Off(d.snd_lbb)) /\ Data(d.unsent) /\ d.local_ip
  BY <1>1, <1>2, Zenon
<1>14. d.state # "CLOSED" /\ d.state # "SYN_SENT"
  BY <1>1
<1> QED BY <1>1, <1>8, <1>9, <1>10, <1>11, <1>12, <1>13, <1>14, Zenon DEF Conn

LEMMA PoolReturns ==
  ASSUME NEW p \in [buf : Nat, seg : Nat], p.buf > 0
  PROVE  LET t == [p EXCEPT !.buf = @ - 1]
             f == SynFreed(t)
         IN /\ [t EXCEPT !.buf = @ + 1] = p
            /\ [f EXCEPT !.buf = @ + 1] = [buf |-> p.buf + 1, seg |-> p.seg + 1]
<1> DEFINE t == [p EXCEPT !.buf = @ - 1]
           f == SynFreed(t)
<1>1. t \in [buf : Nat, seg : Nat] /\ t.buf = p.buf - 1 /\ t.seg = p.seg
  OBVIOUS
<1>2. [t EXCEPT !.buf = @ + 1] = p
  <2>1. p.buf - 1 + 1 = p.buf /\ p.buf \in Nat /\ p.seg \in Nat
    OBVIOUS
  <2>2. t = [buf |-> p.buf - 1, seg |-> p.seg]
    OBVIOUS
  <2>3. ASSUME NEW i, NEW j
        PROVE  [[buf |-> i, seg |-> j] EXCEPT !.buf = @ + 1] = [buf |-> i + 1, seg |-> j]
    OBVIOUS
  <2>4. [t EXCEPT !.buf = @ + 1] = [buf |-> p.buf - 1 + 1, seg |-> p.seg]
    BY <2>2, <2>3, Zenon
  <2>5. p = [buf |-> p.buf, seg |-> p.seg]
    OBVIOUS
  <2> QED BY <2>1, <2>4, <2>5, Zenon
<1>3. f = [buf |-> p.buf - 1 + 1, seg |-> p.seg + 1]
  BY <1>1, Zenon DEF SynFreed
<1>4. p.buf - 1 + 1 = p.buf
  OBVIOUS
<1>5. f = [buf |-> p.buf, seg |-> p.seg + 1]
  BY <1>3, <1>4, Zenon
<1> HIDE DEF f
<1>6. [f EXCEPT !.buf = @ + 1] = [buf |-> p.buf + 1, seg |-> p.seg + 1]
  BY <1>5
<1> QED BY <1>2, <1>6 DEF f

LEMMA OneBack ==
  ASSUME NEW a \in Nat, NEW s \in Nat, NEW i \in Nat, NEW j \in Nat, AllBufs(a, s, i, j),
         NEW b \in Nat, b = a + 1, NEW n \in Nat, n = s + 1
  PROVE  AllBufs(b, n, i, j)
  BY Sizes DEF AllBufs

\* The SYN leaves the queue, and its buffers go back to the pools.
Dequeued(c, d) ==
  /\ SynOut(c) /\ d \in Pcb
  /\ d.snd_queuelen = c.snd_queuelen - 1 /\ d.unacked = <<>> /\ d.unsent = c.unsent

GivenBack(p, g) == g = [buf |-> p.buf + 1, seg |-> p.seg + 1]

LEMMA HandshakePools ==
  ASSUME NEW c \in Pcb, NEW d, Dequeued(c, d), NEW p, NEW l, NEW x, Pools(c, p, l, x),
         NEW g, GivenBack(p, g)
  PROVE  Pools(d, g, l, x)
<1>1. /\ p \in [buf : Nat, seg : Nat] /\ p.buf \in Nat /\ p.seg \in Nat /\ l \in Nat /\ x \in Nat
      /\ p.seg + Len(c.unacked) + Len(c.unsent) = SEGS
      /\ AllBufs(p.buf, p.seg, l, x)
  BY DEF Pools
<1>2. d.unacked = <<>> /\ d.unsent = c.unsent
  BY DEF Dequeued
<1>3. Len(c.unacked) = 1 /\ Len(c.unsent) \in Nat /\ c.snd_queuelen \in Nat
  BY PcbFacts, EmptyLen, SynFacts DEF Dequeued, SynOut
<1>4. p.buf + 1 \in Nat /\ p.seg + 1 \in Nat /\ (p.seg + 1) + 0 + Len(c.unsent) = SEGS
  <2>1. p.buf \in Nat /\ p.seg \in Nat /\ l \in Nat /\ x \in Nat
    BY <1>1
  <2>2. p.seg + 1 + Len(c.unsent) = SEGS
    BY <1>1, <1>3, Zenon
  <2>4. p.seg + 1 \in Nat /\ p.buf + 1 \in Nat /\ (p.seg + 1) + 0 + Len(c.unsent) = SEGS
    BY <1>3, <2>1, <2>2
  <2> QED BY <2>4
<1>5. ASSUME NEW i \in Nat, NEW j \in Nat, g = [buf |-> i, seg |-> j]
      PROVE  g \in [buf : Nat, seg : Nat] /\ g.buf = i /\ g.seg = j
  BY <1>5
<1>6. g \in [buf : Nat, seg : Nat] /\ g.buf = p.buf + 1 /\ g.seg = p.seg + 1
  BY <1>4, <1>5, Zenon DEF GivenBack
<1>7. Len(<<>>) = 0
  OBVIOUS
<1>8. AllBufs(g.buf, g.seg, l, x)
  <2>1. g.buf \in Nat /\ g.seg \in Nat /\ g.buf = p.buf + 1 /\ g.seg = p.seg + 1
    BY <1>4, <1>6
  <2> QED BY <1>1, <2>1, OneBack
<1>9. g.seg + Len(d.unacked) + Len(d.unsent) = SEGS
  BY <1>2, <1>4, <1>6, <1>7, Zenon
<1> QED BY <1>1, <1>6, <1>8, <1>9, Zenon DEF Pools

(***************************************************************************)
(* The actions keep the invariant.                                         *)
(***************************************************************************)

LEMMA Lens ==
  ASSUME NEW c \in Pcb
  PROVE  Len(c.unacked) \in Nat /\ Len(c.unsent) \in Nat
  BY PcbFacts, EmptyLen

\* The tcp_segs: free, on unacked and on unsent.
AllSegs(s, i, j) == s + i + j = SEGS

LEMMA SegsMove ==
  ASSUME NEW s \in Nat, NEW i \in Nat, NEW j \in Nat, NEW m \in Nat, NEW n \in Nat,
         AllSegs(s, i, j), m + n = i + j
  PROVE  AllSegs(s, m, n)
  BY DEF AllSegs

\* The pools do not mind which of the two queues a segment is on.
LEMMA SamePools ==
  ASSUME NEW c \in Pcb, NEW d \in Pcb, Same(c, d), NEW p, NEW l, NEW x, Pools(c, p, l, x)
  PROVE  Pools(d, p, l, x)
<1>1. Len(d.unacked) + Len(d.unsent) = Len(c.unacked) + Len(c.unsent)
  BY DEF Same
<1>2. /\ p \in [buf : Nat, seg : Nat] /\ l \in Nat /\ x \in Nat
      /\ p.seg + Len(c.unacked) + Len(c.unsent) = SEGS
      /\ AllBufs(p.buf, p.seg, l, x)
  BY DEF Pools
<1>3. p.seg \in Nat /\ AllSegs(p.seg, Len(c.unacked), Len(c.unsent))
  BY <1>2 DEF AllSegs
<1>4. AllSegs(p.seg, Len(d.unacked), Len(d.unsent))
  BY <1>1, <1>3, Lens, SegsMove
<1> QED BY <1>1, <1>2, <1>4, Zenon DEF Pools, AllSegs

LEMMA SameGood ==
  ASSUME NEW c, NEW p, NEW l, NEW x, Good(c, p, l, x, TRUE),
         NEW d \in Pcb, Conn(d), Same(c, d)
  PROVE  Good(d, p, l, x, TRUE)
<1>1. c \in Pcb /\ c.snd_queuelen <= QUEUELEN /\ c.mss <= MSS /\ Pools(c, p, l, x)
  BY DEF Good
<1>2. d.snd_queuelen = c.snd_queuelen /\ d.mss = c.mss
  BY DEF Same
<1>3. Pools(d, p, l, x)
  BY <1>1, SamePools
<1> QED BY <1>1, <1>2, <1>3, Zenon DEF Good

\* t_tcp_output on a connection.
LEMMA OutputGood ==
  ASSUME NEW c, NEW p, NEW l, NEW x, Good(c, p, l, x, TRUE),
         NEW g, NEW d, d = t_tcp_output(c, g).pcb
  PROVE  Good(d, p, l, x, TRUE)
<1>1. c \in Pcb /\ Conn(c)
  BY DEF Good
<1>2. d \in Pcb /\ Conn(d) /\ Same(c, d)
  BY <1>1, OutputKeeps
<1> QED BY <1>2, SameGood

\* t_tcp_output on a pcb whose SYN could not be queued finds nothing to send.
LEMMA OutputUnused ==
  ASSUME NEW c, NEW p, NEW l, NEW x, Good(c, p, l, x, FALSE),
         NEW g, NEW d, d = t_tcp_output(c, g).pcb
  PROVE  Good(d, p, l, x, FALSE) /\ d.state = c.state
<1>1. /\ c \in Pcb /\ Unused(c) /\ c.snd_queuelen <= QUEUELEN /\ c.mss <= MSS
      /\ Pools(c, p, l, x)
  BY DEF Good
<1>2. c.unsent = <<>> /\ c.unacked = <<>> /\ ~c.ack_now /\ ~c.local_ip /\ c.state # "ESTABLISHED"
      /\ c.snd_buf = SND_BUF /\ c.snd_queuelen = 0
  BY <1>1 DEF Unused
<1>3. ~BareAck(c)
  BY <1>2 DEF BareAck
<1>4. PICK k \in 0..Len(c.unsent) : k = Sendable(c) /\ k = 0
  <2>1. Sendable(c) \in 0..Len(c.unsent)
    BY <1>1, SendableIs
  <2>2. Len(c.unsent) = 0
    BY <1>2
  <2> QED BY <2>1, <2>2
<1>5. PICK y \in Sq : d = Moved(c, Sendable(c), y)
  <2>1. Chain(<<>>, 0, 0)
    BY DEF Chain
  <2>2. Chain(c.unacked, 0, 0) /\ Chain(c.unsent, 0, 0)
    BY <1>2, <2>1
  <2>3. 2 * (0 - 0) < SeqSpace /\ 0 < SeqSpace /\ 0 \in Nat
    BY Sizes
  <2> QED BY <1>1, <1>3, <2>2, <2>3, OutputMoves
<1>6. d = Moved(c, k, y)
  BY <1>4, <1>5, Zenon
<1>7. /\ d \in Pcb /\ Same(c, d)
      /\ d.unsent = SubSeq(c.unsent, k + 1, Len(c.unsent))
      /\ d.unacked = c.unacked \o SubSeq(c.unsent, 1, k)
      /\ d.snd_nxt = y /\ (d.ack_now <=> AckPending(c)) /\ (d.local_ip <=> c.local_ip \/ k > 0)
  BY <1>1, <1>6, MovedFacts
<1>8. ~(k > 0)
  BY <1>4
<1>9. ~d.ack_now /\ ~d.local_ip
  BY <1>2, <1>7, <1>8, Zenon DEF AckPending
<1>10. d.unsent = <<>> /\ d.unacked = <<>>
  <2>1. Len(d.unacked) + Len(d.unsent) = Len(c.unacked) + Len(c.unsent)
    BY <1>7 DEF Same
  <2>2. Len(c.unacked) = 0 /\ Len(c.unsent) = 0
    BY <1>2
  <2>3. PICK i \in Nat, j \in Nat : i = Len(d.unacked) /\ j = Len(d.unsent)
    BY <1>7, Lens
  <2>4. i + j = 0 + 0
    BY <2>1, <2>2, <2>3, Zenon
  <2>5. i = 0 /\ j = 0
    BY <2>4
  <2> QED BY <1>7, <2>3, <2>5, PcbFacts, EmptyLen
<1>11. d.state = c.state /\ d.snd_buf = c.snd_buf /\ d.snd_queuelen = c.snd_queuelen /\ d.mss = c.mss
  BY <1>7 DEF Same
<1>12. Unused(d)
  BY <1>2, <1>9, <1>10, <1>11, Zenon DEF Unused
<1>13. Pools(d, p, l, x)
  BY <1>1, <1>7, SamePools
<1> QED BY <1>1, <1>7, <1>11, <1>12, <1>13, Zenon DEF Good

\* What a call of t_tcp_input or t_tcp_output may do to the stream.
Advanced(c, d) ==
  /\ d.snd_lbb = c.snd_lbb /\ Off(c.snd_nxt) <= Off(d.snd_nxt)
  /\ d.state = c.state \/ (c.state = "SYN_SENT" /\ d.state = "ESTABLISHED")
  /\ d.state = "SYN_SENT" => d.snd_nxt = c.snd_nxt

LEMMA OutputAdvances ==
  ASSUME NEW c \in Pcb, Conn(c), NEW g, NEW d, d = t_tcp_output(c, g).pcb
  PROVE  Advanced(c, d)
<1>1. /\ d \in Pcb /\ Conn(d) /\ Same(c, d)
      /\ Off(c.snd_nxt) <= Off(d.snd_nxt)
      /\ c.state = "SYN_SENT" => d.snd_nxt = c.snd_nxt
      /\ ~BareAck(c) => (d.ack_now <=> AckPending(c))
  BY OutputKeeps
<1>2. d.state = c.state /\ d.snd_lbb = c.snd_lbb
  BY <1>1 DEF Same
<1> QED BY <1>1, <1>2, Zenon DEF Advanced

\* The pcb b the SYN|ACK makes of c, before t_tcp_output.
Opened(c, b, g, l, x) ==
  /\ Good(b, g, l, x, TRUE) /\ b.ack_now
  /\ b.state = "ESTABLISHED" /\ c.state = "SYN_SENT"
  /\ b.snd_nxt = c.snd_nxt /\ b.snd_lbb = c.snd_lbb

LEMMA HandshakeGood ==
  ASSUME NEW c, NEW p, NEW l, NEW x, Good(c, p, l, x, TRUE), NEW s \in PeerSegs, AckOfSyn(c, s),
         NEW b, b = Established(c, s), NEW g, g = [buf |-> p.buf + 1, seg |-> p.seg + 1]
  PROVE  Opened(c, b, g, l, x)
<1>1. c \in Pcb /\ Conn(c) /\ Pools(c, p, l, x) /\ c.snd_queuelen <= QUEUELEN
  BY DEF Good
<1>2. SynOut(c) /\ c.state = "SYN_SENT" /\ s.syn
  BY <1>1, AckOfSynIs
<1>4. /\ c.snd_queuelen >= 1
      /\ Answered(c, b, c.snd_buf + 1, Plus(PeerISS, 1), ISS, s.wnd, c.snd_queuelen - 1, <<>>,
                  t_tcp_parseopt(s))
  BY <1>1, EstablishedIs
<1>5. b \in Pcb /\ Conn(b)
  BY <1>1, <1>2, <1>4, AnsweredConn
<1>6. Pools(b, g, l, x)
  <2>1. GivenBack(p, g)
    BY Zenon DEF GivenBack
  <2>2. Dequeued(c, b)
    BY <1>2, <1>4, Zenon DEF Answered, Dequeued
  <2> QED BY <1>1, <2>1, <2>2, HandshakePools
<1>7. /\ b.snd_queuelen = c.snd_queuelen - 1 /\ b.mss = t_tcp_parseopt(s)
      /\ b.state = "ESTABLISHED" /\ b.snd_nxt = c.snd_nxt /\ b.snd_lbb = c.snd_lbb
  BY <1>4, Zenon DEF Answered
<1>8. b.ack_now
  BY <1>4, Zenon DEF Answered
<1>9. b.mss <= MSS
  BY <1>2, <1>7, PeerFacts, ParseoptIs
<1>10. b.snd_queuelen <= QUEUELEN
  <2>1. c.snd_queuelen \in Nat
    BY <1>1, PcbFacts
  <2> QED BY <1>1, <1>7, <2>1, Sizes
<1>11. Good(b, g, l, x, TRUE)
  BY <1>5, <1>6, <1>9, <1>10, Zenon DEF Good
<1> QED BY <1>2, <1>7, <1>8, <1>11, Zenon DEF Opened

\* The pcb d, the pools g and what has been sent, w, after a segment.
Arrived(c, d, g, l, x, w) == Good(d, g, l, x, TRUE) /\ Answers(d, w) /\ Advanced(c, d)

LEMMA InputGood ==
  ASSUME NEW c, NEW p, NEW l, NEW x, Good(c, p, l, x, TRUE), p.buf > 0, NEW s \in PeerSegs,
         NEW w, Answers(c, w),
         NEW h \in BOOLEAN, h <=> AckOfSyn(c, s),
         NEW r, r = [p EXCEPT !.buf = @ - 1],
         NEW r2, r2 = IF h THEN SynFreed(r) ELSE r,
         NEW o, o = t_tcp_output(IF h THEN Established(c, s) ELSE c, r2)
  PROVE  Arrived(c, o.pcb, [r2 EXCEPT !.buf = @ + 1], l, x, w \cup o.out)
<1>1. c \in Pcb /\ Conn(c) /\ p \in [buf : Nat, seg : Nat]
  BY DEF Good, Pools
<1>2. CASE h
  <2>1. r2 = SynFreed(r) /\ o = t_tcp_output(Established(c, s), r2)
    BY <1>2
  <2>2. PICK b : b = Established(c, s)
    OBVIOUS
  <2>3. PICK g : g = [buf |-> p.buf + 1, seg |-> p.seg + 1]
    OBVIOUS
  <2>4. [r2 EXCEPT !.buf = @ + 1] = g
    BY <1>1, <2>1, <2>3, PoolReturns, Zenon
  <2>5. Opened(c, b, g, l, x)
    BY <1>2, <2>2, <2>3, HandshakeGood
  <2>6. /\ Good(b, g, l, x, TRUE) /\ b.ack_now /\ b.state = "ESTABLISHED" /\ c.state = "SYN_SENT"
        /\ b.snd_nxt = c.snd_nxt /\ b.snd_lbb = c.snd_lbb
    BY <2>5 DEF Opened
  <2>7. b \in Pcb /\ Conn(b)
    BY <2>6 DEF Good
  <2>8. PICK d : d = t_tcp_output(b, r2).pcb
    OBVIOUS
  <2>9. Good(d, g, l, x, TRUE)
    BY <2>6, <2>8, OutputGood
  <2>10. Answers(b, w)
    BY <2>6 DEF Answers
  <2>11. Answers(d, w \cup t_tcp_output(b, r2).out)
    BY <2>7, <2>8, <2>10, OutputAnswers
  <2>12. Advanced(b, d)
    BY <2>7, <2>8, OutputAdvances
  <2>13. Advanced(c, d)
    BY <2>6, <2>12, Zenon DEF Advanced
  <2>14. o = t_tcp_output(b, r2)
    BY <2>1, <2>2, Zenon
  <2> QED BY <2>4, <2>8, <2>9, <2>11, <2>13, <2>14, Zenon DEF Arrived
<1>3. CASE ~h
  <2>1. r2 = r /\ o = t_tcp_output(c, r2)
    BY <1>3
  <2>2. [r2 EXCEPT !.buf = @ + 1] = p
    BY <1>1, <2>1, PoolReturns, Zenon
  <2>3. PICK d : d = t_tcp_output(c, r2).pcb
    OBVIOUS
  <2>4. Good(d, p, l, x, TRUE)
    BY <2>3, OutputGood
  <2>5. Answers(d, w \cup t_tcp_output(c, r2).out)
    BY <1>1, <2>3, OutputAnswers
  <2>6. Advanced(c, d)
    BY <1>1, <2>3, OutputAdvances
  <2> QED BY <2>1, <2>2, <2>3, <2>4, <2>5, <2>6, Zenon DEF Arrived
<1> QED BY <1>2, <1>3

LEMMA ConnectStep ==
  ASSUME IInv, t_tcp_connect
  PROVE  /\ IInv'
         /\ ~opened
         /\ opened' => pcb'.state = "SYN_SENT" /\ pcb'.snd_nxt = ISS /\ pcb'.snd_lbb = ISS
<1> DEFINE E == t_tcp_enqueue(Opening(pcb), pool, 0, TRUE, FALSE)
<1>1. PICK e : e = E
  OBVIOUS
<1>2. PICK o : o = t_tcp_output(e.pcb, e.pool)
  OBVIOUS
<1> HIDE DEF E
<1>3. /\ pcb.state = "CLOSED"
      /\ pcb' = IF e.ok THEN o.pcb ELSE e.pcb
      /\ wire' = IF e.ok THEN wire \cup o.out ELSE wire
      /\ pool' = e.pool /\ opened' = e.ok
      /\ lent' = lent /\ lost' = lost /\ up' = up
  BY <1>1, <1>2, Zenon DEF t_tcp_connect, E
<1>4. /\ pcb \in Pcb /\ opened \in BOOLEAN /\ Pools(pcb, pool, lent, lost) /\ up \in BOOLEAN
      /\ opened => Conn(pcb)
      /\ ~opened => Unused(pcb)
  BY DEF IInv, Good
<1>5. ~opened /\ Unused(pcb)
  BY <1>3, <1>4 DEF Conn
<1>6. \/ /\ e.ok \in BOOLEAN /\ ~e.ok
         /\ Dialled(e.pcb, e.pool, lent, lost) /\ Unused(e.pcb)
      \/ e.ok \in BOOLEAN /\ e.ok /\ Connected(o.pcb, e.pool, lent, lost)
  <2>1. e = t_tcp_enqueue(Opening(pcb), pool, 0, TRUE, FALSE)
    BY <1>1 DEF E
  <2> QED BY <1>2, <1>4, <1>5, <2>1, ConnectKeeps, Zenon
<1>7. up' \in BOOLEAN
  BY <1>3, <1>4
<1>8. CASE e.ok \in BOOLEAN /\ ~e.ok /\ Dialled(e.pcb, e.pool, lent, lost) /\ Unused(e.pcb)
  <2>1. pcb' = e.pcb /\ pool' = e.pool /\ ~opened' /\ opened' \in BOOLEAN
    BY <1>3, <1>8, Zenon
  <2>2. /\ e.pcb \in Pcb /\ e.pcb.snd_queuelen <= QUEUELEN /\ e.pcb.mss <= MSS
        /\ Pools(e.pcb, e.pool, lent, lost) /\ e.pcb.state = "SYN_SENT"
    BY <1>8 DEF Dialled
  <2>3. Good(e.pcb, e.pool, lent, lost, opened')
    BY <1>8, <2>1, <2>2, Zenon DEF Good
  <2>4. Good(pcb', pool', lent', lost', opened')
    BY <1>3, <2>1, <2>3, Zenon
  <2>5. HandshakeAckOwed'
    BY <2>1, <2>2 DEF HandshakeAckOwed
  <2> QED BY <1>5, <1>7, <2>1, <2>4, <2>5, Zenon DEF IInv
<1>9. CASE e.ok \in BOOLEAN /\ e.ok /\ Connected(o.pcb, e.pool, lent, lost)
  <2>1. pcb' = o.pcb /\ pool' = e.pool /\ opened' /\ opened' \in BOOLEAN
    BY <1>3, <1>9, Zenon
  <2>2. /\ o.pcb \in Pcb /\ o.pcb.snd_queuelen <= QUEUELEN /\ o.pcb.mss <= MSS
        /\ Pools(o.pcb, e.pool, lent, lost) /\ o.pcb.state = "SYN_SENT"
        /\ Conn(o.pcb) /\ o.pcb.snd_nxt = ISS /\ o.pcb.snd_lbb = ISS
    BY <1>9 DEF Connected, Dialled
  <2>3. Good(o.pcb, e.pool, lent, lost, opened')
    BY <2>1, <2>2, Zenon DEF Good
  <2>4. Good(pcb', pool', lent', lost', opened')
    BY <1>3, <2>1, <2>3, Zenon
  <2>5. HandshakeAckOwed'
    BY <2>1, <2>2 DEF HandshakeAckOwed
  <2>6. pcb'.state = "SYN_SENT" /\ pcb'.snd_nxt = ISS /\ pcb'.snd_lbb = ISS
    BY <2>1, <2>2
  <2> QED BY <1>5, <1>7, <2>4, <2>5, <2>6, Zenon DEF IInv
<1> QED BY <1>6, <1>8, <1>9, Zenon

LEMMA WriteStep ==
  ASSUME IInv, t_tcp_write
  PROVE  /\ IInv'
         /\ opened /\ opened' = opened
         /\ pcb'.state = pcb.state /\ pcb'.snd_nxt = pcb.snd_nxt
         /\ Off(pcb.snd_lbb) <= Off(pcb'.snd_lbb)
<1>1. PICK len \in 1..SND_BUF, copy \in Copies :
        LET e == t_tcp_enqueue(pcb, pool, len, FALSE, copy)
        IN /\ pcb' = e.pcb /\ pool' = e.pool
           /\ lost' = lost + e.cats
  BY Zenon DEF t_tcp_write
<1>2. PICK e : e = t_tcp_enqueue(pcb, pool, len, FALSE, copy)
  OBVIOUS
<1>3. /\ pcb' = e.pcb /\ pool' = e.pool
      /\ lost' = lost + e.cats
  BY <1>1, <1>2, Zenon
<1>4. opened /\ lent' = lent /\ wire' = wire /\ opened' = opened /\ up' = up
  BY DEF t_tcp_write
<1>5. /\ pcb \in Pcb /\ pcb.snd_queuelen <= QUEUELEN /\ pcb.mss <= MSS
      /\ Pools(pcb, pool, lent, lost) /\ Conn(pcb) /\ opened \in BOOLEAN
      /\ up \in BOOLEAN /\ HandshakeAckOwed
  BY <1>4 DEF IInv, Good
<1>6. len \in Nat /\ len >= 1
  BY Sizes
<1>7. Kept(pcb, e.pcb, e.pool, lent, lost + e.cats)
  BY <1>2, <1>5, <1>6, WriteKeeps, Zenon
<1>8. Kept(pcb, pcb', pool', lent', lost')
  BY <1>3, <1>4, <1>7, Zenon
<1>9. /\ pcb' \in Pcb /\ Conn(pcb') /\ pcb'.snd_queuelen <= QUEUELEN /\ pcb'.mss <= MSS
      /\ Pools(pcb', pool', lent', lost')
      /\ pcb'.state = pcb.state /\ (pcb'.ack_now <=> pcb.ack_now)
      /\ pcb'.snd_nxt = pcb.snd_nxt
      /\ Off(pcb.snd_lbb) <= Off(pcb'.snd_lbb)
  BY <1>8 DEF Kept
<1>10. Good(pcb', pool', lent', lost', opened')
  BY <1>4, <1>5, <1>9, Zenon DEF Good
<1>11. HandshakeAckOwed'
  BY <1>4, <1>5, <1>9, Zenon DEF HandshakeAckOwed
<1>12. up' \in BOOLEAN
  BY <1>4, <1>5
<1> QED BY <1>4, <1>9, <1>10, <1>11, <1>12, Zenon DEF IInv

\* The interface answers, or the process dies and leaves everything as it was.
LEMMA CrashStep ==
  ASSUME IInv, Crash
  PROVE  IInv' /\ pcb' = pcb /\ opened' = opened /\ ~up' /\ up' \in BOOLEAN
<1>1. /\ up' = FALSE /\ pcb' = pcb /\ pool' = pool /\ lent' = lent /\ lost' = lost
      /\ wire' = wire /\ opened' = opened
  BY DEF Crash
<1>2. Good(pcb', pool', lent', lost', opened')
  BY <1>1, Zenon DEF IInv
<1>3. HandshakeAckOwed'
  BY <1>1 DEF IInv, HandshakeAckOwed
<1> QED BY <1>1, <1>2, <1>3 DEF IInv

LEMMA OutputStep ==
  ASSUME IInv, Output, ~Crash
  PROVE  /\ IInv' /\ opened' = opened
         /\ opened => Advanced(pcb, pcb')
<1>1. PICK o : o = t_tcp_output(pcb, pool)
  OBVIOUS
<1>2. /\ pcb' = o.pcb /\ wire' = wire \cup o.out
      /\ pool' = pool /\ lent' = lent /\ opened' = opened /\ lost' = lost /\ up' = up
  BY <1>1, Zenon DEF Output
<1>3. Good(pcb, pool, lent, lost, opened) /\ opened \in BOOLEAN /\ up \in BOOLEAN
  BY DEF IInv, Good
<1>4. CASE opened
  <2>1. Good(pcb, pool, lent, lost, TRUE)
    BY <1>3, <1>4, Zenon DEF Good
  <2>2. pcb \in Pcb /\ Conn(pcb)
    BY <2>1 DEF Good
  <2>3. PICK d : d = o.pcb
    OBVIOUS
  <2>4. d = t_tcp_output(pcb, pool).pcb
    BY <1>1, <2>3, Zenon
  <2>5. Good(d, pool, lent, lost, TRUE)
    BY <2>1, <2>4, OutputGood
  <2>6. Answers(pcb, wire)
    BY Zenon DEF IInv, HandshakeAckOwed, Answers
  <2>7. Answers(d, wire \cup t_tcp_output(pcb, pool).out)
    BY <2>2, <2>4, <2>6, OutputAnswers
  <2>8. Advanced(pcb, d)
    BY <2>2, <2>4, OutputAdvances
  <2>9. Good(pcb', pool', lent', lost', opened')
    BY <1>2, <1>4, <2>3, <2>5, Zenon DEF Good
  <2>10. HandshakeAckOwed'
    <3>1. Answers(pcb', wire')
      BY <1>1, <1>2, <2>3, <2>7, Zenon
    <3> QED BY <3>1, Zenon DEF Answers, HandshakeAckOwed
  <2> QED BY <1>2, <1>3, <2>3, <2>8, <2>9, <2>10, Zenon DEF IInv
<1>5. CASE ~opened
  <2>1. Good(pcb, pool, lent, lost, FALSE)
    BY <1>3, <1>5, Zenon DEF Good
  <2>2. PICK d : d = o.pcb
    OBVIOUS
  <2>3. d = t_tcp_output(pcb, pool).pcb
    BY <1>1, <2>2, Zenon
  <2>4. Good(d, pool, lent, lost, FALSE) /\ d.state = pcb.state
    BY <2>1, <2>3, OutputUnused
  <2>5. Good(pcb', pool', lent', lost', opened')
    <3>1. opened = FALSE
      BY <1>3, <1>5
    <3> QED BY <1>2, <2>2, <2>4, <3>1, Zenon
  <2>6. HandshakeAckOwed'
    <3>1. pcb.state # "ESTABLISHED"
      BY <2>1 DEF Good, Unused
    <3> QED BY <1>2, <2>2, <2>4, <3>1, Zenon DEF HandshakeAckOwed
  <2> QED BY <1>2, <1>3, <1>5, <2>5, <2>6, Zenon DEF IInv
<1> QED BY <1>3, <1>4, <1>5

LEMMA InputStep ==
  ASSUME IInv, Input, ~Crash
  PROVE  /\ IInv' /\ opened /\ opened' = opened
         /\ Advanced(pcb, pcb')
<1>1. PICK s \in PeerSegs : t_tcp_input(s)
  BY DEF Input
<1>2. PICK h \in BOOLEAN : h <=> AckOfSyn(pcb, s)
  <2>1. AckOfSyn(pcb, s) \in BOOLEAN
    BY DEF AckOfSyn
  <2> QED BY <2>1
<1>3. PICK r : r = [pool EXCEPT !.buf = @ - 1]
  OBVIOUS
<1>4. PICK r2 : r2 = IF h THEN SynFreed(r) ELSE r
  OBVIOUS
<1>5. PICK o : o = t_tcp_output(IF h THEN Established(pcb, s) ELSE pcb, r2)
  OBVIOUS
<1>6. /\ pcb.local_ip /\ pool.buf > 0
      /\ pcb' = o.pcb /\ wire' = wire \cup o.out
      /\ pool' = [r2 EXCEPT !.buf = @ + 1]
      /\ lent' = lent /\ opened' = opened /\ lost' = lost /\ up' = up
  BY <1>1, <1>2, <1>3, <1>4, <1>5, Zenon DEF t_tcp_input
<1>7. Good(pcb, pool, lent, lost, opened) /\ opened \in BOOLEAN /\ up \in BOOLEAN
  BY DEF IInv, Good
<1>8. opened
  BY <1>6, <1>7 DEF Good, Unused
<1>9. Good(pcb, pool, lent, lost, TRUE)
  BY <1>7, <1>8, Zenon DEF Good
<1>10. Answers(pcb, wire)
  BY Zenon DEF IInv, HandshakeAckOwed, Answers
<1>11. Arrived(pcb, o.pcb, [r2 EXCEPT !.buf = @ + 1], lent, lost, wire \cup o.out)
  BY <1>2, <1>3, <1>4, <1>5, <1>6, <1>9, <1>10, InputGood, Zenon
<1>12. Arrived(pcb, pcb', pool', lent, lost, wire')
  BY <1>6, <1>11, Zenon
<1>13. Good(pcb', pool', lent, lost, TRUE) /\ Answers(pcb', wire') /\ Advanced(pcb, pcb')
  BY <1>12 DEF Arrived
<1>14. Good(pcb', pool', lent', lost', opened')
  BY <1>6, <1>8, <1>13, Zenon DEF Good
<1>15. HandshakeAckOwed'
  BY <1>13, Zenon DEF Answers, HandshakeAckOwed
<1> QED BY <1>6, <1>7, <1>8, <1>13, <1>14, <1>15, Zenon DEF IInv

LEMMA OneLent ==
  ASSUME NEW a \in Nat, NEW s \in Nat, NEW i \in Nat, NEW j \in Nat, AllBufs(a, s, i, j),
         NEW b \in Nat, NEW n \in Nat, b + n = a + i
  PROVE  AllBufs(b, s, n, j)
  BY Sizes DEF AllBufs

\* The rest of the program takes a pbuf or returns one.
LEMMA LentStep ==
  ASSUME IInv, Lend \/ Return
  PROVE  IInv' /\ pcb' = pcb /\ opened' = opened /\ up' = up
<1>1. /\ pcb' = pcb /\ wire' = wire /\ opened' = opened /\ lost' = lost /\ up' = up
      /\ \/ pool.buf > 0 /\ pool' = [pool EXCEPT !.buf = @ - 1] /\ lent' = lent + 1
         \/ lent > 0 /\ pool' = [pool EXCEPT !.buf = @ + 1] /\ lent' = lent - 1
  BY DEF Lend, Return
<1>2. /\ pcb \in Pcb /\ pcb.snd_queuelen <= QUEUELEN /\ pcb.mss <= MSS
      /\ opened \in BOOLEAN /\ Pools(pcb, pool, lent, lost)
      /\ opened => Conn(pcb)
      /\ ~opened => Unused(pcb)
      /\ up \in BOOLEAN /\ HandshakeAckOwed
  BY DEF IInv, Good
<1>3. /\ pool \in [buf : Nat, seg : Nat] /\ lent \in Nat /\ lost \in Nat /\ pool.seg \in Nat
      /\ pool.seg + Len(pcb.unacked) + Len(pcb.unsent) = SEGS
      /\ AllBufs(pool.buf, pool.seg, lent, lost)
  BY <1>2 DEF Pools
<1>4. /\ pool' \in [buf : Nat, seg : Nat] /\ lent' \in Nat
      /\ pool'.seg = pool.seg /\ pool'.buf + lent' = pool.buf + lent
  <2>1. pool \in [buf : Nat, seg : Nat] /\ lent \in Nat
    BY <1>3
  <2> QED BY <1>1, <2>1
<1>5. AllBufs(pool'.buf, pool.seg, lent', lost)
  <2>1. pool'.buf \in Nat /\ pool.buf \in Nat
    BY <1>3, <1>4
  <2> QED BY <1>3, <1>4, <2>1, OneLent
<1>6. Pools(pcb', pool', lent', lost')
  BY <1>1, <1>3, <1>4, <1>5, Zenon DEF Pools
<1>7. Good(pcb', pool', lent', lost', opened')
  BY <1>1, <1>2, <1>6, Zenon DEF Good
<1>8. HandshakeAckOwed'
  BY <1>1, <1>2, Zenon DEF HandshakeAckOwed
<1> QED BY <1>1, <1>2, <1>7, <1>8, Zenon DEF IInv

LEMMA InitGood ==
  ASSUME Init
  PROVE  IInv /\ ~opened /\ up = TRUE
<1>1. pcb \in Pcb /\ Unused(pcb) /\ pcb.snd_queuelen = 0 /\ pcb.mss = MSS
  <2>1. /\ SND_BUF \in Nat /\ MSS \in Nat /\ ISS \in Sq /\ 0 \in Sq /\ 0 \in Nat /\ 1 \in Nat
        /\ <<>> \in Seq(Seg)
    BY Sizes DEF Sq
  <2>2. pcb \in Pcb
    BY <2>1 DEF Init, Pcb
  <2> QED BY <2>2 DEF Init, Unused
<1>2. pool = [buf |-> POOL, seg |-> SEGS] /\ lent = 0 /\ lost = 0 /\ opened = FALSE /\ up = TRUE
  BY DEF Init
<1>3. POOL \in Nat /\ SEGS \in Nat /\ MSS \in Nat /\ QUEUELEN \in Nat
  BY Sizes
<1>4. Pools(pcb, pool, lent, lost)
  <2>1. pool \in [buf : Nat, seg : Nat] /\ pool.buf = POOL /\ pool.seg = SEGS
    BY <1>2, <1>3
  <2>2. Len(<<>>) = 0 /\ SEGS + 0 + 0 = SEGS /\ POOL + 0 + 0 + SEGS = POOL + SEGS /\ 0 \in Nat
    BY <1>3
  <2>3. pcb.unacked = <<>> /\ pcb.unsent = <<>>
    BY <1>1 DEF Unused
  <2> QED BY <1>1, <1>2, <2>1, <2>2, <2>3, Zenon DEF Pools, AllBufs
<1>5. HandshakeAckOwed
  BY <1>1 DEF Unused, HandshakeAckOwed
<1>6. pcb.snd_queuelen <= QUEUELEN /\ pcb.mss <= MSS
  BY <1>1, <1>3
<1>7. Good(pcb, pool, lent, lost, opened)
  BY <1>1, <1>2, <1>4, <1>6 DEF Good
<1> QED BY <1>2, <1>5, <1>7 DEF IInv

LEMMA StepGood ==
  ASSUME IInv, [Next]_vars
  PROVE  IInv'
<1>1. CASE t_tcp_connect
  BY <1>1, ConnectStep
<1>2. CASE t_tcp_write
  BY <1>2, WriteStep
<1>3. CASE Output
  BY <1>3, OutputStep, CrashStep
<1>4. CASE Input
  BY <1>4, InputStep, CrashStep
<1>5. CASE Lend \/ Return
  BY <1>5, LentStep
<1>6. CASE UNCHANGED vars
  BY <1>6 DEF vars, IInv, HandshakeAckOwed
<1> QED BY <1>1, <1>2, <1>3, <1>4, <1>5, <1>6 DEF Next

\* The invariant behind the theorems below: the queues are chains of segments
\* from lastack to snd_lbb that meet at snd_nxt, and every counter agrees with
\* them, for any sizes and wherever the sequence numbers wrap.
THEOREM Invariant == Spec => []IInv
<1>1. Init => IInv
  BY InitGood
<1>2. IInv /\ [Next]_vars => IInv'
  BY StepGood
<1> QED BY <1>1, <1>2, PTL DEF Spec

(***************************************************************************)
(* What the invariant says of the two queues together.                     *)
(***************************************************************************)

LEMMA OutIs ==
  ASSUME NEW c \in Pcb, Conn(c), NEW q, q = c.unacked \o c.unsent
  PROVE  /\ q \in Seq(Seg) /\ Len(q) = Len(c.unacked) + Len(c.unsent)
         /\ Chain(q, Off(c.lastack), Off(c.snd_lbb))
<1>1. c.unacked \in Seq(Seg) /\ c.unsent \in Seq(Seg)
  BY PcbFacts
<1>2. q \in Seq(Seg) /\ Len(q) = Len(c.unacked) + Len(c.unsent)
  BY <1>1, ConcatLen
<1>3. /\ Off(c.lastack) \in Nat /\ Off(c.snd_nxt) \in Nat /\ Off(c.snd_lbb) \in Nat
      /\ Chain(c.unacked, Off(c.lastack), Off(c.snd_nxt))
      /\ Chain(c.unsent, Off(c.snd_nxt), Off(c.snd_lbb))
  BY PcbOffs DEF Conn
<1>4. Chain(c.unacked \o c.unsent, Off(c.lastack), Off(c.snd_lbb))
  BY <1>1, <1>3, ChainConcat
<1> QED BY <1>2, <1>4

\* Both cases of IInv: a connection, or nothing at all.
LEMMA OutCases ==
  ASSUME IInv
  PROVE  /\ pcb \in Pcb
         /\ opened => Conn(pcb)
         /\ ~opened => Unused(pcb) /\ Outstanding = <<>>
<1>1. /\ pcb \in Pcb
      /\ opened => Conn(pcb)
      /\ ~opened => Unused(pcb)
  BY DEF IInv, Good
<1>2. ASSUME Unused(pcb)
      PROVE  Outstanding = <<>>
  <2>1. pcb.unacked = <<>> /\ pcb.unsent = <<>>
    BY <1>2 DEF Unused
  <2>2. <<>> \o <<>> = <<>>
    OBVIOUS
  <2> QED BY <2>1, <2>2, Zenon DEF Outstanding
<1> QED BY <1>1, <1>2, Zenon

LEMMA OutSeq ==
  ASSUME IInv
  PROVE  Outstanding \in Seq(Seg) /\ Len(Outstanding) = Len(pcb.unacked) + Len(pcb.unsent)
<1>1. pcb \in Pcb
  BY OutCases
<1>2. pcb.unacked \in Seq(Seg) /\ pcb.unsent \in Seq(Seg)
  BY <1>1, PcbFacts
<1> QED BY <1>2, ConcatLen DEF Outstanding

\* No segment is longer than the send buffer.
LEMMA SegLen ==
  ASSUME NEW c \in Pcb, Conn(c), NEW q, q = c.unacked \o c.unsent, NEW i \in 1..Len(q)
  PROVE  q[i] \in Segment
<1>1. q \in Seq(Seg) /\ Chain(q, Off(c.lastack), Off(c.snd_lbb))
  BY OutIs
<1>2. /\ Off(c.lastack) \in Nat /\ Off(c.snd_lbb) \in Nat
      /\ Off(c.snd_lbb) = SND_BUF - c.snd_buf + Off(c.lastack)
      /\ c.snd_buf \in Nat /\ SND_BUF \in Nat
  BY PcbOffs, Short, PcbFacts, Sizes
<1>3. PICK s : s = q[i]
  OBVIOUS
<1>4. /\ s \in Seg
      /\ Off(c.lastack) <= Off(s.seq) /\ End(s) <= Off(c.snd_lbb)
  BY <1>1, <1>2, <1>3, ChainAt
<1>5. /\ s.seq \in Sq /\ s.len \in Nat /\ s.syn \in BOOLEAN
      /\ TCPLEN(s) \in Nat /\ s.len <= TCPLEN(s)
      /\ Off(s.seq) \in Nat /\ End(s) = Off(s.seq) + TCPLEN(s)
  BY <1>4, SegFacts
<1>6. s.len \in 0..SND_BUF
  <2>1. Off(s.seq) + s.len <= Off(c.snd_lbb)
    BY <1>2, <1>4, <1>5
  <2> QED BY <1>2, <1>4, <1>5, <2>1
<1>7. s \in Segment
  BY <1>4, <1>5, <1>6 DEF Seg, Segment, Sq
<1> QED BY <1>3, <1>7

(***************************************************************************)
(* The properties.                                                         *)
(***************************************************************************)

LEMMA BufsBound ==
  ASSUME NEW a \in Nat, NEW s \in Nat, NEW i \in Nat, NEW j \in Nat, AllBufs(a, s, i, j),
         NEW n \in Nat, s + n = SEGS
  PROVE  a \in 0..POOL /\ i \in 0..POOL /\ j \in 0..POOL /\ POOL - a - i = n + j
<1>1. POOL \in Nat /\ SEGS \in Nat
  BY Sizes
<1> QED BY <1>1 DEF AllBufs

LEMMA TypesHold ==
  ASSUME IInv
  PROVE  TypeOK
<1>1. /\ pcb \in Pcb /\ pcb.snd_queuelen <= QUEUELEN /\ pcb.mss <= MSS
      /\ opened \in BOOLEAN /\ up \in BOOLEAN /\ Pools(pcb, pool, lent, lost)
  BY DEF IInv, Good
<1>2. QUEUELEN \in Nat /\ MSS \in Nat /\ SND_BUF \in Nat /\ POOL \in Nat /\ SEGS \in Nat
  BY Sizes
<1>3. /\ pcb.state \in {"CLOSED", "SYN_SENT", "ESTABLISHED"}
      /\ pcb.snd_buf \in Nat /\ pcb.snd_queuelen \in 0..QUEUELEN
      /\ {pcb.snd_lbb, pcb.snd_nxt, pcb.lastack, pcb.rcv_nxt} \subseteq 0..SeqSpace - 1
      /\ pcb.snd_wnd \in Nat /\ pcb.cwnd \in Nat /\ pcb.mss \in 0..MSS
      /\ pcb.ack_now \in BOOLEAN /\ pcb.local_ip \in BOOLEAN
  BY <1>1, <1>2, PcbFacts DEF Sq
<1>4. pcb.snd_buf \in 0..SND_BUF
  <2>1. CASE opened
    <3>1. Conn(pcb)
      BY <2>1, OutCases
    <3>2. /\ Off(pcb.lastack) <= Off(pcb.snd_lbb)
          /\ Off(pcb.snd_lbb) = SND_BUF - pcb.snd_buf + Off(pcb.lastack)
          /\ Off(pcb.lastack) \in Nat /\ Off(pcb.snd_lbb) \in Nat
      <4>1. /\ Off(pcb.lastack) \in Nat /\ Off(pcb.snd_lbb) \in Nat /\ Off(pcb.snd_nxt) \in Nat
        BY <1>1, PcbOffs
      <4>2. /\ Off(pcb.lastack) <= Off(pcb.snd_nxt) /\ Off(pcb.snd_nxt) <= Off(pcb.snd_lbb)
            /\ Off(pcb.snd_lbb) = SND_BUF - pcb.snd_buf + Off(pcb.lastack)
        BY <1>1, <3>1, Short
      <4> QED BY <4>1, <4>2
    <3> QED BY <1>2, <1>3, <3>2
  <2>2. CASE ~opened
    BY <1>2, <2>2, OutCases DEF Unused
  <2> QED BY <2>1, <2>2
<1>5. Outstanding \in Seq(Segment)
  <2>1. Outstanding \in Seq(Seg)
    BY OutSeq
  <2>2. ASSUME NEW i \in 1..Len(Outstanding)
        PROVE  Outstanding[i] \in Segment
    <3>1. CASE opened
      BY <3>1, OutCases, SegLen DEF Outstanding
    <3>2. CASE ~opened
      <4>1. Outstanding = <<>>
        BY <3>2, OutCases
      <4>2. 1..Len(<<>>) = {}
        OBVIOUS
      <4> QED BY <4>1, <4>2, Zenon
    <3> QED BY <3>1, <3>2
  <2>3. PICK q : q = Outstanding
    OBVIOUS
  <2>4. Len(q) \in Nat /\ q \in [1..Len(q) -> Seg]
    BY <2>1, <2>3, LenProperties
  <2>5. \A i \in 1..Len(q) : q[i] \in Segment
    BY <2>2, <2>3, Zenon
  <2>6. q \in [1..Len(q) -> Segment]
    BY <2>4, <2>5
  <2> QED BY <2>3, <2>4, <2>6, FunSeq, Zenon
<1>6. pool.buf \in 0..POOL /\ pool.seg \in 0..SEGS /\ {lent, lost} \subseteq 0..POOL
  <2>1. /\ pool.buf \in Nat /\ pool.seg \in Nat /\ lent \in Nat /\ lost \in Nat
        /\ AllSegs(pool.seg, Len(pcb.unacked), Len(pcb.unsent))
        /\ AllBufs(pool.buf, pool.seg, lent, lost)
    BY <1>1 DEF Pools, AllSegs
  <2>2. pool.seg <= SEGS
    BY <1>1, <1>2, <2>1, Lens DEF AllSegs
  <2>3. pool.buf \in 0..POOL /\ lent \in 0..POOL /\ lost \in 0..POOL
    <3>1. PICK i \in Nat, j \in Nat : i = Len(pcb.unacked) /\ j = Len(pcb.unsent)
      BY <1>1, <1>2, Lens, Zenon
    <3>2. PICK m \in Nat : m = pool.seg
      BY <2>1, Zenon
    <3>3. AllSegs(m, i, j)
      BY <2>1, <3>1, <3>2, Zenon
    <3>4. m + (i + j) = SEGS /\ i + j \in Nat
      BY <3>3 DEF AllSegs
    <3>5. PICK n \in Nat : m + n = SEGS
      BY <3>4
    <3>6. pool.seg + n = SEGS
      BY <3>2, <3>5, Zenon
    <3> QED BY <2>1, <3>6, BufsBound
  <2> QED BY <1>2, <2>1, <2>2, <2>3
<1> QED BY <1>1, <1>3, <1>4, <1>5, <1>6 DEF TypeOK

\* Type correctness: the widths of the pcb's fields, no counter below zero.
THEOREM TypeCorrect == Spec => []TypeOK
BY Invariant, TypesHold, PTL

\* A tcp_seg is in the pool or on a queue.
LEMMA SegsInUse ==
  ASSUME IInv
  PROVE  Len(Outstanding) \in Nat /\ pool.seg + Len(Outstanding) = SEGS
<1>1. pool.seg + Len(pcb.unacked) + Len(pcb.unsent) = SEGS /\ pool.seg \in Nat /\ pcb \in Pcb
  BY DEF IInv, Good, Pools
<1>2. Len(Outstanding) = Len(pcb.unacked) + Len(pcb.unsent)
  BY OutSeq
<1>3. Len(pcb.unacked) \in Nat /\ Len(pcb.unsent) \in Nat
  BY <1>1, Lens
<1>4. PICK s \in Nat, i \in Nat, j \in Nat :
        s = pool.seg /\ i = Len(pcb.unacked) /\ j = Len(pcb.unsent)
  BY <1>1, <1>3, Zenon
<1>5. s + i + j = SEGS
  BY <1>1, <1>4, Zenon
<1>6. s + (i + j) = SEGS /\ i + j \in Nat
  BY <1>5
<1> QED BY <1>2, <1>4, <1>6, Zenon

\* No tcp_seg is lost: t_tcp_enqueue's failures and merges and the SYN's
\* release return exactly what they took.
THEOREM SegsAreConserved == Spec => []SegsConserved
<1>1. ASSUME IInv
      PROVE  SegsConserved
  BY <1>1, SegsInUse DEF SegsConserved
<1> QED BY <1>1, Invariant, PTL

\* Every pbuf is free, lent, the one of a queued segment, or has been through
\* t_pbuf_cat: t_tcp_enqueue, wherever its loop fails, and the SYN|ACK return
\* all the others.
THEOREM PbufsAreAccounted == Spec => []PbufsAccounted
<1>1. ASSUME IInv
      PROVE  PbufsAccounted
  <2>1. /\ pool.buf \in Nat /\ pool.seg \in Nat /\ lent \in Nat /\ lost \in Nat
        /\ AllBufs(pool.buf, pool.seg, lent, lost)
    BY <1>1 DEF IInv, Good, Pools
  <2>2. Len(Outstanding) \in Nat /\ pool.seg + Len(Outstanding) = SEGS
    BY <1>1, SegsInUse
  <2> QED BY <2>1, <2>2, BufsBound DEF PbufsAccounted
<1> QED BY <1>1, Invariant, PTL

\* t_tcp_enqueue's assertions: snd_queuelen is zero exactly when nothing is
\* queued, although the SYN|ACK takes one off while data may wait.  And it never
\* counts fewer pbufs than there are segments queued.
THEOREM QueueLenIsSound == Spec => []QueueLenSound
<1>1. ASSUME IInv
      PROVE  QueueLenSound
  <2>1. CASE ~opened
    <3>1. Outstanding = <<>> /\ pcb.snd_queuelen = 0
      BY <1>1, <2>1, OutCases DEF Unused
    <3> QED BY <3>1 DEF QueueLenSound
  <2>2. CASE opened
    <3>1. pcb \in Pcb /\ Conn(pcb)
      BY <1>1, <2>2, OutCases
    <3>2. /\ Len(pcb.unacked) \in Nat /\ Len(pcb.unsent) \in Nat /\ pcb.snd_queuelen \in Nat
          /\ pcb.unacked \in Seq(Seg) /\ pcb.unsent \in Seq(Seg)
      BY <3>1, Lens, PcbFacts
    <3>3. PICK i \in Nat, j \in Nat, n \in Nat :
            i = Len(pcb.unacked) /\ j = Len(pcb.unsent) /\ n = pcb.snd_queuelen
      BY <3>2, Zenon
    <3>4. Outstanding \in Seq(Seg) /\ Len(Outstanding) = i + j
      BY <1>1, <3>3, OutSeq, Zenon
    <3>11. i + j <= n
      <4>1. Len(pcb.unacked) + Len(pcb.unsent) <= pcb.snd_queuelen
        BY <3>1 DEF Conn
      <4> QED BY <3>3, <4>1, Zenon
    <3>5. pcb.snd_queuelen = 0 => Outstanding = <<>>
      <4>1. n = 0 => i + j = 0
        BY <3>11
      <4>2. n = 0 => Len(Outstanding) = 0
        BY <3>4, <4>1, Zenon
      <4> QED BY <3>3, <3>4, <4>2, EmptyLen, Zenon
    <3>6. Outstanding = <<>> => pcb.unacked = <<>> /\ pcb.unsent = <<>>
      <4>1. Outstanding = <<>> => i + j = 0
        BY <3>4, EmptyLen, Zenon
      <4>2. Outstanding = <<>> => i = 0 /\ j = 0
        BY <4>1
      <4>3. Outstanding = <<>> => Len(pcb.unacked) = 0 /\ Len(pcb.unsent) = 0
        BY <3>3, <4>2, Zenon
      <4> QED BY <3>2, <4>3, EmptyLen, Zenon
    <3>7. pcb.state = "SYN_SENT" => pcb.unacked # <<>>
      <4>1. <<TheSyn>> # <<>>
        BY SynFacts, EmptyLen
      <4> QED BY <3>1, <4>1 DEF Conn, SynOut
    <3>8. pcb.state = "ESTABLISHED" => Open(pcb)
      BY <3>1 DEF Conn
    <3>9. pcb.state \in {"SYN_SENT", "ESTABLISHED"}
      BY <3>1, PcbFacts DEF Conn
    <3>10. Outstanding = <<>> => pcb.snd_queuelen = 0
      BY <3>6, <3>7, <3>8, <3>9 DEF Open
    <3>12. Len(Outstanding) <= pcb.snd_queuelen
      BY <3>3, <3>4, <3>11, Zenon
    <3> QED BY <3>5, <3>10, <3>12, Zenon DEF QueueLenSound
  <2> QED BY <2>1, <2>2
<1> QED BY <1>1, Invariant, PTL

\* Where a segment of a connection ends in the sequence space.
LEMMA EndSeq ==
  ASSUME NEW c \in Pcb, Conn(c), NEW s \in Seg, End(s) <= Off(c.snd_lbb),
         NEW y \in Sq, End(s) = Off(y)
  PROVE  Plus(s.seq, TCPLEN(s)) = y
<1>1. s.seq \in Sq /\ TCPLEN(s) \in Nat /\ End(s) \in Nat /\ End(s) = Off(s.seq) + TCPLEN(s)
  BY SegFacts
<1>2. Off(c.snd_lbb) < SeqSpace
  <2>1. 2 * (Off(c.snd_lbb) + MSS) < SeqSpace /\ Off(c.snd_lbb) \in Nat
    BY Short, PcbOffs
  <2> QED BY <2>1, Sizes
<1>3. Off(s.seq) + TCPLEN(s) < SeqSpace
  BY <1>1, <1>2, PcbOffs, Sizes
<1>4. Plus(s.seq, TCPLEN(s)) \in Sq /\ Off(Plus(s.seq, TCPLEN(s))) = Off(y)
  BY <1>1, <1>3, OffPlus
<1> QED BY <1>4, OffInjective

LEMMA ChainContiguous ==
  ASSUME NEW c \in Pcb, Conn(c), NEW q \in Seq(Seg), Chain(q, Off(c.lastack), Off(c.snd_lbb)),
         NEW i \in 1..Len(q)
  PROVE  Plus(q[i].seq, TCPLEN(q[i])) = IF i = Len(q) THEN c.snd_lbb ELSE q[i + 1].seq
<1>1. Len(q) \in Nat /\ Off(c.lastack) \in Nat /\ Off(c.snd_lbb) \in Nat /\ c.snd_lbb \in Sq
  BY EmptyLen, PcbOffs, PcbFacts
<1>2. q[i] \in Seg /\ End(q[i]) <= Off(c.snd_lbb)
  BY <1>1, ChainAt
<1>3. CASE i = Len(q)
  <2>1. q # <<>>
    BY <1>1, EmptyLen
  <2>2. End(q[i]) = Off(c.snd_lbb)
    BY <1>3, <2>1, ChainEnds
  <2> QED BY <1>1, <1>2, <1>3, <2>2, EndSeq
<1>4. CASE i # Len(q)
  <2>1. i \in 1..Len(q) - 1 /\ i + 1 \in 1..Len(q)
    BY <1>1, <1>4
  <2>2. End(q[i]) = Off(q[i + 1].seq)
    BY <2>1, Zenon DEF Chain
  <2>3. q[i + 1].seq \in Sq
    <3>1. q[i + 1] \in Seg
      BY <2>1
    <3> QED BY <3>1, SegFacts
  <2>4. Plus(q[i].seq, TCPLEN(q[i])) = q[i + 1].seq
    BY <1>2, <2>2, <2>3, EndSeq
  <2> QED BY <1>4, <2>4
<1> QED BY <1>3, <1>4

LEMMA Contiguous ==
  ASSUME NEW c \in Pcb, Conn(c), NEW q, q = c.unacked \o c.unsent, NEW i \in 1..Len(q)
  PROVE  Plus(q[i].seq, TCPLEN(q[i])) = IF i = Len(q) THEN c.snd_lbb ELSE q[i + 1].seq
<1>1. q \in Seq(Seg) /\ Chain(q, Off(c.lastack), Off(c.snd_lbb))
  BY OutIs
<1> QED BY <1>1, ChainContiguous

\* The two queues are the sequence space up to snd_lbb, without gap or overlap.
THEOREM QueuesAreContiguous == Spec => []QueuesContiguous
<1>1. ASSUME IInv
      PROVE  QueuesContiguous
  <2>1. CASE ~opened
    <3>1. Outstanding = <<>>
      BY <1>1, <2>1, OutCases
    <3>2. 1..Len(<<>>) = {}
      OBVIOUS
    <3> QED BY <2>1, <3>1, <3>2, Zenon DEF QueuesContiguous
  <2>2. CASE opened
    <3>1. pcb \in Pcb /\ Conn(pcb)
      BY <1>1, <2>2, OutCases
    <3>2. ASSUME NEW i \in 1..Len(Outstanding)
          PROVE  Plus(Outstanding[i].seq, TCPLEN(Outstanding[i])) =
                   IF i = Len(Outstanding) THEN pcb.snd_lbb ELSE Outstanding[i + 1].seq
      BY <3>1, Contiguous DEF Outstanding
    <3>3. pcb.snd_nxt = IF pcb.unsent = <<>> THEN pcb.snd_lbb ELSE pcb.unsent[1].seq
      <4>1. Chain(pcb.unsent, Off(pcb.snd_nxt), Off(pcb.snd_lbb)) /\ pcb.unsent \in Seq(Seg)
            /\ pcb.snd_nxt \in Sq /\ pcb.snd_lbb \in Sq
        BY <3>1, PcbFacts DEF Conn
      <4>2. CASE pcb.unsent = <<>>
        <5>1. Off(pcb.snd_nxt) = Off(pcb.snd_lbb)
          BY <4>1, <4>2 DEF Chain
        <5> QED BY <4>1, <4>2, <5>1, OffInjective
      <4>3. CASE pcb.unsent # <<>>
        <5>1. Off(pcb.unsent[1].seq) = Off(pcb.snd_nxt)
          BY <4>1, <4>3, ChainEnds
        <5>2. 1 \in 1..Len(pcb.unsent)
          BY <4>1, <4>3, EmptyLen
        <5>3. pcb.unsent[1] \in Seg
          BY <4>1, <5>2
        <5>4. pcb.unsent[1].seq \in Sq
          BY <5>3, SegFacts
        <5> QED BY <4>1, <4>3, <5>1, <5>4, OffInjective
      <4> QED BY <4>2, <4>3
    <3> QED BY <3>2, <3>3, Zenon DEF QueuesContiguous
  <2> QED BY <2>1, <2>2
<1> QED BY <1>1, Invariant, PTL

\* Nothing in flight lies beyond the window, although the SYN|ACK changes it.
THEOREM InFlightIsWithinWindow == Spec => []InFlightWithinWindow
<1>1. ASSUME IInv
      PROVE  InFlightWithinWindow
  <2>1. CASE ~opened
    <3>1. pcb.unacked = <<>>
      BY <1>1, <2>1, OutCases DEF Unused
    <3> QED BY <3>1 DEF InFlightWithinWindow
  <2>2. CASE opened
    <3>1. pcb \in Pcb /\ Conn(pcb) /\ InFlight(pcb)
      BY <1>1, <2>2, OutCases DEF Conn
    <3>2. SUFFICES ASSUME NEW i \in 1..Len(pcb.unacked)
                   PROVE  Minus(pcb.unacked[i].seq, pcb.lastack) + pcb.unacked[i].len
                            <= Least(pcb.snd_wnd, pcb.cwnd)
      BY Zenon DEF InFlightWithinWindow
    <3>3. /\ Chain(pcb.unacked, Off(pcb.lastack), Off(pcb.snd_nxt)) /\ pcb.unacked \in Seq(Seg)
          /\ Off(pcb.lastack) \in Nat /\ Off(pcb.snd_nxt) \in Nat /\ pcb.lastack \in Sq
      BY <3>1, PcbFacts, PcbOffs DEF Conn
    <3>4. pcb.unacked[i] \in Seg /\ Off(pcb.lastack) <= Off(pcb.unacked[i].seq)
      BY <3>3, ChainAt
    <3>5. Minus(pcb.unacked[i].seq, pcb.lastack) = Off(pcb.unacked[i].seq) - Off(pcb.lastack)
      BY <3>3, <3>4, SegFacts, OffMinus
    <3>6. Off(pcb.unacked[i].seq) - Off(pcb.lastack) + pcb.unacked[i].len
            <= Least(pcb.snd_wnd, pcb.cwnd)
      BY <3>1, Zenon DEF InFlight
    <3> QED BY <3>5, <3>6, Zenon
  <2> QED BY <2>1, <2>2
<1> QED BY <1>1, Invariant, PTL

\* Once the SYN|ACK is in, its acknowledgement is due or on the wire.
THEOREM HandshakeAckIsOwed == Spec => []HandshakeAckOwed
<1>1. IInv => HandshakeAckOwed
  BY DEF IInv
<1> QED BY <1>1, Invariant, PTL

(***************************************************************************)
(* The bytes on the queues.                                                *)
(***************************************************************************)

\* The segments of q up to the ith that carry a SYN.
Syns(q, i) == {j \in 1..i : q[j].syn}

LEMMA SynsAre ==
  ASSUME NEW q \in Seq(Seg), NEW i \in Nat
  PROVE  /\ IsFiniteSet(Syns(q, i)) /\ Cardinality(Syns(q, i)) \in Nat
         /\ Syns(q, 0) = {}
         /\ i >= 1 => Cardinality(Syns(q, i)) =
                        Cardinality(Syns(q, i - 1)) + (IF q[i].syn THEN 1 ELSE 0)
<1>1. ASSUME NEW k \in Nat
      PROVE  IsFiniteSet(Syns(q, k)) /\ Cardinality(Syns(q, k)) \in Nat
  <2>1. IsFiniteSet(1..k)
    BY FS_Interval
  <2>2. Syns(q, k) \subseteq 1..k
    BY DEF Syns
  <2> QED BY <2>1, <2>2, FS_Subset, FS_CardinalityType
<1>2. Syns(q, 0) = {}
  BY DEF Syns
<1>3. ASSUME i >= 1
      PROVE  Cardinality(Syns(q, i)) =
               Cardinality(Syns(q, i - 1)) + (IF q[i].syn THEN 1 ELSE 0)
  <2>1. i - 1 \in Nat /\ i \notin 1..i - 1
    BY <1>3
  <2>2. IsFiniteSet(Syns(q, i - 1)) /\ Cardinality(Syns(q, i - 1)) \in Nat
    BY <1>1, <2>1
  <2>3. \A j : j \in 1..i <=> j \in 1..i - 1 \/ j = i
    BY <1>3
  <2>4. i \notin Syns(q, i - 1)
    BY <2>1 DEF Syns
  <2>5. CASE q[i].syn
    <3>1. Syns(q, i) = Syns(q, i - 1) \cup {i}
      BY <2>3, <2>5, Zenon DEF Syns
    <3>2. Cardinality(Syns(q, i - 1) \cup {i}) = Cardinality(Syns(q, i - 1)) + 1
      BY <2>2, <2>4, FS_AddElement
    <3> QED BY <2>5, <3>1, <3>2
  <2>6. CASE ~q[i].syn
    <3>1. Syns(q, i) = Syns(q, i - 1)
      BY <2>3, <2>6, Zenon DEF Syns
    <3> QED BY <2>2, <2>6, <3>1
  <2> QED BY <2>5, <2>6
<1> QED BY <1>1, <1>2, <1>3

\* What Bytes counts of the first i segments: all but the SYNs.
Counted(q, a, i) == (IF i = 0 THEN 0 ELSE End(q[i]) - a) - Cardinality(Syns(q, i))

LEMMA CountedNext ==
  ASSUME NEW q \in Seq(Seg), NEW a \in Nat, NEW b \in Nat, Chain(q, a, b), NEW i \in 1..Len(q)
  PROVE  Counted(q, a, i) = Counted(q, a, i - 1) + q[i].len
<1>1. i \in Nat /\ i >= 1 /\ i - 1 \in Nat /\ Len(q) \in Nat /\ i <= Len(q)
  BY EmptyLen
<1>2. /\ q[i] \in Seg /\ Off(q[i].seq) \in Nat /\ End(q[i]) \in Nat
  BY ChainAt
<1>3. /\ q[i].syn \in BOOLEAN /\ q[i].len \in Nat
      /\ End(q[i]) = Off(q[i].seq) + q[i].len + (IF q[i].syn THEN 1 ELSE 0)
  <2>1. /\ q[i].syn \in BOOLEAN /\ q[i].len \in Nat
        /\ TCPLEN(q[i]) = IF q[i].syn THEN q[i].len + 1 ELSE q[i].len
        /\ End(q[i]) = Off(q[i].seq) + TCPLEN(q[i])
    BY <1>2, SegFacts
  <2> QED BY <1>2, <2>1
<1>4. /\ Cardinality(Syns(q, i)) \in Nat /\ Cardinality(Syns(q, i - 1)) \in Nat
      /\ Cardinality(Syns(q, i)) = Cardinality(Syns(q, i - 1)) + (IF q[i].syn THEN 1 ELSE 0)
  BY <1>1, SynsAre
<1>5. (IF i - 1 = 0 THEN 0 ELSE End(q[i - 1]) - a) = Off(q[i].seq) - a
  <2>1. CASE i = 1
    <3>1. q # <<>>
      BY <1>1, EmptyLen
    <3>2. Off(q[1].seq) = a
      BY <3>1, ChainEnds
    <3> QED BY <2>1, <3>2
  <2>2. CASE i # 1
    <3>1. i - 1 \in 1..Len(q) - 1 /\ (i - 1) + 1 = i /\ i - 1 # 0
      BY <1>1, <2>2
    <3>2. End(q[i - 1]) = Off(q[(i - 1) + 1].seq)
      BY <3>1, Zenon DEF Chain
    <3> QED BY <3>1, <3>2
  <2> QED BY <2>1, <2>2
<1>6. Counted(q, a, i) = (End(q[i]) - a) - Cardinality(Syns(q, i))
  BY <1>1 DEF Counted
<1>7. Counted(q, a, i - 1) = (Off(q[i].seq) - a) - Cardinality(Syns(q, i - 1))
  BY <1>5, Zenon DEF Counted
<1>8. PICK s \in Nat, t \in Nat, f \in Nat, e \in Nat, m \in Nat :
        /\ s = Cardinality(Syns(q, i)) /\ t = Cardinality(Syns(q, i - 1))
        /\ f = Off(q[i].seq) /\ e = End(q[i]) /\ m = q[i].len
  BY <1>2, <1>3, <1>4, Zenon
<1>9. PICK u \in Nat : u = IF q[i].syn THEN 1 ELSE 0
  OBVIOUS
<1>10. s = t + u /\ e = f + m + u
  BY <1>3, <1>4, <1>8, <1>9, Zenon
<1>11. (e - a) - s = ((f - a) - t) + m
  BY <1>10
<1> QED BY <1>6, <1>7, <1>8, <1>11, Zenon

LEMMA BytesIs ==
  ASSUME NEW q \in Seq(Seg), NEW a \in Nat, NEW b \in Nat, Chain(q, a, b)
  PROVE  Bytes(q) = (b - a) - Cardinality(Syns(q, Len(q)))
<1> DEFINE n == Len(q)
           h == [i \in 0..n |-> Counted(q, a, i)]
           F(g) == [i \in 0..n |-> IF i = 0 THEN 0 ELSE g[i - 1] + q[i].len]
           g == CHOOSE x : x = F(x)
<1>1. n \in Nat
  BY EmptyLen
<1>2. Bytes(q) = g[n]
  BY DEF Bytes
<1>3. ASSUME NEW i \in 1..n
      PROVE  h[i] = h[i - 1] + q[i].len
  <2>1. i \in 0..n /\ i - 1 \in 0..n
    BY <1>1
  <2>2. h[i] = Counted(q, a, i) /\ h[i - 1] = Counted(q, a, i - 1)
    BY <2>1
  <2> QED BY <2>2, CountedNext
<1>4. h[0] = 0 /\ 0 \in 0..n
  <2>1. Counted(q, a, 0) = 0 - Cardinality(Syns(q, 0))
    BY DEF Counted
  <2>2. Cardinality(Syns(q, 0)) = 0
    BY SynsAre, FS_EmptySet
  <2>3. 0 \in 0..n /\ h[0] = Counted(q, a, 0)
    BY <1>1
  <2> QED BY <2>1, <2>2, <2>3
<1>5. h[n] = (b - a) - Cardinality(Syns(q, n))
  <2>1. h[n] = Counted(q, a, n)
    BY <1>1
  <2>2. CASE n = 0
    <3>1. a = b
      BY <2>2, EmptyLen DEF Chain
    <3>2. 0 = b - a
      BY <3>1
    <3> QED BY <2>1, <2>2, <3>2, Zenon DEF Counted
  <2>3. CASE n # 0
    <3>1. End(q[n]) = b
      BY <2>3, EmptyLen, ChainEnds
    <3> QED BY <2>1, <2>3, <3>1, Zenon DEF Counted
  <2> QED BY <2>2, <2>3
<1> HIDE DEF n
<1>6. h = F(h)
  <2>1. ASSUME NEW i \in 0..n
        PROVE  h[i] = IF i = 0 THEN 0 ELSE h[i - 1] + q[i].len
    <3>1. CASE i = 0
      BY <1>4, <3>1
    <3>2. CASE i # 0
      <4>1. i \in 1..n
        BY <1>1, <3>2
      <4> QED BY <1>3, <3>2, <4>1
    <3> QED BY <3>1, <3>2
  <2>2. h = [i \in 0..n |-> h[i]]
    OBVIOUS
  <2> HIDE DEF h
  <2> QED BY <2>1, <2>2
<1> HIDE DEF h, F
<1>7. g = F(g)
  BY <1>6
<1> HIDE DEF g
<1>8. g[0] = 0 /\ \A i \in 1..n : g[i] = g[i - 1] + q[i].len
  <2>1. \A i \in 0..n : g[i] = IF i = 0 THEN 0 ELSE g[i - 1] + q[i].len
    BY <1>7, Zenon DEF F
  <2>2. 0 \in 0..n /\ \A i \in 1..n : i \in 0..n /\ i # 0
    BY <1>1
  <2> QED BY <2>1, <2>2
<1> DEFINE G == {i \in 0..n : g[i] = h[i]}
<1>9. 0 \in G
  BY <1>4, <1>8
<1>10. ASSUME NEW i \in 0..n - 1, i \in G
       PROVE  i + 1 \in G
  <2>1. i + 1 \in 1..n /\ (i + 1) - 1 = i /\ i + 1 \in 0..n
    BY <1>1
  <2>2. g[i + 1] = g[i] + q[i + 1].len /\ h[i + 1] = h[i] + q[i + 1].len
    BY <1>3, <1>8, <2>1
  <2> QED BY <1>10, <2>1, <2>2
<1> HIDE DEF G
<1>11. 0..n \subseteq G
  BY <1>1, <1>9, <1>10, Induct
<1>12. g[n] = h[n]
  BY <1>1, <1>11 DEF G
<1> QED BY <1>2, <1>5, <1>12 DEF n

\* No byte of the send buffer is lost or invented: what is free and what is
\* queued, the SYN's byte included, make up T_TCP_SND_BUF.
THEOREM SendBufIsConserved == Spec => []SendBufConserved
<1>1. ASSUME IInv
      PROVE  SendBufConserved
  <2>1. PICK q : q = Outstanding
    OBVIOUS
  <2>2. q \in Seq(Seg) /\ pcb \in Pcb
    BY <1>1, <2>1, OutSeq, OutCases
  <2>3. PICK f \in Nat : f = pcb.snd_buf
    BY <2>2, PcbFacts
  <2>4. Cardinality(Syns(q, Len(q))) \in Nat
    BY <2>2, EmptyLen, SynsAre
  <2>5. SendBufConserved <=> f + Bytes(q) + Cardinality(Syns(q, Len(q))) = SND_BUF
    BY <2>1, <2>3, Zenon DEF SendBufConserved, Syns
  <2>6. PICK a \in Nat, b \in Nat : Chain(q, a, b) /\ f + b - a = SND_BUF
    <3>1. CASE opened
      <4>1. Conn(pcb)
        BY <1>1, <3>1, OutCases
      <4>2. Chain(q, Off(pcb.lastack), Off(pcb.snd_lbb))
        BY <2>1, <2>2, <4>1, OutIs DEF Outstanding
      <4>3. f + Off(pcb.snd_lbb) - Off(pcb.lastack) = SND_BUF
        BY <2>3, <4>1, Zenon DEF Conn
      <4> QED BY <2>2, <4>2, <4>3, PcbOffs, Zenon
    <3>2. CASE ~opened
      <4>1. q = <<>> /\ f = SND_BUF
        BY <1>1, <2>1, <2>3, <3>2, OutCases DEF Unused
      <4>2. Chain(<<>>, 0, 0)
        BY DEF Chain
      <4>3. f + 0 - 0 = SND_BUF /\ 0 \in Nat
        BY <4>1
      <4> QED BY <4>1, <4>2, <4>3, Zenon
    <3> QED BY <3>1, <3>2
  <2>7. PICK k \in Nat : k = Cardinality(Syns(q, Len(q)))
    BY <2>4
  <2>8. Bytes(q) = (b - a) - k
    BY <2>2, <2>6, <2>7, BytesIs
  <2>9. f + ((b - a) - k) + k = SND_BUF
    BY <2>6
  <2> QED BY <2>5, <2>7, <2>8, <2>9, Zenon
<1> QED BY <1>1, Invariant, PTL

(***************************************************************************)
(* The stream.                                                             *)
(***************************************************************************)

\* What TcpStream's variables stand for.
Phase == CASE ~opened -> "closed"
           [] opened /\ pcb.state = "SYN_SENT" -> "opening"
           [] opened /\ pcb.state = "ESTABLISHED" -> "open"
BytesIn  == IF opened THEN Minus(pcb.snd_lbb, ISS) ELSE 0
BytesOut == IF opened THEN Minus(pcb.snd_nxt, ISS) ELSE 0

LEMMA StreamIs ==
  ASSUME NEW c \in Pcb, Conn(c)
  PROVE  /\ Minus(c.snd_lbb, ISS) = Off(c.snd_lbb) - 1
         /\ Minus(c.snd_nxt, ISS) = Off(c.snd_nxt) - 1
         /\ 1 <= Off(c.snd_nxt) /\ Off(c.snd_nxt) <= Off(c.snd_lbb)
         /\ Off(c.snd_lbb) - 1 <= SND_BUF
<1>1. /\ c.snd_lbb \in Sq /\ c.snd_nxt \in Sq /\ ISS \in Sq /\ Off(ISS) = 1
      /\ Off(c.snd_lbb) \in Nat /\ Off(c.snd_nxt) \in Nat /\ Off(c.lastack) \in Nat
  BY PcbFacts, PcbOffs, Before
<1>2. /\ Off(c.lastack) <= Off(c.snd_nxt) /\ Off(c.snd_nxt) <= Off(c.snd_lbb)
      /\ Off(c.snd_lbb) <= SND_BUF + 1
  BY Short
<1>3. 1 <= Off(c.snd_nxt)
  <2>1. c.state \in {"SYN_SENT", "ESTABLISHED"}
    BY PcbFacts DEF Conn
  <2>2. CASE c.state = "SYN_SENT"
    <3>1. c.snd_nxt = ISS
      BY <2>2 DEF Conn, SynOut
    <3> QED BY <1>1, <3>1
  <2>3. CASE c.state = "ESTABLISHED"
    <3>1. c.lastack = ISS
      BY <2>3 DEF Conn, Open
    <3> QED BY <1>1, <1>2, <3>1
  <2> QED BY <2>1, <2>2, <2>3
<1>4. Off(c.snd_lbb) - 1 <= SND_BUF /\ 1 <= Off(c.snd_lbb)
  BY <1>1, <1>2, <1>3, Sizes
<1>5. Minus(c.snd_lbb, ISS) = Off(c.snd_lbb) - 1 /\ Minus(c.snd_nxt, ISS) = Off(c.snd_nxt) - 1
  BY <1>1, <1>3, <1>4, OffMinus
<1> QED BY <1>2, <1>3, <1>4, <1>5

\* The bytes of a connection's stream: accepted n, sent m.
Carries(c, n, m) ==
  /\ Off(c.snd_lbb) = n + 1 /\ Off(c.snd_nxt) = m + 1
  /\ n \in Nat /\ m \in Nat /\ m <= n /\ n <= SND_BUF

\* Two connections' streams compared.
LEMMA CarriesMore ==
  ASSUME NEW c, NEW d, NEW n, NEW m, NEW i, NEW j, Carries(c, n, m), Carries(d, i, j)
  PROVE  /\ n \in Nat /\ m \in Nat /\ i \in Nat /\ j \in Nat /\ j <= i /\ i <= SND_BUF
         /\ Off(c.snd_nxt) <= Off(d.snd_nxt) => m <= j
         /\ Off(c.snd_lbb) <= Off(d.snd_lbb) => n <= i
<1>1. n \in Nat /\ m \in Nat /\ i \in Nat /\ j \in Nat /\ j <= i /\ i <= SND_BUF
  BY DEF Carries
<1>2. m + 1 <= j + 1 => m <= j
  BY <1>1
<1>3. n + 1 <= i + 1 => n <= i
  BY <1>1
<1>4. /\ Off(c.snd_lbb) = n + 1 /\ Off(c.snd_nxt) = m + 1
      /\ Off(d.snd_lbb) = i + 1 /\ Off(d.snd_nxt) = j + 1
  BY Zenon DEF Carries
<1> QED BY <1>1, <1>2, <1>3, <1>4, Zenon

LEMMA CarriesIs ==
  ASSUME IInv, opened
  PROVE  Carries(pcb, BytesIn, BytesOut)
<1>1. pcb \in Pcb /\ Conn(pcb)
  BY OutCases
<1>2. /\ BytesIn = Off(pcb.snd_lbb) - 1 /\ BytesOut = Off(pcb.snd_nxt) - 1
      /\ 1 <= Off(pcb.snd_nxt) /\ Off(pcb.snd_nxt) <= Off(pcb.snd_lbb)
      /\ Off(pcb.snd_lbb) - 1 <= SND_BUF
  BY <1>1, StreamIs DEF BytesIn, BytesOut
<1>3. Off(pcb.snd_lbb) \in Nat /\ Off(pcb.snd_nxt) \in Nat
  BY <1>1, PcbOffs
<1> QED BY <1>2, <1>3 DEF Carries

LEMMA PhaseIs ==
  ASSUME IInv
  PROVE  /\ ~opened => Phase = "closed"
         /\ opened /\ pcb.state = "SYN_SENT" => Phase = "opening"
         /\ opened /\ pcb.state = "ESTABLISHED" => Phase = "open"
         /\ opened => pcb.state \in {"SYN_SENT", "ESTABLISHED"}
<1>1. opened => pcb.state \in {"SYN_SENT", "ESTABLISHED"}
  BY OutCases, PcbFacts DEF Conn
<1>2. ~opened => Phase = "closed"
  BY DEF Phase
<1>3. opened /\ pcb.state = "SYN_SENT" => Phase = "opening"
  BY DEF Phase
<1>4. opened /\ pcb.state = "ESTABLISHED" => Phase = "open"
  BY DEF Phase
<1> QED BY <1>1, <1>2, <1>3, <1>4

\* A step of the stream, or none.
StreamStep == [Stream!Next]_(Stream!vars)

LEMMA StreamSame ==
  ASSUME Phase' = Phase, BytesIn' = BytesIn, BytesOut' = BytesOut, up' = up
  PROVE  StreamStep
  BY DEF StreamStep, Stream!vars, Phase, BytesIn, BytesOut

LEMMA StreamOpens ==
  ASSUME up, Phase = "closed", Phase' = "opening", BytesIn' = BytesIn, BytesOut' = BytesOut, up' = up
  PROVE  StreamStep
  BY DEF StreamStep, Stream!Next, Stream!Open, Phase, BytesIn, BytesOut

LEMMA StreamWrites ==
  ASSUME up, Phase # "closed", BytesIn' \in BytesIn + 1 .. SND_BUF,
         Phase' = Phase, BytesOut' = BytesOut, up' = up
  PROVE  StreamStep
  BY DEF StreamStep, Stream!Next, Stream!Write, Phase, BytesIn, BytesOut

LEMMA StreamAnswered ==
  ASSUME up, Phase = "opening", Phase' = "open", BytesOut' \in BytesOut .. BytesIn,
         BytesIn' = BytesIn, up' = up
  PROVE  StreamStep
  BY DEF StreamStep, Stream!Next, Stream!Answered, Phase, BytesIn, BytesOut

LEMMA StreamTransmits ==
  ASSUME up, Phase = "open", BytesOut' \in BytesOut + 1 .. BytesIn,
         Phase' = Phase, BytesIn' = BytesIn, up' = up
  PROVE  StreamStep
  BY DEF StreamStep, Stream!Next, Stream!Transmit, Phase, BytesIn, BytesOut

LEMMA StreamHalts ==
  ASSUME up, up' = FALSE, Phase' = Phase, BytesIn' = BytesIn, BytesOut' = BytesOut
  PROVE  StreamStep
  BY DEF StreamStep, Stream!Next, Stream!Halt, Phase, BytesIn, BytesOut

\* A segment that arrives, or t_tcp_output, on a connection.
LEMMA StreamAdvances ==
  ASSUME IInv, IInv', up, opened, opened' = opened, up' = up, Advanced(pcb, pcb')
  PROVE  StreamStep
<1>1. opened'
  BY Zenon
<1>2. Carries(pcb, BytesIn, BytesOut) /\ Carries(pcb', BytesIn', BytesOut')
  <2>1. Carries(pcb, BytesIn, BytesOut)
    BY CarriesIs
  <2>2. Carries(pcb', BytesIn', BytesOut')
    <3>1. (IInv /\ opened => Carries(pcb, BytesIn, BytesOut))'
      BY CarriesIs, PTL
    <3> QED BY <1>1, <3>1
  <2> QED BY <2>1, <2>2
<1>3. /\ pcb'.snd_lbb = pcb.snd_lbb /\ Off(pcb.snd_nxt) <= Off(pcb'.snd_nxt)
      /\ pcb'.state = pcb.state \/ (pcb.state = "SYN_SENT" /\ pcb'.state = "ESTABLISHED")
      /\ pcb'.state = "SYN_SENT" => pcb'.snd_nxt = pcb.snd_nxt
  BY Zenon DEF Advanced
<1>4. BytesIn' = BytesIn
  BY <1>1, <1>3, Zenon DEF BytesIn
<1>5. BytesOut' \in BytesOut .. BytesIn /\ BytesOut \in Nat /\ BytesIn \in Nat
  <2>1. /\ BytesIn \in Nat /\ BytesOut \in Nat /\ BytesOut' \in Nat /\ BytesOut' <= BytesIn'
        /\ BytesOut <= BytesOut'
    <3>1. /\ BytesIn \in Nat /\ BytesOut \in Nat /\ BytesOut' \in Nat /\ BytesOut' <= BytesIn'
          /\ Off(pcb.snd_nxt) <= Off(pcb'.snd_nxt) => BytesOut <= BytesOut'
      BY <1>2, CarriesMore, Zenon
    <3> QED BY <1>3, <3>1, Zenon
  <2> QED BY <1>4, <2>1
<1>6. /\ pcb.state = "SYN_SENT" => Phase = "opening"
      /\ pcb.state = "ESTABLISHED" => Phase = "open"
      /\ pcb.state \in {"SYN_SENT", "ESTABLISHED"}
      /\ pcb'.state = "SYN_SENT" => Phase' = "opening"
      /\ pcb'.state = "ESTABLISHED" => Phase' = "open"
  BY <1>1, PhaseIs DEF Phase
<1>7. CASE pcb.state = "SYN_SENT" /\ pcb'.state = "SYN_SENT"
  <2>1. BytesOut' = BytesOut
    BY <1>1, <1>3, <1>7, Zenon DEF BytesOut
  <2> QED BY <1>4, <1>6, <1>7, <2>1, StreamSame
<1>8. CASE pcb.state = "SYN_SENT" /\ pcb'.state = "ESTABLISHED"
  BY <1>4, <1>5, <1>6, <1>8, StreamAnswered
<1>9. CASE pcb.state = "ESTABLISHED" /\ pcb'.state = "ESTABLISHED"
  <2>1. CASE BytesOut' = BytesOut
    BY <1>4, <1>6, <1>9, <2>1, StreamSame
  <2>2. CASE BytesOut' # BytesOut
    <3>1. BytesOut' \in BytesOut + 1 .. BytesIn
      BY <1>5, <2>2
    <3> QED BY <1>4, <1>6, <1>9, <3>1, StreamTransmits
  <2> QED BY <2>1, <2>2
<1>10. pcb'.state = pcb.state \/ (pcb.state = "SYN_SENT" /\ pcb'.state = "ESTABLISHED")
  BY <1>3
<1> QED BY <1>6, <1>7, <1>8, <1>9, <1>10

LEMMA StreamUnmoved ==
  ASSUME pcb' = pcb, opened' = opened
  PROVE  Phase' = Phase /\ BytesIn' = BytesIn /\ BytesOut' = BytesOut
  BY DEF Phase, BytesIn, BytesOut

LEMMA StreamCrashes ==
  ASSUME up, Crash
  PROVE  StreamStep
<1>1. up' = FALSE /\ pcb' = pcb /\ opened' = opened
  BY DEF Crash
<1> QED BY <1>1, StreamUnmoved, StreamHalts

LEMMA StreamConnects ==
  ASSUME IInv, IInv', t_tcp_connect
  PROVE  StreamStep
<1>1. up /\ up' = up
  BY DEF t_tcp_connect
<1>2. ~opened /\ (opened' => pcb'.state = "SYN_SENT" /\ pcb'.snd_nxt = ISS /\ pcb'.snd_lbb = ISS)
  BY ConnectStep
<1>3. Phase = "closed" /\ BytesIn = 0 /\ BytesOut = 0
  BY <1>2 DEF Phase, BytesIn, BytesOut
<1>4. CASE ~opened'
  <2>1. Phase' = "closed" /\ BytesIn' = 0 /\ BytesOut' = 0
    BY <1>4 DEF Phase, BytesIn, BytesOut
  <2> QED BY <1>1, <1>3, <2>1, StreamSame
<1>5. CASE opened'
  <2>1. Minus(ISS, ISS) = 0
    BY Sizes, OffMinus, Before, OffType
  <2>2. Phase' = "opening" /\ BytesIn' = 0 /\ BytesOut' = 0
    BY <1>2, <1>5, <2>1 DEF Phase, BytesIn, BytesOut
  <2> QED BY <1>1, <1>3, <2>2, StreamOpens
<1> QED BY <1>4, <1>5

LEMMA StreamTakes ==
  ASSUME IInv, IInv', t_tcp_write
  PROVE  StreamStep
<1>1. up /\ up' = up
  BY DEF t_tcp_write
<1>2. /\ opened /\ opened' = opened
      /\ pcb'.state = pcb.state /\ pcb'.snd_nxt = pcb.snd_nxt
      /\ Off(pcb.snd_lbb) <= Off(pcb'.snd_lbb)
  BY WriteStep
<1>3. Carries(pcb, BytesIn, BytesOut) /\ Carries(pcb', BytesIn', BytesOut')
  <2>1. Carries(pcb, BytesIn, BytesOut)
    BY <1>2, CarriesIs
  <2>2. (IInv /\ opened => Carries(pcb, BytesIn, BytesOut))'
    BY CarriesIs, PTL
  <2>3. opened'
    BY <1>2, Zenon
  <2> QED BY <2>1, <2>2, <2>3
<1>4. Phase' = Phase /\ BytesOut' = BytesOut
  BY <1>2, Zenon DEF Phase, BytesOut
<1>5. BytesIn \in Nat /\ BytesIn' \in Nat /\ BytesIn <= BytesIn' /\ BytesIn' <= SND_BUF
  <2>1. /\ BytesIn \in Nat /\ BytesIn' \in Nat /\ BytesIn' <= SND_BUF
        /\ Off(pcb.snd_lbb) <= Off(pcb'.snd_lbb) => BytesIn <= BytesIn'
    BY <1>3, CarriesMore, Zenon
  <2> QED BY <1>2, <2>1, Zenon
<1>6. Phase # "closed"
  BY <1>2, PhaseIs
<1>7. CASE BytesIn' = BytesIn
  BY <1>1, <1>4, <1>7, StreamSame
<1>8. CASE BytesIn' # BytesIn
  <2>1. BytesIn' \in BytesIn + 1 .. SND_BUF
    BY <1>5, <1>8, Sizes
  <2> QED BY <1>1, <1>4, <1>6, <2>1, StreamWrites
<1> QED BY <1>7, <1>8

LEMMA StreamOutput ==
  ASSUME IInv, IInv', Output
  PROVE  StreamStep
<1>1. up /\ (Crash \/ up' = up)
  BY DEF Output
<1>2. CASE Crash
  BY <1>1, <1>2, StreamCrashes
<1>3. CASE ~Crash
  <2>1. opened' = opened /\ (opened => Advanced(pcb, pcb')) /\ up' = up
    BY <1>1, <1>3, OutputStep
  <2>2. CASE opened
    BY <1>1, <2>1, <2>2, StreamAdvances
  <2>3. CASE ~opened
    <3>1. ~opened'
      BY <2>1, <2>3
    <3>2. Phase' = Phase /\ BytesIn' = BytesIn /\ BytesOut' = BytesOut
      BY <2>3, <3>1 DEF Phase, BytesIn, BytesOut
    <3> QED BY <2>1, <3>2, StreamSame
  <2> QED BY <2>2, <2>3
<1> QED BY <1>2, <1>3

LEMMA StreamInput ==
  ASSUME IInv, IInv', Input
  PROVE  StreamStep
<1>1. up /\ (Crash \/ up' = up)
  BY DEF Input, t_tcp_input
<1>2. CASE Crash
  BY <1>1, <1>2, StreamCrashes
<1>3. CASE ~Crash
  <2>1. opened /\ opened' = opened /\ Advanced(pcb, pcb') /\ up' = up
    BY <1>1, <1>3, InputStep
  <2> QED BY <1>1, <2>1, StreamAdvances
<1> QED BY <1>2, <1>3

\* t_tcp_connect, t_tcp_write, t_tcp_output and t_tcp_input implement the
\* stream: bytes accepted go out once, in order, after the handshake.
THEOREM StreamImplemented == Spec => StreamSpec
<1>1. Init => Stream!Init
  <2>1. SUFFICES ASSUME Init
                 PROVE  Stream!Init
    OBVIOUS
  <2>2. ~opened /\ up = TRUE
    BY <2>1, InitGood
  <2> QED BY <2>2 DEF Stream!Init
<1>2. IInv /\ IInv' /\ [Next]_vars => StreamStep
  <2>1. SUFFICES ASSUME IInv, IInv', [Next]_vars
                 PROVE  StreamStep
    OBVIOUS
  <2>2. CASE t_tcp_connect
    BY <2>1, <2>2, StreamConnects
  <2>3. CASE t_tcp_write
    BY <2>1, <2>3, StreamTakes
  <2>4. CASE Output
    BY <2>1, <2>4, StreamOutput
  <2>5. CASE Input
    BY <2>1, <2>5, StreamInput
  <2>6. CASE Lend \/ Return
    BY <2>1, <2>6, LentStep, StreamUnmoved, StreamSame
  <2>7. CASE UNCHANGED vars
    BY <2>7, StreamUnmoved, StreamSame DEF vars
  <2> QED BY <2>1, <2>2, <2>3, <2>4, <2>5, <2>6, <2>7 DEF Next
<1>3. IInv /\ IInv' /\ [Next]_vars => [Stream!Next]_(Stream!vars)
  BY <1>2 DEF StreamStep
<1> QED BY <1>1, <1>3, Invariant, PTL DEF Spec, StreamSpec, Stream!Spec
=============================================================================
