------------------------------ MODULE IpProofs ------------------------------
(***************************************************************************)
(* TIp and TArp for any buffer size with room for the headers, any      *)
(* frames and any size of the table: the properties of both, and    *)
(* that the table implements ArpCache.  First the table, then the buffer   *)
(* (one lemma per action), then the two together and the refinement.  The  *)
(* last part is the checksum IP and the layers above it use, TInet, for    *)
(* any packets, however they are cut into buffers.                         *)
(***************************************************************************)
EXTENDS TIp, TInet, LinkedLists, SequenceTheorems

(***************************************************************************)
(* The ARP table.                                                          *)
(***************************************************************************)

\* What is in the task's hands was told; the row it fills is the one behind the
\* last, which the search did not find.
EnteringOK ==
  /\ entering \in [step : {"none", "find", "mac", "count"},
                   mac : Macs \cup {NoMac}, ip : Ips \cup {NoIp}]
  /\ entering.step # "none" => <<entering.mac, entering.ip>> \in told
  /\ entering.step \in {"mac", "count"} =>
       /\ table_count < T_ARP_TABLE_SIZE
       /\ Found(entering.mac, entering.ip) = {}
       /\ t_arp_table[table_count + 1].ip = entering.ip
       /\ entering.step = "count" => t_arp_table[table_count + 1].mac = entering.mac

RowsTold ==
  \A r \in 1..table_count : <<t_arp_table[r].mac, t_arp_table[r].ip>> \in told

ArpInv == ArpTypeOK /\ EnteringOK /\ RowsTold /\ OneEntryPerMac /\ PrintedWasTold

LEMMA ArpInitInv == ArpInit => ArpInv
  BY ArpAssumption, SMT
  DEF ArpInit, ArpInv, ArpTypeOK, EnteringOK, RowsTold, OneEntryPerMac, PrintedWasTold,
      Rows, NoReply

\* A reply handed in tells addresses of the right kinds.
LEMMA ArpReplyInv ==
  ASSUME ArpInv, NEW m \in Macs \cup {NoMac}, NEW i \in Ips \cup {NoIp}, ArpReply(m, i)
  PROVE  ArpInv'
  BY ArpAssumption
  DEF ArpReply, ArpInv, ArpTypeOK, EnteringOK, RowsTold, OneEntryPerMac, PrintedWasTold,
      Rows, Found

LEMMA EnteringInv ==
  ASSUME ArpInv, Entering
  PROVE  ArpInv'
<1> USE ArpAssumption DEF ArpInv, ArpTypeOK, EnteringOK, RowsTold, OneEntryPerMac,
      PrintedWasTold, Rows, Found, NoReply
<1>1. CASE EntryFound
  <2>1. PICK r \in 1..table_count :
          /\ t_arp_table[r].mac = entering.mac
          /\ t_arp_table' = [t_arp_table EXCEPT ![r].ip = entering.ip]
    BY <1>1 DEF EntryFound
  <2>2. \A k \in 1..table_count : t_arp_table'[k].mac = t_arp_table[k].mac
    BY <2>1
  <2>3. <<t_arp_table'[r].mac, t_arp_table'[r].ip>> \in told
    <3>1. r \in Rows /\ entering.step = "find"
      BY <1>1 DEF EntryFound
    <3>2. t_arp_table'[r] = [t_arp_table[r] EXCEPT !.ip = entering.ip]
      BY <2>1, <3>1
    <3>3. t_arp_table[r] \in [mac : Macs \cup {NoMac}, ip : Ips \cup {NoIp}]
      BY <3>1
    <3>4. t_arp_table'[r].mac = entering.mac /\ t_arp_table'[r].ip = entering.ip
      BY <2>1, <3>2, <3>3
    <3> QED BY <3>1, <3>4
  <2>4. t_arp_table' \in [Rows -> [mac : Macs \cup {NoMac}, ip : Ips \cup {NoIp}]]
    BY <2>1
  <2>5. RowsTold'
    <3>1. ASSUME NEW k \in 1..table_count, k # r PROVE t_arp_table'[k] = t_arp_table[k]
      BY <2>1, <3>1
    <3> QED BY <2>3, <3>1, <1>1 DEF EntryFound
  <2>6. ArpTypeOK' /\ EnteringOK'
    BY <2>4, <1>1 DEF EntryFound
  <2>7. OneEntryPerMac' /\ PrintedWasTold'
    BY <2>2, <1>1 DEF EntryFound
  <2> QED BY <2>5, <2>6, <2>7
<1>2. CASE TableFull
  BY <1>2 DEF TableFull
<1>3. CASE EnterIp
  <2>1. t_arp_table' \in [Rows -> [mac : Macs \cup {NoMac}, ip : Ips \cup {NoIp}]]
    BY <1>3 DEF EnterIp
  <2>2. \A k \in 1..table_count : t_arp_table'[k] = t_arp_table[k]
    BY <1>3 DEF EnterIp
  <2>3. t_arp_table'[table_count + 1].ip = entering.ip
    <3>1. table_count + 1 \in Rows
      BY <1>3 DEF EnterIp
    <3>2. t_arp_table'[table_count + 1] = [t_arp_table[table_count + 1] EXCEPT !.ip = entering.ip]
      BY <1>3, <3>1 DEF EnterIp
    <3>3. t_arp_table[table_count + 1] \in [mac : Macs \cup {NoMac}, ip : Ips \cup {NoIp}]
      BY <3>1
    <3> QED BY <3>2, <3>3
  <2>4. entering' \in [step : {"none", "find", "mac", "count"},
                       mac : Macs \cup {NoMac}, ip : Ips \cup {NoIp}]
        /\ entering'.mac = entering.mac /\ entering'.ip = entering.ip /\ entering'.step = "mac"
    BY <1>3 DEF EnterIp
  <2>5. Found(entering.mac, entering.ip)' = {}
    BY <2>2, <1>3 DEF EnterIp
  <2>6. EnteringOK'
    BY <2>3, <2>4, <2>5, <1>3 DEF EnterIp
  <2>7. RowsTold' /\ OneEntryPerMac' /\ PrintedWasTold'
    BY <2>2, <1>3 DEF EnterIp
  <2> QED BY <2>1, <2>4, <2>6, <2>7, <1>3 DEF EnterIp
<1>4. CASE EnterMac
  <2>1. t_arp_table' \in [Rows -> [mac : Macs \cup {NoMac}, ip : Ips \cup {NoIp}]]
    BY <1>4 DEF EnterMac
  <2>2. \A k \in 1..table_count : t_arp_table'[k] = t_arp_table[k]
    BY <1>4 DEF EnterMac
  <2>3. /\ t_arp_table'[table_count + 1].ip = entering.ip
        /\ t_arp_table'[table_count + 1].mac = entering.mac
    <3>1. table_count + 1 \in Rows
      BY <1>4 DEF EnterMac
    <3>2. t_arp_table'[table_count + 1] = [t_arp_table[table_count + 1] EXCEPT !.mac = entering.mac]
      BY <1>4, <3>1 DEF EnterMac
    <3>3. t_arp_table[table_count + 1] \in [mac : Macs \cup {NoMac}, ip : Ips \cup {NoIp}]
      BY <3>1
    <3> QED BY <1>4, <3>2, <3>3 DEF EnterMac
  <2>4. entering' \in [step : {"none", "find", "mac", "count"},
                       mac : Macs \cup {NoMac}, ip : Ips \cup {NoIp}]
        /\ entering'.mac = entering.mac /\ entering'.ip = entering.ip /\ entering'.step = "count"
    BY <1>4 DEF EnterMac
  <2>5. Found(entering.mac, entering.ip)' = {}
    BY <2>2, <1>4 DEF EnterMac
  <2>6. EnteringOK'
    BY <2>3, <2>4, <2>5, <1>4 DEF EnterMac
  <2>7. RowsTold' /\ OneEntryPerMac' /\ PrintedWasTold'
    BY <2>2, <1>4 DEF EnterMac
  <2> QED BY <2>1, <2>4, <2>6, <2>7, <1>4 DEF EnterMac
<1>5. CASE EnterCount
  <2>a. /\ table_count' = table_count + 1 /\ entering.step = "count"
        /\ t_arp_table' = t_arp_table /\ told' = told
    BY <1>5 DEF EnterCount
  <2>b. \A k \in 1..table_count : t_arp_table[k].mac # entering.mac
    BY <2>a
  <2>1. /\ table_count' = table_count + 1 /\ table_count + 1 \in Rows
        /\ t_arp_table' = t_arp_table /\ told' = told
        /\ \A k \in 1..table_count : t_arp_table[k].mac # entering.mac
        /\ t_arp_table[table_count + 1].mac = entering.mac
        /\ <<t_arp_table[table_count + 1].mac, t_arp_table[table_count + 1].ip>> \in told
    BY <2>a, <2>b, SMTT(30)
  <2>2. \A r \in 1..table_count' : r = table_count + 1 \/ r \in 1..table_count
    BY <2>1
  <2>3. RowsTold'
    BY <2>1, <2>2
  <2>4. OneEntryPerMac'
    BY <2>1, <2>2
  <2>5. EnteringOK' /\ PrintedWasTold'
    BY <1>5 DEF EnterCount
  <2>6. ArpTypeOK'
    BY <2>1, <1>5 DEF EnterCount
  <2> QED BY <2>3, <2>4, <2>5, <2>6
<1> QED BY <1>1, <1>2, <1>3, <1>4, <1>5 DEF Entering

LEMMA PrintingInv ==
  ASSUME ArpInv, Printing
  PROVE  ArpInv'
<1> USE ArpAssumption DEF ArpInv, ArpTypeOK, EnteringOK, RowsTold, OneEntryPerMac,
      PrintedWasTold, Rows, Found
<1>1. CASE PrintBegin BY <1>1 DEF PrintBegin
<1>2. CASE PrintRow   BY <1>2 DEF PrintRow
<1>3. CASE PrintEnd   BY <1>3 DEF PrintEnd
<1> QED BY <1>1, <1>2, <1>3 DEF Printing

LEMMA ArpStutters ==
  ASSUME ArpInv, UNCHANGED arpVars
  PROVE  ArpInv'
  BY DEF ArpInv, ArpTypeOK, EnteringOK, RowsTold, OneEntryPerMac, PrintedWasTold,
         Rows, Found, arpVars

(***************************************************************************)
(* A buffer between two calls: the bytes it has are always those it would  *)
(* have if it had just been allocated with payload where it is now, so     *)
(* t_pbuf_alloc(off, len) is the form in which its state is written.       *)
(***************************************************************************)

\* Inside the buffer no length is changed by its 16 bits.
LEMMA MoveMod ==
  ASSUME NEW off \in Nat, NEW len \in Nat, NEW inc \in Int,
         off + len <= BUFSIZE, inc <= len, off + inc >= 0
  PROVE  (len - inc) % U16 = len - inc
<1>1. BUFSIZE \in Nat /\ BUFSIZE < 65536
  BY SizeAssumption DEF U16
<1>2. len - inc \in Nat /\ len - inc < 65536
  BY <1>1
<1> QED BY <1>2 DEF U16

LEMMA Between == \A k, n \in Nat : n <= k => n \in 0..k
OBVIOUS

\* What is inside the buffer is within the types.
LEMMA InBuffer ==
  ASSUME NEW off \in Nat, NEW len \in Nat, off + len <= BUFSIZE
  PROVE  off \in 0..BUFSIZE /\ len \in 0..U16 - 1
<1>1. BUFSIZE \in Nat /\ BUFSIZE <= 65535
  BY SizeAssumption DEF U16
<1>2. off <= BUFSIZE /\ len <= BUFSIZE
  BY <1>1
<1>3. U16 - 1 \in Nat /\ len <= U16 - 1
  BY <1>1, <1>2 DEF U16
<1> QED BY <1>1, <1>2, <1>3, Between

\* t_pbuf_header keeps the end of the bytes where it is.
LEMMA HeaderKeepsEnd ==
  ASSUME NEW off \in Nat, NEW len \in Nat, NEW inc \in Int,
         off + len <= BUFSIZE, inc <= len, InWindow(off + inc)
  PROVE  t_pbuf_header(t_pbuf_alloc(off, len), inc) = t_pbuf_alloc(off + inc, len - inc)
<1>1. off + inc >= 0
  BY DEF InWindow
<1>2. (len - inc) % U16 = len - inc
  BY <1>1, MoveMod
<1> QED BY <1>2, Zenon DEF t_pbuf_header, Moved, t_pbuf_alloc

\* t_pbuf_cat appends.
LEMMA CatAppends ==
  ASSUME NEW off \in Nat, NEW len \in Nat, NEW n \in Nat, off + len + n <= BUFSIZE
  PROVE  t_pbuf_cat(t_pbuf_alloc(off, len), n) = t_pbuf_alloc(off, len + n)
<1>1. /\ -n \in Int /\ off + len <= BUFSIZE /\ -n <= len
      /\ BUFSIZE \in Nat /\ BUFSIZE < 65536
  BY SizeAssumption DEF U16
<1>2. len + n \in Nat /\ len + n < 65536
  BY <1>1
<1>3. (len + n) % U16 = len + n
  BY <1>2 DEF U16
<1> QED BY <1>3, Zenon DEF t_pbuf_cat, t_pbuf_alloc

(***************************************************************************)
(* The table, the frame and the buffer together.                           *)
(***************************************************************************)

Has(off, len) == p = t_pbuf_alloc(off, len)

\* The frames ether0_recv_data has a buffer for.
Arrived == {f \in Frames : f.wire <= BUFSIZE}

\* A received IP packet, the Ethernet header taken off, not yet passed on.
Received(n) ==
  /\ frame \in Arrived /\ frame.type = "ip"
  /\ Has(ETH + n, frame.wire - (ETH + n))
  /\ data = Nothing /\ sent = Nothing

\* There is at least a byte behind the IP header.
Behind == frame.wire > ETH + frame.hl

\* What the program sends, behind a reserve for the two headers below.
Made ==
  /\ frame = None /\ packet \in Nat /\ packet > 0 /\ T_PBUF_IP + packet <= BUFSIZE
  /\ Has(T_PBUF_IP, packet)
  /\ data = Nothing /\ sent = Nothing /\ dst = "peer"

\* The answer to an echo request.  With 16 bytes of IP header the ICMP message
\* covers the address, but then nothing is sent.
Echo ==
  /\ Received(frame.hl) /\ Behind /\ packet = frame.wire - (ETH + frame.hl)
  /\ frame.hl # 0
  /\ dst \in {"sender", "garbled"} /\ (dst = "garbled" <=> frame.hl \in {16, 28})

Dests == {"none", "sender", "garbled", "peer", "all"}

\* What is known of the buffer at each point of its way.
BufferInv ==
  /\ pc \in {"idle", "arp", "entering", "ip", "icmp", "udp", "tcp", "other", "output",
             "segment", "free"}
  /\ frame \in Arrived \cup {None}
  /\ dst \in Dests
  /\ pc = "idle" => p = NULL /\ data = Nothing /\ sent = Nothing /\ packet = 0
  /\ pc \in {"arp", "entering"} =>
       /\ frame \in Arrived /\ frame.type = "arp"
       /\ Has(0, frame.wire) /\ data = Nothing /\ sent = Nothing /\ packet = 0
  /\ pc = "ip" =>
       /\ frame \in Arrived /\ frame.type = "ip"
       /\ Has(0, frame.wire) /\ data = Nothing /\ sent = Nothing /\ packet = 0
  /\ pc \in {"icmp", "udp", "tcp", "other"} => Received(0) /\ packet = 0
  /\ pc \in {"icmp", "udp", "tcp"} => Behind
  /\ pc = "output" => Made \/ Echo
  /\ pc = "segment" => Made /\ packet <= HLEN + MSS
  /\ pc = "free" =>
       /\ InWindow(p.off) /\ p.len \in 0..U16 - 1
       /\ EndInPlace /\ DataExact /\ SentWhole /\ EchoToSender

IpInv == BufferInv /\ ArpInv

LEMMA Numbers ==
  /\ BUFSIZE \in Int /\ BUFSIZE <= 65535 /\ STRUCT \in Nat
  /\ 134 + STRUCT < BUFSIZE - 1
  /\ MSS \in Nat /\ MSS + 54 <= BUFSIZE /\ MSS > 0
  /\ \A n \in Sizes : n \in Nat /\ n > 0 /\ n <= MSS
  /\ U16 = 65536
<1>1. MSS \in 1..BUFSIZE - 54 /\ Sizes \subseteq 1..MSS
  BY FrameAssumption DEF ETH, T_PBUF_TRANSPORT, HLEN
<1>2. BUFSIZE \in Nat /\ BUFSIZE <= 65535 /\ STRUCT \in Nat
  BY SizeAssumption DEF U16
<1>3. 134 + STRUCT < BUFSIZE - 1
  BY <1>2, RoomAssumption DEF ETH
<1>4. /\ BUFSIZE \in Int /\ BUFSIZE <= 65535
      /\ MSS \in Nat /\ MSS + 54 <= BUFSIZE /\ MSS > 0
  BY <1>1, <1>2
<1>5. \A n \in Sizes : n \in Nat /\ n > 0 /\ n <= MSS
  BY <1>1, <1>4
<1>6. U16 = 65536
  BY DEF U16
<1> QED BY <1>2, <1>3, <1>4, <1>5, <1>6

LEMMA WireNumbers ==
  ASSUME NEW w \in ETH..U16 - 1
  PROVE  w \in Nat /\ w >= 14 /\ (0 + w) % U16 = w
<1>1. PICK m : m = U16 - 1
  OBVIOUS
<1>2. m \in Nat /\ m < 65536
  BY <1>1 DEF U16
<1>3. w \in 14..m
  BY <1>1 DEF ETH
<1>4. w \in Nat /\ w >= 14 /\ w < 65536
  BY <1>2, <1>3
<1>5. (0 + w) % 65536 = w
  BY <1>4
<1> QED BY <1>4, <1>5 DEF U16

LEMMA ShortNumbers ==
  /\ \A u \in 0..U16 - 1 : u \in Nat /\ u <= 65535
  /\ \A u \in Nat : u <= 65535 => u \in 0..U16 - 1
<1>1. PICK m : m = U16 - 1
  OBVIOUS
<1>2. m \in Nat /\ 65535 <= m /\ m <= 65535
  BY <1>1 DEF U16
<1>3. /\ \A u \in 0..m : u \in Nat /\ u <= 65535
      /\ \A u \in Nat : u <= 65535 => u \in 0..m
  BY <1>2
<1> QED BY <1>1, <1>3

\* What is known of the frames.
LEMMA ArpFrames ==
  ASSUME NEW f \in Arrived, f.type = "arp"
  PROVE  /\ f.mac \in Macs \cup {NoMac} /\ f.ip \in Ips \cup {NoIp}
         /\ f.wire \in Nat /\ f.wire <= BUFSIZE
<1>1. f \in Frame /\ f.wire <= BUFSIZE
  BY FrameAssumption, Zenon DEF Arrived
<1>2. f \in [type : {"arp"}, wire : ETH..U16 - 1, for_us : BOOLEAN,
             opcode : {"request", "reply"}, mac : Macs \cup {NoMac}, ip : Ips \cup {NoIp}]
  BY <1>1 DEF Frame
<1>3. /\ f.mac \in Macs \cup {NoMac} /\ f.ip \in Ips \cup {NoIp}
      /\ f.wire \in ETH..U16 - 1
  BY <1>2
<1>4. f.wire \in Nat
  BY <1>3, WireNumbers, Zenon
<1> QED BY <1>1, <1>3, <1>4

\* A header length is a number of words.
LEMMA WordsAre ==
  ASSUME NEW w \in Words
  PROVE  /\ w \in Nat /\ w <= 60
         /\ w < 20 => w \in {0, 4, 8, 12, 16}
         /\ w > 26 /\ w < 32 => w = 28
<1>1. PICK n \in 0..15 : w = 4 * n
  BY DEF Words
<1> QED BY <1>1

LEMMA IpFrames ==
  ASSUME NEW f \in Arrived, f.type = "ip"
  PROVE  /\ f.wire \in Nat /\ f.wire <= BUFSIZE /\ f.wire >= 14
         /\ f.hl \in Words /\ f.hl \in Nat /\ f.hl <= 60
         /\ f.thl \in Nat /\ f.thl <= 60
         /\ f.ulen \in Nat /\ f.ulen <= 65535
         /\ f.proto \in {"icmp", "udp", "tcp", "other"}
<1>1. f \in Frame /\ f.wire <= BUFSIZE
  BY FrameAssumption, Zenon DEF Arrived
<1>2. f \in [type : {"ip"}, wire : ETH..U16 - 1, hl : Words,
             proto : {"icmp", "udp", "tcp", "other"}, ulen : 0..U16 - 1, thl : Words]
  BY <1>1 DEF Frame
<1>3. /\ f.wire \in ETH..U16 - 1 /\ f.hl \in Words /\ f.thl \in Words /\ f.ulen \in 0..U16 - 1
      /\ f.proto \in {"icmp", "udp", "tcp", "other"}
  BY <1>2
<1>4. f.hl \in Nat /\ f.hl <= 60 /\ f.thl \in Nat /\ f.thl <= 60
  BY <1>3, WordsAre, Zenon
<1>5. f.wire \in Nat /\ f.wire >= 14
  BY <1>3, WireNumbers
<1>6. f.ulen \in Nat /\ f.ulen <= 65535
  BY <1>3, ShortNumbers
<1> QED BY <1>1, <1>3, <1>4, <1>5, <1>6

LEMMA FrameTypes ==
  /\ \A f \in Arrived : f \in Frames /\ f.type \in {"arp", "ip"}
  /\ None \notin Arrived
<1>1. Arrived \subseteq Frame /\ Arrived \subseteq Frames
  BY FrameAssumption, Zenon DEF Arrived
<1> QED BY <1>1 DEF Frame, None

\* Nothing is past the end while no segment was taken in.
LEMMA NothingPast ==
  /\ data = Nothing => ~PastEnd /\ DataExact
  /\ data' = Nothing => ~PastEnd' /\ DataExact'
  BY DEF PastEnd, DataExact, Nothing

\* What is left of the buffer when it is freed satisfies the properties, and
\* before that there is nothing they speak of.
LEMMA BufferCorrect ==
  ASSUME BufferInv
  PROVE  /\ {p.len, p.tot_len} \subseteq 0..U16 - 1 /\ InWindow(p.off)
         /\ EndInPlace /\ DataExact /\ SentWhole /\ EchoToSender
<1>0. BufferInv
  OBVIOUS
<1>1. CASE pc = "free"
  <2>1. /\ InWindow(p.off) /\ p.len \in 0..U16 - 1
        /\ EndInPlace /\ DataExact /\ SentWhole /\ EchoToSender
    BY <1>1 DEF BufferInv
  <2>2. p.len = p.tot_len
    BY <2>1 DEF EndInPlace, NULL
  <2> QED BY <2>1, <2>2
<1>2. CASE pc # "free"
  <2>1. data = Nothing /\ sent = Nothing
    BY <1>2 DEF BufferInv, Received, Made, Echo
  <2>2. ~PastEnd /\ DataExact /\ SentWhole /\ EchoToSender
    BY <2>1, <1>2, NothingPast DEF SentWhole, EchoToSender, Nothing
  <2>3. p = NULL \/ \E off, len \in Nat :
          /\ p = t_pbuf_alloc(off, len) /\ off + len <= BUFSIZE /\ off <= 74
          /\ frame # None => off + len = frame.wire
          /\ (frame = None /\ packet > 0) => off + len = T_PBUF_IP + packet
    <3>1. CASE pc = "idle"
      BY <3>1 DEF BufferInv
    <3>2. CASE pc \in {"arp", "entering", "ip"}
      <4>1. /\ frame \in Arrived /\ frame.type \in {"arp", "ip"}
            /\ p = t_pbuf_alloc(0, frame.wire)
        BY <3>2 DEF BufferInv, Has
      <4>2. frame.wire \in Nat /\ frame.wire <= BUFSIZE /\ frame # None
        BY <4>1, ArpFrames, IpFrames, FrameTypes
      <4> QED BY <4>1, <4>2
    <3>3. CASE Received(0)
      <4>1. /\ frame.wire \in Nat /\ frame.wire <= BUFSIZE /\ frame.wire >= 14
        BY <3>3, IpFrames DEF Received
      <4>2. p = t_pbuf_alloc(14, frame.wire - 14) /\ frame # None
        BY <3>3, <4>1, FrameTypes DEF Received, Has, ETH
      <4> QED BY <4>1, <4>2
    <3>4. CASE Echo
      <4>1. /\ frame.wire \in Nat /\ frame.wire <= BUFSIZE /\ frame.wire > 14 + frame.hl
            /\ frame.hl \in Nat /\ frame.hl <= 60
        BY <3>4, IpFrames DEF Echo, Received, Behind, ETH
      <4>2. p = t_pbuf_alloc(14 + frame.hl, frame.wire - (14 + frame.hl)) /\ frame # None
        BY <3>4, FrameTypes DEF Echo, Received, Has, ETH
      <4>3. 14 + frame.hl \in Nat /\ frame.wire - (14 + frame.hl) \in Nat
            /\ 14 + frame.hl + (frame.wire - (14 + frame.hl)) = frame.wire
            /\ 14 + frame.hl <= 74
        BY <4>1
      <4> QED BY <4>1, <4>2, <4>3
    <3>5. CASE Made
      <4>1. /\ packet \in Nat /\ T_PBUF_IP \in Nat /\ T_PBUF_IP + packet <= BUFSIZE
            /\ T_PBUF_IP <= 74
            /\ p = t_pbuf_alloc(T_PBUF_IP, packet) /\ frame = None
        BY <3>5 DEF Made, Has, T_PBUF_IP, ETH, HLEN
      <4> QED BY <4>1
    <3>6. \/ pc = "idle" \/ pc \in {"arp", "entering", "ip"}
          \/ Received(0) \/ Echo \/ Made
      BY <1>0, <1>2 DEF BufferInv
    <3> QED BY <3>1, <3>2, <3>3, <3>4, <3>5, <3>6
  <2>4. /\ EndInPlace /\ InWindow(p.off)
        /\ p.len \in 0..U16 - 1 /\ p.tot_len \in 0..U16 - 1
    <3>1. CASE p = NULL
      BY <3>1, Numbers DEF EndInPlace, NULL, InWindow
    <3>2. CASE p # NULL
      <4>1. PICK off, len \in Nat :
              /\ p = t_pbuf_alloc(off, len) /\ off + len <= BUFSIZE /\ off <= 74
              /\ frame # None => off + len = frame.wire
              /\ (frame = None /\ packet > 0) => off + len = T_PBUF_IP + packet
        BY <2>3, <3>2
      <4>2. p.off = off /\ p.len = len /\ p.tot_len = len
        BY <4>1 DEF t_pbuf_alloc
      <4>3. EndInPlace
        <5>1. frame # None => off + len = frame.wire + 0
          BY <4>1
        <5> QED BY <2>2, <4>1, <4>2, <5>1 DEF EndInPlace
      <4>4. InWindow(off) /\ len \in 0..U16 - 1
        <5>1. InWindow(off)
          BY <4>1, Numbers DEF InWindow
        <5>2. len \in 0..U16 - 1
          BY <4>1, InBuffer
        <5> QED BY <5>1, <5>2
      <4> QED BY <4>2, <4>3, <4>4, Zenon
    <3> QED BY <3>1, <3>2
  <2> QED BY <2>2, <2>4
<1> QED BY <1>1, <1>2

(***************************************************************************)
(* A lemma for each action that does something to the buffer.              *)
(***************************************************************************)

LEMMA ReceiveKeeps ==
  ASSUME BufferInv, Receive
  PROVE  BufferInv'
<1>1. PICK f \in Frames :
        Fits(0, f.wire) /\ frame' = f /\ p' = t_pbuf_alloc(0, f.wire) /\ pc' = f.type
  BY DEF Receive
<1>2. /\ pc = "idle" /\ packet = 0 /\ packet' = 0 /\ dst' = dst
      /\ dst \in Dests /\ data' = Nothing /\ sent' = Nothing
  BY DEF Receive, BufferInv
<1>3. f \in Arrived
  <2>1. f \in Frame
    BY FrameAssumption, Zenon
  <2>2. f.wire \in ETH..U16 - 1
    BY <2>1 DEF Frame
  <2>3. (0 + f.wire) % U16 = f.wire
    BY <2>2, WireNumbers, Zenon
  <2> QED BY <1>1, <2>3 DEF Fits, Arrived
<1>4. frame' \in Arrived /\ frame'.type \in {"arp", "ip"} /\ pc' = frame'.type
      /\ p' = t_pbuf_alloc(0, frame'.wire)
  BY <1>1, <1>3, FrameTypes
<1> QED BY <1>2, <1>4 DEF BufferInv, Has

LEMMA IpInputKeeps ==
  ASSUME BufferInv, t_ip_input
  PROVE  BufferInv'
<1>1. /\ frame \in Arrived /\ frame.type = "ip" /\ p = t_pbuf_alloc(0, frame.wire)
      /\ data = Nothing /\ sent = Nothing /\ packet = 0 /\ dst \in Dests
  BY DEF BufferInv, t_ip_input, Has
<1>2. /\ frame.wire \in Nat /\ frame.wire <= BUFSIZE /\ frame.wire >= 14
      /\ frame.hl \in Nat /\ frame.proto \in {"icmp", "udp", "tcp", "other"}
  BY <1>1, IpFrames
<1>3. InWindow(0 + 14)
  BY Numbers DEF InWindow
<1>4. t_pbuf_header(p, 14) = t_pbuf_alloc(0 + 14, frame.wire - 14)
  BY <1>1, <1>2, <1>3, HeaderKeepsEnd
<1>5. p' = t_pbuf_alloc(ETH + 0, frame.wire - (ETH + 0))
  BY <1>4 DEF t_ip_input, ETH
<1>6. /\ pc' = IF p'.len > frame.hl THEN frame.proto ELSE "other"
      /\ frame' = frame /\ data' = data /\ sent' = sent /\ packet' = packet /\ dst' = dst
  BY DEF t_ip_input
<1>7. Received(0)'
  BY <1>1, <1>5, <1>6 DEF Received, Has
<1>8. p'.len = frame.wire - (ETH + 0)
  BY <1>5 DEF t_pbuf_alloc
<1>9. pc' # "other" => Behind'
  BY <1>2, <1>6, <1>8 DEF Behind, ETH
<1>10. pc' \in {"icmp", "udp", "tcp", "other"}
  BY <1>2, <1>6
<1> QED BY <1>1, <1>6, <1>7, <1>9, <1>10 DEF BufferInv

\* The numbers of a packet with something behind the IP header.
LEMMA BehindIs ==
  ASSUME Received(0), Behind
  PROVE  /\ frame.wire \in Nat /\ frame.wire <= BUFSIZE /\ frame.wire > 14 + frame.hl
         /\ frame.hl \in Nat /\ frame.hl <= 60
         /\ p = t_pbuf_alloc(14, frame.wire - 14)
  BY IpFrames DEF Received, Behind, Has, ETH

\* Taking the IP header off.
LEMMA PastIpHeader ==
  ASSUME Received(0), Behind
  PROVE  LET hl == frame.hl
         IN t_pbuf_header(p, hl) = t_pbuf_alloc(ETH + hl, frame.wire - (ETH + hl))
<1> DEFINE hl == frame.hl
<1>1. /\ frame.wire \in Nat /\ frame.wire <= BUFSIZE /\ frame.wire > 14 + hl
      /\ hl \in Nat /\ hl <= 60 /\ p = t_pbuf_alloc(14, frame.wire - 14)
  BY BehindIs
<1> HIDE DEF hl
<1>3. InWindow(14 + hl)
  BY <1>1, Numbers DEF InWindow
<1>4. /\ frame.wire - 14 \in Nat /\ 14 + (frame.wire - 14) <= BUFSIZE
      /\ hl \in Int /\ hl <= frame.wire - 14
  BY <1>1, Numbers
<1>5. t_pbuf_header(p, hl) = t_pbuf_alloc(14 + hl, (frame.wire - 14) - hl)
  BY <1>1, <1>3, <1>4, HeaderKeepsEnd
<1>6. (frame.wire - 14) - hl = frame.wire - (14 + hl)
  BY <1>1
<1> QED BY <1>5, <1>6 DEF hl, ETH

\* A received frame that is dropped or has been taken over.
LEMMA FreedUnsent ==
  ASSUME NEW off \in Nat, NEW len \in Nat, off + len <= BUFSIZE, off <= 134,
         p' = t_pbuf_alloc(off, len), pc' = "free",
         frame' \in Arrived, off + len = frame'.wire, dst' \in Dests,
         DataExact', ~PastEnd', sent' = Nothing, packet' = 0
  PROVE  BufferInv'
<1>1. p'.off = off /\ p'.len = len /\ p'.tot_len = len
  BY Zenon DEF t_pbuf_alloc
<1>2. InWindow(off) /\ len \in 0..U16 - 1
  <2>1. InWindow(off)
    BY Numbers DEF InWindow
  <2>2. len \in 0..U16 - 1
    BY InBuffer
  <2> QED BY <2>1, <2>2
<1>3. EndInPlace'
  <2>1. off + len = frame'.wire + 0
    OBVIOUS
  <2> QED BY <1>1, <2>1, FrameTypes DEF EndInPlace
<1>4. SentWhole' /\ EchoToSender'
  BY DEF SentWhole, EchoToSender, Nothing
<1> QED BY <1>1, <1>2, <1>3, <1>4 DEF BufferInv

\* Where t_icmp_input and t_ip_output write over the address, by the length of the
\* IP header.
LEMMA Overlaps ==
  ASSUME NEW hl \in Words, NEW b, b.off = 14 + hl
  PROVE  (\/ Overlap(b.off, 4, ETH + 16, 4)
          \/ Overlap(t_pbuf_header(b, -HLEN).off + 8, 2, ETH + 16, 4))
         <=> hl \in {16, 28}
<1>1. /\ hl \in Nat /\ hl <= 60
      /\ hl < 20 => hl \in {0, 4, 8, 12, 16}
      /\ hl > 26 /\ hl < 32 => hl = 28
  BY WordsAre
<1>2. PICK h : h = t_pbuf_header(b, -HLEN).off
  OBVIOUS
<1>3. h = IF hl - 6 >= 0 THEN hl - 6 ELSE 14 + hl
  <2>1. InWindow(b.off + (-HLEN)) <=> hl - 6 >= 0
    BY <1>1, Numbers DEF InWindow, HLEN
  <2>2. CASE InWindow(b.off + (-HLEN))
    <3>1. h = b.off + (-HLEN)
      BY <1>2, <2>2 DEF t_pbuf_header, Moved
    <3> QED BY <3>1, <2>1, <2>2, <1>1 DEF HLEN
  <2>3. CASE ~InWindow(b.off + (-HLEN))
    <3>1. h = b.off
      BY <1>2, <2>3 DEF t_pbuf_header
    <3> QED BY <3>1, <2>1, <2>3, <1>1
  <2> QED BY <2>2, <2>3
<1>4. Overlap(b.off, 4, ETH + 16, 4) <=> hl > 12 /\ hl < 20
  BY <1>1 DEF Overlap, ETH
<1>5. Overlap(h + 8, 2, ETH + 16, 4) <=> hl > 26 /\ hl < 32
  BY <1>1, <1>3 DEF Overlap, ETH
<1> QED BY <1>1, <1>2, <1>4, <1>5

LEMMA IcmpKeeps ==
  ASSUME BufferInv, t_icmp_input
  PROVE  BufferInv'
<1>1. Received(0) /\ Behind /\ packet = 0 /\ dst \in Dests
  BY DEF BufferInv, t_icmp_input
<1>2. p' = t_pbuf_alloc(ETH + frame.hl, frame.wire - (ETH + frame.hl))
  BY <1>1, PastIpHeader DEF t_icmp_input
<1>3. /\ frame' = frame /\ frame \in Arrived /\ frame.type = "ip"
      /\ data' = Nothing /\ sent' = Nothing
  BY <1>1 DEF Received, t_icmp_input
<1>4. /\ frame.wire \in Nat /\ frame.wire <= BUFSIZE /\ frame.wire > 14 + frame.hl
      /\ frame.hl \in Nat /\ frame.hl <= 60
  BY <1>1, BehindIs
<1>5. CASE pc' = "output"
  <2>1. /\ dst' = IF \/ Overlap(p'.off, 4, ETH + 16, 4)
                     \/ Overlap(t_pbuf_header(p', -HLEN).off + 8, 2, ETH + 16, 4)
                  THEN "garbled" ELSE "sender"
        /\ packet' = p'.tot_len /\ frame.hl # 0
    BY <1>5 DEF t_icmp_input
  <2>2. p'.off = 14 + frame.hl /\ p'.tot_len = frame.wire - (ETH + frame.hl)
    BY <1>2, Zenon DEF t_pbuf_alloc, ETH
  <2>3. frame.hl \in Words
    BY <1>3, IpFrames
  <2>4. dst' \in {"sender", "garbled"} /\ (dst' = "garbled" <=> frame.hl \in {16, 28})
    <3>1. PICK b : b = p'
      OBVIOUS
    <3>2. (\/ Overlap(b.off, 4, ETH + 16, 4)
           \/ Overlap(t_pbuf_header(b, -HLEN).off + 8, 2, ETH + 16, 4))
          <=> frame.hl \in {16, 28}
      BY <2>2, <2>3, <3>1, Overlaps
    <3>3. dst' = IF frame.hl \in {16, 28} THEN "garbled" ELSE "sender"
      BY <2>1, <3>1, <3>2, Zenon
    <3> QED BY <3>3
  <2>5. packet' = frame'.wire - (ETH + frame'.hl) /\ Behind'
    BY <1>1, <2>1, <2>2, <1>3 DEF Behind
  <2>6. Received(frame.hl)'
    BY <1>2, <1>3 DEF Received, Has
  <2>7. Echo'
    BY <1>3, <2>1, <2>4, <2>5, <2>6 DEF Echo
  <2> QED BY <1>3, <1>5, <2>4, <2>7 DEF BufferInv, Dests
<1>6. CASE pc' = "free"
  <2>1. dst' = dst /\ packet' = 0
    BY <1>1, <1>6 DEF t_icmp_input
  <2>2. p' = t_pbuf_alloc(14 + frame.hl, frame.wire - (14 + frame.hl))
    BY <1>2 DEF ETH
  <2>3. /\ 14 + frame.hl \in Nat /\ frame.wire - (14 + frame.hl) \in Nat
        /\ (14 + frame.hl) + (frame.wire - (14 + frame.hl)) = frame.wire
        /\ 14 + frame.hl <= 134
    BY <1>4
  <2> QED BY <1>1, <1>3, <1>4, <1>6, <2>1, <2>2, <2>3, FreedUnsent, NothingPast
<1> QED BY <1>5, <1>6 DEF t_icmp_input

\* Taking n bytes of a transport header off behind it, if they are there ...
LEMMA PastTransport ==
  ASSUME Received(0), Behind, NEW n \in Nat, n <= 60, ETH + frame.hl + n <= frame.wire
  PROVE  t_pbuf_header(t_pbuf_header(p, frame.hl), n)
           = t_pbuf_alloc(ETH + frame.hl + n, frame.wire - (ETH + frame.hl + n))
<1> DEFINE hl == frame.hl
           w  == frame.wire
<1>1. /\ w \in Nat /\ w <= BUFSIZE /\ w >= 14 + hl /\ hl \in Nat /\ hl <= 60
      /\ 14 + hl + n <= w
  BY BehindIs DEF ETH
<1>2. t_pbuf_header(p, hl) = t_pbuf_alloc(14 + hl, w - (14 + hl))
  BY PastIpHeader DEF ETH
<1> HIDE DEF hl, w
<1>3. InWindow(14 + hl + n)
  BY <1>1, Numbers DEF InWindow
<1>4. /\ 14 + hl \in Nat /\ w - (14 + hl) \in Nat /\ (14 + hl) + (w - (14 + hl)) <= BUFSIZE
      /\ n \in Int /\ n <= w - (14 + hl)
  BY <1>1, Numbers
<1>5. t_pbuf_header(t_pbuf_alloc(14 + hl, w - (14 + hl)), n)
        = t_pbuf_alloc(14 + hl + n, (w - (14 + hl)) - n)
  BY <1>3, <1>4, HeaderKeepsEnd
<1>6. (w - (14 + hl)) - n = w - (14 + hl + n)
  BY <1>1
<1> QED BY <1>2, <1>5, <1>6 DEF hl, w, ETH

\* ... and if they are not: the lengths wrap.
LEMMA PastTheEnd ==
  ASSUME Received(0), Behind, NEW n \in Nat, n <= 60, ETH + frame.hl + n > frame.wire
  PROVE  t_pbuf_header(t_pbuf_header(p, frame.hl), n)
           = t_pbuf_alloc(ETH + frame.hl + n, frame.wire - (ETH + frame.hl + n) + U16)
<1> DEFINE hl == frame.hl
           w  == frame.wire
<1>1. /\ w \in Nat /\ w <= BUFSIZE /\ w > 14 + hl /\ hl \in Nat /\ hl <= 60
      /\ 14 + hl + n > w
  BY BehindIs DEF ETH
<1>2. t_pbuf_header(p, hl) = t_pbuf_alloc(14 + hl, w - (14 + hl))
  BY PastIpHeader DEF ETH
<1> HIDE DEF hl, w
<1>3. InWindow(14 + hl + n)
  BY <1>1, Numbers DEF InWindow
<1>4. PICK k \in Nat : k = (14 + hl + n) - w
  BY <1>1
<1>5. k > 0 /\ k <= 60 /\ (w - (14 + hl)) - n = -k
  BY <1>1, <1>4
<1>6. (-k) % 65536 = 65536 - k
  BY <1>4, <1>5
<1>7. ((w - (14 + hl)) - n) % U16 = w - (14 + hl + n) + U16
  BY <1>1, <1>4, <1>5, <1>6 DEF U16
<1>8. t_pbuf_header(t_pbuf_alloc(14 + hl, w - (14 + hl)), n)
        = t_pbuf_alloc(14 + hl + n, ((w - (14 + hl)) - n) % U16)
  BY <1>3, Zenon DEF t_pbuf_header, Moved, t_pbuf_alloc
<1> QED BY <1>2, <1>7, <1>8 DEF hl, w, ETH

LEMMA IgnoredKeeps ==
  ASSUME BufferInv, Ignored
  PROVE  BufferInv'
<1>1. /\ Received(0) /\ packet' = 0 /\ dst' \in Dests
      /\ p' = p /\ frame' = frame /\ data' = data /\ sent' = sent /\ pc' = "free"
  BY DEF BufferInv, Ignored
<1>2. /\ frame \in Arrived /\ frame.type = "ip" /\ data' = Nothing /\ sent' = Nothing
      /\ p' = t_pbuf_alloc(14, frame.wire - 14)
  BY <1>1 DEF Received, Has, ETH
<1>3. /\ frame.wire \in Nat /\ frame.wire <= BUFSIZE /\ 14 \in Nat /\ 14 <= 134
      /\ frame.wire - 14 \in Nat /\ 14 + (frame.wire - 14) = frame.wire
  BY <1>2, IpFrames
<1> QED BY <1>1, <1>2, <1>3, FreedUnsent, NothingPast

\* udp_recv_data's subtraction in 16 bits.
LEMMA UdpWraps ==
  ASSUME NEW u \in Nat, u <= 65535
  PROVE  (u - 8) % 65536 = IF u >= 8 THEN u - 8 ELSE 65536 + u - 8
<1>1. CASE u >= 8
  <2>1. u - 8 \in Nat /\ u - 8 < 65536
    BY <1>1
  <2> QED BY <1>1, <2>1
<1>2. CASE u < 8
  <2>1. 8 - u \in Nat /\ 8 - u > 0 /\ 8 - u < 65536
    BY <1>2
  <2>2. (-(8 - u)) % 65536 = 65536 - (8 - u)
    BY <2>1
  <2> QED BY <1>2, <2>2
<1> QED BY <1>1, <1>2

LEMMA UdpKeeps ==
  ASSUME BufferInv, t_udp_input
  PROVE  BufferInv'
<1>1. /\ Received(0) /\ Behind /\ packet' = 0 /\ dst' \in Dests
      /\ frame' = frame /\ sent' = sent /\ pc' = "free"
  BY DEF BufferInv, t_udp_input
<1>2. /\ frame \in Arrived /\ frame.type = "ip" /\ data = Nothing /\ sent' = Nothing
  BY <1>1 DEF Received
<1>3. /\ frame.wire \in Nat /\ frame.wire <= BUFSIZE /\ frame.hl \in Nat /\ frame.hl <= 60
      /\ frame.wire > 14 + frame.hl /\ p = t_pbuf_alloc(14, frame.wire - 14)
      /\ frame.ulen \in Nat /\ frame.ulen <= 65535
      /\ ETH = 14 /\ UDP_HLEN = 8
  BY <1>1, <1>2, IpFrames, BehindIs DEF ETH, UDP_HLEN
<1>4. CASE p' = p /\ data' = data
  <2>1. /\ 14 \in Nat /\ frame.wire - 14 \in Nat /\ 14 + (frame.wire - 14) = frame.wire
        /\ 14 <= 134
    BY <1>3
  <2> QED BY <1>1, <1>2, <1>3, <1>4, <2>1, FreedUnsent, NothingPast
<1>5. CASE p' = t_pbuf_header(p, frame.hl) /\ data' = data
  <2>1. p' = t_pbuf_alloc(14 + frame.hl, frame.wire - (14 + frame.hl))
    BY <1>1, <1>5, PastIpHeader DEF ETH
  <2>2. /\ 14 + frame.hl \in Nat /\ frame.wire - (14 + frame.hl) \in Nat
        /\ (14 + frame.hl) + (frame.wire - (14 + frame.hl)) = frame.wire
        /\ 14 + frame.hl <= 134
    BY <1>3
  <2> QED BY <1>1, <1>2, <1>3, <1>5, <2>1, <2>2, FreedUnsent, NothingPast
<1>6. CASE /\ ~(p.tot_len < UDP_HLEN + frame.hl)
           /\ t_pbuf_header(p, frame.hl).tot_len >= frame.ulen
           /\ p' = t_pbuf_header(t_pbuf_header(p, frame.hl), UDP_HLEN) /\ data' = UdpData
  <2>1. /\ UDP_HLEN \in Nat /\ UDP_HLEN <= 60 /\ ETH + frame.hl + UDP_HLEN <= frame.wire
        /\ frame.wire - (14 + frame.hl) >= frame.ulen
    <3>1. p.tot_len = frame.wire - 14
      <4>1. p = t_pbuf_alloc(14, frame.wire - 14)
        BY <1>3
      <4> QED BY <4>1 DEF t_pbuf_alloc
    <3>2. t_pbuf_header(p, frame.hl).tot_len = frame.wire - (14 + frame.hl)
      <4>1. t_pbuf_header(p, frame.hl) = t_pbuf_alloc(14 + frame.hl, frame.wire - (14 + frame.hl))
        BY <1>1, PastIpHeader DEF ETH
      <4> QED BY <4>1 DEF t_pbuf_alloc
    <3> QED BY <1>3, <1>6, <3>1, <3>2
  <2>2. p' = t_pbuf_alloc(ETH + frame.hl + UDP_HLEN, frame.wire - (ETH + frame.hl + UDP_HLEN))
    BY <1>1, <1>6, <2>1, PastTransport
  <2>3. p'.off = ETH + frame.hl + UDP_HLEN
    BY <2>2, Zenon DEF t_pbuf_alloc
  <2>4. data'.off = 14 + frame.hl + 8 /\ data'.len = (frame.ulen - 8) % 65536 /\ data'.to = "recv"
    <3>1. data' = [off |-> p'.off, len |-> (frame.ulen - UDP_HLEN) % U16, to |-> "recv"]
      BY <1>6, Zenon DEF UdpData
    <3>2. data'.off = p'.off /\ data'.len = (frame.ulen - UDP_HLEN) % U16 /\ data'.to = "recv"
      BY <3>1, Zenon
    <3> QED BY <1>3, <2>3, <3>2 DEF U16
  <2>5. (frame.ulen - 8) % 65536 = IF frame.ulen >= 8 THEN frame.ulen - 8 ELSE 65536 + frame.ulen - 8
    <3>1. frame.ulen \in Nat /\ frame.ulen <= 65535
      BY <1>3
    <3> QED BY <3>1, UdpWraps
  <2>6. DataExact'
    BY <1>1, <1>3, <2>1, <2>4, <2>5 DEF DataExact, U16
  <2>7. ~PastEnd'
    BY <2>4 DEF PastEnd
  <2>8. /\ 14 + frame.hl + 8 \in Nat /\ frame.wire - (14 + frame.hl + 8) \in Nat
        /\ (14 + frame.hl + 8) + (frame.wire - (14 + frame.hl + 8)) = frame.wire
        /\ 14 + frame.hl + 8 <= 134
    BY <1>3, <2>1
  <2> QED BY <1>1, <1>2, <1>3, <2>2, <2>6, <2>7, <2>8, FreedUnsent
<1>7. \/ p' = p /\ data' = data
      \/ p' = t_pbuf_header(p, frame.hl) /\ data' = data
      \/ /\ ~(p.tot_len < UDP_HLEN + frame.hl)
         /\ t_pbuf_header(p, frame.hl).tot_len >= frame.ulen
         /\ p' = t_pbuf_header(t_pbuf_header(p, frame.hl), UDP_HLEN)
         /\ data' = UdpData
  BY DEF t_udp_input
<1> QED BY <1>4, <1>5, <1>6, <1>7

LEMMA TcpKeeps ==
  ASSUME BufferInv, t_tcp_input
  PROVE  BufferInv'
<1>1. /\ Received(0) /\ Behind /\ packet' = 0 /\ dst' \in Dests
      /\ frame' = frame /\ sent' = sent /\ pc' = "free"
  BY DEF BufferInv, t_tcp_input
<1>2. /\ frame \in Arrived /\ frame.type = "ip" /\ data = Nothing /\ sent' = Nothing
  BY <1>1 DEF Received
<1>3. /\ frame.wire \in Nat /\ frame.wire <= 65535 /\ frame.wire <= BUFSIZE
      /\ frame.hl \in Nat /\ frame.hl <= 60 /\ frame.thl \in Nat /\ frame.thl <= 60
      /\ frame.wire > 14 + frame.hl /\ ETH = 14 /\ U16 = 65536
  <2>1. BUFSIZE \in Int /\ BUFSIZE <= 65535
    BY Numbers
  <2> QED BY <1>1, <1>2, <2>1, IpFrames, BehindIs, Numbers DEF ETH
<1>4. CASE p' = t_pbuf_header(p, frame.hl) /\ data' = data
  <2>1. p' = t_pbuf_alloc(14 + frame.hl, frame.wire - (14 + frame.hl))
    BY <1>1, <1>4, PastIpHeader DEF ETH
  <2>2. /\ 14 + frame.hl \in Nat /\ frame.wire - (14 + frame.hl) \in Nat
        /\ (14 + frame.hl) + (frame.wire - (14 + frame.hl)) = frame.wire
        /\ 14 + frame.hl <= 134
    BY <1>3
  <2> QED BY <1>1, <1>2, <1>3, <1>4, <2>1, <2>2, FreedUnsent, NothingPast
<1>5. CASE /\ p' = t_pbuf_header(t_pbuf_header(p, frame.hl), frame.thl)
           /\ data' = [off |-> p'.off, len |-> p'.tot_len, to |-> "inseg"]
  <2> DEFINE off == 14 + frame.hl + frame.thl
             wrap == IF off > frame.wire THEN 65536 ELSE 0
             len == frame.wire - off + wrap
  <2>1. p' = t_pbuf_alloc(off, len)
    <3>1. CASE off > frame.wire
      BY <1>1, <1>3, <1>5, <3>1, PastTheEnd
    <3>2. CASE ~(off > frame.wire)
      <4>1. ETH + frame.hl + frame.thl <= frame.wire
        BY <1>3, <3>2
      <4>2. p' = t_pbuf_alloc(ETH + frame.hl + frame.thl,
                              frame.wire - (ETH + frame.hl + frame.thl))
        BY <1>1, <1>3, <1>5, <4>1, PastTransport
      <4>3. len = frame.wire - (ETH + frame.hl + frame.thl)
        BY <1>3, <3>2
      <4> QED BY <1>3, <4>2, <4>3
    <3> QED BY <3>1, <3>2
  <2>2. p'.off = off /\ p'.len = len /\ p'.tot_len = len
    <3> HIDE DEF off, len
    <3> QED BY <2>1 DEF t_pbuf_alloc
  <2>3. data'.off = off /\ data'.len = len /\ data'.to = "inseg"
    BY <1>5, <2>2
  <2>4. PastEnd' <=> off > frame.wire
    BY <1>1, <1>3, <2>3 DEF PastEnd
  <2>5. /\ off \in Nat /\ off <= 134 /\ len \in Nat /\ len <= 65535 /\ off + len = frame.wire + wrap
    <3>1. off \in Nat /\ off <= 134 /\ off < frame.wire + 65536
      BY <1>3
    <3> HIDE DEF off
    <3>2. CASE off > frame.wire
      BY <1>3, <3>1, <3>2
    <3>3. CASE ~(off > frame.wire)
      BY <1>3, <3>1, <3>3
    <3> QED BY <3>2, <3>3
  <2>6. wrap = IF PastEnd' THEN U16 ELSE 0
    BY <1>3, <2>4
  <2> HIDE DEF off, wrap, len
  <2>7. DataExact'
    <3>1. off = ETH + frame.hl + frame.thl
      BY <1>3 DEF off
    <3> QED BY <1>1, <2>3, <2>5, <2>6, <3>1 DEF DataExact
  <2>8. EndInPlace'
    <3>1. off + len <= BUFSIZE \/ PastEnd'
      BY <1>3, <2>4, <2>5 DEF wrap
    <3> QED BY <1>1, <1>2, <2>2, <2>5, <2>6, <3>1, FrameTypes DEF EndInPlace
  <2>9. InWindow(off)
    BY <2>5, Numbers DEF InWindow
  <2>10. SentWhole' /\ EchoToSender'
    BY <1>1, <1>2 DEF SentWhole, EchoToSender, Nothing
  <2>11. p'.len \in 0..U16 - 1
    BY <2>2, <2>5, ShortNumbers
  <2> QED BY <1>1, <1>2, <2>2, <2>7, <2>8, <2>9, <2>10, <2>11 DEF BufferInv
<1>6. \/ p' = t_pbuf_header(p, frame.hl) /\ data' = data
      \/ /\ p' = t_pbuf_header(t_pbuf_header(p, frame.hl), frame.thl)
         /\ data' = [off |-> p'.off, len |-> p'.tot_len, to |-> "inseg"]
  BY DEF t_tcp_input
<1> QED BY <1>4, <1>5, <1>6

LEMMA ArpRequestKeeps ==
  ASSUME BufferInv, ArpRequest
  PROVE  BufferInv'
<1>1. /\ frame \in Arrived /\ frame.type = "arp" /\ p = t_pbuf_alloc(0, frame.wire)
      /\ data' = Nothing /\ packet' = 0 /\ dst' \in Dests
      /\ frame' = frame /\ p' = p /\ pc' = "free"
      /\ sent' = [off |-> p.off, len |-> p.tot_len, to |-> "sender"]
  BY DEF BufferInv, ArpRequest, Has
<1>2. frame.wire \in Nat /\ frame.wire <= BUFSIZE /\ 0 + frame.wire = frame.wire + 0
      /\ ~PastEnd'
  BY <1>1, ArpFrames, NothingPast
<1>3. p'.off = 0 /\ p'.len = frame.wire /\ p'.tot_len = frame.wire
  BY <1>1, Zenon DEF t_pbuf_alloc
<1>4. sent'.to = "sender" /\ sent'.off = 0 /\ sent'.len = frame.wire
  BY <1>1, <1>3
<1>5. InWindow(p'.off) /\ p'.len \in 0..U16 - 1
  <2>1. InWindow(0)
    BY Numbers DEF InWindow
  <2>2. frame.wire \in 0..U16 - 1
    BY <1>2, InBuffer
  <2> QED BY <1>3, <2>1, <2>2
<1>6. EndInPlace'
  BY <1>1, <1>2, <1>3, FrameTypes DEF EndInPlace
<1>7. SentWhole' /\ EchoToSender'
  BY <1>1, <1>2, <1>4 DEF SentWhole, EchoToSender
<1> QED BY <1>1, <1>5, <1>6, <1>7, NothingPast DEF BufferInv

LEMMA ArpReplyKeeps ==
  ASSUME BufferInv, ArpReplyIn
  PROVE  BufferInv'
  BY DEF BufferInv, ArpReplyIn, Has

\* An ARP frame that is done with.
LEMMA ArpFreed ==
  ASSUME BufferInv, pc \in {"arp", "entering"}, pc' = "free",
         UNCHANGED <<frame, p, dst, data, sent, packet>>
  PROVE  BufferInv'
<1>1. /\ frame \in Arrived /\ frame.type = "arp" /\ p' = t_pbuf_alloc(0, frame.wire)
      /\ data' = Nothing /\ sent' = Nothing /\ packet' = 0 /\ frame' = frame
      /\ dst' \in Dests
  BY DEF BufferInv, Has
<1>2. frame.wire \in Nat /\ frame.wire <= BUFSIZE /\ 0 + frame.wire = frame.wire /\ 0 \in Nat
      /\ 0 <= 134
  BY <1>1, ArpFrames
<1> QED BY <1>1, <1>2, FreedUnsent, NothingPast

LEMMA ArpEnteringKeeps ==
  ASSUME BufferInv, ArpEntering
  PROVE  BufferInv'
<1>1. CASE pc' = "free"
  BY <1>1, ArpFreed DEF ArpEntering
<1>2. CASE pc' = pc
  BY <1>2 DEF ArpEntering, BufferInv, Has
<1> QED BY <1>1, <1>2 DEF ArpEntering

LEMMA ArpIgnoredKeeps ==
  ASSUME BufferInv, ArpIgnored
  PROVE  BufferInv'
  BY ArpFreed DEF ArpIgnored

\* What the program sends is put where the headers below will fit.
LEMMA MadeKeeps ==
  ASSUME NEW len \in Nat, len > 0, T_PBUF_IP + len <= BUFSIZE,
         p' = t_pbuf_alloc(T_PBUF_IP, len), packet' = len, frame' = None,
         dst' = "peer", data' = Nothing, sent' = Nothing,
         \/ pc' = "output"
         \/ pc' = "segment" /\ len <= HLEN + MSS
  PROVE  BufferInv'
<1>1. Made'
  BY DEF Made, Has
<1> QED BY <1>1 DEF BufferInv, Dests

LEMMA MakeKeeps ==
  ASSUME NEW offset \in Nat, NEW n \in Nat, NEW inc \in Int, NEW next,
         Make(offset, n, inc, next),
         offset + inc = 34, inc <= 0, n - inc > 0, 34 + (n - inc) <= BUFSIZE,
         \/ next = "output"
         \/ next = "segment" /\ n - inc <= HLEN + MSS
  PROVE  BufferInv'
<1>1. InWindow(offset + inc) /\ inc <= n /\ offset + n <= BUFSIZE /\ n - inc \in Nat
  BY Numbers DEF InWindow
<1>2. p' = t_pbuf_alloc(34, n - inc)
  BY <1>1, HeaderKeepsEnd DEF Make
<1>3. p'.tot_len = n - inc
  BY <1>2, Zenon DEF t_pbuf_alloc
<1>4. T_PBUF_IP = 34
  BY DEF T_PBUF_IP, ETH, HLEN
<1> QED BY <1>1, <1>2, <1>3, <1>4, MadeKeeps DEF Make

LEMMA SendUdpKeeps == SendUdp => BufferInv'
<1> SUFFICES ASSUME SendUdp PROVE BufferInv'
  OBVIOUS
<1>1. PICK n \in Sizes : Make(28 + ETH, n, -UDP_HLEN, "output")
  BY DEF SendUdp
<1>2. /\ 28 + ETH \in Nat /\ n \in Nat /\ -UDP_HLEN \in Int
      /\ 28 + ETH + (-UDP_HLEN) = 34 /\ -UDP_HLEN <= 0
      /\ n - (-UDP_HLEN) > 0 /\ 34 + (n - (-UDP_HLEN)) <= BUFSIZE
  BY Numbers DEF ETH, UDP_HLEN
<1> QED BY <1>1, <1>2, MakeKeeps

LEMMA SendAckKeeps == SendAck => BufferInv'
<1>1. /\ T_PBUF_IP \in Nat /\ HLEN \in Nat /\ 0 \in Int
      /\ T_PBUF_IP + 0 = 34 /\ 0 <= 0
      /\ HLEN - 0 > 0 /\ 34 + (HLEN - 0) <= BUFSIZE
  BY Numbers DEF T_PBUF_IP, ETH, HLEN
<1> QED BY <1>1, MakeKeeps DEF SendAck

LEMMA SendSynKeeps == SendSyn => BufferInv'
<1>1. /\ T_PBUF_TRANSPORT \in Nat /\ 4 \in Nat /\ -HLEN \in Int
      /\ T_PBUF_TRANSPORT + (-HLEN) = 34 /\ -HLEN <= 0
      /\ 4 - (-HLEN) > 0 /\ 34 + (4 - (-HLEN)) <= BUFSIZE
  BY Numbers DEF T_PBUF_TRANSPORT, ETH, HLEN
<1> QED BY <1>1, MakeKeeps DEF SendSyn

LEMMA SendDataKeeps == SendData => BufferInv'
<1> SUFFICES ASSUME SendData PROVE BufferInv'
  OBVIOUS
<1>1. PICK n \in Sizes :
        \/ Make(T_PBUF_TRANSPORT, n, -HLEN, "segment")
        \/ /\ pc' = "segment" /\ packet' = HLEN + n /\ frame' = None
           /\ p' = t_pbuf_header(t_pbuf_cat(t_pbuf_alloc(T_PBUF_TRANSPORT, 0), n), -HLEN)
           /\ dst' = "peer" /\ data' = Nothing /\ sent' = Nothing
  BY DEF SendData
<1>2. /\ T_PBUF_TRANSPORT \in Nat /\ n \in Nat /\ n > 0 /\ n <= MSS /\ -HLEN \in Int
      /\ T_PBUF_TRANSPORT + (-HLEN) = 34 /\ -HLEN <= 0 /\ 0 \in Nat
      /\ n - (-HLEN) > 0 /\ 34 + (n - (-HLEN)) <= BUFSIZE
      /\ n - (-HLEN) <= HLEN + MSS
  BY Numbers DEF T_PBUF_TRANSPORT, ETH, HLEN
<1>3. CASE Make(T_PBUF_TRANSPORT, n, -HLEN, "segment")
  BY <1>2, <1>3, MakeKeeps
<1>4. CASE ~Make(T_PBUF_TRANSPORT, n, -HLEN, "segment")
  <2>1. /\ T_PBUF_TRANSPORT + 0 + n <= BUFSIZE /\ 0 + n = n /\ -HLEN <= n
        /\ T_PBUF_TRANSPORT + n <= BUFSIZE
    BY <1>2, Numbers DEF T_PBUF_TRANSPORT, ETH, HLEN
  <2>2. t_pbuf_cat(t_pbuf_alloc(T_PBUF_TRANSPORT, 0), n) = t_pbuf_alloc(T_PBUF_TRANSPORT, n)
    BY <1>2, <2>1, CatAppends
  <2>3. InWindow(T_PBUF_TRANSPORT + (-HLEN))
    BY <1>2, Numbers DEF InWindow
  <2>4. p' = t_pbuf_alloc(34, n - (-HLEN))
    BY <1>1, <1>2, <1>4, <2>1, <2>2, <2>3, HeaderKeepsEnd
  <2>5. /\ n - (-HLEN) = HLEN + n /\ T_PBUF_IP = 34 /\ HLEN + n \in Nat /\ HLEN + n > 0
        /\ T_PBUF_IP + (HLEN + n) <= BUFSIZE
        /\ HLEN + n <= HLEN + MSS
    BY <1>2 DEF HLEN, T_PBUF_IP, ETH
  <2> QED BY <1>1, <1>4, <2>4, <2>5, MadeKeeps
<1> QED BY <1>3, <1>4

\* A merged write adds its data and no second header.
LEMMA MergedAppends ==
  ASSUME NEW n \in Nat, n <= MSS, NEW len \in Nat, p = t_pbuf_alloc(34, len),
         34 + len + n <= BUFSIZE
  PROVE  Merged(n) = t_pbuf_alloc(34, len + n)
<1>1. /\ 54 \in Nat /\ 54 + n <= BUFSIZE /\ -20 \in Int /\ -20 <= n /\ 54 + (-20) = 34
      /\ InWindow(34) /\ n - (-20) = n + 20
      /\ 34 \in Nat /\ n + 20 \in Nat /\ 34 + (n + 20) <= BUFSIZE /\ 20 \in Int /\ 20 <= n + 20
      /\ 34 + 20 = 54 /\ InWindow(54) /\ (n + 20) - 20 = n
  BY Numbers DEF InWindow
<1>2. t_pbuf_header(t_pbuf_alloc(54, n), -20) = t_pbuf_alloc(34, n + 20)
  BY <1>1, HeaderKeepsEnd
<1>3. t_pbuf_header(t_pbuf_alloc(34, n + 20), 20) = t_pbuf_alloc(54, n)
  BY <1>1, HeaderKeepsEnd
<1>4. T_PBUF_TRANSPORT = 54 /\ HLEN = 20
  BY DEF T_PBUF_TRANSPORT, ETH, HLEN
<1>5. t_pbuf_alloc(54, n).len = n
  BY Zenon DEF t_pbuf_alloc
<1>6. Merged(n) = t_pbuf_cat(p, n)
  BY <1>2, <1>3, <1>4, <1>5, Zenon DEF Merged
<1>7. t_pbuf_cat(t_pbuf_alloc(34, len), n) = t_pbuf_alloc(34, len + n)
  BY <1>1, CatAppends
<1> QED BY <1>6, <1>7

LEMMA MergeKeeps ==
  ASSUME BufferInv, Merge
  PROVE  BufferInv'
<1>1. PICK n \in Sizes :
        packet - HLEN + n <= MSS /\ p' = Merged(n) /\ packet' = packet + n
  BY DEF Merge
<1>2. /\ packet \in Nat /\ packet > 0 /\ frame = None
      /\ p = t_pbuf_alloc(T_PBUF_IP, packet)
      /\ frame' = None /\ data' = Nothing /\ sent' = Nothing /\ dst' = "peer" /\ pc' = "segment"
  BY DEF BufferInv, Made, Has, Merge
<1>3. /\ n \in Nat /\ n <= MSS /\ packet + n \in Nat /\ packet + n > 0
      /\ packet + n <= HLEN + MSS
      /\ 34 + packet + n <= BUFSIZE /\ 34 + (packet + n) <= BUFSIZE /\ T_PBUF_IP = 34
  BY <1>1, <1>2, Numbers DEF T_PBUF_IP, ETH, HLEN
<1>4. p' = t_pbuf_alloc(T_PBUF_IP, packet + n)
  BY <1>1, <1>2, <1>3, MergedAppends
<1> QED BY <1>1, <1>2, <1>3, <1>4, MadeKeeps

LEMMA SendSegmentKeeps ==
  ASSUME BufferInv, SendSegment
  PROVE  BufferInv'
  BY DEF BufferInv, SendSegment, Made, Has

LEMMA SendArpRequestKeeps ==
  ASSUME BufferInv, SendArpRequest
  PROVE  BufferInv'
<1>1. /\ frame' = None /\ p' = t_pbuf_alloc(0, 42) /\ pc' = "free" /\ dst' = "all"
      /\ data' = Nothing /\ packet' = 0
      /\ sent' = [off |-> p'.off, len |-> p'.tot_len, to |-> "all"]
  BY DEF SendArpRequest, ARP_HLEN
<1>2. p'.off = 0 /\ p'.len = 42 /\ p'.tot_len = 42
  BY <1>1, Zenon DEF t_pbuf_alloc
<1>3. sent'.to = "all" /\ sent'.off = 0 /\ sent'.len = 42
  BY <1>1, <1>2, Zenon
<1>4. BUFSIZE \in Int /\ STRUCT \in Nat /\ 134 + STRUCT < BUFSIZE - 1
  BY Numbers
<1>5. 0 \in Nat /\ 42 \in Nat /\ 0 + 42 <= BUFSIZE
  BY <1>4
<1>6. InWindow(p'.off) /\ p'.len \in 0..U16 - 1
  <2>1. InWindow(0)
    BY <1>4 DEF InWindow
  <2>2. 42 \in 0..U16 - 1
    BY <1>5, InBuffer, Zenon
  <2> QED BY <1>2, <2>1, <2>2, Zenon
<1>7. EndInPlace'
  BY <1>1, <1>2, <1>5 DEF EndInPlace
<1>8. SentWhole' /\ EchoToSender'
  BY <1>1, <1>3, <1>5 DEF SentWhole, EchoToSender
<1> QED BY <1>1, <1>6, <1>7, <1>8, NothingPast DEF BufferInv, Dests

\* Both headers fit in front of what t_ip_output is given.
LEMMA OutputSends ==
  ASSUME NEW off \in Nat, NEW len \in Nat, off >= 34, off <= 94, off + len <= BUFSIZE,
         p = t_pbuf_alloc(off, len), t_ip_output
  PROVE  /\ p' = t_pbuf_alloc(off - 34, len + 34)
         /\ sent' = [off |-> off - 34, len |-> len + 34, to |-> dst]
<1>1. /\ -20 \in Int /\ -20 <= len /\ InWindow(off + (-20))
      /\ off + (-20) = off - 20 /\ len - (-20) = len + 20
      /\ off - 20 \in Nat /\ len + 20 \in Nat /\ (off - 20) + (len + 20) <= BUFSIZE
      /\ -14 \in Int /\ -14 <= len + 20 /\ InWindow((off - 20) + (-14))
      /\ (off - 20) + (-14) = off - 34 /\ (len + 20) - (-14) = len + 34
  BY Numbers DEF InWindow
<1>2. t_pbuf_header(p, -20) = t_pbuf_alloc(off - 20, len + 20)
  BY <1>1, HeaderKeepsEnd
<1>3. t_pbuf_header(t_pbuf_alloc(off - 20, len + 20), -14) = t_pbuf_alloc(off - 34, len + 34)
  BY <1>1, HeaderKeepsEnd
<1>4. WithIpHeader = t_pbuf_alloc(off - 20, len + 20)
  BY <1>2 DEF WithIpHeader, HLEN
<1>5. p' = t_pbuf_alloc(off - 34, len + 34)
  BY <1>3, <1>4, Zenon DEF t_ip_output, ETH
<1>6. InWindow(WithIpHeader.off - ETH)
  <2>1. WithIpHeader.off = off - 20
    BY <1>4, Zenon DEF t_pbuf_alloc
  <2> QED BY <2>1, Numbers DEF InWindow, ETH
<1>7. sent' = [off |-> p'.off, len |-> p'.tot_len, to |-> dst]
  BY <1>6 DEF t_ip_output
<1>8. p'.off = off - 34 /\ p'.tot_len = len + 34
  BY <1>5, Zenon DEF t_pbuf_alloc
<1> QED BY <1>5, <1>7, <1>8, Zenon

\* What t_ip_output leaves when payload was moved down and the packet sent or not.
LEMMA OutputLeaves ==
  ASSUME NEW off \in Nat, NEW len \in Nat, off + len <= BUFSIZE, off <= 134,
         p' = t_pbuf_alloc(off, len), pc' = "free",
         frame' \in Arrived \cup {None}, frame' # None => off + len = frame'.wire,
         frame' = None => off + len = T_PBUF_IP + packet',
         dst' \in Dests, data' = Nothing, SentWhole', EchoToSender'
  PROVE  BufferInv'
<1>1. p'.off = off /\ p'.len = len /\ p'.tot_len = len
  BY Zenon DEF t_pbuf_alloc
<1>2. InWindow(off) /\ len \in 0..U16 - 1
  <2>1. InWindow(off)
    BY Numbers DEF InWindow
  <2>2. len \in 0..U16 - 1
    BY InBuffer
  <2> QED BY <2>1, <2>2
<1>3. ~PastEnd' /\ DataExact'
  BY NothingPast
<1>4. EndInPlace'
  <2>1. frame' # None => off + len = frame'.wire + 0
    <3>1. CASE frame' = None
      BY <3>1
    <3>2. CASE frame' # None
      <4>1. frame' \in Arrived /\ off + len = frame'.wire
        BY <3>2
      <4>2. off + len = off + len + 0
        OBVIOUS
      <4> QED BY <4>1, <4>2
    <3> QED BY <3>1, <3>2
  <2> QED BY <1>1, <1>3, <2>1 DEF EndInPlace
<1> QED BY <1>1, <1>2, <1>3, <1>4 DEF BufferInv

LEMMA OutputMade ==
  ASSUME Made, t_ip_output
  PROVE  BufferInv'
<1>1. /\ packet \in Nat /\ packet > 0 /\ 34 + packet <= BUFSIZE /\ p = t_pbuf_alloc(34, packet)
      /\ frame = None /\ dst = "peer" /\ data = Nothing /\ T_PBUF_IP = 34
  BY DEF Made, Has, T_PBUF_IP, ETH, HLEN
<1>2. /\ pc' = "free" /\ frame' = None /\ dst' = "peer" /\ data' = Nothing /\ packet' = packet
  BY <1>1 DEF t_ip_output
<1>3. /\ p' = t_pbuf_alloc(34 - 34, packet + 34)
      /\ sent' = [off |-> 34 - 34, len |-> packet + 34, to |-> dst]
  <2>1. 34 \in Nat /\ 34 >= 34 /\ 34 <= 94
    OBVIOUS
  <2> QED BY <1>1, <2>1, OutputSends
<1>4. /\ sent'.off = 0 /\ sent'.len = packet + 34 /\ sent'.to = "peer"
      /\ p' = t_pbuf_alloc(0, packet + 34)
  BY <1>1, <1>3
<1>5. SentWhole' /\ EchoToSender'
  BY <1>1, <1>2, <1>4 DEF SentWhole, EchoToSender, ShortEcho
<1>6. /\ 0 \in Nat /\ packet + 34 \in Nat /\ 0 + (packet + 34) <= BUFSIZE /\ 0 <= 134
      /\ 0 + (packet + 34) = 34 + packet
  BY <1>1, Numbers
<1> QED BY <1>1, <1>2, <1>4, <1>5, <1>6, OutputLeaves DEF Dests

\* The answer to an echo request, by how much of an IP header the request had.
LEMMA OutputEcho ==
  ASSUME Echo, t_ip_output
  PROVE  BufferInv'
<1> DEFINE hl == frame.hl
           off == 14 + hl
           len == frame.wire - off
<1>1. /\ frame \in Arrived /\ frame.type = "ip" /\ p = t_pbuf_alloc(off, len)
      /\ packet = len /\ hl # 0 /\ frame # None /\ dst \in {"sender", "garbled"}
      /\ dst = "garbled" <=> hl \in {16, 28}
      /\ frame' = frame /\ data' = Nothing /\ packet' = packet /\ dst' = dst /\ pc' = "free"
      /\ sent = Nothing
  BY FrameTypes DEF Echo, Received, Has, ETH, t_ip_output
<1>2. /\ frame.wire \in Nat /\ frame.wire <= BUFSIZE /\ frame.wire > 14 + hl
      /\ hl \in Words /\ hl \in Nat /\ hl <= 60
  BY <1>1, IpFrames DEF Echo, Behind, ETH
<1>3. /\ off \in Nat /\ len \in Nat /\ len > 0 /\ off + len = frame.wire /\ off + len <= BUFSIZE
      /\ off <= 74 /\ off = 14 + hl
  BY <1>2
<1>4. ShortEcho' <=> hl < 20
  BY <1>1 DEF ShortEcho, HLEN
<1>5. frame'.hl + ETH < HLEN <=> hl < 6
  BY <1>1, <1>2 DEF ETH, HLEN
<1>6. hl < 20 => hl \in {0, 4, 8, 12, 16}
  BY <1>2, WordsAre
<1> HIDE DEF off, len
<1>7. CASE hl >= 20
  <2>1. /\ p' = t_pbuf_alloc(off - 34, len + 34)
        /\ sent' = [off |-> off - 34, len |-> len + 34, to |-> dst]
    <3>1. off >= 34 /\ off <= 94
      BY <1>2, <1>3, <1>7
    <3> QED BY <1>1, <1>3, <3>1, OutputSends
  <2>2. /\ off - 34 \in Nat /\ len + 34 \in Nat /\ (off - 34) + (len + 34) <= BUFSIZE
        /\ (off - 34) + (len + 34) = frame'.wire /\ off - 34 <= 134
        /\ T_PBUF_IP + packet' = len + 34 /\ packet' > 0
    BY <1>1, <1>2, <1>3, <1>7 DEF T_PBUF_IP, ETH, HLEN
  <2>3. sent'.off = off - 34 /\ sent'.len = len + 34 /\ sent'.to = dst
    BY <2>1
  <2>4. SentWhole'
    BY <1>1, <1>2, <1>4, <1>7, <2>2, <2>3 DEF SentWhole
  <2>5. EchoToSender'
    BY <1>1, <1>2, <1>7, <2>3 DEF EchoToSender
  <2> QED BY <1>1, <2>1, <2>2, <2>4, <2>5, OutputLeaves DEF Dests
<1>8. CASE hl = 4
  <2>1. /\ off = 18 /\ ~InWindow(off + (-20)) /\ InWindow(off + (-14)) /\ -14 \in Int /\ -14 <= len
        /\ off + (-14) = 4 /\ len - (-14) = len + 14
    BY <1>3, <1>8, Numbers DEF InWindow
  <2>2. WithIpHeader = p
    <3>1. p.off = off
      BY <1>1, Zenon DEF t_pbuf_alloc
    <3> QED BY <2>1, <3>1 DEF WithIpHeader, t_pbuf_header, HLEN
  <2>3. p' = t_pbuf_alloc(4, len + 14)
    <3>1. t_pbuf_header(t_pbuf_alloc(off, len), -14) = t_pbuf_alloc(off + (-14), len - (-14))
      BY <1>3, <2>1, HeaderKeepsEnd
    <3> QED BY <1>1, <2>1, <2>2, <3>1 DEF t_ip_output, ETH
  <2>4. p'.off = 4 /\ p'.tot_len = len + 14
    BY <2>3, Zenon DEF t_pbuf_alloc
  <2>5. sent' = [off |-> p'.off, len |-> p'.tot_len, to |-> dst]
    <3>1. WithIpHeader.off = 18
      BY <1>1, <2>1, <2>2, Zenon DEF t_pbuf_alloc
    <3>2. InWindow(WithIpHeader.off - ETH)
      BY <3>1, Numbers DEF InWindow, ETH
    <3> QED BY <3>2 DEF t_ip_output
  <2>6. sent'.off = 4 /\ sent'.len = len + 14 /\ sent'.to = dst
    BY <2>4, <2>5
  <2>7. /\ 4 \in Nat /\ len + 14 \in Nat /\ 4 + (len + 14) <= BUFSIZE /\ 4 <= 134
        /\ 4 + (len + 14) = frame'.wire /\ ETH + packet' = len + 14
    BY <1>1, <1>2, <1>3, <2>1 DEF ETH
  <2>8. SentWhole'
    BY <1>1, <1>3, <1>4, <1>5, <1>8, <2>6, <2>7 DEF SentWhole
  <2>9. EchoToSender'
    BY <1>1, <1>8, <2>6 DEF EchoToSender
  <2> QED BY <1>1, <2>3, <2>7, <2>8, <2>9, OutputLeaves DEF Dests
<1>9. CASE hl \in {8, 12, 16}
  <2>1. /\ -20 \in Int /\ -20 <= len /\ InWindow(off + (-20)) /\ off + (-20) = off - 20
        /\ len - (-20) = len + 20 /\ ~InWindow((off - 20) - 14) /\ ~InWindow((off - 20) + (-14))
    BY <1>3, <1>9, Numbers DEF InWindow
  <2>2. WithIpHeader = t_pbuf_alloc(off - 20, len + 20)
    BY <1>1, <1>3, <2>1, HeaderKeepsEnd DEF WithIpHeader, HLEN
  <2>3. WithIpHeader.off = off - 20
    BY <2>2, Zenon DEF t_pbuf_alloc
  <2>4. p' = t_pbuf_alloc(off - 20, len + 20)
    BY <2>1, <2>2, <2>3 DEF t_ip_output, t_pbuf_header, ETH
  <2>5. sent' = Nothing
    BY <1>1, <2>1, <2>3 DEF t_ip_output, ETH
  <2>6. /\ off - 20 \in Nat /\ len + 20 \in Nat /\ (off - 20) + (len + 20) <= BUFSIZE
        /\ (off - 20) + (len + 20) = frame'.wire /\ off - 20 <= 134
    BY <1>1, <1>2, <1>3, <1>9
  <2>7. SentWhole' /\ EchoToSender'
    BY <1>4, <1>5, <1>9, <2>5 DEF SentWhole, EchoToSender, Nothing
  <2> QED BY <1>1, <2>4, <2>6, <2>7, OutputLeaves DEF Dests
<1>10. hl >= 20 \/ hl = 4 \/ hl \in {8, 12, 16}
  BY <1>1, <1>2, <1>6
<1> QED BY <1>7, <1>8, <1>9, <1>10

LEMMA OutputKeeps ==
  ASSUME BufferInv, t_ip_output
  PROVE  BufferInv'
  BY OutputMade, OutputEcho DEF BufferInv, t_ip_output

LEMMA FreeKeeps == Free => BufferInv'
  BY DEF Free, BufferInv, Dests

(***************************************************************************)
(* The two halves together.                                                *)
(***************************************************************************)

LEMMA IpInvInit == Init => IpInv
<1> SUFFICES ASSUME Init PROVE IpInv
  OBVIOUS
<1>1. BufferInv
  BY DEF Init, BufferInv, Dests
<1>2. ArpInv
  BY ArpInitInv DEF Init
<1> QED BY <1>1, <1>2 DEF IpInv

LEMMA IpInvNext ==
  ASSUME IpInv, [Next]_vars
  PROVE  IpInv'
<1>1. BufferInv /\ ArpInv
  BY DEF IpInv
<1>2. ASSUME UNCHANGED arpVars, BufferInv' PROVE IpInv'
  BY <1>1, <1>2, ArpStutters DEF IpInv
<1>3. CASE Up
  <2>1. CASE Receive
    BY <2>1, <1>1, <1>2, ReceiveKeeps DEF Receive
  <2>2. CASE t_ip_input
    BY <2>2, <1>1, <1>2, IpInputKeeps DEF t_ip_input
  <2>3. CASE Ignored
    BY <2>3, <1>1, <1>2, IgnoredKeeps DEF Ignored
  <2>4. CASE t_icmp_input
    BY <2>4, <1>1, <1>2, IcmpKeeps DEF t_icmp_input
  <2>5. CASE t_udp_input
    BY <2>5, <1>1, <1>2, UdpKeeps DEF t_udp_input
  <2>6. CASE t_tcp_input
    BY <2>6, <1>1, <1>2, TcpKeeps DEF t_tcp_input
  <2>7. CASE ArpRequest
    BY <2>7, <1>1, <1>2, ArpRequestKeeps DEF ArpRequest
  <2>8. CASE ArpReplyIn
    <3>1. frame \in Arrived /\ frame.type = "arp"
      BY <2>8, <1>1 DEF BufferInv, ArpReplyIn
    <3>2. ArpReply(frame.mac, frame.ip)
      BY <2>8 DEF ArpReplyIn
    <3>3. ArpInv'
      BY <1>1, <3>1, <3>2, ArpFrames, ArpReplyInv
    <3> QED BY <2>8, <1>1, <3>3, ArpReplyKeeps DEF IpInv
  <2>9. CASE ArpEntering
    <3>1. ArpInv'
      BY <2>9, <1>1, EnteringInv DEF ArpEntering
    <3> QED BY <2>9, <1>1, <3>1, ArpEnteringKeeps DEF IpInv
  <2>10. CASE ArpIgnored
    BY <2>10, <1>1, <1>2, ArpIgnoredKeeps DEF ArpIgnored
  <2> QED BY <1>3, <2>1, <2>2, <2>3, <2>4, <2>5, <2>6, <2>7, <2>8, <2>9, <2>10 DEF Up
<1>4. CASE Down
  <2>1. CASE SendUdp
    BY <2>1, <1>2, SendUdpKeeps DEF SendUdp, Make
  <2>2. CASE SendAck
    BY <2>2, <1>2, SendAckKeeps DEF SendAck, Make
  <2>3. CASE SendSyn
    BY <2>3, <1>2, SendSynKeeps DEF SendSyn, Make
  <2>4. CASE SendData
    BY <2>4, <1>2, SendDataKeeps DEF SendData, Make
  <2>5. CASE Merge
    BY <2>5, <1>1, <1>2, MergeKeeps DEF Merge
  <2>6. CASE SendSegment
    BY <2>6, <1>1, <1>2, SendSegmentKeeps DEF SendSegment
  <2>7. CASE SendArpRequest
    BY <2>7, <1>1, <1>2, SendArpRequestKeeps DEF SendArpRequest
  <2>8. CASE t_ip_output
    BY <2>8, <1>1, <1>2, OutputKeeps DEF t_ip_output
  <2> QED BY <1>4, <2>1, <2>2, <2>3, <2>4, <2>5, <2>6, <2>7, <2>8 DEF Down
<1>5. CASE Free
  BY <1>5, <1>2, FreeKeeps DEF Free
<1>6. ASSUME UNCHANGED ipVars PROVE BufferInv'
  BY <1>1, <1>6 DEF BufferInv, ipVars, Has, Received, Behind, Made, Echo, EndInPlace, PastEnd,
                    DataExact, SentWhole, ShortEcho, EchoToSender
<1>7. CASE PrintTable
  <2>1. ArpInv'
    BY <1>7, <1>1, PrintingInv DEF PrintTable
  <2> QED BY <1>7, <1>6, <2>1 DEF PrintTable, IpInv
<1>8. CASE UNCHANGED vars
  BY <1>8, <1>2, <1>6 DEF vars
<1> QED BY <1>3, <1>4, <1>5, <1>7, <1>8 DEF Next

\* Who changes what is known of the table.
LEMMA OthersLeaveTable ==
  ASSUME [Next]_vars
  PROVE  ArpReplyIn \/ ArpEntering \/ PrintTable \/ UNCHANGED arpVars
<1>1. CASE Up
  BY <1>1 DEF Up, Receive, t_ip_input, Ignored, t_icmp_input, t_udp_input, t_tcp_input,
              ArpRequest, ArpIgnored
<1>2. CASE Down
  BY <1>2 DEF Down, SendUdp, SendAck, SendSyn, SendData, Make, Merge, SendSegment,
              SendArpRequest, t_ip_output
<1>3. CASE Free \/ PrintTable
  BY <1>3 DEF Free
<1>4. CASE UNCHANGED vars
  BY <1>4 DEF vars
<1> QED BY <1>1, <1>2, <1>3, <1>4 DEF Next

LEMMA IpInvariant == Spec => []IpInv
  BY IpInvInit, IpInvNext, PTL DEF Spec

LEMMA IpInvEnough ==
  IpInv => TypeOK /\ EndInPlace /\ DataExact /\ SentWhole /\ EchoToSender
             /\ PrintedWasTold /\ OneEntryPerMac
<1> SUFFICES ASSUME IpInv
             PROVE  TypeOK /\ EndInPlace /\ DataExact /\ SentWhole /\ EchoToSender
                      /\ PrintedWasTold /\ OneEntryPerMac
  OBVIOUS
<1>1. BufferInv /\ ArpInv
  BY DEF IpInv
<1>2. /\ {p.len, p.tot_len} \subseteq 0..U16 - 1 /\ InWindow(p.off)
      /\ EndInPlace /\ DataExact /\ SentWhole /\ EchoToSender
  BY <1>1, BufferCorrect
<1>3. TypeOK
  BY <1>1, <1>2, FrameTypes DEF TypeOK, BufferInv, ArpInv, Dests
<1> QED BY <1>1, <1>2, <1>3 DEF ArpInv

\* t_pbuf_header leaves payload in its window in every layer, and the table's
\* counts stay in the table, for every buffer size with room for the headers at
\* their longest, and every frame.
THEOREM TypeCorrect == Spec => []TypeOK
  BY IpInvariant, IpInvEnough, PTL

\* t_pbuf_header, up and down through the layers, never loses the end of the data,
\* whatever the headers of a frame say; the lengths wrap where a TCP header claims
\* more than the frame has (t_tcp_input), and nowhere else.
THEOREM EndKept == Spec => []EndInPlace
  BY IpInvariant, IpInvEnough, PTL

\* What udp_recv_data and t_tcp_input take for the data is where the headers end,
\* and as long as the datagram says or the frame is; exactly when that is less
\* than nothing it is nearly 2^16 bytes.
THEOREM DataCorrect == Spec => []DataExact
  BY IpInvariant, IpInvEnough, PTL

\* The reserves of whoever allocates are enough for what t_ip_output puts in front.
THEOREM SentCorrect == Spec => []SentWhole
  BY IpInvariant, IpInvEnough, PTL

\* t_icmp_input's answer in place spoils the address it goes to only with eight
\* bytes of options.
THEOREM EchoCorrect == Spec => []EchoToSender
  BY IpInvariant, IpInvEnough, PTL

\* However the task's t_update_arp_entry and the main thread's t_print_arp_table
\* interleave, a printed line is what one reply told.
THEOREM PrintedCorrect == Spec => []PrintedWasTold
  BY IpInvariant, IpInvEnough, PTL

\* t_update_arp_entry never gives a hardware address a second row.
THEOREM OneEntryCorrect == Spec => []OneEntryPerMac
  BY IpInvariant, IpInvEnough, PTL

(***************************************************************************)
(* The table as a cache.                                                   *)
(***************************************************************************)

\* The cache that a table with a given count of rows is read as, in CacheSpec.
CacheOf(table, count) ==
  [m \in {table[r].mac : r \in 1..count} |->
     table[CHOOSE r \in 1..count : table[r].mac = m].ip]

\* Replies tell nothing that is not an address of the cache.
ToldOK == told \subseteq Macs \X Ips

LEMMA ToldInvariant == Spec => []ToldOK
<1>1. Init => ToldOK
  BY DEF Init, ArpInit, ToldOK
<1>2. ASSUME IpInv, ToldOK, [Next]_vars PROVE ToldOK'
  <2>1. CASE ArpReplyIn
    <3>1. frame \in Arrived /\ frame.type = "arp" /\ frame.opcode = "reply" /\ frame.ip # NoIp
          /\ told' = told \cup {<<frame.mac, frame.ip>>}
      BY <1>2, <2>1 DEF IpInv, BufferInv, ArpReplyIn, ArpReply
    <3>2. frame.mac \in Macs /\ frame.ip \in Ips
      <4>1. frame \in Frames
        BY <3>1 DEF Arrived
      <4>2. frame.mac \in Macs
        BY <3>1, <4>1, FrameAssumption
      <4> QED BY <3>1, <4>2, ArpFrames
    <3> QED BY <1>2, <3>1, <3>2 DEF ToldOK
  <2>2. CASE ArpEntering \/ PrintTable
    BY <1>2, <2>2 DEF ToldOK, ArpEntering, Entering, EntryFound, TableFull, EnterIp, EnterMac,
         EnterCount, PrintTable, Printing, PrintBegin, PrintRow, PrintEnd
  <2>3. CASE UNCHANGED arpVars
    BY <1>2, <2>3 DEF ToldOK, arpVars
  <2>4. ArpReplyIn \/ ArpEntering \/ PrintTable \/ UNCHANGED arpVars
    BY <1>2, OthersLeaveTable
  <2> QED BY <2>1, <2>2, <2>3, <2>4
<1> QED BY <1>1, <1>2, IpInvariant, PTL DEF Spec

\* In a table without a second row for an address each row is the one found.
LEMMA CacheOfRow ==
  ASSUME NEW table, NEW count \in Nat, NEW k \in 1..count,
         \A r \in 1..count : table[r].mac = table[k].mac => r = k
  PROVE  /\ table[k].mac \in DOMAIN CacheOf(table, count)
         /\ CacheOf(table, count)[table[k].mac] = table[k].ip
<1>1. (CHOOSE r \in 1..count : table[r].mac = table[k].mac) = k
  OBVIOUS
<1>2. table[k].mac \in {table[r].mac : r \in 1..count}
  OBVIOUS
<1> QED BY <1>1, <1>2 DEF CacheOf

\* The rows below the count determine the cache.
LEMMA CacheOfSame ==
  ASSUME NEW table, NEW table2, NEW count \in Nat,
         \A r \in 1..count : table[r] = table2[r]
  PROVE  CacheOf(table, count) = CacheOf(table2, count)
<1> DEFINE D  == {table[r].mac : r \in 1..count}
           D2 == {table2[r].mac : r \in 1..count}
           ip(m)  == table[CHOOSE r \in 1..count : table[r].mac = m].ip
           ip2(m) == table2[CHOOSE r \in 1..count : table2[r].mac = m].ip
<1>1. D = D2
  OBVIOUS
<1>2. ASSUME NEW m \in D PROVE ip(m) = ip2(m)
  <2>1. \A r \in 1..count : (table[r].mac = m) <=> (table2[r].mac = m)
    OBVIOUS
  <2>2. (CHOOSE r \in 1..count : table[r].mac = m) = (CHOOSE r \in 1..count : table2[r].mac = m)
    BY <2>1
  <2>3. (CHOOSE r \in 1..count : table[r].mac = m) \in 1..count
    BY <1>2
  <2> QED BY <2>2, <2>3
<1>3. CacheOf(table, count) = [m \in D |-> ip(m)] /\ CacheOf(table2, count) = [m \in D2 |-> ip2(m)]
  BY Zenon DEF CacheOf
<1> HIDE DEF D, D2, ip, ip2
<1>4. [m \in D |-> ip(m)] = [m \in D2 |-> ip2(m)]
  BY <1>1, <1>2
<1> QED BY <1>3, <1>4, Zenon

\* A table has no more addresses than rows.
LEMMA CacheOfSize ==
  ASSUME NEW table, NEW count \in Nat
  PROVE  LET D == DOMAIN CacheOf(table, count)
         IN IsFiniteSet(D) /\ Cardinality(D) \in Nat /\ Cardinality(D) <= count
<1> DEFINE D == {table[r].mac : r \in 1..count}
           f == [r \in 1..count |-> table[r].mac]
<1>1. f \in Surjection(1..count, D)
  BY DEF Surjection
<1>2. IsFiniteSet(1..count) /\ Cardinality(1..count) <= count
  BY FS_Interval
<1>3. IsFiniteSet(D) /\ Cardinality(D) <= Cardinality(1..count)
  <2> HIDE DEF D, f
  <2> QED BY <1>1, <1>2, FS_Surjection
<1>4. Cardinality(D) \in Nat /\ Cardinality(1..count) \in Nat
  BY <1>2, <1>3, FS_CardinalityType
<1>5. DOMAIN CacheOf(table, count) = D
  BY DEF CacheOf
<1>6. Cardinality(D) <= count
  BY <1>2, <1>3, <1>4
<1> QED BY <1>3, <1>4, <1>5, <1>6, Zenon

\* One row more for m, or its row brought up to date.
Learned(table, count, table2, count2, m, i) ==
  /\ count \in Nat /\ count2 \in Nat /\ count <= count2
  /\ \A r, k \in 1..count  : table[r].mac = table[k].mac => r = k
  /\ \A r, k \in 1..count2 : table2[r].mac = table2[k].mac => r = k
  /\ \A k \in 1..count : /\ table2[k].mac = table[k].mac
                         /\ table[k].mac # m => table2[k].ip = table[k].ip
  /\ \A k \in 1..count2 : k \in 1..count \/ table2[k].mac = m
  /\ \E k \in 1..count2 : table2[k].mac = m /\ table2[k].ip = i

Put(c, m, i) == [x \in DOMAIN c \cup {m} |-> IF x = m THEN i ELSE c[x]]

LEMMA CacheOfLearned ==
  ASSUME NEW table, NEW count, NEW table2, NEW count2, NEW m, NEW i,
         Learned(table, count, table2, count2, m, i)
  PROVE  CacheOf(table2, count2) = Put(CacheOf(table, count), m, i)
<1> DEFINE c  == CacheOf(table, count)
           c2 == CacheOf(table2, count2)
<1> USE DEF Learned
<1>1. /\ DOMAIN c = {table[r].mac : r \in 1..count}
      /\ DOMAIN c2 = {table2[r].mac : r \in 1..count2}
      /\ c2 = [x \in DOMAIN c2 |-> c2[x]]
  BY DEF CacheOf
<1>2. 1..count \subseteq 1..count2
  OBVIOUS
<1>3. \A k \in 1..count : c[table[k].mac] = table[k].ip
  BY CacheOfRow
<1>4. \A k \in 1..count2 : c2[table2[k].mac] = table2[k].ip
  BY CacheOfRow
<1> HIDE DEF c, c2
<1>5. DOMAIN c2 = DOMAIN c \cup {m}
  BY <1>1, <1>2
<1>6. ASSUME NEW x \in DOMAIN c2 PROVE c2[x] = IF x = m THEN i ELSE c[x]
  <2>1. PICK k \in 1..count2 : x = table2[k].mac
    BY <1>1, <1>6
  <2>2. CASE x = m
    BY <2>1, <2>2, <1>4
  <2>3. CASE x # m
    <3>1. k \in 1..count /\ table[k].mac = x /\ table2[k].ip = table[k].ip
      BY <2>1, <2>3
    <3> QED BY <2>1, <2>3, <3>1, <1>3, <1>4
  <2> QED BY <2>2, <2>3
<1>7. c2 = [x \in DOMAIN c \cup {m} |-> IF x = m THEN i ELSE c[x]]
  BY <1>1, <1>5, <1>6
<1> QED BY <1>7, Zenon DEF c, c2, Put

LEMMA SameCardinality == \A S : Cache!Cardinality(S) = Cardinality(S)
  BY DEF Cache!Cardinality, Cardinality

LEMMA LearnIsStep ==
  ASSUME NEW m \in Macs, NEW i \in Ips,
         Learned(t_arp_table, table_count, t_arp_table', table_count', m, i),
         \/ m \in DOMAIN CacheOf(t_arp_table, table_count)
         \/ Cardinality(DOMAIN CacheOf(t_arp_table, table_count)) < T_ARP_TABLE_SIZE
  PROVE  Cache!Next
<1>1. CacheOf(t_arp_table', table_count') = Put(CacheOf(t_arp_table, table_count), m, i)
  BY CacheOfLearned
<1>2. Cache!Learn(m, i)
  BY <1>1, SameCardinality, Zenon DEF CacheOf, Put, Cache!Learn
<1> QED BY <1>2 DEF Cache!Next

\* Before a reply is entered, its addresses are those of the cache.
LEMMA EnteringTold ==
  ASSUME ArpInv, ToldOK, entering.step # "none"
  PROVE  entering.mac \in Macs /\ entering.ip \in Ips
  BY DEF ArpInv, EnteringOK, ToldOK

LEMMA EntryFoundLearns ==
  ASSUME ArpInv, ArpInv', ToldOK, EntryFound
  PROVE  Cache!Next
<1>1. PICK r \in 1..table_count :
        /\ t_arp_table[r].mac = entering.mac
        /\ t_arp_table' = [t_arp_table EXCEPT ![r].ip = entering.ip]
  BY DEF EntryFound, Found
<1>2. /\ table_count \in Nat /\ table_count' = table_count /\ 1..table_count \subseteq Rows
      /\ t_arp_table \in [Rows -> [mac : Macs \cup {NoMac}, ip : Ips \cup {NoIp}]]
      /\ entering.step # "none"
  BY ArpAssumption DEF ArpInv, ArpTypeOK, EntryFound, Rows
<1>3. /\ \A k, s \in 1..table_count : t_arp_table[k].mac = t_arp_table[s].mac => k = s
      /\ \A k, s \in 1..table_count : t_arp_table'[k].mac = t_arp_table'[s].mac => k = s
  BY <1>2 DEF ArpInv, OneEntryPerMac
<1>4. /\ t_arp_table'[r].mac = entering.mac /\ t_arp_table'[r].ip = entering.ip
      /\ \A k \in 1..table_count : k # r => t_arp_table'[k] = t_arp_table[k]
  <2>1. t_arp_table'[r] = [t_arp_table[r] EXCEPT !.ip = entering.ip]
    BY <1>1, <1>2
  <2>2. t_arp_table[r] \in [mac : Macs \cup {NoMac}, ip : Ips \cup {NoIp}]
    BY <1>2
  <2>3. t_arp_table'[r].mac = entering.mac /\ t_arp_table'[r].ip = entering.ip
    BY <1>1, <2>1, <2>2
  <2>4. \A k \in 1..table_count : k # r => t_arp_table'[k] = t_arp_table[k]
    BY <1>1, <1>2
  <2> QED BY <2>3, <2>4
<1>5. Learned(t_arp_table, table_count, t_arp_table', table_count, entering.mac, entering.ip)
  <2>1. \A k \in 1..table_count :
          /\ t_arp_table'[k].mac = t_arp_table[k].mac
          /\ t_arp_table[k].mac # entering.mac => t_arp_table'[k].ip = t_arp_table[k].ip
    BY <1>1, <1>4
  <2>2. \E k \in 1..table_count :
          t_arp_table'[k].mac = entering.mac /\ t_arp_table'[k].ip = entering.ip
    BY <1>4
  <2>3. table_count <= table_count
    BY <1>2
  <2> QED BY <1>2, <1>3, <2>1, <2>2, <2>3, Zenon DEF Learned
<1>6. entering.mac \in DOMAIN CacheOf(t_arp_table, table_count)
  BY <1>1 DEF CacheOf
<1>7. table_count' = table_count /\ entering.mac \in Macs /\ entering.ip \in Ips
  BY <1>2, EnteringTold
<1> QED BY <1>5, <1>6, <1>7, LearnIsStep

LEMMA EnterCountLearns ==
  ASSUME ArpInv, ArpInv', ToldOK, EnterCount
  PROVE  Cache!Next
<1>1. /\ table_count \in Nat /\ table_count' = table_count + 1 /\ t_arp_table' = t_arp_table
      /\ entering.step = "count" /\ table_count < T_ARP_TABLE_SIZE
      /\ T_ARP_TABLE_SIZE \in Nat
      /\ t_arp_table[table_count + 1].mac = entering.mac
      /\ t_arp_table[table_count + 1].ip = entering.ip
  BY ArpAssumption DEF ArpInv, ArpTypeOK, EnteringOK, EnterCount
<1>2. /\ \A k, s \in 1..table_count : t_arp_table[k].mac = t_arp_table[s].mac => k = s
      /\ \A k, s \in 1..table_count' : t_arp_table'[k].mac = t_arp_table'[s].mac => k = s
  BY DEF ArpInv, OneEntryPerMac
<1>3. \A k \in 1..table_count : t_arp_table[k].mac # entering.mac
  BY <1>1 DEF ArpInv, EnteringOK, Found
<1>4. Learned(t_arp_table, table_count, t_arp_table', table_count', entering.mac, entering.ip)
  <2>1. table_count' \in Nat /\ table_count <= table_count' /\ table_count + 1 \in 1..table_count'
    BY <1>1
  <2>2. \A k \in 1..table_count' : k \in 1..table_count \/ k = table_count + 1
    BY <1>1
  <2>3. \A k \in 1..table_count' :
          k \in 1..table_count \/ t_arp_table'[k].mac = entering.mac
    BY <1>1, <2>2
  <2>4. \E k \in 1..table_count' :
          t_arp_table'[k].mac = entering.mac /\ t_arp_table'[k].ip = entering.ip
    BY <1>1, <2>1
  <2>5. \A k \in 1..table_count :
          /\ t_arp_table'[k].mac = t_arp_table[k].mac
          /\ t_arp_table[k].mac # entering.mac => t_arp_table'[k].ip = t_arp_table[k].ip
    BY <1>1
  <2> QED BY <1>1, <1>2, <2>1, <2>3, <2>4, <2>5, Zenon DEF Learned
<1>5. Cardinality(DOMAIN CacheOf(t_arp_table, table_count)) < T_ARP_TABLE_SIZE
  <2>1. /\ Cardinality(DOMAIN CacheOf(t_arp_table, table_count)) \in Nat
        /\ Cardinality(DOMAIN CacheOf(t_arp_table, table_count)) <= table_count
    BY <1>1, CacheOfSize
  <2> QED BY <1>1, <2>1
<1>6. entering.mac \in Macs /\ entering.ip \in Ips
  BY <1>1, EnteringTold
<1> QED BY <1>4, <1>5, <1>6, LearnIsStep

\* The rows below the count are left alone.
LEMMA CacheStutters ==
  ASSUME table_count \in Nat, table_count' = table_count,
         \A r \in 1..table_count : t_arp_table[r] = t_arp_table'[r]
  PROVE  CacheOf(t_arp_table, table_count)' = CacheOf(t_arp_table, table_count)
<1>1. CacheOf(t_arp_table, table_count) = CacheOf(t_arp_table', table_count)
  BY CacheOfSame
<1> QED BY <1>1

\* TIp's table is a cache: entering a reply, in up to four steps and while the
\* table is printed, is one step of ArpCache at the last of them.
THEOREM ImplementsCache == Spec => CacheSpec
<1> DEFINE map == CacheOf(t_arp_table, table_count)
<1>1. Init => Cache!Init
  <2> SUFFICES ASSUME Init PROVE Cache!Init
    OBVIOUS
  <2>1. table_count = 0
    BY DEF Init, ArpInit
  <2>2. {t_arp_table[r].mac : r \in 1..table_count} = {}
    BY <2>1
  <2> QED BY <2>2 DEF Cache!Init
<1>2. ASSUME IpInv, IpInv', ToldOK, [Next]_vars
      PROVE  Cache!Next \/ map' = map
  <2>1. ArpInv /\ ArpInv' /\ ToldOK /\ table_count \in Nat /\ 1..table_count \subseteq Rows
        /\ DOMAIN t_arp_table = Rows
    BY <1>2, ArpAssumption DEF IpInv, ArpInv, ArpTypeOK, Rows
  <2>2. CASE UNCHANGED <<t_arp_table, table_count>>
    BY <2>1, <2>2, CacheStutters
  <2>3. CASE EntryFound
    BY <2>1, <2>3, EntryFoundLearns
  <2>4. CASE EnterCount
    BY <2>1, <2>4, EnterCountLearns
  <2>5. CASE EnterIp \/ EnterMac
    <3>1. /\ table_count' = table_count
          /\ \A r \in 1..table_count : t_arp_table[r] = t_arp_table'[r]
      BY <2>1, <2>5 DEF EnterIp, EnterMac
    <3> QED BY <2>1, <3>1, CacheStutters
  <2>6. \/ UNCHANGED <<t_arp_table, table_count>>
        \/ EntryFound \/ EnterCount \/ EnterIp \/ EnterMac
    BY <1>2, OthersLeaveTable DEF ArpReplyIn, ArpReply, ArpEntering, Entering, TableFull,
         PrintTable, Printing, PrintBegin, PrintRow, PrintEnd, arpVars
  <2> QED BY <2>2, <2>3, <2>4, <2>5, <2>6
<1>3. ASSUME IpInv, IpInv', ToldOK, [Next]_vars
      PROVE  [Cache!Next]_[m \in {t_arp_table[r].mac : r \in 1..table_count} |->
                t_arp_table[CHOOSE r \in 1..table_count : t_arp_table[r].mac = m].ip]
  BY <1>2, <1>3, Zenon DEF CacheOf
<1> QED
  BY <1>1, <1>3, IpInvariant, ToldInvariant, PTL DEF Spec, CacheSpec, Cache!Spec

(***************************************************************************)
(* The checksum (TInet).                                                   *)
(*                                                                         *)
(* All sums are taken modulo Word - 1 (Cong), which end-around carry keeps *)
(* them to; Base is its own inverse there, so a word with its bytes        *)
(* exchanged is Base times the word (SwapCong), and a sum in memory order  *)
(* Base times the sum in network order.  That a sum is all ones and not    *)
(* zero is carried along: folding makes no zero of what was none.          *)
(***************************************************************************)

\* Division with remainder.
LEMMA DivMod ==
  ASSUME NEW a \in Nat, NEW m \in Nat \ {0}
  PROVE  /\ a \div m \in Nat /\ a % m \in 0..m - 1
         /\ a = m * (a \div m) + (a % m)
  OBVIOUS

\* A multiple leaves no remainder.
LEMMA Multiple ==
  ASSUME NEW k \in Int, NEW m \in Nat \ {0}
  PROVE  (k * m) % m = 0
  OBVIOUS

\* Equal but for a multiple of Word - 1: equal as sums with end-around carry.
Cong(a, b) == \E k \in Int : a = b + k * (Word - 1)

\* What the proofs use of Base and Word.
LEMMA WordSize ==
  /\ Base \in Nat \ {0} /\ Base > 2 /\ Word \in Nat \ {0} /\ Word = Base * Base /\ Word >= 3 * Base
  BY ChecksumAssumption DEF Word

\* Cong is an equivalence that sums and multiples by Base keep.
LEMMA CongRefl ==
  ASSUME NEW a \in Int
  PROVE  Cong(a, a)
<1>1. a = a + 0 * (Word - 1)
  BY WordSize
<1> QED BY <1>1 DEF Cong

LEMMA CongTrans ==
  ASSUME NEW a \in Int, NEW b \in Int, NEW c \in Int, Cong(a, b), Cong(b, c)
  PROVE  Cong(a, c)
<1>1. PICK k \in Int, l \in Int : a = b + k * (Word - 1) /\ b = c + l * (Word - 1)
  BY DEF Cong
<1>2. a = c + (k + l) * (Word - 1) /\ k + l \in Int
  BY <1>1, WordSize
<1> QED BY <1>2 DEF Cong

LEMMA CongAdd ==
  ASSUME NEW a \in Int, NEW b \in Int, NEW c \in Int, NEW d \in Int, Cong(a, b), Cong(c, d)
  PROVE  Cong(a + c, b + d)
<1>1. PICK k \in Int, l \in Int : a = b + k * (Word - 1) /\ c = d + l * (Word - 1)
  BY DEF Cong
<1>2. a + c = (b + d) + (k + l) * (Word - 1) /\ k + l \in Int
  BY <1>1, WordSize
<1> QED BY <1>2 DEF Cong

LEMMA CongTimes ==
  ASSUME NEW a \in Int, NEW b \in Int, Cong(a, b)
  PROVE  Cong(Base * a, Base * b)
<1>1. PICK k \in Int : a = b + k * (Word - 1)
  BY DEF Cong
<1>2. Base * a = (Base * b) + (Base * k) * (Word - 1) /\ Base * k \in Int
  BY <1>1, WordSize
<1> QED BY <1>2 DEF Cong

\* Base is its own inverse.
LEMMA CongTwice ==
  ASSUME NEW a \in Int
  PROVE  Cong(Base * (Base * a), a) /\ Cong(a, Base * (Base * a))
<1>1. Base * (Base * a) = a + a * (Word - 1)
  BY WordSize
<1>2. a = Base * (Base * a) + (-a) * (Word - 1) /\ -a \in Int
  BY <1>1, WordSize
<1> QED BY <1>1, <1>2 DEF Cong

\* One round of folding keeps the sum; two bring a u32 below Word.
LEMMA FoldOnceCong ==
  ASSUME NEW n \in Nat
  PROVE  /\ FoldOnce(n) \in 0..n /\ Cong(FoldOnce(n), n)
         /\ n # 0 => FoldOnce(n) # 0
         /\ n < Word * Word => FoldOnce(n) <= 2 * Word - 2
         /\ n <= 2 * Word - 2 => FoldOnce(n) < Word
<1> DEFINE d == n \div Word
           r == n % Word
<1>1. d \in Nat /\ r \in 0..Word - 1 /\ n = Word * d + r
  BY WordSize, DivMod
<1>2. FoldOnce(n) = d + r
  BY DEF FoldOnce
<1> HIDE DEF d, r
<1>3. d + r = n + (-d) * (Word - 1) /\ -d \in Int
  BY <1>1, WordSize
<1>4. (n # 0 => d + r # 0) /\ d + r \in 0..n
  BY <1>1, WordSize
<1>5. n < Word * Word => d + r <= 2 * Word - 2
  <2>1. n < Word * Word => d < Word
    BY <1>1, WordSize
  <2> QED BY <2>1, <1>1, WordSize
<1>6. n <= 2 * Word - 2 => d + r < Word
  BY <1>1, WordSize
<1>7. Cong(d + r, n)
  BY <1>3 DEF Cong
<1> QED BY <1>1, <1>2, <1>4, <1>5, <1>6, <1>7, WordSize

\* What fits a u32 is kept as it is.
LEMMA U32Is ==
  ASSUME NEW n \in Nat, n < Word * Word
  PROVE  U32(n) = n
<1>1. \A m \in Nat \ {0} : n < m => n % m = n
  OBVIOUS
<1>2. Word * Word \in Nat \ {0}
  BY WordSize
<1> QED BY <1>1, <1>2 DEF U32

\* "while (acc >> 16)" ends below Word with the same sum.
LEMMA FoldedCong ==
  ASSUME NEW n \in Nat, n < Word * Word
  PROVE  /\ Folded(n) \in 0..Word - 1 /\ Cong(Folded(n), n)
         /\ n # 0 => Folded(n) # 0
<1>1. CASE n < Word
  BY <1>1, CongRefl, WordSize DEF Folded
<1>2. CASE ~(n < Word)
  <2> DEFINE a == FoldOnce(n)
  <2>1. a \in Nat /\ Cong(a, n) /\ a <= 2 * Word - 2 /\ (n # 0 => a # 0)
    BY FoldOnceCong
  <2>2. Folded(n) = IF a < Word THEN a ELSE FoldOnce(a)
    BY <1>2 DEF Folded
  <2> HIDE DEF a
  <2>3. FoldOnce(a) \in 0..Word - 1 /\ Cong(FoldOnce(a), a) /\ (a # 0 => FoldOnce(a) # 0)
    BY <2>1, FoldOnceCong, WordSize
  <2>4. Cong(FoldOnce(a), n)
    BY <2>1, <2>3, CongTrans
  <2> QED BY <2>1, <2>2, <2>3, <2>4, WordSize
<1> QED BY <1>1, <1>2

\* The two bytes of a word exchanged: Base times the word.
LEMMA SwapCong ==
  ASSUME NEW n \in 0..Word - 1
  PROVE  /\ Swap(n) \in 0..Word - 1 /\ Cong(Swap(n), Base * n)
         /\ htons(n) = Swap(n) /\ Swap(0) = 0
         /\ n \div Base \in 0..Base - 1 /\ n % Base \in 0..Base - 1
         /\ Swap(n) = Base * (n % Base) + (n \div Base)
         /\ n = Base * (n \div Base) + (n % Base)
<1> DEFINE d == n \div Base
           r == n % Base
<1>0. n \in Nat
  BY WordSize
<1>1. d \in Nat /\ r \in 0..Base - 1 /\ n = Base * d + r
  BY <1>0, WordSize, DivMod
<1>2. Swap(n) = r * Base + (d % Base) /\ htons(n) = Swap(n)
  BY DEF Swap, htons
<1> HIDE DEF d, r
<1>3. d < Base
  BY <1>1, WordSize
<1>4. d % Base = d
  BY <1>1, <1>3, WordSize
<1>5. Swap(n) = Base * r + d
  BY <1>1, <1>2, <1>4, WordSize
<1>6. Base * r + d \in 0..Word - 1
  BY <1>1, <1>3, WordSize
<1>7. Cong(Swap(n), Base * n)
  <2>1. Base * r + d = (Base * n) + (-d) * (Word - 1) /\ -d \in Int
    BY <1>1, WordSize
  <2> QED BY <1>5, <2>1 DEF Cong
<1>8. Swap(0) = 0
  BY WordSize DEF Swap
<1>9. Swap(n) \in 0..Word - 1 /\ d \in 0..Base - 1
  BY <1>1, <1>3, <1>5, <1>6, WordSize
<1> QED BY <1>1, <1>2, <1>5, <1>7, <1>8, <1>9, Zenon DEF d, r

\* A function defined by recursion on an index exists and stays in its range.
Recursive(f, n, z, st) == f[0] = z /\ \A i \in 1..n : f[i] = st[i][f[i - 1]]

LEMMA Recursion ==
  ASSUME NEW n \in Nat, NEW T, NEW z \in T, NEW st \in [1..n -> [T -> T]]
  PROVE  \E f \in [0..n -> T] : Recursive(f, n, z, st)
<1> DEFINE Good(m, f) == f[0] = z /\ \A i \in 1..m : f[i] = st[i][f[i - 1]]
           G == {m \in 0..n : \E f \in [0..m -> T] : Good(m, f)}
<1>1. 0 \in G
  <2> DEFINE g == [j \in 0..0 |-> z]
  <2>1. g \in [0..0 -> T] /\ Good(0, g)
    OBVIOUS
  <2> HIDE DEF g
  <2> QED BY <2>1
<1>2. ASSUME NEW m \in 0..n - 1, m \in G
      PROVE  m + 1 \in G
  <2>1. PICK f \in [0..m -> T] : Good(m, f)
    BY <1>2
  <2> DEFINE g == [j \in 0..m + 1 |-> IF j = m + 1 THEN st[m + 1][f[m]] ELSE f[j]]
  <2>2. st[m + 1][f[m]] \in T
    <3>1. m + 1 \in 1..n /\ f[m] \in T
      OBVIOUS
    <3> QED BY <3>1
  <2>3. g \in [0..m + 1 -> T]
    BY <2>2
  <2>4. g[0] = z
    BY <2>1
  <2>5. ASSUME NEW i \in 1..m + 1
        PROVE  g[i] = st[i][g[i - 1]]
    <3>1. g[i - 1] = f[i - 1]
      OBVIOUS
    <3>2. CASE i = m + 1
      BY <3>1, <3>2
    <3>3. CASE i # m + 1
      <4>1. i \in 1..m /\ g[i] = f[i]
        BY <3>3
      <4> QED BY <2>1, <3>1, <4>1
    <3> QED BY <3>2, <3>3
  <2> HIDE DEF g
  <2>6. Good(m + 1, g)
    BY <2>4, <2>5
  <2>7. m + 1 \in 0..n
    OBVIOUS
  <2> QED BY <2>3, <2>6, <2>7
<1> HIDE DEF G
<1>3. n \in G
  <2>1. 0..n \subseteq G
    BY <1>1, <1>2, Induct
  <2> QED BY <2>1
<1> QED BY <1>3 DEF G, Recursive

Agree(f, g, i) == f[i] = g[i]

\* Two functions defined by the same recursion agree.
LEMMA AgreeOn ==
  ASSUME NEW n \in Nat, NEW f, NEW g, Agree(f, g, 0),
         \A i \in 1..n : Agree(f, g, i - 1) => Agree(f, g, i)
  PROVE  Agree(f, g, n)
<1> USE DEF Agree
<1> DEFINE G == {m \in 0..n : f[m] = g[m]}
<1>1. 0 \in G
  OBVIOUS
<1>2. ASSUME NEW m \in 0..n - 1, m \in G
      PROVE  m + 1 \in G
  <2>1. m + 1 \in 1..n /\ (m + 1) - 1 = m /\ f[m] = g[m]
    BY <1>2
  <2>2. f[m + 1] = g[m + 1]
    BY <2>1
  <2> QED BY <2>1, <2>2
<1> HIDE DEF G
<1>3. 0..n \subseteq G /\ n \in 0..n
  BY <1>1, <1>2, Induct
<1> QED BY <1>3 DEF G

Byte == 0..Base - 1

\* f[i] is the sum of the first i bytes of s, as NetworkSum weighs them.
Sums(f, s) ==
  /\ f \in [0..Len(s) -> Nat] /\ f[0] = 0
  /\ \A i \in 1..Len(s) : f[i] = f[i - 1] + (IF i % 2 = 1 THEN Base * s[i] ELSE s[i])

\* The recursive function inside NetworkSum is what it says.
LEMMA NetworkSumIs ==
  ASSUME NEW s \in Seq(Byte)
  PROVE  \E f : Sums(f, s) /\ NetworkSum(s) = f[Len(s)]
<1> DEFINE n == Len(s)
           e(i) == IF i % 2 = 1 THEN Base * s[i] ELSE s[i]
           st == [i \in 1..n |-> [x \in Nat |-> x + e(i)]]
           F(g) == [i \in 0..n |-> IF i = 0 THEN 0 ELSE g[i - 1] + e(i)]
           g == CHOOSE x : x = F(x)
<1>1. n \in Nat /\ \A i \in 1..n : s[i] \in Nat
  BY WordSize DEF Byte
<1>2. NetworkSum(s) = g[n]
  BY DEF NetworkSum
<1>3. \A i \in 1..n : e(i) \in Nat
  BY <1>1, WordSize
<1> HIDE DEF n, e
<1>4. st \in [1..n -> [Nat -> Nat]]
  BY <1>1, <1>3
<1>5. PICK f \in [0..n -> Nat] : f[0] = 0 /\ \A i \in 1..n : f[i] = st[i][f[i - 1]]
  <2>1. n \in Nat /\ 0 \in Nat
    BY <1>1
  <2> HIDE DEF st
  <2>2. \E f \in [0..n -> Nat] : Recursive(f, n, 0, st)
    BY <2>1, <1>4, Recursion
  <2> QED BY <2>2 DEF Recursive
<1>6. \A i \in 1..n : f[i] = f[i - 1] + e(i)
  <2>1. \A i \in 1..n : i - 1 \in 0..n
    BY <1>1
  <2> QED BY <1>5, <2>1
<1>7. f = F(f)
  <2>1. ASSUME NEW i \in 0..n
        PROVE  f[i] = IF i = 0 THEN 0 ELSE f[i - 1] + e(i)
    <3>1. i = 0 \/ i \in 1..n
      BY <1>1
    <3> QED BY <1>5, <1>6, <3>1
  <2> QED BY <1>5, <2>1
<1>8. g = F(g)
  <2> HIDE DEF F
  <2> QED BY <1>7, Zenon
<1> HIDE DEF g
<1>9. g[0] = 0 /\ \A i \in 1..n : g[i] = g[i - 1] + e(i)
  <2>1. \A i \in 0..n : g[i] = IF i = 0 THEN 0 ELSE g[i - 1] + e(i)
    BY <1>8, Zenon
  <2>2. 0 \in 0..n /\ \A i \in 1..n : i \in 0..n /\ i # 0
    BY <1>1
  <2> QED BY <2>1, <2>2, Zenon
<1>10. g[n] = f[n]
  <2>1. Agree(g, f, 0) /\ \A i \in 1..n : Agree(g, f, i - 1) => Agree(g, f, i)
    BY <1>5, <1>6, <1>9, Zenon DEF Agree
  <2>2. n \in Nat
    BY <1>1
  <2>3. Agree(g, f, n)
    BY <2>1, <2>2, AgreeOn
  <2> QED BY <2>3 DEF Agree
<1> QED BY <1>2, <1>5, <1>6, <1>10 DEF Sums, n, e

\* f[i] is the sum of the first i words of s, as WordSum reads them.
LEMMA WordSumIs ==
  ASSUME NEW s \in Seq(Byte)
  PROVE  \E f \in [0..Len(s) \div 2 -> Nat] :
           /\ f[0] = 0
           /\ \A i \in 1..Len(s) \div 2 : f[i] = f[i - 1] + (s[2 * i - 1] + Base * s[2 * i])
           /\ WordSum(s) = U32(f[Len(s) \div 2] + (IF Len(s) % 2 = 1 THEN OddByte(s) ELSE 0))
<1> DEFINE n == Len(s) \div 2
           e(i) == s[2 * i - 1] + Base * s[2 * i]
           st == [i \in 1..n |-> [x \in Nat |-> x + e(i)]]
           F(g) == [i \in 0..n |-> IF i = 0 THEN 0 ELSE g[i - 1] + e(i)]
           g == CHOOSE x : x = F(x)
<1>1. n \in Nat /\ \A i \in 1..n : s[2 * i - 1] \in Nat /\ s[2 * i] \in Nat
  <2>1. Len(s) \in Nat /\ \A i \in 1..Len(s) : s[i] \in Nat
    BY WordSize DEF Byte
  <2>2. n \in Nat /\ \A i \in 1..n : 2 * i - 1 \in 1..Len(s) /\ 2 * i \in 1..Len(s)
    BY <2>1
  <2> QED BY <2>1, <2>2, Zenon
<1>2. WordSum(s) = U32(g[n] + (IF Len(s) % 2 = 1 THEN OddByte(s) ELSE 0))
  BY DEF WordSum
<1>3. \A i \in 1..n : e(i) \in Nat
  <2>1. \A x \in Nat, y \in Nat : x + Base * y \in Nat
    BY WordSize
  <2> QED BY <1>1, <2>1, Zenon
<1> HIDE DEF n, e
<1>4. st \in [1..n -> [Nat -> Nat]]
  BY <1>1, <1>3
<1>5. PICK f \in [0..n -> Nat] : f[0] = 0 /\ \A i \in 1..n : f[i] = st[i][f[i - 1]]
  <2>1. n \in Nat /\ 0 \in Nat
    BY <1>1
  <2> HIDE DEF st
  <2>2. \E f \in [0..n -> Nat] : Recursive(f, n, 0, st)
    BY <2>1, <1>4, Recursion
  <2> QED BY <2>2 DEF Recursive
<1>6. \A i \in 1..n : f[i] = f[i - 1] + e(i)
  <2>1. \A i \in 1..n : i - 1 \in 0..n
    BY <1>1
  <2> QED BY <1>5, <2>1
<1>7. f = F(f)
  <2>1. ASSUME NEW i \in 0..n
        PROVE  f[i] = IF i = 0 THEN 0 ELSE f[i - 1] + e(i)
    <3>1. i = 0 \/ i \in 1..n
      BY <1>1
    <3> QED BY <1>5, <1>6, <3>1
  <2> QED BY <1>5, <2>1
<1>8. g = F(g)
  <2> HIDE DEF F
  <2> QED BY <1>7, Zenon
<1> HIDE DEF g
<1>9. g[0] = 0 /\ \A i \in 1..n : g[i] = g[i - 1] + e(i)
  <2>1. \A i \in 0..n : g[i] = IF i = 0 THEN 0 ELSE g[i - 1] + e(i)
    BY <1>8, Zenon
  <2>2. 0 \in 0..n /\ \A i \in 1..n : i \in 0..n /\ i # 0
    BY <1>1
  <2> QED BY <2>1, <2>2, Zenon
<1>10. g[n] = f[n]
  <2>1. Agree(g, f, 0) /\ \A i \in 1..n : Agree(g, f, i - 1) => Agree(g, f, i)
    BY <1>5, <1>6, <1>9, Zenon DEF Agree
  <2>2. n \in Nat
    BY <1>1
  <2>3. Agree(g, f, n)
    BY <2>1, <2>2, AgreeOn
  <2> QED BY <2>3 DEF Agree
<1> QED BY <1>2, <1>5, <1>6, <1>10 DEF n, e

\* A word as memory has it is Base times the word in network order.
LEMMA WordStep ==
  ASSUME NEW a \in Nat, NEW b \in Nat, NEW x \in Byte, NEW y \in Byte, Cong(a, Base * b)
  PROVE  /\ Cong(a + (x + Base * y), Base * ((b + Base * x) + y))
         /\ x + Base * y \in 0..Word - 1
         /\ (b + Base * x) + y = 0 => b = 0 /\ x + Base * y = 0
<1>1. x \in Nat /\ y \in Nat /\ x <= Base - 1 /\ y <= Base - 1 /\ Base * x \in Nat /\ Base * y \in Nat
  BY WordSize DEF Byte
<1>2. Cong(x + Base * y, Base * (Base * x + y))
  <2>1. x + Base * y = Base * (Base * x + y) + (-x) * (Word - 1) /\ -x \in Int
    BY <1>1, WordSize
  <2> QED BY <2>1 DEF Cong
<1>3. Cong(a + (x + Base * y), (Base * b) + Base * (Base * x + y))
  BY <1>1, <1>2, CongAdd, WordSize
<1>4. (Base * b) + Base * (Base * x + y) = Base * ((b + Base * x) + y)
  BY <1>1, WordSize
<1>5. x + Base * y <= Word - 1
  BY <1>1, WordSize
<1>6. (b + Base * x) + y = 0 => b = 0 /\ x + Base * y = 0
  BY <1>1, WordSize
<1> QED BY <1>1, <1>3, <1>4, <1>5, <1>6, WordSize

\* The odd byte at the end, likewise.
LEMMA ByteStep ==
  ASSUME NEW a \in Nat, NEW b \in Nat, NEW z \in Nat, Cong(a, Base * b)
  PROVE  Cong(a + z, Base * (b + Base * z))
<1>1. Cong(z, Base * (Base * z)) /\ Base * b \in Int /\ Base * (Base * z) \in Int
  BY CongTwice, WordSize
<1>2. Cong(a + z, (Base * b) + Base * (Base * z))
  BY <1>1, CongAdd
<1>3. (Base * b) + Base * (Base * z) = Base * (b + Base * z)
  BY WordSize
<1> QED BY <1>2, <1>3

\* lwip_standard_chksum's sum before folding.
LEMMA WordSumCong ==
  ASSUME NEW s \in Seq(Byte), Len(s) < Word
  PROVE  /\ NetworkSum(s) \in Nat /\ WordSum(s) \in 0..Word * Word - 1
         /\ Cong(WordSum(s), Base * NetworkSum(s))
         /\ NetworkSum(s) = 0 => WordSum(s) = 0
<1> DEFINE n == Len(s) \div 2
<1>1. PICK g : Sums(g, s) /\ NetworkSum(s) = g[Len(s)]
  BY NetworkSumIs
<1>2. PICK f \in [0..n -> Nat] :
        /\ f[0] = 0
        /\ \A i \in 1..n : f[i] = f[i - 1] + (s[2 * i - 1] + Base * s[2 * i])
        /\ WordSum(s) = U32(f[n] + (IF Len(s) % 2 = 1 THEN OddByte(s) ELSE 0))
  BY WordSumIs
<1>3. Len(s) \in Nat /\ n \in Nat /\ n < Word /\ \A i \in 1..Len(s) : s[i] \in Byte
  BY WordSize
<1>4. g \in [0..Len(s) -> Nat] /\ g[0] = 0
  BY <1>1 DEF Sums
<1> DEFINE G == {i \in 0..n : /\ f[i] <= i * (Word - 1) /\ Cong(f[i], Base * g[2 * i])
                              /\ g[2 * i] = 0 => f[i] = 0}
<1>5. 0 \in G
  <2>1. Cong(0, Base * 0) /\ 0 <= 0 * (Word - 1)
    BY CongRefl, WordSize
  <2> QED BY <1>2, <1>3, <1>4, <2>1
<1>6. ASSUME NEW i \in 0..n - 1, i \in G
      PROVE  i + 1 \in G
  <2> DEFINE x == s[2 * i + 1]
             y == s[2 * i + 2]
  <2>1. /\ i + 1 \in 1..n /\ (i + 1) - 1 = i /\ 2 * (i + 1) - 1 = 2 * i + 1 /\ 2 * (i + 1) = 2 * i + 2
        /\ 2 * i + 1 \in 1..Len(s) /\ 2 * i + 2 \in 1..Len(s) /\ 2 * i \in 0..Len(s)
        /\ (2 * i + 1) % 2 = 1 /\ (2 * i + 2) % 2 = 0
        /\ (2 * i + 1) - 1 = 2 * i /\ (2 * i + 2) - 1 = 2 * i + 1
    BY <1>3
  <2>2. x \in Byte /\ y \in Byte /\ f[i] \in Nat /\ g[2 * i] \in Nat
    <3>1. x \in Byte /\ y \in Byte
      BY <1>3, <2>1, Zenon
    <3>2. g[2 * i] \in Nat
      BY <1>4, <2>1
    <3>3. i \in 0..n
      BY <1>3
    <3> QED BY <3>1, <3>2, <3>3
  <2>3. f[i + 1] = f[i] + (x + Base * y)
    BY <1>2, <2>1, Zenon
  <2>4. g[2 * i + 1] = g[2 * i] + Base * x
    BY <1>1, <2>1, Zenon DEF Sums
  <2>5. g[2 * i + 2] = g[2 * i + 1] + y
    BY <1>1, <2>1 DEF Sums
  <2>6. f[i] <= i * (Word - 1) /\ Cong(f[i], Base * g[2 * i]) /\ (g[2 * i] = 0 => f[i] = 0)
    BY <1>6
  <2>7. /\ Cong(f[i] + (x + Base * y), Base * ((g[2 * i] + Base * x) + y))
        /\ x + Base * y \in 0..Word - 1
        /\ (g[2 * i] + Base * x) + y = 0 => g[2 * i] = 0 /\ x + Base * y = 0
    <3> HIDE DEF x, y
    <3>1. PICK a \in Nat, b \in Nat : a = f[i] /\ b = g[2 * i]
      BY <2>2
    <3>2. Cong(a, Base * b)
      BY <2>6, <3>1
    <3>3. /\ Cong(a + (x + Base * y), Base * ((b + Base * x) + y))
          /\ x + Base * y \in 0..Word - 1
          /\ (b + Base * x) + y = 0 => b = 0 /\ x + Base * y = 0
      BY <2>2, <3>2, WordStep
    <3> QED BY <3>1, <3>3
  <2> HIDE DEF x, y
  <2>8. f[i + 1] <= (i + 1) * (Word - 1)
    BY <2>2, <2>3, <2>6, <2>7, WordSize
  <2>9. g[2 * (i + 1)] = (g[2 * i] + Base * x) + y
    BY <2>1, <2>4, <2>5, Zenon
  <2>10. g[2 * (i + 1)] = 0 => f[i + 1] = 0
    BY <2>2, <2>3, <2>6, <2>7, <2>9
  <2>11. i + 1 \in 0..n
    BY <2>1
  <2> QED BY <2>3, <2>7, <2>8, <2>9, <2>10, <2>11
<1>7. n \in G
  <2> HIDE DEF G, n
  <2>1. n \in Nat /\ n \in 0..n
    BY <1>3
  <2>2. 0..n \subseteq G
    BY <2>1, <1>5, <1>6, Induct
  <2> QED BY <2>1, <2>2
<1>8. /\ f[n] \in Nat /\ f[n] <= n * (Word - 1) /\ Cong(f[n], Base * g[2 * n])
      /\ g[2 * n] = 0 => f[n] = 0
  BY <1>3, <1>7
<1>9. ASSUME NEW t \in Nat, NEW b \in Nat, t < Word * Word, Cong(t, Base * b), b = 0 => t = 0,
             WordSum(s) = U32(t), NetworkSum(s) = b
      PROVE  /\ NetworkSum(s) \in Nat /\ WordSum(s) \in 0..Word * Word - 1
             /\ Cong(WordSum(s), Base * NetworkSum(s))
             /\ NetworkSum(s) = 0 => WordSum(s) = 0
  <2>1. WordSum(s) = t
    BY <1>9, U32Is, Zenon
  <2>2. t \in 0..Word * Word - 1
    <3>1. \A w \in Int : t < w => t \in 0..w - 1
      OBVIOUS
    <3>2. Word * Word \in Int
      BY WordSize
    <3> QED BY <1>9, <3>1, <3>2, Zenon
  <2> QED BY <1>9, <2>1, <2>2, Zenon
<1>10. n * (Word - 1) + Base < Word * Word
  <2>1. n * (Word - 1) <= Word * (Word - 1)
    BY <1>3, WordSize
  <2>2. Word * (Word - 1) + Base < Word * Word
    BY WordSize
  <2>3. n * (Word - 1) \in Nat /\ Word * (Word - 1) \in Nat /\ Word * Word \in Nat /\ Base \in Nat
    BY <1>3, WordSize
  <2> QED BY <2>1, <2>2, <2>3
<1> HIDE DEF G
<1>11. CASE Len(s) % 2 # 1
  <2>1. Len(s) = 2 * n /\ 2 * n \in 0..Len(s)
    BY <1>3, <1>11
  <2>2. WordSum(s) = U32(f[n] + 0) /\ f[n] + 0 = f[n]
    BY <1>2, <1>8, <1>11
  <2>3. g[2 * n] \in Nat /\ NetworkSum(s) = g[2 * n]
    BY <1>1, <1>4, <2>1
  <2>4. f[n] < Word * Word
    BY <1>3, <1>8, <1>10, WordSize
  <2> HIDE DEF n
  <2> QED BY <1>8, <1>9, <2>2, <2>3, <2>4
<1>12. CASE Len(s) % 2 = 1
  <2> DEFINE z == s[Len(s)]
  <2>1. Len(s) = 2 * n + 1 /\ Len(s) \in 1..Len(s) /\ Len(s) - 1 = 2 * n /\ 2 * n \in 0..Len(s)
    BY <1>3, <1>12
  <2>2. z \in Byte /\ g[2 * n] \in Nat
    BY <1>3, <1>4, <2>1
  <2>3. NetworkSum(s) = g[2 * n] + Base * z
    BY <1>1, <1>12, <2>1 DEF Sums
  <2>4. WordSum(s) = U32(f[n] + z)
    BY <1>2, <1>12 DEF OddByte, Last
  <2> HIDE DEF n, z
  <2>5. z \in Nat /\ z < Base /\ Base * z \in Nat
    BY <2>2, WordSize DEF Byte
  <2>6. Cong(f[n] + z, Base * (g[2 * n] + Base * z))
    BY <1>8, <2>2, <2>5, ByteStep
  <2>7. f[n] + z < Word * Word
    <3>1. PICK k \in Int, w \in Int : k = n * (Word - 1) /\ w = Word * Word
      BY <1>3, WordSize
    <3>2. f[n] <= k /\ k + Base < w /\ f[n] \in Nat
      BY <1>8, <1>10, <3>1
    <3>3. f[n] + z < w
      BY <2>5, <3>1, <3>2, WordSize
    <3> QED BY <3>1, <3>3
  <2>8. g[2 * n] + Base * z = 0 => f[n] + z = 0
    <3>1. Base * z = 0 => z = 0
      BY <2>5, WordSize
    <3>2. f[n] \in Nat /\ (g[2 * n] = 0 => f[n] = 0)
      BY <1>8
    <3> QED BY <2>2, <2>5, <3>1, <3>2
  <2> QED BY <1>8, <1>9, <2>2, <2>3, <2>4, <2>5, <2>6, <2>7, <2>8
<1> QED BY <1>11, <1>12

\* lwip_standard_chksum: Base times the sum in network order, and no carry.
LEMMA ChksumCong ==
  ASSUME NEW s \in Seq(Byte), Len(s) < Word
  PROVE  /\ NetworkSum(s) \in Nat /\ lwip_standard_chksum(s) \in 0..Word - 1
         /\ Cong(lwip_standard_chksum(s), Base * NetworkSum(s))
         /\ NetworkSum(s) = 0 => lwip_standard_chksum(s) = 0
<1> DEFINE w == WordSum(s)
           a == FoldOnce(w)
           b == IF a \div Word # 0 THEN FoldOnce(a) ELSE a
<1>1. /\ NetworkSum(s) \in Nat /\ w \in Nat /\ w < Word * Word /\ Cong(w, Base * NetworkSum(s))
      /\ NetworkSum(s) = 0 => w = 0
  BY WordSumCong, WordSize
<1>2. lwip_standard_chksum(s) = b % Word
  BY DEF lwip_standard_chksum
<1> HIDE DEF w
<1>3. a \in 0..w /\ Cong(a, w) /\ a <= 2 * Word - 2
  BY <1>1, FoldOnceCong
<1> HIDE DEF a
<1>4. FoldOnce(a) \in 0..a /\ Cong(FoldOnce(a), a) /\ FoldOnce(a) < Word
  BY <1>1, <1>3, FoldOnceCong
<1>5. a \div Word = 0 => a < Word
  <2>1. a \in Nat
    BY <1>1, <1>3
  <2>2. a % Word \in 0..Word - 1 /\ a = Word * (a \div Word) + (a % Word)
    BY <2>1, WordSize, DivMod
  <2> QED BY <2>1, <2>2, WordSize
<1>6. b \in 0..w /\ b < Word /\ Cong(b, a)
  BY <1>1, <1>3, <1>4, <1>5, CongRefl
<1> HIDE DEF b
<1>7. b % Word = b
  <2>1. \A m \in Nat \ {0} : b < m => b % m = b
    BY <1>1, <1>6
  <2> QED BY <1>6, <2>1, WordSize
<1>8. Cong(b, Base * NetworkSum(s))
  <2>1. b \in Int /\ a \in Int /\ w \in Int /\ Base * NetworkSum(s) \in Int
    BY <1>1, <1>3, <1>6, WordSize
  <2>2. Cong(a, Base * NetworkSum(s))
    BY <1>1, <1>3, <2>1, CongTrans
  <2> QED BY <1>6, <2>1, <2>2, CongTrans
<1> QED BY <1>1, <1>2, <1>6, <1>7, <1>8, WordSize

\* One more byte z behind s \o t, where a is the sum of both, c of s and b of t.
LEMMA ConcatStep ==
  ASSUME NEW a \in Nat, NEW b \in Nat, NEW c \in Nat, NEW z \in Nat
  PROVE  /\ Cong(a, c + b) => Cong(a + z, c + (b + z))
         /\ Cong(a, c + Base * b) => /\ Cong(a + Base * z, c + Base * (b + z))
                                     /\ Cong(a + z, c + Base * (b + Base * z))
<1>1. /\ Base * b \in Nat /\ Base * z \in Nat /\ Base * (Base * z) \in Nat
      /\ Base * (b + z) = (Base * b) + Base * z
      /\ Base * (b + Base * z) = (Base * b) + Base * (Base * z)
  BY WordSize
<1>2. Cong(z, z) /\ Cong(Base * z, Base * z) /\ Cong(z, Base * (Base * z))
  BY <1>1, CongRefl, CongTwice
<1>3. ASSUME Cong(a, c + b)
      PROVE  Cong(a + z, c + (b + z))
  <2>1. Cong(a + z, (c + b) + z)
    BY <1>2, <1>3, CongAdd
  <2>2. (c + b) + z = c + (b + z)
    OBVIOUS
  <2> QED BY <2>1, <2>2
<1>4. ASSUME Cong(a, c + Base * b)
      PROVE  /\ Cong(a + Base * z, c + Base * (b + z))
             /\ Cong(a + z, c + Base * (b + Base * z))
  <2>0. c + Base * b \in Int /\ Base * z \in Int /\ Base * (Base * z) \in Int
    BY <1>1
  <2>1. /\ Cong(a + Base * z, (c + Base * b) + Base * z)
        /\ Cong(a + z, (c + Base * b) + Base * (Base * z))
    <3>1. Cong(a + Base * z, (c + Base * b) + Base * z)
      BY <2>0, <1>2, <1>4, CongAdd
    <3>2. Cong(a + z, (c + Base * b) + Base * (Base * z))
      BY <2>0, <1>2, <1>4, CongAdd
    <3> QED BY <3>1, <3>2
  <2>2. /\ (c + Base * b) + Base * z = c + Base * (b + z)
        /\ (c + Base * b) + Base * (Base * z) = c + Base * (b + Base * z)
    BY <1>1
  <2> QED BY <2>1, <2>2
<1> QED BY <1>3, <1>4

\* Odd and even.
LEMMA Parity ==
  ASSUME NEW m \in Nat, NEW k \in Nat
  PROVE  /\ m % 2 = 0 => ((m + k) % 2 = 1 <=> k % 2 = 1)
         /\ m % 2 = 1 => ((m + k) % 2 = 1 <=> k % 2 # 1)
  OBVIOUS

\* Behind an odd number of bytes the bytes of t change places in their words.
LEMMA ConcatSum ==
  ASSUME NEW s \in Seq(Byte), NEW t \in Seq(Byte)
  PROVE  /\ NetworkSum(s) \in Nat /\ NetworkSum(t) \in Nat /\ NetworkSum(s \o t) \in Nat
         /\ Len(s) % 2 = 0 => Cong(NetworkSum(s \o t), NetworkSum(s) + NetworkSum(t))
         /\ Len(s) % 2 = 1 => Cong(NetworkSum(s \o t), NetworkSum(s) + Base * NetworkSum(t))
         /\ NetworkSum(s \o t) = 0 => NetworkSum(s) = 0 /\ NetworkSum(t) = 0
<1> DEFINE u == s \o t
           m == Len(s)
           n == Len(t)
<1>1. /\ u \in Seq(Byte) /\ m \in Nat /\ n \in Nat /\ Len(u) = m + n
      /\ \A i \in 1..m : u[i] = s[i]
      /\ \A j \in 1..n : u[m + j] = t[j] /\ t[j] \in Nat
  BY WordSize DEF Byte
<1> HIDE DEF u
<1>2. PICK f : Sums(f, s) /\ NetworkSum(s) = f[m]
  BY NetworkSumIs
<1>3. PICK g : Sums(g, t) /\ NetworkSum(t) = g[n]
  BY NetworkSumIs
<1>4. PICK h : Sums(h, u) /\ NetworkSum(u) = h[m + n]
  BY <1>1, NetworkSumIs
<1> HIDE DEF m, n
<1>5. /\ f \in [0..m -> Nat] /\ f[0] = 0
      /\ \A i \in 1..m : f[i] = f[i - 1] + (IF i % 2 = 1 THEN Base * s[i] ELSE s[i])
  BY <1>2 DEF Sums, m
<1>6. /\ g \in [0..n -> Nat] /\ g[0] = 0
      /\ \A i \in 1..n : g[i] = g[i - 1] + (IF i % 2 = 1 THEN Base * t[i] ELSE t[i])
  BY <1>3 DEF Sums, n
<1>7. /\ h \in [0..m + n -> Nat] /\ h[0] = 0
      /\ \A i \in 1..m + n : h[i] = h[i - 1] + (IF i % 2 = 1 THEN Base * u[i] ELSE u[i])
  BY <1>1, <1>4 DEF Sums
<1>8. h[m] = f[m] /\ f[m] \in Nat
  <2>1. ASSUME NEW i \in 1..m, Agree(h, f, i - 1)
        PROVE  Agree(h, f, i)
    <3>1. i \in 1..m + n
      BY <1>1
    <3>2. u[i] = s[i] /\ h[i - 1] = f[i - 1]
      BY <1>1, <2>1 DEF Agree
    <3>3. h[i] = h[i - 1] + (IF i % 2 = 1 THEN Base * u[i] ELSE u[i])
      BY <1>7, <3>1
    <3>4. f[i] = f[i - 1] + (IF i % 2 = 1 THEN Base * s[i] ELSE s[i])
      BY <1>5
    <3> QED BY <3>2, <3>3, <3>4, Zenon DEF Agree
  <2>2. Agree(h, f, 0)
    BY <1>5, <1>7, Zenon DEF Agree
  <2>3. Agree(h, f, m)
    BY <1>1, <2>1, <2>2, AgreeOn
  <2> QED BY <1>1, <1>5, <2>3 DEF Agree
<1> DEFINE G == {j \in 0..n :
                   /\ m % 2 = 0 => Cong(h[m + j], f[m] + g[j])
                   /\ m % 2 = 1 => Cong(h[m + j], f[m] + Base * g[j])
                   /\ h[m + j] = 0 => f[m] = 0 /\ g[j] = 0}
<1>9. 0 \in G
  <2>1. m + 0 = m /\ f[m] + 0 = f[m] /\ f[m] + Base * 0 = f[m] /\ 0 \in 0..n
    BY <1>1, <1>8, WordSize
  <2>2. Cong(h[m + 0], f[m] + g[0]) /\ Cong(h[m + 0], f[m] + Base * g[0])
    BY <1>6, <1>8, <2>1, CongRefl
  <2> QED BY <1>6, <1>8, <2>1, <2>2
<1>10. ASSUME NEW j \in 0..n - 1, j \in G
       PROVE  j + 1 \in G
  <2>1. /\ j + 1 \in 1..n /\ (j + 1) - 1 = j /\ m + (j + 1) \in 1..m + n
        /\ (m + (j + 1)) - 1 = m + j /\ j \in 0..n /\ m + j \in 0..m + n /\ j + 1 \in 0..n
    BY <1>1
  <2>2. PICK a \in Nat, b \in Nat, c \in Nat, z \in Nat :
          a = h[m + j] /\ b = g[j] /\ c = f[m] /\ z = t[j + 1]
    BY <1>1, <1>6, <1>7, <1>8, <2>1
  <2>3. g[j + 1] = b + (IF (j + 1) % 2 = 1 THEN Base * z ELSE z)
    BY <1>6, <2>1, <2>2, Zenon
  <2>4. h[m + (j + 1)] = a + (IF (m + (j + 1)) % 2 = 1 THEN Base * z ELSE z)
    BY <1>1, <1>7, <2>1, <2>2, Zenon
  <2>5. /\ m % 2 = 0 => Cong(a, c + b)
        /\ m % 2 = 1 => Cong(a, c + Base * b)
        /\ a = 0 => c = 0 /\ b = 0
    BY <1>10, <2>2
  <2>6. /\ Cong(a, c + b) => Cong(a + z, c + (b + z)) /\ Cong(a + Base * z, c + (b + Base * z))
        /\ Cong(a, c + Base * b) => /\ Cong(a + Base * z, c + Base * (b + z))
                                    /\ Cong(a + z, c + Base * (b + Base * z))
    <3>1. Base * z \in Nat
      BY WordSize
    <3> QED BY <3>1, ConcatStep
  <2>7. /\ m % 2 = 0 => ((m + (j + 1)) % 2 = 1 <=> (j + 1) % 2 = 1)
        /\ m % 2 = 1 => ((m + (j + 1)) % 2 = 1 <=> (j + 1) % 2 # 1)
    <3>1. m \in Nat /\ j + 1 \in Nat
      BY <1>1
    <3> QED BY <3>1, Parity, Zenon
  <2>8. /\ m % 2 = 0 => Cong(h[m + (j + 1)], c + g[j + 1])
        /\ m % 2 = 1 => Cong(h[m + (j + 1)], c + Base * g[j + 1])
    BY <2>3, <2>4, <2>5, <2>6, <2>7, Zenon
  <2>9. h[m + (j + 1)] = 0 => c = 0 /\ g[j + 1] = 0
    <3>1. Base * z \in Nat /\ (Base * z = 0 <=> z = 0)
      BY WordSize
    <3> QED BY <2>3, <2>4, <2>5, <3>1
  <2> QED BY <2>1, <2>2, <2>8, <2>9
<1>11. n \in G
  <2> HIDE DEF G
  <2>1. n \in 0..n
    BY <1>1
  <2>2. 0..n \subseteq G
    BY <1>1, <1>9, <1>10, Induct
  <2> QED BY <2>1, <2>2
<1> HIDE DEF G
<1>12. /\ m % 2 = 0 => Cong(h[m + n], f[m] + g[n])
       /\ m % 2 = 1 => Cong(h[m + n], f[m] + Base * g[n])
       /\ h[m + n] = 0 => f[m] = 0 /\ g[n] = 0
  BY <1>11 DEF G
<1>13. f[m] \in Nat /\ g[n] \in Nat /\ h[m + n] \in Nat
  BY <1>1, <1>6, <1>7, <1>8
<1> QED BY <1>2, <1>3, <1>4, <1>12, <1>13, Zenon DEF u, m

\* f[i] is what the first i buffers of the chain c hold.
Parts(f, c) ==
  /\ f \in [0..Len(c) -> Seq(Byte)] /\ f[0] = <<>>
  /\ \A i \in 1..Len(c) : f[i] = f[i - 1] \o c[i]
  /\ f[Len(c)] = FlattenSeq(c)

\* The buffers of a chain laid end to end, one by one.
LEMMA PartsExist ==
  ASSUME NEW c \in Seq(Seq(Byte))
  PROVE  \E f : Parts(f, c)
<1> DEFINE n == Len(c)
           T == Seq(Byte)
           st == [i \in 1..n |-> [x \in T |-> x \o c[i]]]
           F(g) == [i \in 1..n |-> IF i = 1 THEN c[i] ELSE g[i - 1] \o c[i]]
           g == CHOOSE x : x = F(x)
<1>1. n \in Nat /\ (\A i \in 1..n : c[i] \in T) /\ <<>> \in T
  OBVIOUS
<1>2. FlattenSeq(c) = IF n = 0 THEN c ELSE g[n]
  BY DEF FlattenSeq
<1>3. n = 0 => c = <<>>
  OBVIOUS
<1>4. \A x \in T, y \in T : x \o y \in T /\ <<>> \o y = y
  BY ConcatEmptySeq
<1> HIDE DEF n, T
<1>5. st \in [1..n -> [T -> T]]
  BY <1>1, <1>4
<1>6. PICK f \in [0..n -> T] : f[0] = <<>> /\ \A i \in 1..n : f[i] = st[i][f[i - 1]]
  <2> HIDE DEF st
  <2>1. \E f \in [0..n -> T] : Recursive(f, n, <<>>, st)
    BY <1>1, <1>5, Recursion
  <2> QED BY <2>1 DEF Recursive
<1>7. \A i \in 1..n : f[i] = f[i - 1] \o c[i]
  <2>1. \A i \in 1..n : i - 1 \in 0..n
    BY <1>1
  <2> QED BY <1>6, <2>1
<1> HIDE DEF st
<1> DEFINE h == [i \in 1..n |-> f[i]]
<1>8. h = F(h)
  <2>1. ASSUME NEW i \in 1..n
        PROVE  h[i] = IF i = 1 THEN c[i] ELSE h[i - 1] \o c[i]
    <3>1. CASE i = 1
      <4>1. f[i] = <<>> \o c[i]
        BY <1>6, <1>7, <3>1, 1 - 1 = 0, Zenon
      <4>2. c[i] \in T
        BY <1>1
      <4>3. f[i] = c[i]
        BY <1>1, <1>4, <4>1, <4>2, Zenon
      <4> QED BY <3>1, <4>3
    <3>2. CASE i # 1
      <4>1. i - 1 \in 1..n
        BY <1>1, <3>2
      <4> QED BY <1>7, <3>2, <4>1
    <3> QED BY <3>1, <3>2
  <2> QED BY <2>1, Zenon
<1>9. g = F(g)
  <2> HIDE DEF F, h
  <2> QED BY <1>8, Zenon
<1> HIDE DEF g
<1>10. \A i \in 1..n : g[i] = IF i = 1 THEN c[i] ELSE g[i - 1] \o c[i]
  BY <1>9, Zenon
<1> DEFINE G == {i \in 0..n : i = 0 \/ g[i] = f[i]}
<1>11. 0 \in G
  BY <1>1
<1>12. ASSUME NEW i \in 0..n - 1, i \in G
       PROVE  i + 1 \in G
  <2>1. i + 1 \in 1..n /\ (i + 1) - 1 = i /\ i + 1 \in 0..n
    BY <1>1
  <2>2. CASE i = 0
    <3>1. i + 1 = 1
      BY <2>2
    <3>2. g[1] = c[1]
      BY <1>10, <2>1, <3>1
    <3>3. f[1] = <<>> \o c[1]
      BY <1>6, <1>7, <2>1, <2>2, <3>1, Zenon
    <3>4. f[1] = c[1]
      BY <1>1, <1>4, <2>1, <3>1, <3>3, Zenon
    <3> QED BY <2>1, <3>1, <3>2, <3>4
  <2>3. CASE i # 0
    <3>1. g[i] = f[i] /\ i + 1 # 1
      BY <1>12, <2>3
    <3>2. g[i + 1] = g[i] \o c[i + 1] /\ f[i + 1] = f[i] \o c[i + 1]
      BY <1>7, <1>10, <2>1, <3>1
    <3> QED BY <2>1, <3>1, <3>2
  <2> QED BY <2>2, <2>3
<1>13. n # 0 => g[n] = f[n]
  <2>1. 0..n \subseteq G /\ n \in 0..n
    <3> HIDE DEF G
    <3>1. n \in 0..n
      BY <1>1
    <3>2. 0..n \subseteq G
      BY <1>1, <1>11, <1>12, Induct
    <3> QED BY <3>1, <3>2
  <2> QED BY <2>1
<1>14. f[n] = FlattenSeq(c)
  BY <1>2, <1>3, <1>6, <1>13
<1> QED BY <1>6, <1>7, <1>14 DEF Parts, n, T

\* No buffer is longer than the packet.
LEMMA PartsLen ==
  ASSUME NEW c \in Seq(Seq(Byte)), NEW f, Parts(f, c), NEW k \in 1..Len(c)
  PROVE  Len(c[k]) <= Len(FlattenSeq(c))
<1> DEFINE n == Len(c)
           G == {j \in 0..n : j < k \/ Len(c[k]) <= Len(f[j])}
<1>1. /\ n \in Nat /\ \A i \in 1..n : c[i] \in Seq(Byte) /\ Len(c[i]) \in Nat
      /\ \A i \in 0..n : f[i] \in Seq(Byte) /\ Len(f[i]) \in Nat
  <2>1. n \in Nat /\ \A i \in 1..n : c[i] \in Seq(Byte)
    OBVIOUS
  <2>2. \A i \in 0..n : f[i] \in Seq(Byte)
    BY DEF Parts
  <2> QED BY <2>1, <2>2, LenProperties
<1>2. 0 \in G
  BY <1>1
<1>3. ASSUME NEW j \in 0..n - 1, j \in G
      PROVE  j + 1 \in G
  <2>1. j + 1 \in 1..n /\ (j + 1) - 1 = j /\ j + 1 \in 0..n /\ j \in 0..n
    BY <1>1
  <2>2. f[j + 1] = f[j] \o c[j + 1]
    BY <2>1, Zenon DEF Parts
  <2>3. Len(f[j + 1]) = Len(f[j]) + Len(c[j + 1])
    BY <1>1, <2>1, <2>2, ConcatProperties
  <2>4. PICK a \in Nat, b \in Nat, l \in Nat :
          a = Len(f[j]) /\ b = Len(c[j + 1]) /\ l = Len(f[j + 1])
    BY <1>1, <2>1
  <2>5. l = a + b
    BY <2>3, <2>4
  <2>6. k = j + 1 => Len(c[k]) <= l
    <3>1. k = j + 1 => Len(c[k]) = b
      BY <2>4, Zenon
    <3> QED BY <2>5, <3>1
  <2>7. j < k \/ Len(c[k]) <= a
    BY <1>3, <2>4
  <2>8. Len(c[k]) \in Nat
    BY <1>1
  <2>9. j + 1 < k \/ Len(c[k]) <= l
    BY <2>5, <2>6, <2>7, <2>8
  <2> QED BY <2>1, <2>4, <2>9
<1>4. n \in G
  <2> HIDE DEF G
  <2>1. n \in 0..n
    BY <1>1
  <2>2. 0..n \subseteq G
    BY <1>1, <1>2, <1>3, Induct
  <2> QED BY <2>1, <2>2
<1> QED BY <1>4 DEF Parts

\* The sum of two bytes.
LEMMA TwoBytes ==
  ASSUME NEW x \in Byte, NEW y \in Byte
  PROVE  /\ <<x, y>> \in Seq(Byte) /\ Len(<<x, y>>) = 2
         /\ NetworkSum(<<x, y>>) = Base * x + y
<1> DEFINE s == <<x, y>>
<1>1. s \in Seq(Byte) /\ Len(s) = 2 /\ s[1] = x /\ s[2] = y
  OBVIOUS
<1> HIDE DEF s
<1>2. PICK f : Sums(f, s) /\ NetworkSum(s) = f[2]
  BY <1>1, NetworkSumIs
<1>3. /\ 1 \in 1..Len(s) /\ 2 \in 1..Len(s) /\ 1 - 1 = 0 /\ 2 - 1 = 1 /\ 1 % 2 = 1 /\ 2 % 2 # 1
      /\ x \in Nat /\ y \in Nat /\ Base * x \in Nat
  BY <1>1, WordSize DEF Byte
<1>4. f[0] = 0 /\ f[1] = f[0] + Base * x /\ f[2] = f[1] + y
  BY <1>1, <1>2, <1>3, Zenon DEF Sums
<1>5. f[2] = Base * x + y
  BY <1>3, <1>4
<1> QED BY <1>1, <1>2, <1>5 DEF s

\* The two words of an address.
LEMMA HalvesCong ==
  ASSUME NEW s \in [1..4 -> Byte]
  PROVE  /\ s \in Seq(Byte) /\ Len(s) = 4 /\ NetworkSum(s) \in Nat
         /\ Halves(s) \in 0..2 * Word - 2 /\ Cong(Halves(s), Base * NetworkSum(s))
         /\ NetworkSum(s) = 0 => Halves(s) = 0
<1>1. s \in Seq(Byte) /\ Len(s) = 4
  <2>1. s \in Seq(Byte)
    BY 4 \in Nat, SeqDef
  <2>2. DOMAIN s = 1..Len(s) /\ Len(s) \in Nat /\ DOMAIN s = 1..4
    BY <2>1, LenProperties
  <2> QED BY <2>1, <2>2
<1>2. PICK f : Sums(f, s) /\ NetworkSum(s) = f[4]
  BY <1>1, NetworkSumIs
<1>3. s[1] \in Byte /\ s[2] \in Byte /\ s[3] \in Byte /\ s[4] \in Byte
  OBVIOUS
<1>4. PICK a \in Byte, b \in Byte, c \in Byte, d \in Byte :
        a = s[1] /\ b = s[2] /\ c = s[3] /\ d = s[4]
  BY <1>3
<1>5. /\ 1 \in 1..Len(s) /\ 2 \in 1..Len(s) /\ 3 \in 1..Len(s) /\ 4 \in 1..Len(s)
      /\ 1 - 1 = 0 /\ 2 - 1 = 1 /\ 3 - 1 = 2 /\ 4 - 1 = 3
      /\ 1 % 2 = 1 /\ 2 % 2 # 1 /\ 3 % 2 = 1 /\ 4 % 2 # 1
  BY <1>1
<1>6. /\ f[0] = 0 /\ f[1] = f[0] + Base * a /\ f[2] = f[1] + b
      /\ f[3] = f[2] + Base * c /\ f[4] = f[3] + d
  BY <1>2, <1>4, <1>5, Zenon DEF Sums
<1>7. /\ a \in Nat /\ b \in Nat /\ c \in Nat /\ d \in Nat
      /\ Base * a \in Nat /\ Base * b \in Nat /\ Base * c \in Nat /\ Base * d \in Nat
  BY WordSize DEF Byte
<1> DEFINE n == (0 + Base * a) + b
<1>8. Cong(0, Base * 0)
  BY CongRefl, WordSize
<1>9. /\ Cong(0 + (a + Base * b), Base * n) /\ a + Base * b \in 0..Word - 1
      /\ n = 0 => a + Base * b = 0
  BY <1>8, WordStep
<1>10. n \in Nat /\ 0 + (a + Base * b) = a + Base * b /\ a + Base * b \in Nat
  BY <1>7
<1>11. f[4] = (n + Base * c) + d /\ f[4] \in Nat
  BY <1>6, <1>7
<1> HIDE DEF n
<1>12. /\ Cong((a + Base * b) + (c + Base * d), Base * ((n + Base * c) + d))
       /\ c + Base * d \in 0..Word - 1
       /\ (n + Base * c) + d = 0 => n = 0 /\ c + Base * d = 0
  <2>1. Cong(a + Base * b, Base * n)
    BY <1>9, <1>10
  <2> QED BY <1>10, <2>1, WordStep
<1>13. Halves(s) = (a + Base * b) + (c + Base * d)
  BY <1>4 DEF Halves
<1>14. /\ (a + Base * b) + (c + Base * d) \in 0..2 * Word - 2
       /\ f[4] = 0 => (a + Base * b) + (c + Base * d) = 0
  BY <1>9, <1>11, <1>12, WordSize
<1> QED BY <1>1, <1>2, <1>11, <1>12, <1>13, <1>14

\* The complement of a sum, stored in memory order: with it the sum r in network
\* order comes to all ones.
LEMMA Complements ==
  ASSUME NEW r \in Nat, NEW x \in Nat, x < Word * Word, Cong(x, Base * r), r = 0 => x = 0
  PROVE  LET c == Complement(Folded(x))
         IN /\ c \in 0..Word - 1
            /\ (r + NetworkSum(Stored(c))) % (Word - 1) = 0
            /\ r + NetworkSum(Stored(c)) > 0
<1> DEFINE c == Complement(Folded(x))
           y == NetworkSum(Stored(c))
<1>1. Folded(x) \in 0..Word - 1 /\ Cong(Folded(x), x) /\ (x = 0 => Folded(x) = 0)
  BY FoldedCong, WordSize DEF Folded
<1>2. PICK d \in 0..Word - 1 : d = Folded(x)
  BY <1>1
<1>3. c = (Word - 1) - d /\ c \in 0..Word - 1
  BY <1>2, WordSize DEF Complement
<1> HIDE DEF c
<1>4. /\ Swap(c) \in 0..Word - 1 /\ Cong(Swap(c), Base * c)
      /\ c \div Base \in 0..Base - 1 /\ c % Base \in 0..Base - 1
      /\ Swap(c) = Base * (c % Base) + (c \div Base)
      /\ c = Base * (c \div Base) + (c % Base)
  BY <1>3, SwapCong
<1>5. y = Swap(c)
  <2>1. NetworkSum(<<c % Base, c \div Base>>) = Base * (c % Base) + (c \div Base)
    BY <1>4, TwoBytes DEF Byte
  <2> QED BY <1>4, <2>1 DEF Stored
<1> HIDE DEF y
<1>6. Cong(r + y, 0)
  <2>1. /\ d \in Int /\ Base * c \in Int /\ Base * d \in Int /\ Base * x \in Int /\ Base * r \in Int
        /\ Base * (Base * r) \in Int /\ y \in Int
    BY <1>3, <1>4, <1>5, WordSize
  <2>2. Cong(Base * d, Base * x) /\ Cong(Base * x, Base * (Base * r))
    BY <1>1, <1>2, <2>1, CongTimes
  <2>3. Cong(Base * d, r)
    BY <2>1, <2>2, CongTwice, CongTrans
  <2>4. Cong(Base * c, -(Base * d))
    <3>1. Base * c = -(Base * d) + Base * (Word - 1)
      BY <1>3, WordSize
    <3> QED BY <3>1, WordSize DEF Cong
  <2>5. Cong(y, -(Base * d))
    BY <1>4, <1>5, <2>1, <2>4, CongTrans
  <2>6. PICK k \in Int, l \in Int : y = -(Base * d) + k * (Word - 1) /\ Base * d = r + l * (Word - 1)
    BY <2>3, <2>5 DEF Cong
  <2>7. r + y = 0 + (k - l) * (Word - 1) /\ k - l \in Int
    BY <2>1, <2>6, WordSize
  <2> QED BY <2>7 DEF Cong
<1>7. (r + y) % (Word - 1) = 0
  <2>1. PICK k \in Int : r + y = 0 + k * (Word - 1)
    BY <1>6 DEF Cong
  <2>2. r + y = k * (Word - 1) /\ Word - 1 \in Nat \ {0}
    BY <2>1, WordSize
  <2>3. (k * (Word - 1)) % (Word - 1) = 0
    BY <2>2, Multiple
  <2> QED BY <2>2, <2>3
<1>8. r + y > 0
  <2>1. CASE r # 0
    BY <1>4, <1>5, <2>1, WordSize
  <2>2. CASE r = 0
    <3>1. c = Word - 1
      BY <1>1, <1>2, <1>3, <2>2, WordSize
    <3>2. PICK u \in Nat, v \in Nat : u = c \div Base /\ v = c % Base
      BY <1>4, WordSize
    <3>3. Swap(c) = Base * v + u /\ c = Base * u + v /\ c # 0
      BY <1>4, <3>1, <3>2, WordSize
    <3>4. Swap(c) # 0
      BY <3>3, WordSize
    <3> QED BY <1>4, <1>5, <2>2, <3>4, WordSize
  <2> QED BY <2>1, <2>2
<1> QED BY <1>3, <1>7, <1>8 DEF c, y

\* Two strings of bytes end to end.
LEMMA ConcatLen ==
  ASSUME NEW a \in Seq(Byte), NEW b \in Seq(Byte)
  PROVE  a \o b \in Seq(Byte) /\ Len(a \o b) = Len(a) + Len(b)
  OBVIOUS

\* a is a sum in memory order of what sums up to b in network order.
Weighs(a, b) == a \in Nat /\ b \in Nat /\ Cong(a, Base * b) /\ (b = 0 => a = 0)

\* h is a sum with end-around carry of what adds up to m.
Totals(h, m) == h \in Nat /\ m \in Nat /\ Cong(h, m) /\ (h = 0 => m = 0)

LEMMA WeighsAdd ==
  ASSUME NEW a, NEW b, NEW c, NEW d, Weighs(a, b), Weighs(c, d)
  PROVE  Weighs(a + c, b + d)
<1>0. a \in Nat /\ b \in Nat /\ c \in Nat /\ d \in Nat /\ Base * b \in Int /\ Base * d \in Int
  BY WordSize DEF Weighs
<1>1. Cong(a + c, (Base * b) + (Base * d))
  BY <1>0, CongAdd DEF Weighs
<1>2. (Base * b) + (Base * d) = Base * (b + d)
  BY <1>0, WordSize
<1>3. b + d = 0 => a + c = 0
  BY <1>0 DEF Weighs
<1> QED BY <1>0, <1>1, <1>2, <1>3 DEF Weighs

LEMMA TotalsAdd ==
  ASSUME NEW h, NEW m, NEW g, NEW n \in Nat, Totals(h, m), Totals(g, h + n)
  PROVE  Totals(g, m + n)
<1>1. h \in Nat /\ m \in Nat /\ g \in Nat /\ Cong(h, m) /\ Cong(g, h + n)
  BY DEF Totals
<1>2. Cong(h + n, m + n)
  <2>1. n \in Int /\ h \in Int /\ m \in Int /\ Cong(n, n)
    BY <1>1, CongRefl
  <2> QED BY <1>1, <2>1, CongAdd, Zenon
<1>3. Cong(g, m + n)
  BY <1>1, <1>2, CongTrans
<1>4. g = 0 => m + n = 0
  BY <1>1 DEF Totals
<1> QED BY <1>1, <1>3, <1>4 DEF Totals

LEMMA WeighsTotal ==
  ASSUME NEW x, NEW k \in Nat, NEW m, NEW h, Weighs(x, k + m), Totals(h, m)
  PROVE  Weighs(x, h + k)
<1>1. x \in Nat /\ h \in Nat /\ m \in Nat /\ Cong(h, m) /\ Cong(x, Base * (k + m))
  BY DEF Weighs, Totals
<1>2. Cong(k + m, h + k)
  <2>1. PICK l \in Int : h = m + l * (Word - 1)
    BY <1>1 DEF Cong
  <2>2. PICK y \in Int : y = l * (Word - 1) /\ (-l) * (Word - 1) = -y
    BY WordSize
  <2>3. k + m = (h + k) + (-l) * (Word - 1) /\ -l \in Int
    BY <1>1, <2>1, <2>2
  <2> QED BY <2>3 DEF Cong
<1>3. PICK y \in Int, z \in Int : y = Base * (k + m) /\ z = Base * (h + k)
  BY <1>1, WordSize
<1>4. Cong(Base * (k + m), Base * (h + k))
  BY <1>1, <1>2, CongTimes
<1>5. Cong(x, Base * (h + k))
  BY <1>1, <1>3, <1>4, CongTrans
<1>6. h + k = 0 => x = 0
  BY <1>1 DEF Weighs, Totals
<1> QED BY <1>1, <1>5, <1>6 DEF Weighs

LEMMA ConcatTotals ==
  ASSUME NEW a \in Seq(Byte), NEW b \in Seq(Byte), Len(a) % 2 = 0
  PROVE  Totals(NetworkSum(a \o b), NetworkSum(a) + NetworkSum(b))
<1>1. /\ NetworkSum(a) \in Nat /\ NetworkSum(b) \in Nat /\ NetworkSum(a \o b) \in Nat
      /\ Cong(NetworkSum(a \o b), NetworkSum(a) + NetworkSum(b))
      /\ NetworkSum(a \o b) = 0 => NetworkSum(a) = 0 /\ NetworkSum(b) = 0
  BY ConcatSum
<1> QED BY <1>1 DEF Totals

\* What the pseudo header sums up to.
LEMMA PseudoSum ==
  ASSUME NEW s \in [1..4 -> Byte], NEW d \in [1..4 -> Byte], NEW pr \in Byte, NEW n \in 0..Word - 1
  PROVE  LET h == NetworkSum(s \o d \o <<0, pr>> \o Bytes(n))
         IN Totals(h, ((NetworkSum(s) + NetworkSum(d)) + pr) + n)
<1> DEFINE u == s \o d
           v == u \o <<0, pr>>
           w == v \o Bytes(n)
<1>1. s \in Seq(Byte) /\ d \in Seq(Byte) /\ Len(s) = 4 /\ Len(d) = 4
  BY HalvesCong
<1>2. /\ <<0, pr>> \in Seq(Byte) /\ Len(<<0, pr>>) = 2 /\ NetworkSum(<<0, pr>>) = pr /\ pr \in Nat
  <2>1. 0 \in Byte /\ pr \in Nat /\ Base * 0 + pr = pr
    BY WordSize DEF Byte
  <2> QED BY <2>1, TwoBytes
<1>3. Bytes(n) \in Seq(Byte) /\ Len(Bytes(n)) = 2 /\ NetworkSum(Bytes(n)) = n /\ n \in Nat
  <2>1. /\ n \div Base \in Byte /\ n % Base \in Byte /\ n = Base * (n \div Base) + (n % Base)
    BY SwapCong DEF Byte
  <2>2. NetworkSum(<<n \div Base, n % Base>>) = n
    BY <2>1, TwoBytes
  <2> QED BY <2>1, <2>2, TwoBytes, WordSize DEF Bytes
<1>4. u \in Seq(Byte) /\ Len(u) = 8 /\ v \in Seq(Byte) /\ Len(v) = 10 /\ w \in Seq(Byte)
  <2>1. u \in Seq(Byte) /\ Len(u) = Len(s) + Len(d)
    BY <1>1, ConcatLen, Zenon
  <2> HIDE DEF u
  <2>2. Len(u) = 8
    BY <1>1, <2>1
  <2>3. v \in Seq(Byte) /\ Len(v) = Len(u) + Len(<<0, pr>>)
    BY <1>2, <2>1, ConcatLen, Zenon
  <2> HIDE DEF v
  <2>4. Len(v) = 10
    BY <1>2, <2>2, <2>3
  <2>5. w \in Seq(Byte)
    BY <1>3, <2>3, ConcatLen, Zenon
  <2> QED BY <2>1, <2>2, <2>3, <2>4, <2>5
<1>5. 4 % 2 = 0 /\ 8 % 2 = 0 /\ 10 % 2 = 0
  OBVIOUS
<1>6. Totals(NetworkSum(u), NetworkSum(s) + NetworkSum(d))
  <2>1. Totals(NetworkSum(s \o d), NetworkSum(s) + NetworkSum(d))
    BY <1>1, <1>5, ConcatTotals, Zenon
  <2> QED BY <2>1, Zenon
<1> HIDE DEF u
<1>7. Totals(NetworkSum(v), NetworkSum(u) + pr)
  <2>1. Totals(NetworkSum(v), NetworkSum(u) + NetworkSum(<<0, pr>>))
    BY <1>2, <1>4, <1>5, ConcatTotals, Zenon
  <2> QED BY <1>2, <2>1, Zenon
<1> HIDE DEF v
<1>8. Totals(NetworkSum(w), NetworkSum(v) + n)
  <2>1. Totals(NetworkSum(w), NetworkSum(v) + NetworkSum(Bytes(n)))
    BY <1>3, <1>4, <1>5, ConcatTotals, Zenon
  <2> QED BY <1>3, <2>1, Zenon
<1> HIDE DEF w
<1>9. Totals(NetworkSum(w), ((NetworkSum(s) + NetworkSum(d)) + pr) + n)
  <2>1. Totals(NetworkSum(v), (NetworkSum(s) + NetworkSum(d)) + pr)
    BY <1>2, <1>6, <1>7, TotalsAdd, Zenon
  <2> QED BY <1>3, <1>8, <2>1, TotalsAdd, Zenon
<1> QED BY <1>9, Zenon DEF w, v, u

\* A u16 is not changed when it is taken as one (ProtoLen).
LEMMA Small ==
  ASSUME NEW n \in 0..Word - 1
  PROVE  n % Word = n
<1>1. \A m \in Nat \ {0}, k \in Nat : k < m => k % m = k
  OBVIOUS
<1>2. n \in Nat /\ n < Word
  BY WordSize
<1> QED BY <1>1, <1>2, WordSize

\* The protocol and the length, put into network order.
LEMMA HtonsWeighs ==
  ASSUME NEW n \in 0..Word - 1
  PROVE  Weighs(htons(n), n) /\ htons(n) \in 0..Word - 1 /\ ProtoLen(n) = htons(n)
<1>1. ProtoLen(n) = htons(n)
  BY Small, Zenon DEF ProtoLen
<1>2. 0 \in 0..Word - 1 /\ n \in Nat /\ \A i \in 0..Word - 1 : i \in Nat
  BY WordSize
<1>3. n = 0 => htons(n) = 0
  BY <1>2, SwapCong, Zenon
<1>4. htons(n) \in 0..Word - 1 /\ Cong(htons(n), Base * n)
  BY SwapCong, Zenon
<1> QED BY <1>1, <1>2, <1>3, <1>4, Zenon DEF Weighs

LEMMA HalvesWeigh ==
  ASSUME NEW s \in [1..4 -> Byte]
  PROVE  Weighs(Halves(s), NetworkSum(s)) /\ Halves(s) \in 0..2 * Word - 2
<1>1. \A i \in 0..2 * Word - 2 : i \in Nat
  BY WordSize
<1> QED BY <1>1, HalvesCong, Zenon DEF Weighs

\* The last step of t_inet_chksum_pseudo, over a packet of n bytes that sums up
\* to k and has left a in acc.
HeaderAdds(s, d, pr, n, k, a) ==
  LET c == Complement(Folded(U32(a + Halves(s) + Halves(d) + htons(pr) + ProtoLen(n))))
      r == NetworkSum(s \o d \o <<0, pr>> \o Bytes(n)) + k
  IN /\ c \in 0..Word - 1
     /\ (r + NetworkSum(Stored(c))) % (Word - 1) = 0
     /\ r + NetworkSum(Stored(c)) > 0

LEMMA PseudoAccepted ==
  ASSUME NEW s \in [1..4 -> Byte], NEW d \in [1..4 -> Byte], NEW pr \in Byte,
         NEW n \in 0..Word - 1, NEW k \in Nat, NEW a \in 0..Word - 1, Weighs(a, k)
  PROVE  HeaderAdds(s, d, pr, n, k, a)
<1> DEFINE x == a + Halves(s) + Halves(d) + htons(pr) + ProtoLen(n)
           i == NetworkSum(s)
           j == NetworkSum(d)
           h == NetworkSum(s \o d \o <<0, pr>> \o Bytes(n))
           r == h + k
<1>1. pr \in 0..Word - 1
  BY WordSize DEF Byte
<1>2. Weighs(Halves(s), i) /\ Weighs(Halves(d), j)
  BY HalvesWeigh, Zenon
<1>3. Weighs(htons(pr), pr) /\ Weighs(ProtoLen(n), n)
  BY <1>1, HtonsWeighs, Zenon
<1>4. Totals(h, ((i + j) + pr) + n)
  BY PseudoSum, Zenon
<1>5. i \in Nat /\ j \in Nat /\ n \in Nat /\ pr \in Nat
  BY <1>2, <1>3, Zenon DEF Weighs
<1> HIDE DEF i, j, h
<1>6. Weighs(x, (((k + i) + j) + pr) + n)
  <2>1. Weighs((a + Halves(s)) + Halves(d), (k + i) + j)
    BY <1>2, WeighsAdd, Zenon
  <2>2. Weighs(((a + Halves(s)) + Halves(d)) + htons(pr), ((k + i) + j) + pr)
    BY <1>3, <2>1, WeighsAdd, Zenon
  <2> QED BY <1>3, <2>2, WeighsAdd, Zenon
<1>7. x \in Nat /\ x < Word * Word
  <2>1. PICK e \in 0..2 * Word - 2, f \in 0..2 * Word - 2 : e = Halves(s) /\ f = Halves(d)
    BY HalvesWeigh, Zenon
  <2>2. PICK g \in 0..Word - 1, l \in 0..Word - 1 : g = htons(pr) /\ l = ProtoLen(n)
    BY <1>1, HtonsWeighs, Zenon
  <2>3. x = (((a + e) + f) + g) + l
    BY <2>1, <2>2, Zenon
  <2> HIDE DEF x
  <2>4. x <= 7 * (Word - 1) /\ x \in Nat
    BY <2>3, WordSize
  <2>5. 7 * (Word - 1) < Word * Word /\ Word * Word \in Nat /\ 7 * (Word - 1) \in Nat
    BY WordSize
  <2>6. \A y \in Nat, z \in Nat, w \in Nat : y <= z /\ z < w => y < w
    OBVIOUS
  <2> QED BY <2>4, <2>5, <2>6, Zenon
<1> HIDE DEF x
<1>8. Weighs(x, h + k)
  <2>1. (((k + i) + j) + pr) + n = k + (((i + j) + pr) + n)
    BY <1>5
  <2> QED BY <1>4, <1>6, <2>1, WeighsTotal, Zenon
<1>9. U32(x) = x
  BY <1>7, U32Is
<1>10. r \in Nat /\ Cong(x, Base * r) /\ (r = 0 => x = 0)
  BY <1>8, Zenon DEF Weighs
<1> HIDE DEF r
<1>11. LET c == Complement(Folded(x))
       IN /\ c \in 0..Word - 1
          /\ (r + NetworkSum(Stored(c))) % (Word - 1) = 0
          /\ r + NetworkSum(Stored(c)) > 0
  BY <1>7, <1>10, Complements, Zenon
<1> QED BY <1>9, <1>11, Zenon DEF HeaderAdds, x, h, r

\* swapped and acc once the buffers up to and including s are added up.
AddedUp(s, a, w) ==
  /\ w <=> Len(s) % 2 = 1
  /\ Cong(a, IF w THEN NetworkSum(s) ELSE Base * NetworkSum(s))
  /\ NetworkSum(s) = 0 => a = 0

LEMMA CongSym ==
  ASSUME NEW a \in Int, NEW b \in Int, Cong(a, b)
  PROVE  Cong(b, a)
<1>1. PICK k \in Int : a = b + k * (Word - 1)
  BY DEF Cong
<1>2. PICK y \in Int : y = k * (Word - 1) /\ (-k) * (Word - 1) = -y
  BY WordSize
<1>3. b = a + (-k) * (Word - 1) /\ -k \in Int
  BY <1>1, <1>2
<1> QED BY <1>3 DEF Cong

\* One round of the loop over the chain, for the bytes s behind the bytes t.
RoundAdds(t, s, a, w) ==
  LET b == Folded(U32(a + lwip_standard_chksum(s)))
  IN /\ b \in 0..Word - 1 /\ Swap(b) \in 0..Word - 1
     /\ Len(s) % 2 # 0 => AddedUp(t \o s, Swap(b), ~w)
     /\ ~(Len(s) % 2 # 0) => AddedUp(t \o s, b, w)

\* A round of the loop keeps AddedUp, whether it swaps or not.
LEMMA BufferAdded ==
  ASSUME NEW t \in Seq(Byte), NEW s \in Seq(Byte), Len(s) < Word, NEW a \in 0..Word - 1,
         NEW w \in BOOLEAN, AddedUp(t, a, w)
  PROVE  RoundAdds(t, s, a, w)
<1> DEFINE m == NetworkSum(t)
           n == NetworkSum(s)
           r == NetworkSum(t \o s)
           g == lwip_standard_chksum(s)
           b == Folded(U32(a + g))
<1>1. /\ m \in Nat /\ n \in Nat /\ r \in Nat
      /\ Len(t) % 2 = 0 => Cong(r, m + n)
      /\ Len(t) % 2 = 1 => Cong(r, m + Base * n)
      /\ r = 0 => m = 0 /\ n = 0
  BY ConcatSum, Zenon
<1>2. g \in 0..Word - 1 /\ Cong(g, Base * n) /\ (n = 0 => g = 0)
  BY ChksumCong, Zenon
<1>3. /\ w <=> Len(t) % 2 = 1
      /\ w => Cong(a, m)
      /\ ~w => Cong(a, Base * m)
      /\ m = 0 => a = 0
  BY Zenon DEF AddedUp
<1>4. Len(t \o s) % 2 = 1 <=> IF Len(s) % 2 = 1 THEN ~w ELSE w
  <2>1. Len(t) \in Nat /\ Len(s) \in Nat /\ Len(t \o s) = Len(t) + Len(s)
    OBVIOUS
  <2>2. Len(t) % 2 = 0 \/ Len(t) % 2 = 1
    BY <2>1
  <2>3. /\ Len(t) % 2 = 0 => (Len(t \o s) % 2 = 1 <=> Len(s) % 2 = 1)
        /\ Len(t) % 2 = 1 => (Len(t \o s) % 2 = 1 <=> Len(s) % 2 # 1)
    <3>1. /\ Len(t) % 2 = 0 => ((Len(t) + Len(s)) % 2 = 1 <=> Len(s) % 2 = 1)
          /\ Len(t) % 2 = 1 => ((Len(t) + Len(s)) % 2 = 1 <=> Len(s) % 2 # 1)
      BY <2>1, Parity, Zenon
    <3> QED BY <2>1, <3>1
  <2>4. CASE w
    <3>1. Len(t) % 2 = 1
      BY <1>3, <2>4, Zenon
    <3>2. Len(t \o s) % 2 = 1 <=> Len(s) % 2 # 1
      BY <2>3, <3>1
    <3> QED BY <2>4, <3>2, Zenon
  <2>5. CASE ~w
    <3>1. Len(t) % 2 = 0
      BY <1>3, <2>2, <2>5, Zenon
    <3>2. Len(t \o s) % 2 = 1 <=> Len(s) % 2 = 1
      BY <2>3, <3>1
    <3> QED BY <2>5, <3>2, Zenon
  <2> QED BY <2>4, <2>5
<1>5. Len(t) % 2 = 0 \/ Len(t) % 2 = 1
  <2>1. Len(t) \in Nat
    OBVIOUS
  <2> QED BY <2>1
<1>6. Len(s) % 2 # 0 <=> Len(s) % 2 = 1
  <2>1. Len(s) \in Nat
    OBVIOUS
  <2> QED BY <2>1
<1> HIDE DEF m, n, r, g
<1>7. /\ m \in Int /\ n \in Int /\ r \in Int /\ a \in Int /\ g \in Int
      /\ Base * m \in Int /\ Base * n \in Int /\ Base * r \in Int /\ Base * (Base * r) \in Int
      /\ m + n \in Int /\ m + Base * n \in Int /\ Base * (m + n) \in Int /\ a + g \in Int
      /\ Base * m + Base * n = Base * (m + n)
  BY <1>1, <1>2, WordSize
<1>8. b \in 0..Word - 1 /\ Cong(b, a + g) /\ (a + g = 0 => b = 0)
  <2>1. a + g \in Nat /\ a + g < Word * Word
    BY <1>2, WordSize
  <2>2. b = Folded(a + g)
    BY <2>1, U32Is, Zenon
  <2>3. Folded(0) = 0
    BY WordSize DEF Folded
  <2> QED BY <2>1, <2>2, <2>3, FoldedCong, Zenon
<1> HIDE DEF b
<1>9. b \in Int /\ Base * b \in Int
  BY <1>8, WordSize
<1>10. ~w => Cong(b, Base * r)
  <2>1. HAVE ~w
  <2>2. Cong(a + g, Base * m + Base * n)
    BY <1>2, <1>3, <1>7, <2>1, CongAdd, Zenon
  <2>3. Cong(m + n, r)
    BY <1>1, <1>3, <1>5, <1>7, <2>1, CongSym, Zenon
  <2>4. Cong(Base * (m + n), Base * r)
    BY <1>7, <2>3, CongTimes, Zenon
  <2>5. Cong(a + g, Base * r)
    BY <1>7, <2>2, <2>4, CongTrans, Zenon
  <2> QED BY <1>7, <1>8, <1>9, <2>5, CongTrans, Zenon
<1>11. w => Cong(b, r)
  <2>1. HAVE w
  <2>2. Cong(a + g, m + Base * n)
    BY <1>2, <1>3, <1>7, <2>1, CongAdd, Zenon
  <2>3. Cong(m + Base * n, r)
    BY <1>1, <1>3, <1>7, <2>1, CongSym, Zenon
  <2>4. Cong(a + g, r)
    BY <1>7, <2>2, <2>3, CongTrans, Zenon
  <2> QED BY <1>7, <1>8, <1>9, <2>4, CongTrans, Zenon
<1>12. r = 0 => b = 0
  <2>1. r = 0 => a = 0 /\ g = 0
    BY <1>1, <1>2, <1>3, Zenon
  <2>2. 0 + 0 = 0
    OBVIOUS
  <2> QED BY <1>8, <2>1, <2>2, Zenon
<1>13. Swap(b) \in 0..Word - 1 /\ Cong(Swap(b), Base * b) /\ Swap(0) = 0
  BY <1>8, SwapCong, Zenon
<1>14. \A i \in 0..Word - 1 : i \in Int
  BY WordSize
<1>15. ~w => Cong(Swap(b), r)
  <2>1. HAVE ~w
  <2>2. Cong(Base * b, Base * (Base * r))
    BY <1>7, <1>9, <1>10, <2>1, CongTimes, Zenon
  <2>3. Cong(Base * b, r)
    BY <1>7, <1>9, <2>2, CongTwice, CongTrans, Zenon
  <2> QED BY <1>7, <1>9, <1>13, <1>14, <2>3, CongTrans, Zenon
<1>16. w => Cong(Swap(b), Base * r)
  <2>1. HAVE w
  <2>2. Cong(Base * b, Base * r)
    BY <1>7, <1>9, <1>11, <2>1, CongTimes, Zenon
  <2> QED BY <1>7, <1>9, <1>13, <1>14, <2>2, CongTrans, Zenon
<1>17. Len(s) % 2 # 0 => AddedUp(t \o s, Swap(b), ~w)
  <2>1. HAVE Len(s) % 2 # 0
  <2>2. ~w <=> Len(t \o s) % 2 = 1
    BY <1>4, <1>6, <2>1, Zenon
  <2>3. Cong(Swap(b), IF ~w THEN r ELSE Base * r)
    BY <1>15, <1>16, Zenon
  <2>4. r = 0 => Swap(b) = 0
    BY <1>12, <1>13, Zenon
  <2> QED BY <2>2, <2>3, <2>4, Zenon DEF AddedUp, r
<1>18. ~(Len(s) % 2 # 0) => AddedUp(t \o s, b, w)
  <2>1. HAVE ~(Len(s) % 2 # 0)
  <2>2. w <=> Len(t \o s) % 2 = 1
    BY <1>4, <1>6, <2>1, Zenon
  <2>3. Cong(b, IF w THEN r ELSE Base * r)
    BY <1>10, <1>11, Zenon
  <2> QED BY <1>12, <2>2, <2>3, Zenon DEF AddedUp, r
<1> QED BY <1>8, <1>13, <1>17, <1>18, Zenon DEF RoundAdds, b, g

\* What a step finds: the arguments, and the buffers done added up.
ChksumInv ==
  /\ chain \in Chains /\ src \in Addresses /\ dest \in Addresses /\ proto \in Protos
  /\ q \in 0..Len(chain) /\ acc \in 0..Word - 1 /\ swapped \in BOOLEAN
  /\ \E f : Parts(f, chain) /\ AddedUp(f[q], acc, swapped)
  /\ \/ result = NoResult
     \/ result \in 0..Word - 1 /\ ReceivedSum % (Word - 1) = 0 /\ ReceivedSum > 0

\* The chain, and its buffers, are bytes and short enough.
LEMMA ChainTypes ==
  ASSUME chain \in Chains
  PROVE  /\ chain \in Seq(Seq(Byte)) /\ Len(chain) \in Nat
         /\ FlattenSeq(chain) \in Seq(Byte) /\ Len(FlattenSeq(chain)) \in 0..Word - 1
         /\ \A i \in 1..Len(chain) : chain[i] \in Seq(Byte) /\ Len(chain[i]) < Word
<1>1. chain \in Seq(Seq(Byte)) /\ Len(FlattenSeq(chain)) < Word
  BY ChecksumAssumption DEF Byte, Word
<1>2. PICK f : Parts(f, chain)
  BY <1>1, PartsExist
<1>3. Len(chain) \in Nat /\ \A i \in 1..Len(chain) : chain[i] \in Seq(Byte)
  BY <1>1
<1>4. FlattenSeq(chain) \in Seq(Byte)
  <2>1. Len(chain) \in 0..Len(chain)
    BY <1>3
  <2> QED BY <1>2, <2>1, Zenon DEF Parts
<1>5. Len(FlattenSeq(chain)) \in 0..Word - 1
  BY <1>1, <1>4, WordSize
<1>6. ASSUME NEW i \in 1..Len(chain)
      PROVE  Len(chain[i]) < Word
  <2>1. Len(chain[i]) <= Len(FlattenSeq(chain))
    BY <1>1, <1>2, PartsLen
  <2>2. Len(chain[i]) \in Nat
    BY <1>3
  <2> QED BY <1>5, <2>1, <2>2, WordSize
<1> QED BY <1>1, <1>3, <1>4, <1>5, <1>6

\* At the start nothing is added up.
LEMMA ChksumInitInv ==
  ASSUME ChksumInit
  PROVE  ChksumInv
<1>1. /\ chain \in Chains /\ src \in Addresses /\ dest \in Addresses /\ proto \in Protos
      /\ q = 0 /\ acc = 0 /\ swapped = FALSE /\ result = NoResult
  BY DEF ChksumInit
<1>2. PICK f : Parts(f, chain)
  BY <1>1, ChainTypes, PartsExist
<1>3. f[q] = <<>>
  BY <1>1, <1>2 DEF Parts
<1>4. AddedUp(<<>>, 0, FALSE)
  <2>1. <<>> \in Seq(Byte) /\ Len(<<>>) = 0 /\ 0 % 2 # 1 /\ 0 < Word
    BY WordSize
  <2>2. NetworkSum(<<>>) = 0
    <3>1. PICK g : Sums(g, <<>>) /\ NetworkSum(<<>>) = g[Len(<<>>)]
      BY <2>1, NetworkSumIs
    <3> QED BY <2>1, <3>1, Zenon DEF Sums
  <2>3. Base * 0 = 0 /\ Cong(0, 0)
    BY CongRefl, WordSize
  <2> QED BY <2>1, <2>2, <2>3, Zenon DEF AddedUp
<1>5. 0 \in 0..Len(chain) /\ 0 \in 0..Word - 1
  BY <1>1, ChainTypes, WordSize
<1> QED BY <1>1, <1>2, <1>3, <1>4, <1>5, Zenon DEF ChksumInv

\* The step of the loop.
LEMMA AddBufferInv ==
  ASSUME ChksumInv, AddBuffer
  PROVE  ChksumInv'
<1> DEFINE k == q + 1
           a == Folded(U32(acc + lwip_standard_chksum(chain[k])))
           odd == Len(chain[k]) % 2 # 0
<1>1. /\ q < Len(chain) /\ q' = k
      /\ acc' = IF odd THEN Swap(a) ELSE a
      /\ swapped' = IF odd THEN ~swapped ELSE swapped
      /\ chain' = chain /\ src' = src /\ dest' = dest /\ proto' = proto /\ result' = result
  BY Zenon DEF AddBuffer
<1>2. /\ chain \in Chains /\ src \in Addresses /\ dest \in Addresses /\ proto \in Protos
      /\ q \in 0..Len(chain) /\ acc \in 0..Word - 1 /\ swapped \in BOOLEAN
      /\ \/ result = NoResult
         \/ result \in 0..Word - 1 /\ ReceivedSum % (Word - 1) = 0 /\ ReceivedSum > 0
  BY Zenon DEF ChksumInv
<1>3. PICK f : Parts(f, chain) /\ AddedUp(f[q], acc, swapped)
  BY Zenon DEF ChksumInv
<1>4. /\ k \in 1..Len(chain) /\ k \in 0..Len(chain) /\ k - 1 = q
      /\ chain[k] \in Seq(Byte) /\ Len(chain[k]) < Word
  <2>1. k \in 1..Len(chain) /\ k \in 0..Len(chain) /\ k - 1 = q
    BY <1>1, <1>2, ChainTypes
  <2> QED BY <1>2, <2>1, ChainTypes, Zenon
<1> HIDE DEF k
<1>5. f[q] \in Seq(Byte) /\ f[k] = f[q] \o chain[k]
  BY <1>2, <1>3, <1>4, Zenon DEF Parts
<1>6. /\ a \in 0..Word - 1 /\ Swap(a) \in 0..Word - 1
      /\ odd => AddedUp(f[k], Swap(a), ~swapped)
      /\ ~odd => AddedUp(f[k], a, swapped)
  <2>1. RoundAdds(f[q], chain[k], acc, swapped)
    BY <1>2, <1>3, <1>4, <1>5, BufferAdded, Zenon
  <2> QED BY <1>5, <2>1, Zenon DEF RoundAdds
<1> HIDE DEF a, odd
<1>7. acc' \in 0..Word - 1 /\ swapped' \in BOOLEAN /\ AddedUp(f[q'], acc', swapped')
  <2>1. CASE odd
    BY <1>1, <1>2, <1>6, <2>1, Zenon
  <2>2. CASE ~odd
    BY <1>1, <1>2, <1>6, <2>2, Zenon
  <2> QED BY <2>1, <2>2
<1>8. ReceivedSum' = ReceivedSum
  BY <1>1, Zenon DEF ReceivedSum
<1>9. Parts(f, chain') /\ q' \in 0..Len(chain') /\ chain' \in Chains
  BY <1>1, <1>2, <1>3, <1>4, Zenon
<1>10. \/ result' = NoResult
       \/ result' \in 0..Word - 1 /\ ReceivedSum' % (Word - 1) = 0 /\ ReceivedSum' > 0
  BY <1>1, <1>2, <1>8, Zenon
<1> QED BY <1>1, <1>2, <1>7, <1>9, <1>10, Zenon DEF ChksumInv

\* The step behind the loop.
LEMMA AddPseudoHeaderInv ==
  ASSUME ChksumInv, AddPseudoHeader
  PROVE  ChksumInv'
<1> DEFINE t == FlattenSeq(chain)
           a == IF swapped THEN Swap(acc) ELSE acc
           c == Complement(Folded(U32(a + Halves(src) + Halves(dest) + htons(proto)
                                        + ProtoLen(Len(t)))))
<1>1. /\ q = Len(chain) /\ result' = c
      /\ chain' = chain /\ src' = src /\ dest' = dest /\ proto' = proto /\ q' = q
      /\ acc' = acc /\ swapped' = swapped
  BY Zenon DEF AddPseudoHeader
<1>2. /\ chain \in Chains /\ src \in Addresses /\ dest \in Addresses /\ proto \in Protos
      /\ q \in 0..Len(chain) /\ acc \in 0..Word - 1 /\ swapped \in BOOLEAN
  BY Zenon DEF ChksumInv
<1>3. PICK f : Parts(f, chain) /\ AddedUp(f[q], acc, swapped)
  BY Zenon DEF ChksumInv
<1>4. t \in Seq(Byte) /\ Len(t) \in 0..Word - 1 /\ f[q] = t
  BY <1>1, <1>2, <1>3, ChainTypes, Zenon DEF Parts
<1>5. src \in [1..4 -> Byte] /\ dest \in [1..4 -> Byte] /\ proto \in Byte
  BY <1>2, ChecksumAssumption DEF Byte
<1>6. NetworkSum(t) \in Nat
  BY <1>4, ConcatSum, Zenon
<1> HIDE DEF t
<1>7. a \in 0..Word - 1 /\ Weighs(a, NetworkSum(t))
  <2>1. /\ Swap(acc) \in 0..Word - 1 /\ Cong(Swap(acc), Base * acc) /\ Swap(0) = 0
        /\ \A i \in 0..Word - 1 : i \in Nat /\ i \in Int /\ Base * i \in Int
        /\ NetworkSum(t) \in Int /\ Base * NetworkSum(t) \in Int
    <3>1. \A i \in 0..Word - 1 : i \in Nat /\ i \in Int /\ Base * i \in Int
      BY WordSize
    <3>2. NetworkSum(t) \in Int /\ Base * NetworkSum(t) \in Int
      BY <1>6, WordSize
    <3>3. Swap(acc) \in 0..Word - 1 /\ Cong(Swap(acc), Base * acc) /\ Swap(0) = 0
      BY <1>2, SwapCong, Zenon
    <3> QED BY <3>1, <3>2, <3>3, Zenon
  <2>2. NetworkSum(t) = 0 => acc = 0
    BY <1>3, <1>4, Zenon DEF AddedUp
  <2>3. CASE swapped
    <3>1. Cong(acc, NetworkSum(t))
      BY <1>3, <1>4, <2>3, Zenon DEF AddedUp
    <3>2. Cong(Base * acc, Base * NetworkSum(t))
      BY <1>2, <2>1, <3>1, CongTimes, Zenon
    <3>3. Cong(Swap(acc), Base * NetworkSum(t))
      BY <1>2, <2>1, <3>2, CongTrans, Zenon
    <3> QED BY <1>6, <2>1, <2>2, <2>3, <3>3, Zenon DEF Weighs
  <2>4. CASE ~swapped
    <3>1. Cong(acc, Base * NetworkSum(t))
      BY <1>3, <1>4, <2>4, Zenon DEF AddedUp
    <3> QED BY <1>2, <1>6, <2>1, <2>2, <2>4, <3>1, Zenon DEF Weighs
  <2> QED BY <2>3, <2>4
<1> HIDE DEF a
<1>8. HeaderAdds(src, dest, proto, Len(t), NetworkSum(t), a)
  BY <1>4, <1>5, <1>6, <1>7, PseudoAccepted, Zenon
<1> DEFINE r == NetworkSum(src \o dest \o <<0, proto>> \o Bytes(Len(t))) + NetworkSum(t)
                  + NetworkSum(Stored(c))
<1>9. c \in 0..Word - 1 /\ r % (Word - 1) = 0 /\ r > 0
  BY <1>8, Zenon DEF HeaderAdds
<1>10. ReceivedSum' = r
  BY <1>1, Zenon DEF ReceivedSum, t
<1> HIDE DEF c, r
<1>11. Parts(f, chain') /\ AddedUp(f[q'], acc', swapped')
  BY <1>1, <1>3, Zenon
<1>12. result' \in 0..Word - 1 /\ ReceivedSum' % (Word - 1) = 0 /\ ReceivedSum' > 0
  BY <1>1, <1>9, <1>10, Zenon
<1> QED BY <1>1, <1>2, <1>11, <1>12, Zenon DEF ChksumInv

\* The inductive invariant: what is added up so far is right as a sum with
\* end-around carry, in memory order unless swapped.
LEMMA ChksumInvariant == ChksumSpec => []ChksumInv
<1>1. ChksumInit => ChksumInv
  BY ChksumInitInv
<1>2. ChksumInv /\ [ChksumNext]_chksum_vars => ChksumInv'
  <2> SUFFICES ASSUME ChksumInv, [ChksumNext]_chksum_vars
               PROVE  ChksumInv'
    OBVIOUS
  <2>1. CASE AddBuffer
    BY <2>1, AddBufferInv
  <2>2. CASE AddPseudoHeader
    BY <2>2, AddPseudoHeaderInv
  <2>3. CASE UNCHANGED chksum_vars
    <3>1. /\ chain' = chain /\ src' = src /\ dest' = dest /\ proto' = proto /\ q' = q
          /\ acc' = acc /\ swapped' = swapped /\ result' = result
      BY <2>3 DEF chksum_vars
    <3>2. ReceivedSum' = ReceivedSum
      BY <3>1, Zenon DEF ReceivedSum
    <3> QED BY <3>1, <3>2, Zenon DEF ChksumInv
  <2> QED BY <2>1, <2>2, <2>3, Zenon DEF ChksumNext
<1> QED BY <1>1, <1>2, PTL DEF ChksumSpec

\* The carry of t_inet_chksum_pseudo stays a u16 after every buffer of the
\* chain, and the result is one.
THEOREM ChksumTypeCorrect == ChksumSpec => []ChksumTypeOK
<1>1. ChksumInv => ChksumTypeOK
  <2>1. NoResult \in 0..NoResult /\ 0..Word - 1 \subseteq 0..NoResult
    BY WordSize DEF NoResult, Word
  <2> QED BY <2>1, Zenon DEF ChksumInv, ChksumTypeOK
<1> QED BY <1>1, ChksumInvariant, PTL

\* Whatever the packet, however it is cut into the buffers of a chain, a
\* receiver that sums up pseudo header, packet and the checksum
\* t_inet_chksum_pseudo returns gets all ones.
THEOREM ReceiverAcceptsAlways == ChksumSpec => []ReceiverAccepts
<1>1. ChksumInv => ReceiverAccepts
  BY Zenon DEF ChksumInv, ReceiverAccepts
<1> QED BY <1>1, ChksumInvariant, PTL

\* Whatever the header, summed up with the result of t_inet_chksum over it in
\* its checksum field it gives all ones.
THEOREM HeaderAcceptedAlways == ChksumSpec => []HeaderAccepted
<1>1. ASSUME chain \in Chains, NEW i \in 1..Len(chain)
      PROVE  LET n == NetworkSum(chain[i]) + NetworkSum(Stored(t_inet_chksum(chain[i])))
             IN n % (Word - 1) = 0 /\ n > 0
  <2> DEFINE s == chain[i]
             g == lwip_standard_chksum(s)
  <2>1. s \in Seq(Byte) /\ Len(s) < Word
    BY <1>1, ChainTypes, Zenon
  <2> HIDE DEF s
  <2>2. /\ NetworkSum(s) \in Nat /\ g \in 0..Word - 1 /\ Cong(g, Base * NetworkSum(s))
        /\ NetworkSum(s) = 0 => g = 0
    BY <2>1, ChksumCong, Zenon
  <2>3. g \in Nat /\ g < Word * Word
    <3>1. \A x \in 0..Word - 1 : x \in Nat /\ x < Word * Word
      BY WordSize
    <3> QED BY <2>2, <3>1, Zenon
  <2>4. LET n == NetworkSum(s) + NetworkSum(Stored(Complement(Folded(g))))
        IN n % (Word - 1) = 0 /\ n > 0
    BY <2>2, <2>3, Complements, Zenon
  <2> QED BY <2>4, Zenon DEF t_inet_chksum, s
<1>2. ChksumInv => HeaderAccepted
  BY <1>1, Zenon DEF ChksumInv, HeaderAccepted
<1> QED BY <1>2, ChksumInvariant, PTL

=============================================================================
