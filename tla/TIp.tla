-------------------------------- MODULE TIp --------------------------------
(***************************************************************************)
(* The way of a packet through the layers, in one buffer: a received frame *)
(* up through t_raw_input, t_ip_input and the protocol it is for, and what *)
(* answers or sends down through t_ip_output to the interface              *)
(* (core/t_ip.c, t_icmp.c, t_arp.c, t_udp.c, t_tcp_in.c, t_tcp_out.c,      *)
(* user/s_main.c).  Each layer moves payload by a constant of its own or   *)
(* by what the header says, with u16 lengths, and relies on the room the   *)
(* others left.  One function, or what it does between two calls, is one   *)
(* action.  Buffers are disjoint (module Tcpip), so one at a time is       *)
(* enough; what the ARP table keeps from frame to frame is in TArp.        *)
(*                                                                         *)
(* What the headers of a frame say need not fit in it, and it may end      *)
(* before they do: the code reads what the buffer held before.  Only the   *)
(* Ethernet header is there, the device sees to that.  Of contents only    *)
(* the sender's address in an echo request is followed, through the places *)
(* where t_icmp_input and t_ip_output put it.                              *)
(*                                                                         *)
(* An operator or action that precedes one like it under a name that says  *)
(* what is wrong is a fault the properties are known to find; nothing uses *)
(* it.                                                                     *)
(***************************************************************************)
EXTENDS Pbuf, TArp

CONSTANTS Frames,  \* what may arrive, see Frame
          Sizes,   \* lengths of data the program sends
          MSS      \* T_TCP_MSS

ETH   == 14   \* literal in the code
HLEN  == 20   \* T_IP_HLEN, T_TCP_HLEN
UDP_HLEN == 8
ARP_HLEN == 42  \* sizeof(struct t_etharp_hdr)
T_PBUF_TRANSPORT == ETH + HLEN + HLEN
T_PBUF_IP == ETH + HLEN

\* wire: length of the frame; hl, thl: what the IP and the TCP header say of their
\* own length, in words of four bytes; ulen: what the UDP header says of the
\* datagram's.  The length in the IP header is never read.  "other" is also any
\* version but 4.  mac and ip are looked at in a reply only.
Words == {4 * n : n \in 0..15}
Frame ==
  [type : {"arp"}, wire : ETH..U16 - 1, for_us : BOOLEAN, opcode : {"request", "reply"},
   mac : Macs \cup {NoMac}, ip : Ips \cup {NoIp}]
  \cup
  [type : {"ip"}, wire : ETH..U16 - 1, hl : Words,
   proto : {"icmp", "udp", "tcp", "other"}, ulen : 0..U16 - 1, thl : Words]

\* A reply tells a hardware address that replies may tell.
ASSUME FrameAssumption ==
  /\ Frames \subseteq Frame
  /\ \A f \in Frames : f.type = "arp" /\ f.opcode = "reply" => f.mac \in Macs
  /\ MSS \in 1..BUFSIZE - T_PBUF_TRANSPORT /\ Sizes \subseteq 1..MSS

\* A buffer has room for all headers at their longest, and t_pbuf_header lets
\* payload point behind them.
ASSUME RoomAssumption == ETH + 60 + 60 + STRUCT < BUFSIZE - 1

VARIABLES pc,
          frame,  \* the frame received, None if the program sends by itself
          p,      \* its buffer, or that of what is sent
          dst,    \* t_ip_output's argument
          data,   \* what the transport layer was given: first byte and length
          sent,   \* what the interface was given, and for whom
          packet  \* history: bytes handed to t_ip_output to carry

ipVars == <<pc, frame, p, dst, data, sent, packet>>
vars   == <<ipVars, arpVars>>

NULL == [off |-> 0, len |-> 0, tot_len |-> 0]   \* no buffer
None == [type |-> "none"]                       \* no frame
Nothing == [off |-> 0, len |-> 0, to |-> "none"]

Init ==
  /\ ArpInit
  /\ pc = "idle" /\ frame = None /\ p = NULL
  /\ dst = "none" /\ data = Nothing /\ sent = Nothing /\ packet = 0

-----------------------------------------------------------------------------
(* Up.                                                                      *)

\* ether0_recv_data, which drops what does not fit a buffer, and t_raw_input's
\* look at the frame type.
Receive ==
  /\ pc = "idle"
  /\ \E f \in Frames :
       /\ Fits(0, f.wire)
       /\ frame' = f /\ p' = t_pbuf_alloc(0, f.wire)
       /\ pc' = f.type
  /\ data' = Nothing /\ sent' = Nothing
  /\ UNCHANGED <<dst, packet, arpVars>>

\* t_ip_input: past the Ethernet header, then by protocol if there is something
\* behind the IP header.
t_ip_input ==
  /\ pc = "ip"
  /\ p' = t_pbuf_header(p, ETH)
  /\ pc' = IF p'.len > frame.hl THEN frame.proto ELSE "other"
  /\ UNCHANGED <<frame, dst, data, sent, packet, arpVars>>

\* What nobody wants.
Ignored ==
  /\ pc = "other" /\ pc' = "free"
  /\ UNCHANGED <<frame, p, dst, data, sent, packet, arpVars>>

OverlapFromOffset(a, m, b, n) == a - 2 < b + n /\ b < a + m

\* The m bytes at a and the n at b.
Overlap(a, m, b, n) == a < b + n /\ b < a + m

\* t_icmp_input answers an echo request in its buffer, behind the received IP
\* header.  t_ip_output is given a pointer into that header, where the two
\* addresses have been exchanged, and writes the new header in front of the
\* ICMP message: with options, elsewhere.  Before it reads the address
\* t_icmp_input has written type, code and checksum, and t_ip_output ttl and
\* protocol, at offset 8 of the new header.
t_icmp_input ==
  /\ pc = "icmp"
  /\ p' = t_pbuf_header(p, frame.hl)
  /\ \/ /\ frame.hl # 0   \* the type would be the byte with the version, 4
        /\ pc' = "output"
        /\ dst' = IF \/ Overlap(p'.off, 4, ETH + 16, 4)
                     \/ Overlap(t_pbuf_header(p', -HLEN).off + 8, 2, ETH + 16, 4)
                  THEN "garbled" ELSE "sender"
        /\ packet' = p'.tot_len
     \/ pc' = "free" /\ UNCHANGED <<dst, packet>>   \* no echo request
  /\ UNCHANGED <<frame, data, sent, arpVars>>

UdpDataByFrame ==
  LET q == t_pbuf_header(t_pbuf_header(p, frame.hl), UDP_HLEN)
  IN [off |-> q.off, len |-> q.tot_len, to |-> "recv"]

\* udp_recv_data: what the datagram's length says is behind its header.
UdpData ==
  LET q == t_pbuf_header(t_pbuf_header(p, frame.hl), UDP_HLEN)
  IN [off |-> q.off, len |-> (frame.ulen - UDP_HLEN) % U16, to |-> "recv"]

\* t_udp_input, with the program's callback if a pcb is found.
t_udp_input ==
  /\ pc = "udp" /\ pc' = "free"
  /\ IF p.tot_len < UDP_HLEN + frame.hl THEN UNCHANGED <<p, data>>
     ELSE LET q == t_pbuf_header(p, frame.hl)
          IN \/ p' = q /\ UNCHANGED data
             \/ /\ q.tot_len >= frame.ulen
                /\ p' = t_pbuf_header(q, UDP_HLEN)
                /\ data' = UdpData
  /\ UNCHANGED <<frame, dst, sent, packet, arpVars>>

\* t_tcp_input: both headers off, the second unchecked; the rest is the data.
t_tcp_input ==
  /\ pc = "tcp" /\ pc' = "free"
  /\ LET q == t_pbuf_header(p, frame.hl)
     IN IF ~InWindow(p.off + frame.hl) \/ q.tot_len < HLEN   \* refused, or too short
        THEN p' = q /\ UNCHANGED data
        ELSE /\ p' = t_pbuf_header(q, frame.thl)
             /\ data' = [off |-> p'.off, len |-> p'.tot_len, to |-> "inseg"]
  /\ UNCHANGED <<frame, dst, sent, packet, arpVars>>

\* t_arp_input.  A request is answered in its buffer and at its full length.
ArpRequest ==
  /\ pc = "arp" /\ p.tot_len >= ARP_HLEN /\ frame.for_us /\ frame.opcode = "request"
  /\ sent' = [off |-> p.off, len |-> p.tot_len, to |-> "sender"] /\ pc' = "free"
  /\ UNCHANGED <<frame, p, dst, data, packet, arpVars>>

ArpReplyIn ==
  /\ pc = "arp" /\ p.tot_len >= ARP_HLEN /\ frame.for_us /\ frame.opcode = "reply"
  /\ ArpReply(frame.mac, frame.ip) /\ pc' = "entering"
  /\ UNCHANGED <<frame, p, dst, data, sent, packet>>

ArpEntering ==
  /\ pc = "entering" /\ Entering
  /\ pc' = IF entering'.step = "none" THEN "free" ELSE pc
  /\ UNCHANGED <<frame, p, dst, data, sent, packet>>

\* Too short, not for us, or telling an address the table does not take.
ArpIgnored ==
  /\ pc = "arp" /\ pc' = "free"
  /\ p.tot_len >= ARP_HLEN /\ frame.for_us => frame.opcode = "reply" /\ frame.ip = NoIp
  /\ UNCHANGED <<frame, p, dst, data, sent, packet, arpVars>>

-----------------------------------------------------------------------------
(* Down.                                                                    *)

\* The program makes a packet in a new buffer, n bytes behind its headers.
Make(offset, n, inc, next) ==
  /\ pc = "idle" /\ frame' = None
  /\ Fits(offset, n)
  /\ p' = t_pbuf_header(t_pbuf_alloc(offset, n), inc)
  /\ pc' = next /\ packet' = p'.tot_len
  /\ dst' = "peer" /\ data' = Nothing /\ sent' = Nothing
  /\ UNCHANGED arpVars

SendUdpShort == \E n \in Sizes : Make(28, n, -UDP_HLEN, "output")

\* The udp test and t_udp_send; main reserves 28 + 14 bytes.
SendUdp == \E n \in Sizes : Make(28 + ETH, n, -UDP_HLEN, "output")

\* The bare ACK of t_tcp_output, and tcp_keepalive: the buffer has the header.
SendAck == Make(T_PBUF_IP, HLEN, 0, "output")

\* t_tcp_enqueue's pbuf for the SYN, whose option is four bytes.
SendSyn == Make(T_PBUF_TRANSPORT, 4, -HLEN, "output")

\* ... and for data, which later writes may be merged into.  The zero-copy
\* variant has the data copied behind an empty header pbuf by t_pbuf_cat.
SendData ==
  \E n \in Sizes : \/ Make(T_PBUF_TRANSPORT, n, -HLEN, "segment")
                   \/ /\ pc = "idle" /\ frame' = None /\ Fits(T_PBUF_TRANSPORT, 0)
                      /\ p' = t_pbuf_header(t_pbuf_cat(t_pbuf_alloc(T_PBUF_TRANSPORT, 0), n), -HLEN)
                      /\ pc' = "segment" /\ packet' = HLEN + n
                      /\ dst' = "peer" /\ data' = Nothing /\ sent' = Nothing
                      /\ UNCHANGED arpVars

\* A later write is merged into the segment: its header is taken off first.
MergedWithHeader(n) == t_pbuf_cat(p, n + HLEN)

Merged(n) ==
  LET q == t_pbuf_header(t_pbuf_header(t_pbuf_alloc(T_PBUF_TRANSPORT, n), -HLEN), HLEN)
  IN t_pbuf_cat(p, q.len)

Merge ==
  /\ pc = "segment"
  /\ \E n \in Sizes :
       /\ packet - HLEN + n <= MSS
       /\ p' = Merged(n) /\ packet' = packet + n
  /\ UNCHANGED <<pc, frame, dst, data, sent, arpVars>>

\* t_tcp_output_segment.
SendSegment ==
  /\ pc = "segment" /\ pc' = "output"
  /\ UNCHANGED <<frame, p, dst, data, sent, packet, arpVars>>

\* t_arp_request builds the whole frame.
SendArpRequest ==
  /\ pc = "idle" /\ pc' = "free" /\ frame' = None
  /\ p' = t_pbuf_alloc(0, ARP_HLEN)
  /\ sent' = [off |-> p'.off, len |-> p'.tot_len, to |-> "all"]
  /\ dst' = "all" /\ data' = Nothing /\ packet' = 0
  /\ UNCHANGED arpVars

\* t_ip_output moves payload over the IP header and does not look at the
\* result, then over the Ethernet header: if that is refused nothing is sent.
WithIpHeader == t_pbuf_header(p, -HLEN)
t_ip_output ==
  /\ pc = "output" /\ pc' = "free"
  /\ p' = t_pbuf_header(WithIpHeader, -ETH)
  /\ sent' = IF InWindow(WithIpHeader.off - ETH)
             THEN [off |-> p'.off, len |-> p'.tot_len, to |-> dst] ELSE sent
  /\ UNCHANGED <<frame, dst, data, packet, arpVars>>

\* t_raw_input and the senders free the buffer.  (A TCP segment is freed later.)
Free ==
  /\ pc = "free" /\ pc' = "idle"
  /\ p' = NULL /\ frame' = None /\ dst' = "none" /\ packet' = 0
  /\ data' = Nothing /\ sent' = Nothing
  /\ UNCHANGED arpVars

PrintTable == Printing /\ UNCHANGED ipVars

Up == Receive \/ t_ip_input \/ Ignored \/ t_icmp_input \/ t_udp_input \/ t_tcp_input
        \/ ArpRequest \/ ArpReplyIn \/ ArpEntering \/ ArpIgnored
Down == SendUdp \/ SendAck \/ SendSyn \/ SendData \/ Merge \/ SendSegment
          \/ SendArpRequest \/ t_ip_output
Next == Up \/ Down \/ Free \/ PrintTable
Spec == Init /\ [][Next]_vars

-----------------------------------------------------------------------------
\* Lengths are u16, and payload is where t_pbuf_header may leave it.
TypeOK ==
  /\ ArpTypeOK
  /\ {p.len, p.tot_len} \subseteq 0..U16 - 1 /\ InWindow(p.off)
  /\ frame \in Frames \cup {None}
  /\ dst \in {"none", "sender", "garbled", "peer", "all"}

\* A segment taken in whose TCP header is said to reach behind the frame.
PastEnd == data.to = "inseg" /\ ETH + frame.hl + frame.thl > frame.wire

\* However the layers move payload up and down, and whatever the headers say,
\* the bytes the buffer is said to have end where the frame, or what was put
\* in, ends, and inside the buffer: no move is refused on the way and later
\* undone, and no length wraps.  The one exception, exactly, is a TCP header
\* that claims more than the frame has: len and tot_len wrap by 2^16.
EndInPlace ==
  p # NULL =>
    /\ p.len = p.tot_len
    /\ frame # None => p.off + p.len = frame.wire + (IF PastEnd THEN U16 ELSE 0)
    /\ (frame = None /\ packet > 0) => p.off + p.len = T_PBUF_IP + packet
    /\ p.off + p.len <= BUFSIZE \/ PastEnd

\* The UDP callback is told where the data of the datagram are and how many, in
\* the frame, of whatever IP header length and padded or not, unless the UDP
\* header says less than its own length: then it is told of nearly 2^16.  A TCP
\* segment is taken to have all that is behind its headers, padding included,
\* or nearly 2^16 bytes if that is less than nothing.
DataExact ==
  /\ data.to = "recv" =>
       /\ data.off = ETH + frame.hl + UDP_HLEN
       /\ IF frame.ulen >= UDP_HLEN
          THEN data.len = frame.ulen - UDP_HLEN /\ data.off + data.len <= frame.wire
          ELSE data.len = U16 + frame.ulen - UDP_HLEN
  /\ data.to = "inseg" =>
       /\ data.off = ETH + frame.hl + frame.thl
       /\ data.off + data.len = frame.wire + (IF PastEnd THEN U16 ELSE 0)

\* An echo request that says its IP header has fewer bytes than any has.
ShortEcho == frame # None /\ frame.hl < HLEN

\* What is handed to t_ip_output is sent, and what reaches the interface is
\* whole: the room reserved by whoever allocated the buffer, several layers up,
\* is enough for all headers, and exactly the packet follows them.  The answer
\* to a short echo has no such room: it is not sent, or, as t_ip_output does not
\* look at the first t_pbuf_header, sent with the header over the message.
SentWhole ==
  /\ pc = "free" /\ packet > 0 =>
       IF ~ShortEcho THEN sent.to # "none" /\ sent.len = T_PBUF_IP + packet
       ELSE IF frame.hl + ETH < HLEN THEN sent.to # "none" /\ sent.len = ETH + packet
       ELSE sent.to = "none"
  /\ sent.to # "none" => sent.off >= 0 /\ sent.off + sent.len <= BUFSIZE

\* An echo request is answered to its sender, in a buffer where the answer
\* overwrites the request; not so with exactly eight bytes of IP options.
EchoToSender ==
  sent.to \in {"sender", "garbled"} =>
    (sent.to = "garbled" <=> frame.type = "ip" /\ frame.hl = 28)
=============================================================================
