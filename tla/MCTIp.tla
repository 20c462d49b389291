------------------------------- MODULE MCTIp -------------------------------
(* Frames with headers of every length and of none, cut off in or behind   *)
(* each header, short, padded, as long as a buffer and longer; a table of  *)
(* two rows for three hardware addresses.                                  *)
EXTENDS TIp, TLC
CONSTANTS m1, m2, m3, i1, i2
MCMacs == {m1, m2, m3}
MCIps  == {i1, i2}

Ip(proto, wire, hl, ulen, thl) ==
  [type |-> "ip", proto |-> proto, wire |-> wire, hl |-> hl, ulen |-> ulen, thl |-> thl]

MCFrames ==
  {Ip("icmp", 14 + hl + n, hl, 0, 0) : hl \in {0, 4, 8, 12, 16, 20, 24, 28, 32, 60}, n \in {0, 1, 40}}
  \cup {Ip("icmp", 1514, 28, 0, 0)}
  \cup {Ip("udp", 14 + hl + n, hl, ulen, 0) :
          hl \in {0, 20, 60}, n \in {7, 8, 18}, ulen \in {0, 7, 8, 10, 18, 65535}}
  \cup {Ip("udp", wire, 20, ulen, 0) : wire \in {1514, 1515}, ulen \in {1480, 1481}}
  \cup {Ip("tcp", 14 + hl + n, hl, 0, thl) :
          hl \in {0, 20, 60}, n \in {0, 19, 20, 21, 59, 60}, thl \in {0, 20, 24, 60}}
  \cup {Ip("tcp", 1514, 20, 0, 20)}
  \cup {Ip("other", wire, 20, 0, 0) : wire \in {14, 60}}
  \cup [type : {"arp"}, wire : {14, 41, 42, 60}, for_us : BOOLEAN, opcode : {"request"},
        mac : {NoMac}, ip : {NoIp}]   \* not looked at
  \cup [type : {"arp"}, wire : {41, 60}, for_us : {TRUE}, opcode : {"reply"},
        mac : MCMacs, ip : MCIps \cup {NoIp}]
Symmetry == Permutations(MCMacs) \cup Permutations(MCIps)
=============================================================================
