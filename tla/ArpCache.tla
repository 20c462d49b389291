------------------------------ MODULE ArpCache ------------------------------
(***************************************************************************)
(* What the ARP table promises: a partial function from hardware addresses *)
(* to the IP address last told for each, with room for Size of them.  An   *)
(* entry is never given up, so that once it is full no other is added.     *)
(***************************************************************************)
EXTENDS FiniteSets, Naturals

CONSTANTS Macs, Ips, Size

VARIABLE cache

Init == cache = [m \in {} |-> m]

Learn(m, i) ==
  /\ m \in DOMAIN cache \/ Cardinality(DOMAIN cache) < Size
  /\ cache' = [x \in DOMAIN cache \cup {m} |-> IF x = m THEN i ELSE cache[x]]

Next == \E m \in Macs, i \in Ips : Learn(m, i)
Spec == Init /\ [][Next]_cache
=============================================================================
