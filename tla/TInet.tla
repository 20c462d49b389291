------------------------------- MODULE TInet -------------------------------
(***************************************************************************)
(* The Internet checksum (core/t_inet.c): lwip_standard_chksum,            *)
(* t_inet_chksum, and t_inet_chksum_pseudo with its loop over a chain of   *)
(* buffers, one step of the loop an action.  A byte is a digit to base     *)
(* Base (256), so that u16 is modulo Base^2 and u32 modulo Base^4; the     *)
(* machine is little endian, and memory is read in words as it lies there. *)
(*                                                                         *)
(* An operator or action that precedes one like it under a name that says  *)
(* what is wrong is a fault the properties are known to find; nothing uses *)
(* it.                                                                     *)
(***************************************************************************)
EXTENDS Naturals, SequencesExt

CONSTANTS Base,
          Chains,   \* the chains of buffers to sum up, each a sequence of bytes
          Addresses, \* of the pseudo header, four bytes in network order
          Protos

ASSUME ChecksumAssumption ==
  \* To base 2 the seven words AddPseudoHeader adds up would not fit the u32.
  /\ Base \in Nat \ 0..2
  /\ Chains \subseteq Seq(Seq(0..Base - 1)) /\ Addresses \subseteq [1..4 -> 0..Base - 1]
  /\ Protos \subseteq 0..Base - 1
  \* A sum of as many words as there are bytes in a packet fits the u32.
  /\ \A c \in Chains : Len(FlattenSeq(c)) < Base * Base

VARIABLES chain, src, dest, proto,   \* the arguments
          q,        \* buffers of the chain done
          acc, swapped,
          result

chksum_vars == <<chain, src, dest, proto, q, acc, swapped, result>>
NoResult == Base * Base   \* no u16

Word == Base * Base
U32(n) == n % (Word * Word)
htons(n) == (n % Base) * Base + ((n \div Base) % Base)

FoldOnce(n) == (n \div Word) + (n % Word)

\* "while (acc >> 16)": a u32 is below Word after at most two rounds.
Folded(n) == IF n < Word THEN n ELSE IF FoldOnce(n) < Word THEN FoldOnce(n) ELSE FoldOnce(FoldOnce(n))

OddByteHigh(s) == Base * Last(s)

\* htons of the last byte shifted up: the low half of a word in memory.
OddByte(s) == Last(s)

\* The words as the machine reads them, and the odd byte.
WordSum(s) ==
  LET sum[i \in 0..Len(s) \div 2] ==
        IF i = 0 THEN 0 ELSE sum[i - 1] + (s[2 * i - 1] + Base * s[2 * i])
  IN U32(sum[Len(s) \div 2] + (IF Len(s) % 2 = 1 THEN OddByte(s) ELSE 0))

lwip_standard_chksum(s) ==
  LET a == FoldOnce(WordSum(s))
  IN (IF a \div Word # 0 THEN FoldOnce(a) ELSE a) % Word

\* ~acc as a u16.
Complement(n) == Word - 1 - n
t_inet_chksum(s) == Complement(Folded(lwip_standard_chksum(s)))

-----------------------------------------------------------------------------
(* t_inet_chksum_pseudo.                                                    *)

ChksumInit ==
  /\ chain \in Chains /\ src \in Addresses /\ dest \in Addresses /\ proto \in Protos
  /\ q = 0 /\ acc = 0 /\ swapped = FALSE /\ result = NoResult

NotSwapped(a) == a

\* The two bytes of a word exchanged.
Swap(a) == (a % Base) * Base + ((a \div Base) % Base)

AddBuffer ==
  /\ q < Len(chain) /\ q' = q + 1
  /\ LET a == Folded(U32(acc + lwip_standard_chksum(chain[q'])))
         odd == Len(chain[q']) % 2 # 0
     IN /\ acc' = IF odd THEN Swap(a) ELSE a
        /\ swapped' = IF odd THEN ~swapped ELSE swapped
  /\ UNCHANGED <<chain, src, dest, proto, result>>

\* The two halves of an address as they lie in memory.
Halves(a) == (a[1] + Base * a[2]) + (a[3] + Base * a[4])

\* The length in the pseudo header, which is the packet's.
ProtoLen(n) == htons(n % Word)

AddPseudoHeader ==
  /\ q = Len(chain) /\ result = NoResult
  /\ LET a == IF swapped THEN Swap(acc) ELSE acc
     IN result' = Complement(Folded(U32(a + Halves(src) + Halves(dest) + htons(proto)
                                          + ProtoLen(Len(FlattenSeq(chain))))))
  /\ UNCHANGED <<chain, src, dest, proto, q, acc, swapped>>

ChksumNext == AddBuffer \/ AddPseudoHeader
ChksumSpec == ChksumInit /\ [][ChksumNext]_chksum_vars

-----------------------------------------------------------------------------
(* The definition in RFC 1071, in network byte order.                       *)

\* The words of s, most significant byte first, padded with a zero byte.
NetworkSum(s) ==
  LET sum[i \in 0..Len(s)] ==
        IF i = 0 THEN 0 ELSE sum[i - 1] + (IF i % 2 = 1 THEN Base * s[i] ELSE s[i])
  IN sum[Len(s)]

\* A number as two bytes in network order; a word of memory as its two bytes.
Bytes(n)  == <<n \div Base, n % Base>>
Stored(n) == <<n % Base, n \div Base>>

\* What a receiver sums up: pseudo header, packet, and the checksum as stored.
ReceivedSum ==
  NetworkSum(src \o dest \o <<0, proto>> \o Bytes(Len(FlattenSeq(chain))))
    + NetworkSum(FlattenSeq(chain)) + NetworkSum(Stored(result))

ChksumTypeOK ==
  /\ q \in 0..Len(chain) /\ acc \in 0..Word - 1 /\ swapped \in BOOLEAN
  /\ result \in 0..NoResult

\* However the packet is split over the chain, into pieces of even or odd
\* length, the receiver's sum over it and the stored checksum is all ones:
\* byte order, odd bytes and carries included.
ReceiverAccepts == result # NoResult => ReceivedSum % (Word - 1) = 0 /\ ReceivedSum > 0

\* A header whose checksum field was zero sums up to all ones with the result
\* of t_inet_chksum in it (t_ip_output, t_icmp_input).
HeaderAccepted ==
  \A i \in 1..Len(chain) :
    LET n == NetworkSum(chain[i]) + NetworkSum(Stored(t_inet_chksum(chain[i])))
    IN n % (Word - 1) = 0 /\ n > 0
=============================================================================
