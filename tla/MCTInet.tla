------------------------------ MODULE MCTInet ------------------------------
(* Bytes to base 3: every packet of up to four bytes, each split into up to  *)
(* three buffers in every way that matters (empty, odd and even pieces), and *)
(* longer ones of the highest byte only, which carry the most.               *)
EXTENDS TInet
MCBytes == 0..2
Strings(n) == [1..n -> MCBytes]
Split(s) == {<<s>>} \cup {<<SubSeq(s, 1, i), SubSeq(s, i + 1, j), SubSeq(s, j + 1, Len(s))>> :
                            i, j \in 0..Len(s)}
MCChains == UNION {Split(s) : s \in UNION {Strings(n) : n \in 0..4}}
              \cup {<<[i \in 1..n |-> 2]>> : n \in 5..8}
MCAddresses == {<<0, 0, 0, 0>>, <<2, 1, 0, 2>>, <<2, 2, 2, 2>>}
=============================================================================
