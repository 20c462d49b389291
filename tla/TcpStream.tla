----------------------------- MODULE TcpStream -----------------------------
(***************************************************************************)
(* What t_tcp_connect, t_tcp_write and t_tcp_output promise together: a    *)
(* handshake that happens once, then a stream: the bytes the application   *)
(* was told are accepted go on the wire once, in order, and none of them   *)
(* before the peer has answered the SYN.                                   *)
(***************************************************************************)
EXTENDS Naturals

CONSTANT Limit  \* bytes a connection may buffer

VARIABLES phase,     \* "closed", "opening", "open"
          accepted,  \* bytes taken from the application
          sent,      \* bytes transmitted
          up

vars == <<phase, accepted, sent, up>>

Init == phase = "closed" /\ accepted = 0 /\ sent = 0 /\ up = TRUE

Open == /\ up /\ phase = "closed" /\ phase' = "opening"
        /\ UNCHANGED <<accepted, sent, up>>

Write == /\ up /\ phase # "closed"
         /\ accepted' \in accepted + 1 .. Limit
         /\ UNCHANGED <<phase, sent, up>>

\* The answer to the SYN; what was accepted meanwhile may go out with it.
Answered == /\ up /\ phase = "opening" /\ phase' = "open"
            /\ sent' \in sent .. accepted
            /\ UNCHANGED <<accepted, up>>

Transmit == /\ up /\ phase = "open"
            /\ sent' \in sent + 1 .. accepted
            /\ UNCHANGED <<phase, accepted, up>>

Halt == up /\ up' = FALSE /\ UNCHANGED <<phase, accepted, sent>>

Next == Open \/ Write \/ Answered \/ Transmit \/ Halt
Spec == Init /\ [][Next]_vars
=============================================================================
