----------------------------- MODULE TTcpThreads -----------------------------
(***************************************************************************)
(* t_tcp_connect in the main thread against t_tcp_input in the tcpip task. *)
(* The pools take a lock, the pcb has none.  An action is one operation on *)
(* the pbuf pool, one transmission, or the run of plain reads and writes   *)
(* of the pcb between two of those; a compiler and a second core may       *)
(* interleave more finely still.                                           *)
(*                                                                         *)
(*   app   t_tcp_connect (core/t_tcp.c), with t_tcp_enqueue and t_tcp_     *)
(*         output (core/t_tcp_out.c) for the SYN, then tcp_keepalive, as   *)
(*         user/s_main.c calls them                                        *)
(*   task  t_tcp_input, t_tcp_process (core/t_tcp_in.c), t_tcp_output      *)
(*                                                                         *)
(* The only segment is the SYN, so a queue is NULL or SYN.  Windows,       *)
(* lengths and the bytes of data are module TTcp's.                        *)
(*                                                                         *)
(* An action that precedes one like it under a name that says what is      *)
(* wrong is a fault the properties are known to find; Next leaves it out.  *)
(***************************************************************************)
EXTENDS Integers, FiniteSets

CONSTANTS POOL,        \* T_PBUF_POOL_SIZE
          KEEPALIVES   \* how often main calls tcp_keepalive

ASSUME ThreadsAssumption == POOL \in Nat \ {0} /\ KEEPALIVES \in Nat

VARIABLES pcb,     \* the fields of the pcb the two threads share
          buf,     \* free pbufs
          syn,     \* the SYN's memory: "free", "seg" (no pbuf yet) or "full"
          app, task, \* where each thread is
          calls,   \* calls of tcp_keepalive so far
          frame,   \* the segment t_tcp_input works on, in a pbuf of its own
          wire,    \* what has been transmitted
          lent,    \* pbufs in use elsewhere
          up       \* FALSE once the process is gone

vars == <<pcb, buf, syn, app, task, calls, frame, wire, lent, up>>

\* The answer to the SYN; a SYN|ACK or any other segment left from an earlier
\* run, which used the same ports (t_tcp_new_port starts over).
Kinds == {"synack", "stale_synack", "other"}

\* unsent and unacked hold the SYN or nothing; local_ip is set or still 0.
Init ==
  /\ pcb = [state |-> "CLOSED", snd_queuelen |-> 0, local_ip |-> FALSE,
            unsent |-> FALSE, unacked |-> FALSE, ack_now |-> FALSE]
  /\ buf = POOL /\ syn = "free" /\ lent = 0
  /\ app = "connect" /\ task = "idle" /\ calls = 0
  /\ frame = "none" /\ wire = {} /\ up = TRUE

-----------------------------------------------------------------------------
(* The main thread.                                                         *)

\* t_tcp_connect's assignments, and T_TCP_REG.
AppOpen ==
  /\ up /\ app = "connect" /\ app' = "seg"
  /\ pcb' = [pcb EXCEPT !.state = "SYN_SENT"]
  /\ UNCHANGED <<buf, syn, task, calls, frame, wire, lent, up>>

\* The tcp_seg.  Its pool cannot be empty: no other connection is open.
AppAllocSeg ==
  /\ up /\ app = "seg" /\ app' = "buf"
  /\ syn' = "seg"
  /\ UNCHANGED <<pcb, buf, task, calls, frame, wire, lent, up>>

AppAllocBuf ==
  /\ up /\ app = "buf" /\ buf > 0 /\ app' = "queue"
  /\ buf' = buf - 1 /\ syn' = "full"
  /\ UNCHANGED <<pcb, task, calls, frame, wire, lent, up>>

\* memerr: t_tcp_connect fails and leaves the pcb registered in SYN_SENT.
\* main does not look at the result.
AppNoBuf ==
  /\ up /\ app = "buf" /\ buf = 0 /\ app' = "returned"
  /\ syn' = "free"
  /\ UNCHANGED <<pcb, buf, task, calls, frame, wire, lent, up>>

\* The end of t_tcp_enqueue.
AppQueue ==
  /\ up /\ app = "queue" /\ app' = "output"
  /\ pcb' = [pcb EXCEPT !.unsent = TRUE, !.snd_queuelen = @ + 1]
  /\ UNCHANGED <<buf, syn, task, calls, frame, wire, lent, up>>

\* t_tcp_output takes the SYN off unsent; t_tcp_output_segment sets local_ip.
AppTake ==
  /\ up /\ app = "output" /\ app' = "transmit"
  /\ pcb' = [pcb EXCEPT !.unsent = FALSE, !.local_ip = TRUE]
  /\ UNCHANGED <<buf, syn, task, calls, frame, wire, lent, up>>

AppTransmit ==
  /\ up /\ app = "transmit" /\ app' = "link"
  /\ wire' = wire \cup {"syn"}
  /\ UNCHANGED <<pcb, buf, syn, task, calls, frame, lent, up>>

\* Only then the SYN is put on unacked, and t_tcp_connect returns.
AppLink ==
  /\ up /\ app = "link" /\ app' = "returned"
  /\ pcb' = [pcb EXCEPT !.unacked = TRUE]
  /\ UNCHANGED <<buf, syn, task, calls, frame, wire, lent, up>>

AppKeepalive ==
  /\ up /\ app = "returned" /\ calls < KEEPALIVES /\ calls' = calls + 1
  /\ \/ buf > 0 /\ buf' = buf - 1 /\ app' = "keepalive"
     \/ buf = 0 /\ UNCHANGED <<buf, app>>
  /\ UNCHANGED <<pcb, syn, task, frame, wire, lent, up>>

AppKeepaliveSent ==
  /\ up /\ app = "keepalive" /\ app' = "returned"
  /\ buf' = buf + 1
  /\ UNCHANGED <<pcb, syn, task, calls, frame, wire, lent, up>>

App == AppOpen \/ AppAllocSeg \/ AppAllocBuf \/ AppNoBuf \/ AppQueue \/ AppTake \/ AppTransmit
         \/ AppLink \/ AppKeepalive \/ AppKeepaliveSent

-----------------------------------------------------------------------------
(* The tcpip task.                                                          *)

MatchesPorts == pcb.state # "CLOSED"

\* t_tcp_input's search: the local address must match as well, and the pcb
\* has none until the SYN is sent.
Matches == pcb.state # "CLOSED" /\ pcb.local_ip

TaskReceive ==
  /\ up /\ task = "idle" /\ buf > 0 /\ Matches /\ task' = "process"
  /\ \E k \in Kinds : (k = "synack" => "syn" \in wire) /\ frame' = k
  /\ buf' = buf - 1
  /\ UNCHANGED <<pcb, syn, app, calls, wire, lent, up>>

\* Any SYN|ACK in SYN_SENT is compared with pcb->unacked->tcphdr->seqno.
ReadsUnacked == up /\ task = "process" /\ pcb.state = "SYN_SENT" /\ frame # "other"

TaskFaults ==
  /\ ReadsUnacked /\ ~pcb.unacked
  /\ up' = FALSE
  /\ UNCHANGED <<pcb, buf, syn, app, task, calls, frame, wire, lent>>

\* The SYN is answered.
TaskEstablish ==
  /\ ReadsUnacked /\ pcb.unacked /\ frame = "synack" /\ task' = "release"
  /\ pcb' = [pcb EXCEPT !.state = "ESTABLISHED", !.snd_queuelen = @ - 1, !.unacked = FALSE]
  /\ UNCHANGED <<buf, syn, app, calls, frame, wire, lent, up>>

TaskReleaseSegOnly ==
  /\ up /\ task = "release" /\ task' = "output"
  /\ syn' = "free"
  /\ pcb' = [pcb EXCEPT !.ack_now = TRUE]
  /\ UNCHANGED <<buf, app, calls, frame, wire, lent, up>>

\* t_tcp_seg_free, then t_tcp_ack_now.
TaskRelease ==
  /\ up /\ task = "release" /\ task' = "output"
  /\ syn' = "free" /\ buf' = buf + 1
  /\ pcb' = [pcb EXCEPT !.ack_now = TRUE]
  /\ UNCHANGED <<app, calls, frame, wire, lent, up>>

\* Any other segment changes nothing, but t_tcp_output is called all the same.
TaskIgnore ==
  /\ up /\ task = "process" /\ task' = "output"
  /\ ReadsUnacked => pcb.unacked /\ frame = "stale_synack"
  /\ UNCHANGED <<pcb, buf, syn, app, calls, frame, wire, lent, up>>

TaskAckUnchecked ==
  /\ up /\ task = "output" /\ pcb.ack_now /\ task' = "ack"
  /\ buf' = buf - 1
  /\ pcb' = [pcb EXCEPT !.ack_now = FALSE]
  /\ UNCHANGED <<syn, app, calls, frame, wire, lent, up>>

\* t_tcp_output, unsent being empty: a pbuf for the bare ACK, and only then
\* the flag is taken back.
TaskAck ==
  /\ up /\ task = "output" /\ pcb.ack_now /\ buf > 0 /\ task' = "ack"
  /\ buf' = buf - 1
  /\ pcb' = [pcb EXCEPT !.ack_now = FALSE]
  /\ UNCHANGED <<syn, app, calls, frame, wire, lent, up>>

TaskAckSent ==
  /\ up /\ task = "ack" /\ task' = "free"
  /\ wire' = wire \cup {"ack"} /\ buf' = buf + 1
  /\ UNCHANGED <<pcb, syn, app, calls, frame, lent, up>>

TaskNoAckFlagDropped ==
  /\ up /\ task = "output" /\ (pcb.ack_now => buf = 0) /\ task' = "free"
  /\ pcb' = [pcb EXCEPT !.ack_now = FALSE]
  /\ UNCHANGED <<buf, syn, app, calls, frame, wire, lent, up>>

\* Nothing due, or no pbuf (ERR_BUF): a later segment tries again.
TaskNoAck ==
  /\ up /\ task = "output" /\ (pcb.ack_now => buf = 0) /\ task' = "free"
  /\ UNCHANGED <<pcb, buf, syn, app, calls, frame, wire, lent, up>>

\* Back in t_raw_input, which frees the frame.
TaskFree ==
  /\ up /\ task = "free" /\ task' = "idle"
  /\ buf' = buf + 1 /\ frame' = "none"
  /\ UNCHANGED <<pcb, syn, app, calls, wire, lent, up>>

Task == TaskReceive \/ TaskFaults \/ TaskEstablish \/ TaskRelease \/ TaskIgnore \/ TaskAck
          \/ TaskAckSent \/ TaskNoAck \/ TaskFree

-----------------------------------------------------------------------------
\* The rest of the program takes pbufs and returns them.
Lend   == /\ up /\ buf > 0 /\ buf' = buf - 1 /\ lent' = lent + 1
          /\ UNCHANGED <<pcb, syn, app, task, calls, frame, wire, up>>
Return == /\ up /\ lent > 0 /\ buf' = buf + 1 /\ lent' = lent - 1
          /\ UNCHANGED <<pcb, syn, app, task, calls, frame, wire, up>>

Next == App \/ Task \/ Lend \/ Return
Spec == Init /\ [][Next]_vars

-----------------------------------------------------------------------------
\* The values of the state; snd_queuelen (u8) does not wrap, and no pool
\* counter leaves its pool.
TypeOK ==
  /\ pcb \in [state : {"CLOSED", "SYN_SENT", "ESTABLISHED"}, snd_queuelen : 0..1,
              local_ip : BOOLEAN, unsent : BOOLEAN, unacked : BOOLEAN, ack_now : BOOLEAN]
  /\ buf \in 0..POOL /\ lent \in 0..POOL /\ syn \in {"free", "seg", "full"}
  /\ app \in {"connect", "seg", "buf", "queue", "output", "transmit", "link", "returned", "keepalive"}
  /\ task \in {"idle", "process", "release", "output", "ack", "free"}
  /\ calls \in 0..KEEPALIVES /\ frame \in Kinds \cup {"none"}
  /\ wire \subseteq {"syn", "ack"} /\ up \in BOOLEAN

\* However the threads interleave, the SYN's pbuf is returned exactly once,
\* and every other pbuf is free, lent, the frame's, a bare ACK's or a
\* keepalive's.
PbufsExact ==
  POOL = buf + lent + Cardinality({h \in {"syn", "frame", "ack", "keepalive"} :
                                     \/ h = "syn" /\ syn = "full"
                                     \/ h = "frame" /\ frame # "none"
                                     \/ h = "ack" /\ task = "ack"
                                     \/ h = "keepalive" /\ app = "keepalive"})

\* Once t_tcp_process is done with the SYN|ACK, the ACK it is owed is sent,
\* due, or being sent, although the pool may be empty when it is tried.
HandshakeAckOwed ==
  pcb.state = "ESTABLISHED" =>
    pcb.ack_now \/ "ack" \in wire \/ task \in {"release", "ack"}

\* A SYN|ACK, of this run or an earlier one, is dangerous only while main is
\* between taking the SYN off unsent and putting it on unacked; before, and
\* for ever after a failed t_tcp_connect, the address check keeps it away from
\* the empty list.
FaultOnlyWhileSending == ~up => app \in {"transmit", "link"}

\* t_tcp.h: unacked is the list of "Sent but unacknowledged segments".  When
\* the answer to the SYN is processed, the SYN is on it.
SentIsUnacked == ReadsUnacked /\ frame = "synack" => pcb.unacked
=============================================================================
