------------------------------- MODULE Tcpip -------------------------------
(***************************************************************************)
(* The threads of the program and the two pools they share.                *)
(*                                                                         *)
(*   rx    the pcap thread: ether0_recv_data (user/s_main.c) and           *)
(*         t_tcpip_input (api/t_tcpip.c)                                   *)
(*   task  t_tcpip_task (api/t_tcpip.c) and the t_raw_input it calls       *)
(*         (core/t_ip.c), down to inp->output                              *)
(*   app   main (user/s_main.c): start-up, the udp test and the tcp test    *)
(*                                                                         *)
(* One action is one atomic region: a pool operation (TASKSUSPENDALL to    *)
(* TASKRESUMEALL), a mailbox operation (one system call), or private work  *)
(* up to the next of these.  The pools are sets (module Memp shows why     *)
(* they may be), the mailbox is the System V queue behind t_sys_mbox_*.    *)
(* A TCP connection is here what it holds for long: its SYN's buffer, from *)
(* t_tcp_connect until a SYN|ACK comes, or for ever.  (Data would be held  *)
(* the same way, but t_tcp_write has no caller in the program.)            *)
(*                                                                         *)
(* An action that precedes one like it under a name that says what is      *)
(* wrong is a fault the properties are known to find; Next leaves it out.  *)
(***************************************************************************)
EXTENDS Naturals, Sequences, FiniteSets

CONSTANTS Pbufs,    \* the buffers of t_pbuf.c
          Msgs,     \* the blocks of pool T_MEMP_TCPIP_MSG
          MboxCap,  \* messages the System V queue holds
          T_MEMP_NUM_TCP_PCB,  \* TCP pcbs, which are never given back
          NULL

ASSUME CapAssumption  == MboxCap \in Nat \ {0}

\* 2 pcbs and 30 buffers in the build.
ASSUME PcbAssumption ==
  IsFiniteSet(Pbufs) /\ T_MEMP_NUM_TCP_PCB \in 0..Cardinality(Pbufs) - 1

\* What the frame makes t_raw_input do: answer in the same buffer (ARP
\* request, ICMP echo), answer in a buffer of its own (a TCP segment, after
\* which a connection owes an ACK), or nothing.  A frame longer than a buffer is
\* "long".
Frames == {"echo", "tcp", "quiet"}

ASSUME NullAssumption == NULL \notin Pbufs \cup Msgs \cup Frames

VARIABLES pbuf_free, msg_free,
          frame,    \* what each buffer holds that came from rx; NULL once it is freed
          inp,      \* msg->msg.inp.p of each message
          mbox,     \* messages in the queue
          mbox_id,  \* "open", or "null" when msgget failed
          rx_pc, rx_p, rx_m,
          task_pc, task_m, task_p, task_a,
          app_pc, app_p,
          pcbs_left,  \* in the pool of TCP pcbs
          unacked,    \* buffers of the SYNs on the pcbs' unacked lists
          output,   \* netif->output has been assigned
          up        \* FALSE once the process is gone

pools == <<pbuf_free, msg_free>>
rxv   == <<rx_pc, rx_p, rx_m>>
taskv == <<task_pc, task_m, task_p, task_a>>
appv  == <<app_pc, app_p, output>>
tcpv  == <<pcbs_left, unacked>>
vars  == <<pools, frame, inp, mbox, mbox_id, rxv, taskv, appv, tcpv, up>>

Init ==
  /\ pbuf_free = Pbufs
  /\ msg_free = Msgs
  /\ frame = [p \in Pbufs |-> NULL]
  /\ inp = [m \in Msgs |-> NULL]
  /\ mbox = <<>>
  /\ mbox_id \in {"open", "null"}
  /\ rx_pc = "wait"    /\ rx_p = NULL   /\ rx_m = NULL
  /\ task_pc = "fetch" /\ task_m = NULL /\ task_p = NULL /\ task_a = NULL
  /\ app_pc = "start"  /\ app_p = NULL  /\ output = FALSE
  /\ pcbs_left = T_MEMP_NUM_TCP_PCB /\ unacked = {}
  /\ up = TRUE

Crash == up' = FALSE

-----------------------------------------------------------------------------
(* The receive thread.                                                      *)

\* ether0_recv_data with a buffer to spare: allocate it and copy the frame.
RxAlloc(f) ==
  /\ up /\ rx_pc = "wait"
  /\ \E p \in pbuf_free : /\ rx_p' = p
                          /\ pbuf_free' = pbuf_free \ {p}
                          /\ frame' = [frame EXCEPT ![p] = f]
  /\ rx_pc' = "input"
  /\ UNCHANGED <<msg_free, inp, mbox, mbox_id, rx_m, taskv, appv, tcpv, up>>

\* t_pbuf_alloc answers NULL, pool empty or frame too long: the frame is lost.
RxDrop(f) ==
  /\ up /\ rx_pc = "wait"
  /\ f = "long" \/ pbuf_free = {}
  /\ UNCHANGED vars

\* t_tcpip_input with a message to spare.
RxMsg ==
  /\ up /\ rx_pc = "input"
  /\ \E m \in msg_free : /\ rx_m' = m
                         /\ msg_free' = msg_free \ {m}
                         /\ inp' = [inp EXCEPT ![m] = rx_p]
  /\ rx_pc' = "post"
  /\ UNCHANGED <<pbuf_free, frame, mbox, mbox_id, rx_p, taskv, appv, tcpv, up>>

RxNoMsgPostsAnyway ==
  /\ up /\ rx_pc = "input" /\ msg_free = {}
  /\ rx_pc' = "post"
  /\ UNCHANGED <<pools, frame, inp, mbox, mbox_id, rx_p, rx_m, taskv, appv, tcpv, up>>

RxNoMsgKeepsBuffer ==
  /\ up /\ rx_pc = "input" /\ msg_free = {}
  /\ rx_p' = NULL /\ rx_pc' = "wait"
  /\ UNCHANGED <<pools, frame, inp, mbox, mbox_id, rx_m, taskv, appv, tcpv, up>>

\* t_tcpip_input without one: the frame's buffer goes back.
RxNoMsg ==
  /\ up /\ rx_pc = "input" /\ msg_free = {}
  /\ pbuf_free' = pbuf_free \cup {rx_p} /\ frame' = [frame EXCEPT ![rx_p] = NULL]
  /\ rx_p' = NULL /\ rx_pc' = "wait"
  /\ UNCHANGED <<msg_free, inp, mbox, mbox_id, rx_m, taskv, appv, tcpv, up>>

RxPostFrees ==
  /\ up /\ rx_pc = "post"
  /\ mbox_id = "open" /\ Len(mbox) < MboxCap /\ mbox' = Append(mbox, rx_m)
  /\ pbuf_free' = pbuf_free \cup {rx_p}
  /\ rx_p' = NULL /\ rx_m' = NULL /\ rx_pc' = "wait"
  /\ UNCHANGED <<msg_free, frame, inp, mbox_id, taskv, appv, tcpv, up>>

\* t_sys_mbox_post.  msgsnd blocks while the queue is full.  With no queue the
\* post fails, and t_tcpip_input returns without freeing anything.
RxPost ==
  /\ up /\ rx_pc = "post"
  /\ \/ mbox_id = "open" /\ Len(mbox) < MboxCap /\ mbox' = Append(mbox, rx_m)
     \/ mbox_id = "null" /\ UNCHANGED mbox
  /\ rx_p' = NULL /\ rx_m' = NULL /\ rx_pc' = "wait"
  /\ UNCHANGED <<pools, frame, inp, mbox_id, taskv, appv, tcpv, up>>

-----------------------------------------------------------------------------
(* The tcpip task.  A fetch from a queue that does not exist fails and the  *)
(* loop goes round; nothing changes.                                        *)

TaskFetch ==
  /\ up /\ task_pc = "fetch" /\ mbox_id = "open" /\ mbox # <<>>
  /\ task_m' = Head(mbox) /\ mbox' = Tail(mbox)
  /\ task_p' = inp[Head(mbox)]
  /\ task_pc' = "input"
  /\ UNCHANGED <<pools, frame, inp, mbox_id, task_a, rxv, appv, tcpv, up>>

\* A frame that is owed no answer: t_raw_input goes on to its t_pbuf_free.
\* No connection exists, and no ACK is owed, before main leaves t_netif_add.
TaskQuiet ==
  /\ up /\ task_pc = "input"
  /\ frame[task_p] = "quiet" \/ (frame[task_p] = "tcp" /\ ~output)
  /\ task_pc' = "free"
  /\ UNCHANGED <<pools, frame, inp, mbox, mbox_id, task_m, task_p, task_a, rxv, appv, tcpv, up>>

TaskReplyFrees ==
  /\ up /\ task_pc = "input" /\ frame[task_p] = "echo" /\ output
  /\ pbuf_free' = pbuf_free \cup {task_p}
  /\ task_pc' = "free"
  /\ UNCHANGED <<msg_free, frame, inp, mbox, mbox_id, task_m, task_p, task_a, rxv, appv, tcpv, up>>

\* The reply is built over the request and sent; t_raw_input frees it.
TaskReply ==
  /\ up /\ task_pc = "input" /\ frame[task_p] = "echo" /\ output
  /\ task_pc' = "free"
  /\ UNCHANGED <<pools, frame, inp, mbox, mbox_id, task_m, task_p, task_a, rxv, appv, tcpv, up>>

\* t_netif_add starts the receive thread (init) before it assigns
\* netif->output: a reply in between is a call through NULL.
TaskReplyTooEarly ==
  /\ up /\ task_pc = "input" /\ frame[task_p] = "echo" /\ ~output
  /\ Crash
  /\ UNCHANGED <<pools, frame, inp, mbox, mbox_id, taskv, rxv, appv, tcpv>>

\* The SYN|ACK of a connection: its SYN leaves unacked and is freed, and the
\* connection owes an ACK (t_tcp_process).
TaskSynAck ==
  /\ up /\ task_pc = "input" /\ frame[task_p] = "tcp" /\ output
  /\ \E p \in unacked : unacked' = unacked \ {p} /\ pbuf_free' = pbuf_free \cup {p}
  /\ task_pc' = "ack"
  /\ UNCHANGED <<msg_free, frame, inp, mbox, mbox_id, task_m, task_p, task_a, rxv, appv, pcbs_left, up>>

\* One that comes before the SYN is on unacked is compared with what unacked
\* points to, NULL (module TTcpThreads).
TaskSynAckTooEarly ==
  /\ up /\ task_pc = "input" /\ frame[task_p] = "tcp" /\ output /\ app_pc = "syn"
  /\ Crash
  /\ UNCHANGED <<pools, frame, inp, mbox, mbox_id, taskv, rxv, appv, tcpv>>

\* The ACK owed now, or since an earlier segment, needs a second buffer; without
\* one t_tcp_output gives up and the ACK stays owed (module TTcp).
TaskAckAlloc ==
  /\ up /\ task_pc \in {"input", "ack"} /\ frame[task_p] = "tcp" /\ output
  /\ \/ /\ \E p \in pbuf_free : task_a' = p /\ pbuf_free' = pbuf_free \ {p}
        /\ task_pc' = "send"
     \/ /\ pbuf_free = {}
        /\ task_pc' = "free"
        /\ UNCHANGED <<pbuf_free, task_a>>
  /\ UNCHANGED <<msg_free, frame, inp, mbox, mbox_id, task_m, task_p, rxv, appv, tcpv, up>>

TaskAckSend ==
  /\ up /\ task_pc = "send"
  /\ pbuf_free' = pbuf_free \cup {task_a}
  /\ task_a' = NULL /\ task_pc' = "free"
  /\ UNCHANGED <<msg_free, frame, inp, mbox, mbox_id, task_m, task_p, rxv, appv, tcpv, up>>

TaskKeepsPbuf ==
  /\ up /\ task_pc = "free"
  /\ task_p' = NULL /\ task_pc' = "done"
  /\ UNCHANGED <<pools, frame, inp, mbox, mbox_id, task_m, task_a, rxv, appv, tcpv, up>>

\* The t_pbuf_free at the end of t_raw_input ...
TaskFreePbuf ==
  /\ up /\ task_pc = "free"
  /\ pbuf_free' = pbuf_free \cup {task_p} /\ frame' = [frame EXCEPT ![task_p] = NULL]
  /\ task_p' = NULL /\ task_pc' = "done"
  /\ UNCHANGED <<msg_free, inp, mbox, mbox_id, task_m, task_a, rxv, appv, tcpv, up>>

\* ... and the t_memp_free at the end of the task's loop body.
TaskFreeMsg ==
  /\ up /\ task_pc = "done"
  /\ msg_free' = msg_free \cup {task_m}
  /\ task_m' = NULL /\ task_pc' = "fetch"
  /\ UNCHANGED <<pbuf_free, frame, inp, mbox, mbox_id, task_p, task_a, rxv, appv, tcpv, up>>

-----------------------------------------------------------------------------
(* The main thread.                                                         *)

\* The last assignment of t_netif_add; the receive thread already runs.
AppStart ==
  /\ up /\ app_pc = "start"
  /\ output' = TRUE /\ app_pc' = "idle"
  /\ UNCHANGED <<pools, frame, inp, mbox, mbox_id, taskv, rxv, app_p, tcpv, up>>

\* The buffer of the udp test, or of tcp_keepalive.
AppAlloc ==
  /\ up /\ app_pc = "idle"
  /\ \E p \in pbuf_free : app_p' = p /\ pbuf_free' = pbuf_free \ {p}
  /\ app_pc' = "send"
  /\ UNCHANGED <<msg_free, frame, inp, mbox, mbox_id, taskv, rxv, output, tcpv, up>>

\* tcp_keepalive checks for NULL and returns; the udp test copies its payload
\* to p->payload unchecked, which ends the process.
AppNoBuffer ==
  /\ up /\ app_pc = "idle" /\ pbuf_free = {}
  /\ Crash \/ UNCHANGED up
  /\ UNCHANGED <<pools, frame, inp, mbox, mbox_id, taskv, rxv, appv, tcpv>>

\* t_udp_send and tcp_keepalive free the buffer once it is on the wire.
AppSend ==
  /\ up /\ app_pc = "send"
  /\ pbuf_free' = pbuf_free \cup {app_p}
  /\ app_p' = NULL /\ app_pc' = "idle"
  /\ UNCHANGED <<msg_free, frame, inp, mbox, mbox_id, taskv, rxv, output, tcpv, up>>

\* The tcp test: t_tcp_new takes a pcb, from a pool nobody else uses, and
\* t_tcp_connect a buffer for the SYN.  Without one the call fails, which main
\* does not look at; the pcb is gone all the same.
AppConnect ==
  /\ up /\ app_pc = "idle" /\ pcbs_left > 0
  /\ pcbs_left' = pcbs_left - 1
  /\ \/ /\ \E p \in pbuf_free : app_p' = p /\ pbuf_free' = pbuf_free \ {p}
        /\ app_pc' = "syn"
     \/ pbuf_free = {} /\ UNCHANGED <<app_pc, app_p, pbuf_free>>
  /\ UNCHANGED <<msg_free, frame, inp, mbox, mbox_id, taskv, rxv, output, unacked, up>>

\* t_tcp_new answers NULL, which t_tcp_connect writes through.
AppNoPcb ==
  /\ up /\ app_pc = "idle" /\ pcbs_left = 0
  /\ Crash
  /\ UNCHANGED <<pools, frame, inp, mbox, mbox_id, taskv, rxv, appv, tcpv>>

\* t_tcp_output has sent the SYN and puts it on unacked, where it stays.
AppSynSent ==
  /\ up /\ app_pc = "syn"
  /\ unacked' = unacked \cup {app_p}
  /\ app_p' = NULL /\ app_pc' = "idle"
  /\ UNCHANGED <<pools, frame, inp, mbox, mbox_id, taskv, rxv, output, pcbs_left, up>>

\* The user ends the program.
AppExit ==
  /\ up /\ app_pc = "idle"
  /\ Crash
  /\ UNCHANGED <<pools, frame, inp, mbox, mbox_id, taskv, rxv, appv, tcpv>>

-----------------------------------------------------------------------------
RxReceive == \E f \in Frames : RxAlloc(f)
RxLose    == \E f \in Frames \cup {"long"} : RxDrop(f)
RxRest    == RxMsg \/ RxNoMsg \/ RxPost
Rx        == RxReceive \/ RxLose \/ RxRest
Task      == TaskFetch \/ TaskQuiet \/ TaskReply \/ TaskReplyTooEarly
               \/ TaskSynAck \/ TaskSynAckTooEarly \/ TaskAckAlloc
               \/ TaskAckSend \/ TaskFreePbuf \/ TaskFreeMsg
AppKey    == AppAlloc \/ AppNoBuffer \/ AppConnect \/ AppNoPcb \/ AppExit
AppRest   == AppStart \/ AppSend \/ AppSynSent
App       == AppKey \/ AppRest

Next == Rx \/ Task \/ App

\* The scheduler runs every thread; frames and the user come and go at will, so
\* reception and what begins with a key carry no fairness, and nobody need ever
\* answer a SYN.
Fairness == WF_vars(RxRest) /\ WF_vars(Task) /\ WF_vars(AppRest)

Spec == Init /\ [][Next]_vars /\ Fairness

-----------------------------------------------------------------------------
\* Program counters, buffers and messages stay in their ranges; in particular
\* only blocks of the message pool are ever posted.
TypeOK ==
  /\ pbuf_free \subseteq Pbufs /\ msg_free \subseteq Msgs
  /\ frame \in [Pbufs -> Frames \cup {NULL}]
  /\ inp \in [Msgs -> Pbufs \cup {NULL}]
  /\ mbox \in Seq(Msgs) /\ mbox_id \in {"open", "null"}
  /\ rx_pc \in {"wait", "input", "post"}
  /\ rx_p \in Pbufs \cup {NULL} /\ rx_m \in Msgs \cup {NULL}
  /\ task_pc \in {"fetch", "input", "ack", "send", "free", "done"}
  /\ task_m \in Msgs \cup {NULL}
  /\ task_p \in Pbufs \cup {NULL} /\ task_a \in Pbufs \cup {NULL}
  /\ app_pc \in {"start", "idle", "send", "syn"} /\ app_p \in Pbufs \cup {NULL}
  /\ pcbs_left \in 0..T_MEMP_NUM_TCP_PCB /\ unacked \subseteq Pbufs
  /\ output \in BOOLEAN /\ up \in BOOLEAN

Slots    == 1..Len(mbox)
InQueue  == {inp[mbox[i]] : i \in Slots}   \* buffers of the queued messages
MsgQueue == {mbox[i] : i \in Slots}

\* The buffer each thread has a pointer to; the task may have two.
Hand == [rx |-> rx_p, task |-> task_p, ack |-> task_a, app |-> app_p]

\* No buffer has two owners: it is free, or in one thread's hands, or in one
\* queued message, or a SYN's on unacked.  Two owners is a use after free or a
\* double free, which t_pbuf_free does not notice.
PbufOneOwner ==
  /\ \A h \in DOMAIN Hand : Hand[h] \notin pbuf_free \cup InQueue
  /\ \A g, h \in DOMAIN Hand : g # h /\ Hand[g] # NULL => Hand[g] # Hand[h]
  /\ InQueue \cap pbuf_free = {}
  /\ unacked \cap (pbuf_free \cup InQueue \cup {Hand[h] : h \in DOMAIN Hand}) = {}
  /\ \A i, j \in Slots : inp[mbox[i]] = inp[mbox[j]] => i = j

\* The same of the messages, whose links t_memp_free would tie into a knot.
MsgOneOwner ==
  /\ rx_m \notin msg_free \cup MsgQueue
  /\ task_m \notin msg_free \cup MsgQueue
  /\ rx_m # NULL => rx_m # task_m
  /\ MsgQueue \cap msg_free = {}
  /\ \A i, j \in Slots : mbox[i] = mbox[j] => i = j

OneOwner == PbufOneOwner /\ MsgOneOwner

\* While the mailbox exists nothing is lost: whatever is not free is on its
\* way back, or waits on unacked for a SYN|ACK.  (Without a mailbox, every frame
\* received is a buffer and a message gone for good: t_tcpip_input frees neither
\* when the post fails.)
NoLeak ==
  mbox_id = "open" =>
    /\ Pbufs \subseteq pbuf_free \cup InQueue \cup unacked \cup {Hand[h] : h \in DOMAIN Hand}
    /\ Msgs \subseteq msg_free \cup MsgQueue \cup {rx_m, task_m}

\* Frames accepted by t_tcpip_input are handled once each, in order and as
\* they arrived, and none waits for ever while the process lives.
Queue == INSTANCE FrameQueue WITH
           waiting <- [i \in Slots |-> frame[inp[mbox[i]]]],
           current <- IF task_p = NULL THEN NULL ELSE frame[task_p]
FifoSpec == Queue!Spec

\* An exhausted buffer pool recovers whatever the threads were doing when it
\* ran dry, although no SYN need ever be answered, so that reception and
\* transmission cannot stop for good: what is held for long is one SYN for each
\* pcb, and there are more buffers than pcbs.
PoolRecovers ==
  mbox_id = "open" /\ pbuf_free = {} ~> pbuf_free # {} \/ ~up
=============================================================================
