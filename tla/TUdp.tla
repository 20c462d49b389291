-------------------------------- MODULE TUdp --------------------------------
(***************************************************************************)
(* The list of UDP pcbs (core/t_udp.c): the main thread creates, binds,    *)
(* connects and removes pcbs while t_udp_input walks the list in the tcpip *)
(* task.  The pool of pcbs takes a lock (module Memp), the list none.  A   *)
(* step of the walk is one pcb; of the calls, what is modelled of them     *)
(* half done is the moment before t_udp_pcbs is assigned and the one       *)
(* between unlinking a pcb and freeing it.  (t_udp_bind sets address and   *)
(* port one after the other, here in one step: a pcb whose old or new      *)
(* values a datagram is for is not one the properties speak of.)           *)
(*                                                                         *)
(* A block that is freed keeps its contents until t_udp_new clears it, so  *)
(* fields are kept for every block.  The application uses a pcb from       *)
(* t_udp_new to t_udp_remove.                                              *)
(*                                                                         *)
(* An operator or action that precedes one like it under a name that says  *)
(* what is wrong is a fault the properties are known to find; nothing uses *)
(* it.                                                                     *)
(***************************************************************************)
EXTENDS Naturals, FiniteSets

CONSTANTS Pcbs,        \* the blocks of pool T_MEMP_UDP_PCB
          Ports,       \* ports the application binds to, not 0
          Addrs, ANY,  \* IP addresses pcbs are bound to, and the one among them that is 0.0.0.0
          Dsts,        \* the addresses of these that datagrams come for
          PortSpace,   \* a port is a u16: taken modulo PortSpace
          RANGE_START, \* UDP_LOCAL_PORT_RANGE_START
          MaxCount,    \* bound on the ports given out for port 0
          NULL

ASSUME UdpAssumption ==
  /\ IsFiniteSet(Pcbs) /\ NULL \notin Pcbs
  /\ ANY \in Addrs /\ Dsts \subseteq Addrs
  /\ PortSpace \in Nat \ {0} /\ Ports \subseteq 1..PortSpace - 1
  /\ RANGE_START \in 1..PortSpace - 1
  /\ MaxCount \in Nat

VARIABLES t_udp_pcbs,    \* head of the list
          next, local_ip, port, connected, recv,  \* of each block; recv: a callback is set
          start_count,
          free, live,    \* in the pool; in the application's hands
          app, acur,     \* where the main thread is, and on which pcb
          task, pcb, dest, dst,  \* t_udp_input: where, the cursor, the datagram's port and address
          up,
          \* history: pcbs on the list; since the walk began, the pcbs that
          \* the datagram was for all along, whether t_udp_new was called, and
          \* whether the callback about to be called was taken off its pcb
          listed, steady, fresh, unset

fields  == <<next, local_ip, port, connected, recv>>
taskv   == <<task, pcb, dest, dst>>
history == <<listed, steady, fresh, unset>>
vars    == <<t_udp_pcbs, fields, start_count, free, live, app, acur, taskv, up, history>>

Init ==
  /\ t_udp_pcbs = NULL /\ listed = {}
  /\ next = [p \in Pcbs |-> NULL]
  /\ local_ip = [p \in Pcbs |-> ANY] /\ port = [p \in Pcbs |-> 0]
  /\ connected = [p \in Pcbs |-> FALSE] /\ recv = [p \in Pcbs |-> FALSE]
  /\ start_count = 0
  /\ free = Pcbs /\ live = {}
  /\ app = "idle" /\ acur = NULL
  /\ task = "idle" /\ pcb = NULL /\ dest = 0 /\ dst = ANY
  /\ up = TRUE /\ steady = {} /\ fresh = FALSE /\ unset = FALSE

\* The k-th pcb of the list, NULL beyond its end.
At[k \in Nat] ==
  IF k = 0 THEN t_udp_pcbs
  ELSE IF At[k - 1] = NULL THEN NULL ELSE next[At[k - 1]]
Indices == 0..Cardinality(Pcbs)

-----------------------------------------------------------------------------
(* The main thread.                                                         *)

\* t_udp_new: a block, cleared.
New ==
  /\ up /\ app = "idle"
  /\ \E p \in free :
       /\ free' = free \ {p} /\ live' = live \cup {p}
       /\ next' = [next EXCEPT ![p] = NULL]
       /\ local_ip' = [local_ip EXCEPT ![p] = ANY] /\ port' = [port EXCEPT ![p] = 0]
       /\ connected' = [connected EXCEPT ![p] = FALSE] /\ recv' = [recv EXCEPT ![p] = FALSE]
  /\ fresh' = (task # "idle")
  /\ UNCHANGED <<t_udp_pcbs, start_count, app, acur, taskv, up, listed, steady, unset>>

NeverListed(p) == FALSE

\* The search for a pcb that is on the list already.
OnList(p) == \E k \in Indices : At[k] = p

EphemeralInt == RANGE_START + start_count

\* The port given out for port 0.
Ephemeral == (RANGE_START + start_count) % PortSpace

\* t_udp_bind(p, a, q), up to the assignment of t_udp_pcbs; then says what
\* follows in the caller.
BindTo(p, a, q, then) ==
  /\ local_ip' = [local_ip EXCEPT ![p] = a] /\ port' = [port EXCEPT ![p] = q]
  /\ steady' = IF a = dst /\ q = dest THEN steady ELSE steady \ {p}
  /\ IF OnList(p)
     THEN app' = then /\ acur' = (IF then = "idle" THEN NULL ELSE p) /\ UNCHANGED next
     ELSE app' = (IF then = "idle" THEN "push" ELSE "push_flag")
          /\ next' = [next EXCEPT ![p] = t_udp_pcbs] /\ acur' = p
  /\ UNCHANGED <<t_udp_pcbs, connected, recv, free, live, taskv, up, listed, fresh, unset>>

\* To an address of the program or, for NULL, to 0.0.0.0.
Bind ==
  /\ up /\ app = "idle"
  /\ \E p \in live, a \in Addrs :
       \/ \E q \in Ports : BindTo(p, a, q, "idle") /\ UNCHANGED start_count
       \/ /\ start_count < MaxCount /\ start_count' = start_count + 1
          /\ BindTo(p, a, Ephemeral, "idle")

\* t_udp_bind puts the pcb in front.
Push ==
  /\ up
  /\ t_udp_pcbs' = acur /\ listed' = listed \cup {acur}
  /\ \/ app = "push" /\ app' = "idle" /\ acur' = NULL
     \/ app = "push_flag" /\ app' = "flag" /\ UNCHANGED acur
  /\ UNCHANGED <<fields, start_count, free, live, taskv, up, steady, fresh, unset>>

\* t_udp_connect of a pcb with a port ...
Connect ==
  /\ up /\ app = "idle"
  /\ \E p \in live : port[p] # 0 /\ acur' = p
  /\ app' = "flag"
  /\ UNCHANGED <<t_udp_pcbs, fields, start_count, free, live, taskv, up, history>>

\* ... and of one without: it is bound to port 0 first, and to the address it
\* has, which is 0.0.0.0 if it was never bound to another.
ConnectUnbound ==
  /\ up /\ app = "idle"
  /\ start_count < MaxCount /\ start_count' = start_count + 1
  /\ \E p \in live : port[p] = 0 /\ BindTo(p, local_ip[p], Ephemeral, "flag")

Flag ==
  /\ up /\ app = "flag" /\ app' = "idle" /\ acur' = NULL
  /\ connected' = [connected EXCEPT ![acur] = TRUE]
  /\ UNCHANGED <<t_udp_pcbs, next, local_ip, port, recv, start_count, free, live, taskv, up, history>>

\* t_set_udp_recv: a callback, or NULL.
SetRecv ==
  /\ up /\ app = "idle"
  /\ \E p \in live, set \in BOOLEAN :
       /\ recv' = [recv EXCEPT ![p] = set]
       /\ unset' = (unset \/ (task = "call" /\ p = pcb /\ ~set))
  /\ UNCHANGED <<t_udp_pcbs, next, local_ip, port, connected, start_count, free, live, app, acur, taskv, up, listed, steady, fresh>>

UnlinkedCleared(p) ==
  [q \in Pcbs |-> IF q = p THEN NULL ELSE IF OnList(q) /\ next[q] = p THEN next[p] ELSE next[q]]

\* The pcb in front of p on the list points behind it.
Unlinked(p) == [q \in Pcbs |-> IF OnList(q) /\ next[q] = p THEN next[p] ELSE next[q]]

\* t_udp_remove takes the pcb off the list ...
Remove ==
  /\ up /\ app = "idle" /\ app' = "free"
  /\ \E p \in live :
       /\ \/ t_udp_pcbs = p /\ t_udp_pcbs' = next[p] /\ UNCHANGED next
          \/ t_udp_pcbs # p /\ next' = Unlinked(p) /\ UNCHANGED t_udp_pcbs
       /\ acur' = p
       /\ live' = live \ {p} /\ listed' = listed \ {p} /\ steady' = steady \ {p}
  /\ UNCHANGED <<local_ip, port, connected, recv, start_count, free, taskv, up, fresh, unset>>

\* ... and frees it, the walk or the callback using it or not.
Free ==
  /\ up /\ app = "free" /\ app' = "idle" /\ acur' = NULL
  /\ free' = free \cup {acur}
  /\ UNCHANGED <<t_udp_pcbs, fields, start_count, live, taskv, up, history>>

-----------------------------------------------------------------------------
(* t_udp_input in the tcpip task.                                           *)

appAll == <<t_udp_pcbs, fields, start_count, free, live, app, acur, listed>>

\* A datagram for port d at address a, its lengths checked.  Nobody has
\* compared the address with one of ours, nor does 0.0.0.0 in a pcb stand for
\* any address.
Begin ==
  /\ up /\ task = "idle" /\ task' = "walk"
  /\ pcb' = t_udp_pcbs
  /\ \E d \in Ports \cup {RANGE_START}, a \in Dsts :
       /\ dest' = d /\ dst' = a
       /\ steady' = {p \in listed : connected[p] /\ port[p] = d /\ local_ip[p] = a}
  /\ UNCHANGED <<appAll, up, fresh, unset>>

Wanted(p) == connected[p] /\ port[p] = dest /\ local_ip[p] = dst

Step ==
  /\ up /\ task = "walk" /\ pcb # NULL /\ ~Wanted(pcb)
  /\ pcb' = next[pcb]
  /\ UNCHANGED <<appAll, task, dest, dst, up, steady, fresh, unset>>

HasPcb == pcb # NULL

\* if (pcb != NULL && pcb->recv)
HasCallback == pcb # NULL /\ recv[pcb]

Stop ==
  /\ up /\ task = "walk" /\ (pcb # NULL => Wanted(pcb))
  /\ task' = IF HasCallback THEN "call" ELSE "end"
  /\ UNCHANGED <<appAll, pcb, dest, dst, up, steady, fresh, unset>>

\* pcb->recv(...), which is read again.
Call ==
  /\ up /\ task = "call"
  /\ \/ recv[pcb] /\ task' = "end" /\ UNCHANGED up
     \/ ~recv[pcb] /\ up' = FALSE /\ UNCHANGED task
  /\ UNCHANGED <<appAll, pcb, dest, dst, steady, fresh, unset>>

End ==
  /\ up /\ task = "end" /\ task' = "idle"
  /\ pcb' = NULL /\ dest' = 0 /\ dst' = ANY /\ steady' = {} /\ fresh' = FALSE /\ unset' = FALSE
  /\ UNCHANGED <<appAll, up>>

Next == New \/ Bind \/ Push \/ Connect \/ ConnectUnbound \/ Flag \/ SetRecv \/ Remove \/ Free
          \/ Begin \/ Step \/ Stop \/ Call \/ End
Spec == Init /\ [][Next]_vars

-----------------------------------------------------------------------------
\* Links lead to blocks of the pool or nowhere, and a port given out fits u16.
TypeOK ==
  /\ t_udp_pcbs \in Pcbs \cup {NULL} /\ next \in [Pcbs -> Pcbs \cup {NULL}]
  /\ local_ip \in [Pcbs -> Addrs] /\ port \in [Pcbs -> 0..PortSpace - 1]
  /\ connected \in [Pcbs -> BOOLEAN] /\ recv \in [Pcbs -> BOOLEAN]
  /\ start_count \in 0..MaxCount
  /\ free \subseteq Pcbs /\ live \subseteq Pcbs
  /\ app \in {"idle", "push", "push_flag", "flag", "free"} /\ acur \in Pcbs \cup {NULL}
  /\ task \in {"idle", "walk", "call", "end"} /\ pcb \in Pcbs \cup {NULL}
  /\ dest \in 0..PortSpace - 1 /\ dst \in Addrs /\ up \in BOOLEAN

\* Whatever is bound, rebound, connected and removed in whatever order, the
\* list ends, has every bound pcb once, and none that was removed or freed.
ListExact ==
  /\ At[Cardinality(Pcbs)] = NULL
  /\ {At[k] : k \in Indices} \ {NULL} = listed
  /\ \A j, k \in Indices : At[j] = At[k] /\ At[j] # NULL => j = k
  /\ listed \subseteq live

\* A datagram finds a pcb that is connected and bound to its port and address
\* all through the walk, although others are bound, rebound and removed under
\* it, unless a pcb is created meanwhile: the block may be one the walk stands
\* on or is led to.
NotMissed == task = "end" /\ pcb = NULL => steady = {} \/ fresh

\* The callback that was there when it was looked for is gone when it is
\* called only if t_set_udp_recv took it off the pcb in between, or the pcb was
\* removed, freed and handed out again; bind, connect, remove and free of any
\* pcb, this one too, do not take it away.
NullCallOnlyIfTakenAway == ~up => fresh \/ unset
=============================================================================
