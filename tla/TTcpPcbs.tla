------------------------------ MODULE TTcpPcbs ------------------------------
(***************************************************************************)
(* The list tcp_active_pcbs.  The main thread allocates pcbs (t_tcp_new)   *)
(* and registers each when it connects it (T_TCP_REG, include/t_tcp.h);    *)
(* t_tcp_input searches the list in the tcpip task and moves the pcb it    *)
(* found to the front (core/t_tcp_in.c).  Neither takes a lock.  A step    *)
(* is one access to the head of the list or to a link that the other       *)
(* thread follows.                                                         *)
(*                                                                         *)
(* A pcb is never freed, and the program connects each once.  What happens *)
(* to a connection besides is the subject of TTcp and TTcpThreads; here a  *)
(* segment is the pcb whose addresses and ports it carries, NULL if none.  *)
(*                                                                         *)
(* An operator or action that precedes one like it under a name that says  *)
(* what is wrong is a fault the properties are known to find; nothing uses *)
(* it.                                                                     *)
(***************************************************************************)
EXTENDS Naturals, FiniteSets

CONSTANTS Pcbs,   \* the blocks of pool T_MEMP_TCP_PCB
          NULL

ASSUME PcbAssumption == IsFiniteSet(Pcbs) /\ NULL \notin Pcbs

VARIABLES tcp_active_pcbs,  \* head of the list
          next,             \* of each pcb
          addressed,        \* pcbs whose local_ip is set: the SYN has been sent
          free,             \* the pool
          app, npcb,        \* where the main thread is, and its pcb
          task, pcb, prev, dest,  \* t_tcp_input: where, its cursors, the segment
          up,
          \* history: pcbs that were put on the list; whether dest could be
          \* found when the search began; whether a registration and a move to
          \* the front were ever under way together
          registered, due, overlapped

listv == <<tcp_active_pcbs, next>>
appv  == <<addressed, free, app, npcb, registered>>
taskv == <<task, pcb, prev, dest, due>>
vars  == <<listv, appv, taskv, up, overlapped>>

\* The k-th pcb of the list, NULL beyond its end.
At[k \in Nat] ==
  IF k = 0 THEN tcp_active_pcbs
  ELSE IF At[k - 1] = NULL THEN NULL ELSE next[At[k - 1]]
OnList == {At[k] : k \in 0..Cardinality(Pcbs)} \ {NULL}

Moving(t) == t \in {"front", "head"}

Init ==
  /\ tcp_active_pcbs = NULL /\ next = [p \in Pcbs |-> NULL]
  /\ addressed = {} /\ free = Pcbs /\ registered = {}
  /\ app = "idle" /\ npcb = NULL
  /\ task = "idle" /\ pcb = NULL /\ prev = NULL /\ dest = NULL /\ due = FALSE
  /\ up = TRUE /\ overlapped = FALSE

-----------------------------------------------------------------------------
(* The main thread: the tcp test of main.                                   *)

NewKeepsBlock ==
  /\ up /\ app = "idle" /\ app' = "link"
  /\ \E p \in free : npcb' = p /\ next' = [next EXCEPT ![p] = NULL]
  /\ UNCHANGED <<tcp_active_pcbs, addressed, free, registered, taskv, up, overlapped>>

\* t_tcp_new, and t_tcp_connect up to T_TCP_REG.
New ==
  /\ up /\ app = "idle" /\ app' = "link"
  /\ \E p \in free : npcb' = p /\ free' = free \ {p} /\ next' = [next EXCEPT ![p] = NULL]
  /\ UNCHANGED <<tcp_active_pcbs, addressed, registered, taskv, up, overlapped>>

\* The pool is empty: t_tcp_connect writes through NULL.
NewFails ==
  /\ up /\ app = "idle" /\ free = {} /\ up' = FALSE
  /\ UNCHANGED <<listv, appv, taskv, overlapped>>

LinkForgotten == next

\* npcb->next = *pcbs
Linked == [next EXCEPT ![npcb] = tcp_active_pcbs]

RegLink ==
  /\ up /\ app = "link" /\ app' = "push"
  /\ next' = Linked
  /\ overlapped' = (overlapped \/ Moving(task))
  /\ UNCHANGED <<tcp_active_pcbs, addressed, free, npcb, registered, taskv, up>>

\* *pcbs = npcb
RegPush ==
  /\ up /\ app = "push" /\ app' = "syn"
  /\ tcp_active_pcbs' = npcb
  /\ registered' = registered \cup {npcb}
  /\ UNCHANGED <<next, addressed, free, npcb, taskv, up, overlapped>>

\* The rest of t_tcp_connect: the SYN is queued and sent, or not.
ConnectEnds ==
  /\ up /\ app = "syn" /\ app' = "idle" /\ npcb' = NULL
  /\ addressed' \in {addressed, addressed \cup {npcb}}
  /\ UNCHANGED <<listv, free, registered, taskv, up, overlapped>>

App == New \/ NewFails \/ RegLink \/ RegPush \/ ConnectEnds

-----------------------------------------------------------------------------
(* The search in t_tcp_input.                                               *)

Begin ==
  /\ up /\ task = "idle" /\ task' = "walk"
  /\ dest' \in Pcbs \cup {NULL}
  /\ pcb' = tcp_active_pcbs /\ prev' = NULL
  /\ due' = (dest' \in registered \cap addressed)
  /\ UNCHANGED <<listv, appv, up, overlapped>>

\* Ports and both addresses are those of the segment.
Matches(p) == p = dest /\ p \in addressed

Step ==
  /\ up /\ task = "walk" /\ pcb # NULL /\ ~Matches(pcb)
  /\ prev' = pcb /\ pcb' = next[pcb]
  /\ UNCHANGED <<listv, appv, task, dest, due, up, overlapped>>

KeptInPlace == next

\* prev->next = pcb->next
Unlinked == [next EXCEPT ![prev] = next[pcb]]

Found ==
  /\ up /\ task = "walk" /\ pcb # NULL /\ Matches(pcb)
  /\ \/ prev = NULL /\ task' = "end" /\ UNCHANGED <<next, overlapped>>
     \/ /\ prev # NULL /\ task' = "front"
        /\ next' = Unlinked
        /\ overlapped' = (overlapped \/ app = "push")
  /\ UNCHANGED <<tcp_active_pcbs, appv, pcb, prev, dest, due, up>>

NotLinked == next

\* pcb->next = tcp_active_pcbs
LinkedInFront == [next EXCEPT ![pcb] = tcp_active_pcbs]

MoveLink ==
  /\ up /\ task = "front" /\ task' = "head"
  /\ next' = LinkedInFront
  /\ UNCHANGED <<tcp_active_pcbs, appv, pcb, prev, dest, due, up, overlapped>>

\* tcp_active_pcbs = pcb
MovePush ==
  /\ up /\ task = "head" /\ task' = "end"
  /\ tcp_active_pcbs' = pcb
  /\ UNCHANGED <<next, appv, pcb, prev, dest, due, up, overlapped>>

NotFound ==
  /\ up /\ task = "walk" /\ pcb = NULL /\ task' = "end"
  /\ UNCHANGED <<listv, appv, pcb, prev, dest, due, up, overlapped>>

\* The segment is processed, or dropped.
End ==
  /\ up /\ task = "end" /\ task' = "idle"
  /\ pcb' = NULL /\ prev' = NULL /\ dest' = NULL /\ due' = FALSE
  /\ UNCHANGED <<listv, appv, up, overlapped>>

Search == Step \/ Found \/ MoveLink \/ MovePush \/ NotFound \/ End

Next == App \/ Begin \/ Search

\* The task runs on once it has a segment; nothing forces one to come, nor
\* the user to press a key.
Spec == Init /\ [][Next]_vars /\ WF_vars(Search)

-----------------------------------------------------------------------------
TypeOK ==
  /\ tcp_active_pcbs \in Pcbs \cup {NULL} /\ next \in [Pcbs -> Pcbs \cup {NULL}]
  /\ free \subseteq Pcbs
  /\ addressed \subseteq registered /\ registered \subseteq Pcbs \ free
  /\ app \in {"idle", "link", "push", "syn"} /\ npcb \in Pcbs \cup {NULL}
  /\ task \in {"idle", "walk", "front", "head", "end"}
  /\ pcb \in Pcbs \cup {NULL} /\ prev \in Pcbs \cup {NULL} /\ dest \in Pcbs \cup {NULL}
  /\ due \in BOOLEAN /\ up \in BOOLEAN /\ overlapped \in BOOLEAN

\* No registration ever overlapped a move to the front.  With two pcbs, as in
\* the build, none can: a move takes two on the list, besides the one being
\* connected.
Undisturbed == ~overlapped \/ Cardinality(Pcbs \ free) <= 2

\* While undisturbed, whatever T_TCP_REG and the move do to the head and the
\* links, the list ends and has exactly the registered pcbs, the one on its way
\* to the front included.  (Disturbed, a pcb may be lost, or the list be closed
\* to a ring in which the next search never ends.)
ListExact ==
  Undisturbed =>
     /\ At[Cardinality(Pcbs)] = NULL
     /\ registered = OnList \cup (IF Moving(task) THEN {pcb} ELSE {})

\* While undisturbed, a search for a pcb that could be found when it began finds
\* it, although others are registered in front meanwhile.
SearchFinds == task = "end" /\ due /\ Undisturbed => pcb = dest

\* Every search comes to an end.
SearchEnds == task # "idle" ~> (task = "idle" \/ ~up \/ overlapped)
=============================================================================
