-------------------------- MODULE TTcpThreadsProofs --------------------------
(***************************************************************************)
(* The handshake under both threads, for any pool of pbufs, any number of  *)
(* keepalives, and any interleaving.                                       *)
(***************************************************************************)
EXTENDS TTcpThreads, FiniteSetTheorems, TLAPS

One(b) == IF b THEN 1 ELSE 0

\* How many pbufs the SYN, the frame, a bare ACK and a keepalive take.
Held == One(syn = "full") + One(frame # "none") + One(task = "ack") + One(app = "keepalive")

Lengths == 0..1
Pcb == [state : {"CLOSED", "SYN_SENT", "ESTABLISHED"}, snd_queuelen : Lengths,
        local_ip : BOOLEAN, unsent : BOOLEAN, unacked : BOOLEAN, ack_now : BOOLEAN]

Fields ==
  /\ pcb \in Pcb
  /\ syn \in {"free", "seg", "full"}
  /\ app \in {"connect", "seg", "buf", "queue", "output", "transmit", "link", "returned", "keepalive"}
  /\ task \in {"idle", "process", "release", "output", "ack", "free"}
  /\ calls \in 0..KEEPALIVES /\ frame \in Kinds \cup {"none"}
  /\ wire \subseteq {"syn", "ack"} /\ up \in BOOLEAN

Pool == buf \in Nat /\ lent \in Nat /\ POOL = buf + lent + Held

\* The SYN as t_tcp_connect leaves it at each point: what is written down of it
\* in the pcb, and whether it has its memory.
Unwritten == ~pcb.local_ip /\ ~pcb.unacked /\ pcb.snd_queuelen = 0
Connecting ==
  /\ app = "connect" => pcb.state = "CLOSED" /\ syn = "free" /\ Unwritten
  /\ app # "connect" => pcb.state # "CLOSED"
  /\ app = "seg" => syn = "free" /\ Unwritten
  /\ app = "buf" => syn = "seg" /\ Unwritten
  /\ app = "queue" => syn = "full" /\ Unwritten
  /\ app = "output" => syn = "full" /\ ~pcb.local_ip /\ ~pcb.unacked /\ pcb.snd_queuelen = 1
  /\ app \in {"transmit", "link"} =>
       /\ syn = "full" /\ pcb.local_ip /\ ~pcb.unacked /\ pcb.snd_queuelen = 1
       /\ pcb.state = "SYN_SENT"

\* And afterwards: the call failed, or the SYN waits on unacked for its answer,
\* or it is answered and its memory returned or about to be.
Connected ==
  app \in {"returned", "keepalive"} =>
    \/ ~pcb.local_ip /\ ~pcb.unacked /\ pcb.snd_queuelen = 0 /\ syn = "free"
    \/ /\ pcb.local_ip /\ pcb.unacked /\ pcb.snd_queuelen = 1 /\ syn = "full"
       /\ pcb.state = "SYN_SENT"
    \/ /\ pcb.local_ip /\ ~pcb.unacked /\ pcb.snd_queuelen = 0 /\ pcb.state = "ESTABLISHED"
       /\ syn = (IF task = "release" THEN "full" ELSE "free")

\* The task does nothing before the pcb has an address; it holds a frame
\* whenever it is busy; only an answered SYN makes it release and acknowledge.
Working ==
  /\ ~pcb.local_ip => task = "idle" /\ pcb.state # "ESTABLISHED"
  /\ task = "idle" <=> frame = "none"
  /\ task = "release" \/ pcb.ack_now => pcb.state = "ESTABLISHED"

Control == Connecting /\ Connected /\ Working /\ HandshakeAckOwed /\ FaultOnlyWhileSending

IInv == Fields /\ Pool /\ Control

-----------------------------------------------------------------------------
LEMMA AddOne ==
  ASSUME NEW S, IsFiniteSet(S), NEW x, x \notin S, NEW e \in BOOLEAN
  PROVE  /\ IsFiniteSet(IF e THEN S \cup {x} ELSE S)
         /\ Cardinality(IF e THEN S \cup {x} ELSE S) = Cardinality(S) + One(e)
<1>1. Cardinality(S) \in Nat
  BY FS_CardinalityType
<1>2. IsFiniteSet(S \cup {x}) /\ Cardinality(S \cup {x}) = Cardinality(S) + 1
  BY FS_AddElement
<1>3. CASE e
  BY <1>2, <1>3 DEF One
<1>4. CASE ~e
  BY <1>1, <1>4 DEF One
<1> QED BY <1>3, <1>4

\* The number of holders is the sum of ones.
LEMMA ExactIsHeld == PbufsExact <=> POOL = buf + lent + Held
<1> DEFINE A == IF syn = "full" THEN {} \cup {"syn"} ELSE {}
           B == IF frame # "none" THEN A \cup {"frame"} ELSE A
           C == IF task = "ack" THEN B \cup {"ack"} ELSE B
           D == IF app = "keepalive" THEN C \cup {"keepalive"} ELSE C
<1>1. D = {h \in {"syn", "frame", "ack", "keepalive"} :
             \/ h = "syn" /\ syn = "full"
             \/ h = "frame" /\ frame # "none"
             \/ h = "ack" /\ task = "ack"
             \/ h = "keepalive" /\ app = "keepalive"}
  OBVIOUS
<1>2. IsFiniteSet(A) /\ Cardinality(A) = One(syn = "full") /\ A \subseteq {"syn"}
  <2>1. IsFiniteSet({}) /\ Cardinality({}) = 0
    BY FS_EmptySet
  <2>2. IsFiniteSet(A) /\ Cardinality(A) = Cardinality({}) + One(syn = "full")
    BY <2>1, AddOne
  <2> QED BY <2>1, <2>2 DEF One
<1>3. IsFiniteSet(B) /\ Cardinality(B) = Cardinality(A) + One(frame # "none")
      /\ B \subseteq {"syn", "frame"}
  <2>1. "frame" \notin A
    BY <1>2
  <2> HIDE DEF A
  <2> QED BY <1>2, <2>1, AddOne
<1>4. IsFiniteSet(C) /\ Cardinality(C) = Cardinality(B) + One(task = "ack")
      /\ C \subseteq {"syn", "frame", "ack"}
  <2>1. "ack" \notin B
    BY <1>3
  <2> HIDE DEF B
  <2> QED BY <1>3, <2>1, AddOne
<1>5. Cardinality(D) = Cardinality(C) + One(app = "keepalive")
  <2>1. "keepalive" \notin C
    BY <1>4
  <2> HIDE DEF C
  <2> QED BY <1>4, <2>1, AddOne
<1>6. Cardinality(D) = Held
  <2> HIDE DEF A, B, C, D
  <2> QED BY <1>2, <1>3, <1>4, <1>5 DEF Held
<1>7. PbufsExact <=> POOL = buf + lent + Cardinality(D)
  <2> HIDE DEF D
  <2> QED BY <1>1, Zenon DEF PbufsExact
<1> QED
  BY <1>6, <1>7, Zenon

LEMMA InitIInv == Init => IInv
BY ThreadsAssumption
   DEF Init, IInv, Fields, Pcb, Lengths, Pool, Held, One, Control, Connecting, Unwritten,
       Connected, Working, HandshakeAckOwed, FaultOnlyWhileSending, Kinds

-----------------------------------------------------------------------------
(* The main thread.                                                         *)

LEMMA AppIInv == IInv /\ App => IInv'
<1> SUFFICES ASSUME IInv, App PROVE IInv'
  OBVIOUS
<1> USE DEF IInv, Control, Connecting, Unwritten, Connected, Working, HandshakeAckOwed,
            FaultOnlyWhileSending
<1>1. CASE AppOpen
  <2>1. Fields'
    BY <1>1 DEF AppOpen, Fields, Pcb
  <2>2. Pool'
    BY <1>1 DEF AppOpen, Fields, Pcb, Pool, Held, One
  <2>3. Control'
    BY <1>1 DEF AppOpen, Fields, Pcb
  <2> QED
    BY <2>1, <2>2, <2>3
<1>2. CASE AppAllocSeg
  <2>1. Fields'
    BY <1>2 DEF AppAllocSeg, Fields, Pcb
  <2>2. Pool'
    BY <1>2 DEF AppAllocSeg, Fields, Pcb, Pool, Held, One
  <2>3. Control'
    BY <1>2 DEF AppAllocSeg, Fields, Pcb
  <2> QED
    BY <2>1, <2>2, <2>3
<1>3. CASE AppAllocBuf
  <2>1. Fields'
    BY <1>3 DEF AppAllocBuf, Fields, Pcb
  <2>2. Pool'
    BY <1>3 DEF AppAllocBuf, Fields, Pcb, Pool, Held, One
  <2>3. Control'
    BY <1>3 DEF AppAllocBuf, Fields, Pcb
  <2> QED
    BY <2>1, <2>2, <2>3
<1>4. CASE AppNoBuf
  <2>1. Fields'
    BY <1>4 DEF AppNoBuf, Fields, Pcb
  <2>2. Pool'
    BY <1>4 DEF AppNoBuf, Fields, Pcb, Pool, Held, One
  <2>3. Control'
    BY <1>4 DEF AppNoBuf, Fields, Pcb
  <2> QED
    BY <2>1, <2>2, <2>3
<1>5. CASE AppQueue
  <2>1. pcb.snd_queuelen = 0
    BY <1>5 DEF AppQueue
  <2>2. pcb' = [pcb EXCEPT !.unsent = TRUE, !.snd_queuelen = 1]
    BY <1>5, <2>1 DEF AppQueue
  <2>3. 1 \in Lengths
    BY DEF Lengths
  <2>4. Fields'
    BY <1>5, <2>2, <2>3 DEF AppQueue, Fields, Pcb
  <2>5. Pool'
    BY <1>5 DEF AppQueue, Fields, Pcb, Pool, Held, One
  <2>6. Control'
    BY <1>5 DEF AppQueue, Fields, Pcb
  <2> QED
    BY <2>4, <2>5, <2>6
<1>6. CASE AppTake
  <2>1. Fields'
    BY <1>6 DEF AppTake, Fields, Pcb
  <2>2. Pool'
    BY <1>6 DEF AppTake, Fields, Pcb, Pool, Held, One
  <2>3. Control'
    BY <1>6 DEF AppTake, Fields, Pcb
  <2> QED
    BY <2>1, <2>2, <2>3
<1>7. CASE AppTransmit
  <2>1. Fields'
    BY <1>7 DEF AppTransmit, Fields, Pcb
  <2>2. Pool'
    BY <1>7 DEF AppTransmit, Fields, Pcb, Pool, Held, One
  <2>3. Control'
    BY <1>7 DEF AppTransmit, Fields, Pcb
  <2> QED
    BY <2>1, <2>2, <2>3
<1>8. CASE AppLink
  <2>1. Fields'
    BY <1>8 DEF AppLink, Fields, Pcb
  <2>2. Pool'
    BY <1>8 DEF AppLink, Fields, Pcb, Pool, Held, One
  <2>3. Control'
    BY <1>8 DEF AppLink, Fields, Pcb
  <2> QED
    BY <2>1, <2>2, <2>3
<1>9. CASE AppKeepalive
  <2>1. Fields'
    BY <1>9, ThreadsAssumption DEF AppKeepalive, Fields, Pcb
  <2>2. Pool'
    BY <1>9 DEF AppKeepalive, Fields, Pcb, Pool, Held, One
  <2>3. Control'
    BY <1>9 DEF AppKeepalive, Fields, Pcb
  <2> QED
    BY <2>1, <2>2, <2>3
<1>10. CASE AppKeepaliveSent
  <2>1. Fields'
    BY <1>10 DEF AppKeepaliveSent, Fields, Pcb
  <2>2. Pool'
    BY <1>10 DEF AppKeepaliveSent, Fields, Pcb, Pool, Held, One
  <2>3. Control'
    BY <1>10 DEF AppKeepaliveSent, Fields, Pcb
  <2> QED
    BY <2>1, <2>2, <2>3
<1> QED
  BY <1>1, <1>2, <1>3, <1>4, <1>5, <1>6, <1>7, <1>8, <1>9, <1>10 DEF App

-----------------------------------------------------------------------------
(* The tcpip task.                                                          *)

LEMMA TaskIInv == IInv /\ Task => IInv'
<1> SUFFICES ASSUME IInv, Task PROVE IInv'
  OBVIOUS
<1> USE DEF IInv, Control, Connecting, Unwritten, Connected, Working, HandshakeAckOwed,
            FaultOnlyWhileSending
<1>1. CASE TaskReceive
  <2>1. Fields'
    BY <1>1 DEF TaskReceive, Matches, Kinds, Fields, Pcb
  <2>2. Pool'
    BY <1>1 DEF TaskReceive, Matches, Kinds, Fields, Pcb, Pool, Held, One
  <2>3. Control'
    BY <1>1 DEF TaskReceive, Matches, Kinds, Fields, Pcb
  <2> QED
    BY <2>1, <2>2, <2>3
<1>2. CASE TaskFaults
  <2>1. Fields'
    BY <1>2 DEF TaskFaults, ReadsUnacked, Fields, Pcb
  <2>2. Pool'
    BY <1>2 DEF TaskFaults, ReadsUnacked, Fields, Pcb, Pool, Held, One
  <2>3. Control'
    BY <1>2 DEF TaskFaults, ReadsUnacked, Fields, Pcb
  <2> QED
    BY <2>1, <2>2, <2>3
<1>3. CASE TaskEstablish
  <2>1. pcb.snd_queuelen = 1
    BY <1>3 DEF TaskEstablish, ReadsUnacked, Fields, Pcb
  <2>2. pcb' = [pcb EXCEPT !.state = "ESTABLISHED", !.snd_queuelen = 0, !.unacked = FALSE]
    BY <1>3, <2>1 DEF TaskEstablish
  <2>3. 0 \in Lengths
    BY DEF Lengths
  <2>4. Fields'
    BY <1>3, <2>2, <2>3 DEF TaskEstablish, ReadsUnacked, Fields, Pcb
  <2>5. Pool'
    BY <1>3 DEF TaskEstablish, ReadsUnacked, Fields, Pcb, Pool, Held, One
  <2>6. Control'
    BY <1>3 DEF TaskEstablish, ReadsUnacked, Fields, Pcb
  <2> QED
    BY <2>4, <2>5, <2>6
<1>4. CASE TaskRelease
  <2>1. Fields'
    BY <1>4 DEF TaskRelease, Fields, Pcb
  <2>2. Pool'
    BY <1>4 DEF TaskRelease, Fields, Pcb, Pool, Held, One
  <2>3. Control'
    BY <1>4 DEF TaskRelease, Fields, Pcb
  <2> QED
    BY <2>1, <2>2, <2>3
<1>5. CASE TaskIgnore
  <2>1. Fields'
    BY <1>5 DEF TaskIgnore, ReadsUnacked, Fields, Pcb
  <2>2. Pool'
    BY <1>5 DEF TaskIgnore, ReadsUnacked, Fields, Pcb, Pool, Held, One
  <2>3. Control'
    BY <1>5 DEF TaskIgnore, ReadsUnacked, Fields, Pcb
  <2> QED
    BY <2>1, <2>2, <2>3
<1>6. CASE TaskAck
  <2>1. Fields'
    BY <1>6 DEF TaskAck, Fields, Pcb
  <2>2. Pool'
    BY <1>6 DEF TaskAck, Fields, Pcb, Pool, Held, One
  <2>3. Control'
    BY <1>6 DEF TaskAck, Fields, Pcb
  <2> QED
    BY <2>1, <2>2, <2>3
<1>7. CASE TaskAckSent
  <2>1. Fields'
    BY <1>7 DEF TaskAckSent, Fields, Pcb
  <2>2. Pool'
    BY <1>7 DEF TaskAckSent, Fields, Pcb, Pool, Held, One
  <2>3. Control'
    BY <1>7 DEF TaskAckSent, Fields, Pcb
  <2> QED
    BY <2>1, <2>2, <2>3
<1>8. CASE TaskNoAck
  <2>1. Fields'
    BY <1>8 DEF TaskNoAck, Fields, Pcb
  <2>2. Pool'
    BY <1>8 DEF TaskNoAck, Fields, Pcb, Pool, Held, One
  <2>3. Control'
    BY <1>8 DEF TaskNoAck, Fields, Pcb
  <2> QED
    BY <2>1, <2>2, <2>3
<1>9. CASE TaskFree
  <2>1. Fields'
    BY <1>9 DEF TaskFree, Kinds, Fields, Pcb
  <2>2. Pool'
    BY <1>9 DEF TaskFree, Kinds, Fields, Pcb, Pool, Held, One
  <2>3. Control'
    BY <1>9 DEF TaskFree, Kinds, Fields, Pcb
  <2> QED
    BY <2>1, <2>2, <2>3
<1> QED
  BY <1>1, <1>2, <1>3, <1>4, <1>5, <1>6, <1>7, <1>8, <1>9 DEF Task

LEMMA LoanIInv == IInv /\ (Lend \/ Return) => IInv'
<1> SUFFICES ASSUME IInv, Lend \/ Return PROVE IInv'
  OBVIOUS
<1>1. UNCHANGED <<pcb, syn, app, task, calls, frame, wire, up>> /\ buf' \in Nat /\ lent' \in Nat
      /\ buf' + lent' = buf + lent
  BY DEF Lend, Return, IInv, Pool
<1>2. Held' = Held /\ Held \in Nat
  BY <1>1 DEF Held, One
<1>3. Fields'
  BY <1>1 DEF IInv, Fields, Pcb
<1>4. Pool'
  <2>1. buf \in Nat /\ lent \in Nat /\ POOL = (buf + lent) + Held
    BY DEF IInv, Pool
  <2> QED
    BY <1>1, <1>2, <2>1 DEF Pool
<1>5. Control'
  BY <1>1 DEF IInv, Control, Connecting, Unwritten, Connected, Working, HandshakeAckOwed,
              FaultOnlyWhileSending
<1> QED
  BY <1>3, <1>5, <1>4 DEF IInv

LEMMA StutterIInv == IInv /\ UNCHANGED vars => IInv'
BY DEF vars, IInv, Fields, Pcb, Pool, Held, One, Control, Connecting, Unwritten, Connected, Working,
       HandshakeAckOwed, FaultOnlyWhileSending, ReadsUnacked

\* The invariant holds throughout: each step of either thread is accounted for
\* in the connection's stage, in the pool and in what the other thread may do.
THEOREM Invariance == Spec => []IInv
<1>1. IInv /\ [Next]_vars => IInv'
  BY AppIInv, TaskIInv, LoanIInv, StutterIInv DEF Next
<1> QED
  BY InitIInv, <1>1, PTL DEF Spec

-----------------------------------------------------------------------------
\* Nothing leaves its range: snd_queuelen, a u8 that both threads write, never
\* wraps below 0, and the pool never holds more than it was given.
THEOREM TypeCorrect == Spec => []TypeOK
<1>1. IInv => TypeOK
  BY ThreadsAssumption DEF IInv, Fields, Pcb, Lengths, Pool, Held, One, TypeOK
<1> QED
  BY Invariance, <1>1, PTL

\* No interleaving of t_tcp_connect with the answer to it loses a pbuf or
\* returns one twice.
THEOREM PbufsCorrect == Spec => []PbufsExact
<1>1. IInv => PbufsExact
  BY ExactIsHeld DEF IInv, Pool
<1> QED
  BY Invariance, <1>1, PTL

\* An established connection has acknowledged the SYN|ACK or still will, the
\* pool empty or not.
THEOREM AckCorrect == Spec => []HandshakeAckOwed
<1>1. IInv => HandshakeAckOwed
  BY DEF IInv, Control
<1> QED
  BY Invariance, <1>1, PTL

\* The task faults on an empty unacked only between main's taking the SYN off
\* unsent and its putting it on unacked.
THEOREM FaultCorrect == Spec => []FaultOnlyWhileSending
<1>1. IInv => FaultOnlyWhileSending
  BY DEF IInv, Control
<1> QED
  BY Invariance, <1>1, PTL
==============================================================================
