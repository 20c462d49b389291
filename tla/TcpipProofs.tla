---------------------------- MODULE TcpipProofs ----------------------------
(***************************************************************************)
(* Ownership of buffers and messages for any number of either, any mailbox *)
(* capacity, and any interleaving of the three threads.                    *)
(***************************************************************************)
EXTENDS Tcpip, SequenceTheorems, FiniteSetTheorems, TLAPS

\* What a thread's program counter says about what it holds.  Ownership is
\* inductive only with it: a thread that is about to free, post or send must
\* be known to hold a buffer, and the message rx is about to post must carry
\* the buffer rx holds.
Stages ==
  /\ rx_pc = "wait" <=> rx_p = NULL
  /\ rx_pc = "post" <=> rx_m # NULL
  /\ rx_pc = "post" => inp[rx_m] = rx_p
  /\ task_pc = "fetch" <=> task_m = NULL
  /\ task_pc \in {"fetch", "done"} <=> task_p = NULL
  /\ task_pc = "send" <=> task_a # NULL
  /\ app_pc \in {"send", "syn"} <=> app_p # NULL
  /\ \A i \in Slots : inp[mbox[i]] # NULL

IInv == TypeOK /\ Stages /\ OneOwner /\ NoLeak

\* PbufOneOwner with the four hands written out.
FlatOwner ==
  /\ \A x \in {rx_p, task_p, task_a, app_p} : x \notin pbuf_free \cup InQueue
  /\ rx_p # NULL => rx_p # task_p /\ rx_p # task_a /\ rx_p # app_p
  /\ task_p # NULL => task_p # task_a /\ task_p # app_p
  /\ task_a # NULL => task_a # app_p
  /\ InQueue \cap pbuf_free = {}
  /\ unacked \cap (pbuf_free \cup InQueue \cup {rx_p, task_p, task_a, app_p}) = {}
  /\ \A i, j \in Slots : inp[mbox[i]] = inp[mbox[j]] => i = j

LEMMA Flat == /\ PbufOneOwner <=> FlatOwner
              /\ {Hand[h] : h \in DOMAIN Hand} = {rx_p, task_p, task_a, app_p}
<1>1. DOMAIN Hand = {"rx", "task", "ack", "app"}
  BY DEF Hand
<1>2. Hand["rx"] = rx_p /\ Hand["task"] = task_p /\ Hand["ack"] = task_a /\ Hand["app"] = app_p
  BY DEF Hand
<1> QED
  BY <1>1, <1>2 DEF PbufOneOwner, FlatOwner

LEMMA FlatPrime == /\ PbufOneOwner' <=> FlatOwner'
                   /\ {Hand[h] : h \in DOMAIN Hand}' = {rx_p', task_p', task_a', app_p'}
<1>1. (DOMAIN Hand)' = {"rx", "task", "ack", "app"}
  BY DEF Hand
<1>2. /\ Hand'["rx"] = rx_p' /\ Hand'["task"] = task_p'
      /\ Hand'["ack"] = task_a' /\ Hand'["app"] = app_p'
  BY DEF Hand
<1> QED
  BY <1>1, <1>2 DEF PbufOneOwner, FlatOwner

\* NoLeak with the four hands written out.
FlatNoLeak ==
  mbox_id = "open" =>
    /\ Pbufs \subseteq pbuf_free \cup InQueue \cup unacked \cup {rx_p, task_p, task_a, app_p}
    /\ Msgs \subseteq msg_free \cup MsgQueue \cup {rx_m, task_m}

\* The invariant in the form the steps below use.
FInv == TypeOK /\ Stages /\ FlatOwner /\ MsgOneOwner /\ FlatNoLeak

LEMMA FInvIsIInv == (IInv <=> FInv) /\ (IInv' <=> FInv')
BY Flat, FlatPrime DEF IInv, FInv, OneOwner, NoLeak, FlatNoLeak

\* A step that at most ends the process.
LEMMA HaltFInv ==
  ASSUME FInv, up' \in BOOLEAN,
         UNCHANGED <<pools, frame, inp, mbox, mbox_id, taskv, rxv, appv, tcpv>>
  PROVE  FInv'
BY DEF pools, rxv, taskv, appv, tcpv, FInv, TypeOK, Stages, FlatOwner, MsgOneOwner, FlatNoLeak,
       Slots, InQueue, MsgQueue

LEMMA InitFInv == Init => FInv
<1> SUFFICES ASSUME Init PROVE FInv
  OBVIOUS
<1>1. mbox = <<>> /\ Slots = {}
  BY DEF Init, Slots
<1>2. InQueue = {} /\ MsgQueue = {}
  BY <1>1 DEF InQueue, MsgQueue
<1>3. TypeOK
  <2>1. output \in BOOLEAN /\ up \in BOOLEAN
    BY Zenon DEF Init
  <2>2. mbox \in Seq(Msgs)
    BY <1>1
  <2>3. frame \in [Pbufs -> Frames \cup {NULL}] /\ inp \in [Msgs -> Pbufs \cup {NULL}]
    BY DEF Init
  <2>4. pcbs_left \in 0..T_MEMP_NUM_TCP_PCB
    BY PcbAssumption, FS_CardinalityType DEF Init
  <2> QED
    BY <2>1, <2>2, <2>3, <2>4 DEF Init, TypeOK
<1>4. Stages
  BY <1>1 DEF Init, Stages
<1>5. FlatOwner /\ MsgOneOwner
  BY <1>1, <1>2, NullAssumption DEF Init, FlatOwner, MsgOneOwner
<1>6. FlatNoLeak
  BY DEF Init, FlatNoLeak
<1> QED
  BY <1>3, <1>4, <1>5, <1>6 DEF FInv

-----------------------------------------------------------------------------
(* The receive thread.                                                      *)

LEMMA RxReceiveFInv == FInv /\ RxReceive => FInv'
<1> SUFFICES ASSUME FInv, NEW f \in Frames, RxAlloc(f) PROVE FInv'
  BY DEF RxReceive
<1> QED
  BY NullAssumption
     DEF RxAlloc, FInv, TypeOK, Stages, FlatOwner, MsgOneOwner, FlatNoLeak,
         Slots, InQueue, MsgQueue, taskv, appv, tcpv

LEMMA RxMsgFInv == FInv /\ RxMsg => FInv'
BY NullAssumption
   DEF RxMsg, FInv, TypeOK, Stages, FlatOwner, MsgOneOwner, FlatNoLeak,
       Slots, InQueue, MsgQueue, taskv, appv, tcpv

LEMMA RxNoMsgFInv == FInv /\ RxNoMsg => FInv'
BY NullAssumption
   DEF RxNoMsg, FInv, TypeOK, Stages, FlatOwner, MsgOneOwner, FlatNoLeak,
       Slots, InQueue, MsgQueue, taskv, appv, tcpv

\* What t_sys_mbox_post does to the queue.
LEMMA AppendSlots ==
  ASSUME TypeOK, NEW m \in Msgs, mbox' = Append(mbox, m)
  PROVE  /\ Len(mbox) \in Nat
         /\ mbox' \in Seq(Msgs)
         /\ Slots' = Slots \cup {Len(mbox) + 1}
         /\ Len(mbox) + 1 \notin Slots
         /\ mbox'[Len(mbox) + 1] = m
         /\ \A i \in Slots : mbox'[i] = mbox[i] /\ mbox[i] \in Msgs
BY DEF TypeOK, Slots

\* The queue that t_sys_mbox_fetch leaves.
LEMMA TailSlots ==
  ASSUME TypeOK, mbox # <<>>, mbox' = Tail(mbox)
  PROVE  /\ Head(mbox) = mbox[1] /\ 1 \in Slots /\ mbox[1] \in Msgs
         /\ mbox' \in Seq(Msgs)
         /\ \A i \in Slots' : i + 1 \in Slots /\ i + 1 # 1 /\ mbox'[i] = mbox[i + 1]
         /\ \A i \in Slots : i # 1 => i - 1 \in Slots' /\ mbox'[i - 1] = mbox[i]
         /\ \A i \in Slots : i \in Nat /\ mbox[i] \in Msgs
         /\ \A i \in Slots' : i \in Nat
BY DEF TypeOK, Slots

LEMMA RxPostFInv == FInv /\ RxPost => FInv'
<1> SUFFICES ASSUME FInv, RxPost PROVE FInv'
  OBVIOUS
<1>1. CASE mbox_id = "null"
  BY <1>1, NullAssumption
     DEF RxPost, FInv, TypeOK, Stages, FlatOwner, MsgOneOwner, FlatNoLeak,
         Slots, InQueue, MsgQueue, pools, taskv, appv, tcpv
<1>2. CASE mbox_id = "open"
  <2>1. /\ rx_m \in Msgs /\ rx_p \in Pbufs /\ inp[rx_m] = rx_p /\ rx_p # NULL /\ rx_m # NULL
    BY NullAssumption DEF FInv, TypeOK, Stages, RxPost
  <2>2. /\ mbox' = Append(mbox, rx_m)
        /\ rx_p' = NULL /\ rx_m' = NULL /\ rx_pc' = "wait"
        /\ UNCHANGED <<pbuf_free, msg_free, frame, inp, mbox_id, task_pc, task_m, task_p, task_a,
                       app_pc, app_p, output, pcbs_left, unacked, up>>
    BY <1>2 DEF RxPost, pools, taskv, appv, tcpv
  <2>3. TypeOK
    BY DEF FInv
  <2> DEFINE n == Len(mbox) + 1
  <2>4. /\ mbox' \in Seq(Msgs)
        /\ Slots' = Slots \cup {n} /\ n \notin Slots
        /\ mbox'[n] = rx_m
        /\ \A i \in Slots : mbox'[i] = mbox[i] /\ mbox[i] \in Msgs
    <3>1. /\ Len(mbox) \in Nat /\ mbox' \in Seq(Msgs)
          /\ Slots' = Slots \cup {n} /\ n \notin Slots /\ mbox'[n] = rx_m
          /\ \A i \in Slots : mbox'[i] = mbox[i] /\ mbox[i] \in Msgs
      <4>1. mbox' = Append(mbox, rx_m) /\ rx_m \in Msgs
        BY <2>1, <2>2
      <4> QED
        BY <4>1, <2>3, AppendSlots, Zenon
    <3> QED
      BY <3>1
  <2> HIDE DEF n
  <2>5. InQueue' = InQueue \cup {rx_p}
    <3>1. inp'[mbox'[n]] = rx_p /\ \A i \in Slots : inp'[mbox'[i]] = inp[mbox[i]]
      BY <2>1, <2>2, <2>4
    <3>2. InQueue' = {inp'[mbox'[i]] : i \in Slots \cup {n}}
      BY <2>4 DEF InQueue
    <3>3. {inp'[mbox'[i]] : i \in Slots \cup {n}} = {inp'[mbox'[i]] : i \in Slots} \cup {inp'[mbox'[n]]}
      OBVIOUS
    <3>4. {inp'[mbox'[i]] : i \in Slots} = InQueue
      BY <3>1 DEF InQueue
    <3> QED
      BY <3>1, <3>2, <3>3, <3>4
  <2>6. MsgQueue' = MsgQueue \cup {rx_m}
    BY <2>2, <2>4 DEF MsgQueue
  <2>7. \A i \in Slots : mbox[i] # rx_m /\ inp[mbox[i]] # rx_p
    BY DEF FInv, FlatOwner, MsgOneOwner, InQueue, MsgQueue
  <2>8. TypeOK'
    BY <2>2, <2>3, <2>4, NullAssumption DEF TypeOK
  <2>9. Stages'
    BY <2>1, <2>2, <2>4 DEF FInv, Stages
  <2>10. FlatOwner'
    <3>1. \A i, j \in Slots' : inp'[mbox'[i]] = inp'[mbox'[j]] => i = j
      <4> SUFFICES ASSUME NEW i \in Slots', NEW j \in Slots', inp[mbox'[i]] = inp[mbox'[j]]
                   PROVE  i = j
        BY <2>2
      <4>1. \A k \in Slots : inp[mbox'[k]] # inp[mbox'[n]]
        BY <2>1, <2>4, <2>7
      <4>2. CASE i \in Slots /\ j \in Slots
        BY <4>2, <2>4 DEF FInv, FlatOwner
      <4> QED
        BY <2>4, <4>1, <4>2
    <3>2. NULL \notin InQueue' /\ NULL \notin pbuf_free
      <4>1. NULL \notin InQueue
        BY DEF FInv, Stages, InQueue
      <4>2. NULL \notin pbuf_free
        BY <2>3, NullAssumption DEF TypeOK
      <4> QED BY <2>1, <2>5, <4>1, <4>2
    <3>3. rx_p \notin pbuf_free \cup InQueue /\ \A x \in {task_p, task_a, app_p} : x # rx_p
      BY <2>1 DEF FInv, FlatOwner
    <3>4. InQueue' \cap pbuf_free' = {}
      BY <2>2, <2>5, <3>3 DEF FInv, FlatOwner
    <3>5. \A x \in {rx_p, task_p, task_a, app_p}' : x \notin pbuf_free' \cup InQueue'
      BY <2>2, <2>5, <3>2, <3>3 DEF FInv, FlatOwner
    <3>6. unacked' \cap (pbuf_free \cup InQueue \cup {rx_p, task_p, task_a, app_p})' = {}
      <4>1. rx_p \notin unacked /\ NULL \notin unacked
        BY <2>3, NullAssumption DEF FInv, FlatOwner, TypeOK
      <4> QED BY <2>2, <2>5, <4>1 DEF FInv, FlatOwner
    <3> QED
      BY <2>2, <3>1, <3>4, <3>5, <3>6 DEF FInv, FlatOwner
  <2>11. MsgOneOwner'
    <3>1. \A i, j \in Slots' : mbox'[i] = mbox'[j] => i = j
      <4> SUFFICES ASSUME NEW i \in Slots', NEW j \in Slots', mbox'[i] = mbox'[j]
                   PROVE  i = j
        OBVIOUS
      <4>1. \A k \in Slots : mbox'[k] # mbox'[n]
        BY <2>4, <2>7
      <4>2. CASE i \in Slots /\ j \in Slots
        BY <4>2, <2>4 DEF FInv, MsgOneOwner
      <4> QED
        BY <2>4, <4>1, <4>2
    <3>2. NULL \notin MsgQueue' /\ NULL \notin msg_free
      BY <2>1, <2>6, <2>3, <2>4, NullAssumption DEF MsgQueue, TypeOK
    <3> QED
      BY <2>1, <2>2, <2>6, <3>1, <3>2 DEF FInv, MsgOneOwner
  <2>12. FlatNoLeak'
    BY <2>2, <2>5, <2>6 DEF FInv, FlatNoLeak
  <2> QED
    BY <2>8, <2>9, <2>10, <2>11, <2>12 DEF FInv
<1> QED
  BY <1>1, <1>2 DEF RxPost

-----------------------------------------------------------------------------
(* The tcpip task.                                                          *)

LEMMA TaskFetchFInv == FInv /\ TaskFetch => FInv'
<1> SUFFICES ASSUME FInv, TaskFetch PROVE FInv'
  OBVIOUS
<1>1. TypeOK /\ task_m = NULL /\ task_p = NULL /\ task_a = NULL
  BY DEF FInv, Stages, TaskFetch
<1>2. /\ mbox # <<>> /\ mbox' = Tail(mbox) /\ task_m' = Head(mbox) /\ task_p' = inp[Head(mbox)]
      /\ task_pc' = "input"
      /\ UNCHANGED <<pbuf_free, msg_free, frame, inp, mbox_id, task_a, rx_pc, rx_p, rx_m,
                     app_pc, app_p, output, pcbs_left, unacked, up>>
  BY DEF TaskFetch, pools, rxv, appv, tcpv
<1>3. /\ Head(mbox) = mbox[1] /\ 1 \in Slots /\ mbox[1] \in Msgs
      /\ mbox' \in Seq(Msgs)
      /\ \A i \in Slots' : i + 1 \in Slots /\ i + 1 # 1 /\ mbox'[i] = mbox[i + 1]
      /\ \A i \in Slots : i # 1 => i - 1 \in Slots' /\ mbox'[i - 1] = mbox[i]
      /\ \A i \in Slots : i \in Nat /\ mbox[i] \in Msgs
      /\ \A i \in Slots' : i \in Nat
  BY <1>1, <1>2, TailSlots
<1> DEFINE m == mbox[1]
           p == inp[m]
<1>4. m \in Msgs /\ p \in Pbufs /\ p # NULL /\ m # NULL /\ task_m' = m /\ task_p' = p
  BY <1>1, <1>2, <1>3, NullAssumption DEF FInv, Stages, TypeOK
<1>5. InQueue' = InQueue \ {p} /\ p \in InQueue
  <2>1. \A i \in Slots : i # 1 => inp[mbox[i]] # p
    BY <1>3 DEF FInv, FlatOwner
  <2>2. \A x \in InQueue' : x \in InQueue /\ x # p
    <3> SUFFICES ASSUME NEW i \in Slots' PROVE inp[mbox'[i]] \in InQueue /\ inp[mbox'[i]] # p
      BY <1>2 DEF InQueue
    <3>1. i + 1 \in Slots /\ i + 1 # 1 /\ mbox'[i] = mbox[i + 1]
      BY <1>3
    <3> QED
      BY <3>1, <2>1 DEF InQueue
  <2>3. \A x \in InQueue : x # p => x \in InQueue'
    <3> SUFFICES ASSUME NEW i \in Slots, inp[mbox[i]] # p PROVE inp[mbox[i]] \in InQueue'
      BY DEF InQueue
    <3>1. i - 1 \in Slots' /\ mbox'[i - 1] = mbox[i]
      BY <1>3
    <3> QED
      BY <3>1, <1>2 DEF InQueue
  <2>4. p \in InQueue
    BY <1>3 DEF InQueue
  <2> QED
    BY <2>2, <2>3, <2>4
<1>6. MsgQueue' = MsgQueue \ {m} /\ m \in MsgQueue
  <2>1. \A i \in Slots : i # 1 => mbox[i] # m
    BY <1>3 DEF FInv, MsgOneOwner
  <2>2. \A x \in MsgQueue' : x \in MsgQueue /\ x # m
    <3> SUFFICES ASSUME NEW i \in Slots' PROVE mbox'[i] \in MsgQueue /\ mbox'[i] # m
      BY <1>2 DEF MsgQueue
    <3>1. i + 1 \in Slots /\ i + 1 # 1 /\ mbox'[i] = mbox[i + 1]
      BY <1>3
    <3> QED
      BY <3>1, <2>1 DEF MsgQueue
  <2>3. \A x \in MsgQueue : x # m => x \in MsgQueue'
    <3> SUFFICES ASSUME NEW i \in Slots, mbox[i] # m PROVE mbox[i] \in MsgQueue'
      BY DEF MsgQueue
    <3>1. i - 1 \in Slots' /\ mbox'[i - 1] = mbox[i]
      BY <1>3
    <3> QED
      BY <3>1, <1>2 DEF MsgQueue
  <2>4. m \in MsgQueue
    BY <1>3 DEF MsgQueue
  <2> QED
    BY <2>2, <2>3, <2>4
<1> HIDE DEF m, p
<1>7. TypeOK'
  BY <1>1, <1>2, <1>3, <1>4 DEF TypeOK
<1>8. Stages'
  <2>1. \A i \in Slots' : inp'[mbox'[i]] # NULL
    <3> SUFFICES ASSUME NEW i \in Slots' PROVE inp[mbox'[i]] # NULL
      BY <1>2
    <3>1. i + 1 \in Slots /\ mbox'[i] = mbox[i + 1]
      BY <1>3
    <3> QED
      BY <3>1 DEF FInv, Stages
  <2> QED
    BY <1>1, <1>2, <1>4, <2>1 DEF FInv, Stages
<1>9. FlatOwner'
  <2>1. \A i, j \in Slots' : inp'[mbox'[i]] = inp'[mbox'[j]] => i = j
    <3> SUFFICES ASSUME NEW i \in Slots', NEW j \in Slots', inp'[mbox'[i]] = inp'[mbox'[j]]
                 PROVE  i = j
      OBVIOUS
    <3>1. inp[mbox[i + 1]] = inp[mbox[j + 1]] /\ i + 1 \in Slots /\ j + 1 \in Slots
      BY <1>2, <1>3
    <3>2. i + 1 = j + 1
      BY <3>1 DEF FInv, FlatOwner
    <3> QED
      BY <3>2, <1>3
  <2>2. NULL \notin InQueue' /\ NULL \notin pbuf_free
    BY <1>1, <1>5, NullAssumption DEF FInv, Stages, InQueue, TypeOK
  <2>3. p \notin pbuf_free /\ \A x \in {rx_p, app_p} : x # p /\ x \notin pbuf_free \cup InQueue'
    BY <1>5 DEF FInv, FlatOwner
  <2>4. InQueue' \cap pbuf_free' = {}
    BY <1>2, <1>5 DEF FInv, FlatOwner
  <2>5. \A x \in {rx_p, task_p, task_a, app_p}' : x \notin pbuf_free' \cup InQueue'
    BY <1>1, <1>2, <1>4, <1>5, <2>2, <2>3
  <2>6. unacked' \cap (pbuf_free \cup InQueue \cup {rx_p, task_p, task_a, app_p})' = {}
    BY <1>1, <1>2, <1>4, <1>5 DEF FInv, FlatOwner
  <2> QED
    BY <1>1, <1>2, <1>4, <2>1, <2>3, <2>4, <2>5, <2>6 DEF FInv, FlatOwner
<1>10. MsgOneOwner'
  <2>1. \A i, j \in Slots' : mbox'[i] = mbox'[j] => i = j
    <3> SUFFICES ASSUME NEW i \in Slots', NEW j \in Slots', mbox'[i] = mbox'[j]
                 PROVE  i = j
      OBVIOUS
    <3>1. mbox[i + 1] = mbox[j + 1] /\ i + 1 \in Slots /\ j + 1 \in Slots
      BY <1>3
    <3>2. i + 1 = j + 1
      BY <3>1 DEF FInv, MsgOneOwner
    <3> QED
      BY <3>2, <1>3
  <2> QED
    BY <1>1, <1>2, <1>4, <1>6, <2>1 DEF FInv, MsgOneOwner
<1>11. FlatNoLeak'
  <2> SUFFICES ASSUME mbox_id = "open" PROVE FlatNoLeak'
    BY <1>2 DEF FlatNoLeak
  <2>1. /\ Pbufs \subseteq pbuf_free \cup InQueue \cup unacked \cup {rx_p, task_p, task_a, app_p}
        /\ Msgs \subseteq msg_free \cup MsgQueue \cup {rx_m, task_m}
    BY DEF FInv, FlatNoLeak
  <2>2. NULL \notin Pbufs /\ NULL \notin Msgs
    BY NullAssumption
  <2>3. Pbufs \subseteq (pbuf_free \cup InQueue \cup unacked \cup {rx_p, task_p, task_a, app_p})'
    BY <2>1, <2>2, <1>1, <1>2, <1>4, <1>5
  <2>4. Msgs \subseteq (msg_free \cup MsgQueue \cup {rx_m, task_m})'
    BY <2>1, <2>2, <1>1, <1>2, <1>4, <1>6
  <2> QED
    BY <2>3, <2>4 DEF FlatNoLeak
<1> QED
  BY <1>7, <1>8, <1>9, <1>10, <1>11 DEF FInv

LEMMA TaskQuietFInv == FInv /\ TaskQuiet => FInv'
BY NullAssumption
   DEF TaskQuiet, FInv, TypeOK, Stages, FlatOwner, MsgOneOwner, FlatNoLeak,
       Slots, InQueue, MsgQueue, pools, rxv, appv, tcpv

LEMMA TaskReplyFInv == FInv /\ TaskReply => FInv'
BY NullAssumption
   DEF TaskReply, FInv, TypeOK, Stages, FlatOwner, MsgOneOwner, FlatNoLeak,
       Slots, InQueue, MsgQueue, pools, rxv, appv, tcpv

LEMMA TaskReplyTooEarlyFInv == FInv /\ TaskReplyTooEarly => FInv'
<1> SUFFICES ASSUME FInv, TaskReplyTooEarly PROVE FInv'
  OBVIOUS
<1>1. up' \in BOOLEAN
  BY Zenon DEF TaskReplyTooEarly, Crash, FInv, TypeOK
<1> QED
  BY <1>1, HaltFInv DEF TaskReplyTooEarly

LEMMA TaskSynAckFInv == FInv /\ TaskSynAck => FInv'
BY NullAssumption
   DEF TaskSynAck, FInv, TypeOK, Stages, FlatOwner, MsgOneOwner, FlatNoLeak,
       Slots, InQueue, MsgQueue, rxv, appv

LEMMA TaskSynAckTooEarlyFInv == FInv /\ TaskSynAckTooEarly => FInv'
<1> SUFFICES ASSUME FInv, TaskSynAckTooEarly PROVE FInv'
  OBVIOUS
<1>1. up' \in BOOLEAN
  BY Zenon DEF TaskSynAckTooEarly, Crash, FInv, TypeOK
<1> QED
  BY <1>1, HaltFInv DEF TaskSynAckTooEarly

LEMMA TaskAckAllocFInv == FInv /\ TaskAckAlloc => FInv'
BY NullAssumption
   DEF TaskAckAlloc, FInv, TypeOK, Stages, FlatOwner, MsgOneOwner, FlatNoLeak,
       Slots, InQueue, MsgQueue, rxv, appv, tcpv

LEMMA TaskAckSendFInv == FInv /\ TaskAckSend => FInv'
BY NullAssumption
   DEF TaskAckSend, FInv, TypeOK, Stages, FlatOwner, MsgOneOwner, FlatNoLeak,
       Slots, InQueue, MsgQueue, rxv, appv, tcpv

LEMMA TaskFreePbufFInv == FInv /\ TaskFreePbuf => FInv'
BY NullAssumption
   DEF TaskFreePbuf, FInv, TypeOK, Stages, FlatOwner, MsgOneOwner, FlatNoLeak,
       Slots, InQueue, MsgQueue, rxv, appv, tcpv

LEMMA TaskFreeMsgFInv == FInv /\ TaskFreeMsg => FInv'
BY NullAssumption
   DEF TaskFreeMsg, FInv, TypeOK, Stages, FlatOwner, MsgOneOwner, FlatNoLeak,
       Slots, InQueue, MsgQueue, rxv, appv, tcpv

-----------------------------------------------------------------------------
(* The main thread.                                                         *)

LEMMA AppStartFInv == FInv /\ AppStart => FInv'
BY NullAssumption
   DEF AppStart, FInv, TypeOK, Stages, FlatOwner, MsgOneOwner, FlatNoLeak,
       Slots, InQueue, MsgQueue, pools, taskv, rxv, tcpv

LEMMA AppAllocFInv == FInv /\ AppAlloc => FInv'
BY NullAssumption
   DEF AppAlloc, FInv, TypeOK, Stages, FlatOwner, MsgOneOwner, FlatNoLeak,
       Slots, InQueue, MsgQueue, taskv, rxv, tcpv

LEMMA AppNoBufferFInv == FInv /\ AppNoBuffer => FInv'
<1> SUFFICES ASSUME FInv, AppNoBuffer PROVE FInv'
  OBVIOUS
<1>1. up' \in BOOLEAN
  BY Zenon DEF AppNoBuffer, Crash, FInv, TypeOK
<1> QED
  BY <1>1, HaltFInv DEF AppNoBuffer

LEMMA AppSendFInv == FInv /\ AppSend => FInv'
BY NullAssumption
   DEF AppSend, FInv, TypeOK, Stages, FlatOwner, MsgOneOwner, FlatNoLeak,
       Slots, InQueue, MsgQueue, taskv, rxv, tcpv

LEMMA AppConnectFInv == FInv /\ AppConnect => FInv'
<1> SUFFICES ASSUME FInv, AppConnect PROVE FInv'
  OBVIOUS
<1>1. pcbs_left' \in 0..T_MEMP_NUM_TCP_PCB
  <2>1. T_MEMP_NUM_TCP_PCB \in Nat
    BY PcbAssumption, FS_CardinalityType
  <2> QED BY <2>1 DEF AppConnect, FInv, TypeOK
<1>2. CASE UNCHANGED <<app_pc, app_p, pbuf_free>>
  BY <1>1, <1>2
     DEF AppConnect, FInv, TypeOK, Stages, FlatOwner, MsgOneOwner, FlatNoLeak,
         Slots, InQueue, MsgQueue, taskv, rxv
<1>3. CASE app_pc' = "syn" /\ \E p \in pbuf_free : app_p' = p /\ pbuf_free' = pbuf_free \ {p}
  <2>1. PICK p \in pbuf_free : app_p' = p /\ pbuf_free' = pbuf_free \ {p}
    BY <1>3
  <2>2. /\ app_pc = "idle" /\ app_p = NULL /\ p # NULL /\ p \in Pbufs
        /\ UNCHANGED <<msg_free, frame, inp, mbox, mbox_id, task_pc, task_m, task_p, task_a,
                       rx_pc, rx_p, rx_m, output, unacked, up>>
    BY NullAssumption DEF AppConnect, FInv, TypeOK, Stages, taskv, rxv
  <2>3. InQueue' = InQueue /\ MsgQueue' = MsgQueue /\ Slots' = Slots
    BY <2>2 DEF InQueue, MsgQueue, Slots
  <2>4. TypeOK' /\ Stages'
    BY <1>1, <1>3, <2>1, <2>2, <2>3 DEF FInv, TypeOK, Stages
  <2>5. FlatOwner'
    BY <2>1, <2>2, <2>3 DEF FInv, FlatOwner
  <2>6. MsgOneOwner'
    BY <2>2, <2>3 DEF FInv, MsgOneOwner
  <2>7. FlatNoLeak'
    BY <2>1, <2>2, <2>3, NullAssumption DEF FInv, FlatNoLeak
  <2> QED BY <2>4, <2>5, <2>6, <2>7 DEF FInv
<1> QED BY <1>2, <1>3 DEF AppConnect

LEMMA AppNoPcbFInv == FInv /\ AppNoPcb => FInv'
<1> SUFFICES ASSUME FInv, AppNoPcb PROVE FInv'
  OBVIOUS
<1>1. up' \in BOOLEAN
  BY Zenon DEF AppNoPcb, Crash, FInv, TypeOK
<1> QED
  BY <1>1, HaltFInv DEF AppNoPcb

LEMMA AppSynSentFInv == FInv /\ AppSynSent => FInv'
BY NullAssumption
   DEF AppSynSent, FInv, TypeOK, Stages, FlatOwner, MsgOneOwner, FlatNoLeak,
       Slots, InQueue, MsgQueue, pools, taskv, rxv

LEMMA AppExitFInv == FInv /\ AppExit => FInv'
<1> SUFFICES ASSUME FInv, AppExit PROVE FInv'
  OBVIOUS
<1>1. up' \in BOOLEAN
  BY Zenon DEF AppExit, Crash, FInv, TypeOK
<1> QED
  BY <1>1, HaltFInv DEF AppExit

LEMMA StutterFInv == FInv /\ UNCHANGED vars => FInv'
BY DEF vars, pools, rxv, taskv, appv, tcpv, FInv, TypeOK, Stages, FlatOwner, MsgOneOwner, FlatNoLeak,
       Slots, InQueue, MsgQueue

-----------------------------------------------------------------------------
LEMMA InductiveInvariant == Spec => []FInv
<1>1. FInv /\ [Next]_vars => FInv'
  <2> SUFFICES ASSUME FInv, [Next]_vars PROVE FInv'
    OBVIOUS
  <2>1. CASE Rx
    <3>1. CASE RxReceive
      BY <3>1, RxReceiveFInv
    <3>2. CASE RxLose
      BY <3>2, StutterFInv DEF RxLose, RxDrop
    <3>3. CASE RxRest
      BY <3>3, RxMsgFInv, RxNoMsgFInv, RxPostFInv DEF RxRest
    <3> QED
      BY <2>1, <3>1, <3>2, <3>3 DEF Rx
  <2>2. CASE Task
    BY <2>2, TaskFetchFInv, TaskQuietFInv, TaskReplyFInv, TaskReplyTooEarlyFInv, TaskSynAckFInv,
       TaskSynAckTooEarlyFInv, TaskAckAllocFInv, TaskAckSendFInv, TaskFreePbufFInv, TaskFreeMsgFInv
       DEF Task
  <2>3. CASE App
    BY <2>3, AppStartFInv, AppAllocFInv, AppNoBufferFInv, AppSendFInv, AppConnectFInv,
       AppNoPcbFInv, AppSynSentFInv, AppExitFInv DEF App, AppKey, AppRest
  <2>4. CASE UNCHANGED vars
    BY <2>4, StutterFInv
  <2> QED
    BY <2>1, <2>2, <2>3, <2>4 DEF Next
<1> QED
  BY <1>1, InitFInv, PTL DEF Spec

\* The threads' program counters and pointers stay in range, and t_tcpip_input
\* posts nothing but blocks of the message pool.
THEOREM TypeCorrect == Spec => []TypeOK
<1>1. FInv => TypeOK
  BY DEF FInv
<1> QED
  BY <1>1, InductiveInvariant, PTL

\* No buffer and no message of the program has two owners, however the receive
\* thread, the tcpip task and the main thread interleave: no use after free, no
\* double free.
THEOREM SingleOwner == Spec => []OneOwner
<1>1. FInv => OneOwner
  BY FInvIsIInv DEF IInv
<1> QED
  BY <1>1, InductiveInvariant, PTL

\* While the mailbox exists, t_tcpip_input and the task between them return or
\* hand over every buffer and every message.
THEOREM NothingLost == Spec => []NoLeak
<1>1. FInv => NoLeak
  BY FInvIsIInv DEF IInv
<1> QED
  BY <1>1, InductiveInvariant, PTL

-----------------------------------------------------------------------------
(* The hand-over of the frames: module FrameQueue, but for its fairness.    *)

Waiting   == [i \in Slots |-> frame[inp[mbox[i]]]]
Current   == IF task_p = NULL THEN NULL ELSE frame[task_p]
QueueStep == [Queue!Next]_(Queue!vars)

\* A buffer on its way to t_raw_input holds a frame from its allocation on,
\* though not every buffer in use does: an answer's, or the application's, holds
\* none.
Carried ==
  /\ rx_p # NULL => frame[rx_p] \in Frames
  /\ task_p # NULL => frame[task_p] \in Frames
  /\ \A i \in Slots : frame[inp[mbox[i]]] \in Frames

LEMMA QueueStays ==
  ASSUME Waiting' = Waiting, Current' = Current, up' = up
  PROVE  QueueStep
BY DEF QueueStep, Queue!vars, Waiting, Current

LEMMA QueueHalts ==
  ASSUME Waiting' = Waiting, Current' = Current, up, up' = FALSE
  PROVE  QueueStep
BY Zenon DEF QueueStep, Queue!Next, Queue!Halt, Waiting, Current

LEMMA QueueAccepts ==
  ASSUME up, up' = up, Current' = Current,
         NEW f \in Frames, Waiting' = Append(Waiting, f)
  PROVE  QueueStep
BY DEF QueueStep, Queue!Next, Queue!Accept, Waiting, Current

LEMMA QueueBegins ==
  ASSUME up, up' = up, Current = NULL, Waiting # <<>>,
         Current' = Head(Waiting), Waiting' = Tail(Waiting)
  PROVE  QueueStep
BY DEF QueueStep, Queue!Next, Queue!Begin, Waiting, Current

LEMMA QueueEnds ==
  ASSUME up, up' = up, Current # NULL, Current' = NULL, Waiting' = Waiting
  PROVE  QueueStep
BY DEF QueueStep, Queue!Next, Queue!End, Waiting, Current

\* A step that changes no buffer and no message of the queue or the task.
LEMMA FramesKept ==
  ASSUME Carried, mbox' = mbox, task_p' = task_p,
         \A i \in Slots : frame'[inp'[mbox[i]]] = frame[inp[mbox[i]]],
         task_p # NULL => frame'[task_p] = frame[task_p],
         rx_p' # NULL => frame'[rx_p'] \in Frames
  PROVE  Carried' /\ Waiting' = Waiting /\ Current' = Current
<1>1. Slots' = Slots
  BY DEF Slots
<1>2. Waiting' = Waiting
  BY <1>1 DEF Waiting
<1>3. Current' = Current
  BY DEF Current
<1>4. \A i \in Slots' : frame'[inp'[mbox'[i]]] \in Frames
  BY <1>1 DEF Carried
<1>5. task_p' # NULL => frame'[task_p'] \in Frames
  BY DEF Carried
<1> QED BY <1>2, <1>3, <1>4, <1>5 DEF Carried

\* A step that leaves the queue and the task's buffer alone, and writes into
\* no buffer.
LEMMA FramesUnmoved ==
  ASSUME Carried, UNCHANGED <<mbox, inp, frame, task_p>>, rx_p' \in {rx_p, NULL}
  PROVE  Carried' /\ Waiting' = Waiting /\ Current' = Current
<1>1. rx_p' # NULL => frame'[rx_p'] \in Frames
  BY DEF Carried
<1> QED BY <1>1, FramesKept

\* ether0_recv_data writes into a buffer nobody waits for.
LEMMA RxReceiveQueue == FInv /\ Carried /\ RxReceive => Carried' /\ QueueStep
<1> SUFFICES ASSUME FInv, Carried, NEW f \in Frames, RxAlloc(f) PROVE Carried' /\ QueueStep
  BY DEF RxReceive
<1>1. PICK p \in pbuf_free : rx_p' = p /\ frame' = [frame EXCEPT ![p] = f]
  BY DEF RxAlloc
<1>2. /\ mbox' = mbox /\ inp' = inp /\ task_p' = task_p /\ up' = up
  BY DEF RxAlloc, taskv
<1>3. /\ p \in Pbufs /\ frame \in [Pbufs -> Frames \cup {NULL}]
      /\ task_p # p /\ \A i \in Slots : inp[mbox[i]] # p
  BY DEF FInv, TypeOK, FlatOwner, InQueue
<1>4. /\ frame'[p] = f
      /\ \A q : q # p => frame'[q] = frame[q]
  BY <1>1, <1>3
<1>5. Carried' /\ Waiting' = Waiting /\ Current' = Current
  BY <1>1, <1>2, <1>3, <1>4, FramesKept
<1> QED BY <1>2, <1>5, QueueStays

\* t_tcpip_input fills in a message nobody has posted.
LEMMA RxMsgQueue == FInv /\ Carried /\ RxMsg => Carried' /\ QueueStep
<1> SUFFICES ASSUME FInv, Carried, RxMsg PROVE Carried' /\ QueueStep
  OBVIOUS
<1>1. PICK m \in msg_free : inp' = [inp EXCEPT ![m] = rx_p]
  BY DEF RxMsg
<1>2. /\ mbox' = mbox /\ frame' = frame /\ task_p' = task_p /\ rx_p' = rx_p /\ up' = up
  BY DEF RxMsg, taskv
<1>3. \A i \in Slots : mbox[i] # m
  BY DEF FInv, MsgOneOwner, MsgQueue
<1>4. \A i \in Slots : inp'[mbox[i]] = inp[mbox[i]]
  BY <1>1, <1>3 DEF FInv, TypeOK
<1>5. rx_p' # NULL => frame'[rx_p'] \in Frames
  BY <1>2 DEF Carried
<1>6. Carried' /\ Waiting' = Waiting /\ Current' = Current
  BY <1>2, <1>4, <1>5, FramesKept
<1> QED BY <1>2, <1>6, QueueStays

\* t_tcpip_input gives back a buffer it has not posted.
LEMMA RxNoMsgQueue == FInv /\ Carried /\ RxNoMsg => Carried' /\ QueueStep
<1> SUFFICES ASSUME FInv, Carried, RxNoMsg PROVE Carried' /\ QueueStep
  OBVIOUS
<1>1. /\ up' = up /\ rx_p' = NULL
      /\ UNCHANGED <<mbox, inp, task_p>>
      /\ frame' = [frame EXCEPT ![rx_p] = NULL]
  BY DEF RxNoMsg, taskv
<1>2. rx_p # NULL
  BY DEF FInv, Stages, RxNoMsg
<1>3. \A i \in Slots : inp[mbox[i]] # rx_p
  BY DEF FInv, FlatOwner, InQueue
<1>4. \A i \in Slots : frame'[inp'[mbox[i]]] = frame[inp[mbox[i]]]
  BY <1>1, <1>3 DEF FInv, TypeOK
<1>5. task_p # NULL => frame'[task_p] = frame[task_p]
  BY <1>1, <1>2 DEF FInv, FlatOwner, TypeOK
<1>6. Carried' /\ Waiting' = Waiting /\ Current' = Current
  BY <1>1, <1>4, <1>5, FramesKept
<1> QED BY <1>1, <1>6, QueueStays

\* t_sys_mbox_post accepts the frame of the buffer it posts; without a mailbox
\* nothing is accepted.
LEMMA RxPostQueue == FInv /\ Carried /\ RxPost => Carried' /\ QueueStep
<1> SUFFICES ASSUME FInv, Carried, RxPost PROVE Carried' /\ QueueStep
  OBVIOUS
<1>1. /\ rx_p' = NULL /\ up /\ up' = up
      /\ UNCHANGED <<inp, frame, task_p>>
  BY DEF RxPost, taskv
<1>2. CASE mbox' = mbox
  BY <1>1, <1>2, FramesUnmoved, QueueStays
<1>3. CASE mbox' = Append(mbox, rx_m)
  <2> DEFINE n == Len(mbox) + 1
             f == frame[rx_p]
  <2>1. /\ rx_m \in Msgs /\ rx_p # NULL /\ inp[rx_m] = rx_p /\ TypeOK
    BY NullAssumption DEF FInv, TypeOK, Stages, RxPost
  <2>2. f \in Frames
    BY <2>1 DEF Carried
  <2>3. /\ Len(mbox) \in Nat
        /\ Slots = 1..Len(mbox) /\ Slots' = 1..n
        /\ mbox'[n] = rx_m
        /\ \A i \in Slots : mbox'[i] = mbox[i]
    BY <1>3, <2>1 DEF TypeOK, Slots
  <2>4. Waiting' = [i \in 1..n |-> frame[inp[mbox'[i]]]]
    BY <1>1, <2>3 DEF Waiting
  <2>5. /\ Waiting'[n] = f /\ \A i \in Slots : Waiting'[i] = Waiting[i]
    BY <2>1, <2>3, <2>4 DEF Waiting
  <2>6. Waiting \in Seq(Frames) /\ Len(Waiting) = Len(mbox)
    BY <2>3 DEF Waiting, Carried
  <2> HIDE DEF f
  <2>7. Waiting' = Append(Waiting, f)
    <3> DEFINE a == Append(Waiting, f)
    <3>1. /\ a \in Seq(Frames) /\ Len(a) = n /\ a[n] = f
          /\ \A i \in 1..Len(mbox) : a[i] = Waiting[i]
      BY <2>2, <2>6, AppendProperties
    <3>2. \A i \in 1..n : i = n \/ i \in Slots
      BY <2>3
    <3>3. \A i \in 1..n : Waiting'[i] = a[i] /\ Waiting'[i] \in Frames
      BY <2>2, <2>3, <2>5, <2>6, <3>1, <3>2
    <3>4. Waiting' \in Seq(Frames) /\ Len(Waiting') = n
      BY <2>3, <2>4, <3>3
    <3> HIDE DEF a
    <3>5. Waiting' = a
      BY <3>1, <3>3, <3>4, SeqEqual
    <3> QED BY <3>5 DEF a
  <2>8. Current' = Current
    BY <1>1 DEF Current
  <2>9. Carried'
    <3>1. \A i \in Slots' : frame'[inp'[mbox'[i]]] \in Frames
      <4>1. \A i \in Slots' : i = n \/ i \in Slots
        BY <2>3
      <4> QED BY <1>1, <2>1, <2>2, <2>3, <4>1 DEF Carried, f
    <3> QED BY <1>1, <3>1 DEF Carried
  <2> QED BY <1>1, <2>2, <2>7, <2>8, <2>9, QueueAccepts
<1> QED BY <1>2, <1>3 DEF RxPost

\* t_sys_mbox_fetch takes the frame that has waited longest.
LEMMA TaskFetchQueue == FInv /\ Carried /\ TaskFetch => Carried' /\ QueueStep
<1> SUFFICES ASSUME FInv, Carried, TaskFetch PROVE Carried' /\ QueueStep
  OBVIOUS
<1>1. /\ mbox # <<>> /\ mbox' = Tail(mbox) /\ task_p' = inp[Head(mbox)]
      /\ up /\ up' = up /\ rx_p' = rx_p
      /\ UNCHANGED <<inp, frame>>
  BY DEF TaskFetch, rxv
<1>2. task_p = NULL /\ TypeOK
  BY DEF FInv, Stages, TaskFetch
<1> DEFINE n == Len(mbox) - 1
<1>3. /\ n \in Nat /\ Slots = 1..n + 1 /\ Slots' = 1..n
      /\ Head(mbox) = mbox[1] /\ 1 \in Slots
      /\ \A i \in 1..n : i + 1 \in Slots /\ mbox'[i] = mbox[i + 1]
  BY <1>1, <1>2 DEF TypeOK, Slots
<1>4. Waiting \in Seq(Frames) /\ Len(Waiting) = n + 1
  BY <1>3 DEF Waiting, Carried
<1>5. Waiting' = [i \in 1..n |-> Waiting[i + 1]]
  <2>1. \A i \in 1..n : frame'[inp'[mbox'[i]]] = Waiting[i + 1]
    BY <1>1, <1>3 DEF Waiting
  <2> QED BY <1>3, <2>1 DEF Waiting
<1>6. Waiting' = Tail(Waiting) /\ Waiting # <<>> /\ Head(Waiting) = Waiting[1]
  <2> DEFINE r == Tail(Waiting)
  <2>1. Waiting # <<>> /\ Head(Waiting) = Waiting[1]
    BY <1>3, <1>4
  <2>2. r \in Seq(Frames) /\ Len(r) = n /\ \A i \in 1..n : r[i] = Waiting[i + 1]
    BY <1>3, <1>4, <2>1, HeadTailProperties
  <2>3. \A i \in 1..n : Waiting'[i] = r[i] /\ Waiting'[i] \in Frames
    BY <1>3, <1>4, <1>5, <2>2
  <2>4. Waiting' \in Seq(Frames) /\ Len(Waiting') = n
    BY <1>3, <1>5, <2>3
  <2> HIDE DEF r
  <2>5. Waiting' = r
    BY <2>2, <2>3, <2>4, SeqEqual
  <2> QED BY <2>1, <2>5 DEF r
<1>7. Waiting[1] = frame[inp[mbox[1]]] /\ Waiting[1] \in Frames
  BY <1>3 DEF Waiting, Carried
<1>8. task_p' # NULL
  BY <1>1, <1>3 DEF FInv, Stages
<1>9. Current = NULL /\ Current' = Head(Waiting)
  BY <1>1, <1>2, <1>3, <1>6, <1>7, <1>8 DEF Current
<1>10. Carried'
  <2>1. \A i \in Slots' : frame'[inp'[mbox'[i]]] \in Frames
    BY <1>1, <1>3 DEF Carried
  <2>2. task_p' # NULL => frame'[task_p'] \in Frames
    BY <1>1, <1>3, <1>7
  <2>3. rx_p' # NULL => frame'[rx_p'] \in Frames
    BY <1>1 DEF Carried
  <2> QED BY <2>1, <2>2, <2>3 DEF Carried
<1> QED BY <1>1, <1>6, <1>9, <1>10, QueueBegins

\* The frame is done with when t_raw_input frees its buffer.
LEMMA TaskFreePbufQueue == FInv /\ Carried /\ TaskFreePbuf => Carried' /\ QueueStep
<1> SUFFICES ASSUME FInv, Carried, TaskFreePbuf PROVE Carried' /\ QueueStep
  OBVIOUS
<1>1. /\ up /\ up' = up /\ task_p' = NULL /\ rx_p' = rx_p
      /\ UNCHANGED <<mbox, inp>>
      /\ frame' = [frame EXCEPT ![task_p] = NULL]
  BY DEF TaskFreePbuf, rxv
<1>2. task_p # NULL
  BY DEF FInv, Stages, TaskFreePbuf
<1>3. Current # NULL /\ Current' = NULL
  BY <1>1, <1>2, NullAssumption DEF Carried, Current
<1>4. \A i \in Slots : frame'[inp[mbox[i]]] = frame[inp[mbox[i]]]
  <2>1. \A i \in Slots : inp[mbox[i]] # task_p
    BY DEF FInv, FlatOwner, InQueue
  <2> QED BY <1>1, <2>1 DEF FInv, TypeOK
<1>5. Slots' = Slots /\ Waiting' = Waiting
  BY <1>1, <1>4 DEF Slots, Waiting
<1>6. rx_p # NULL => frame'[rx_p] = frame[rx_p]
  BY <1>1, <1>2 DEF FInv, FlatOwner, TypeOK
<1>7. Carried'
  BY <1>1, <1>4, <1>5, <1>6 DEF Carried
<1> QED BY <1>1, <1>3, <1>5, <1>7, QueueEnds

\* The other steps, which end the process if they do anything here.
LEMMA RestQueue ==
  ASSUME FInv, Carried, UNCHANGED <<mbox, inp, frame, task_p>>, rx_p' \in {rx_p, NULL},
         up' = up \/ (up /\ up' = FALSE)
  PROVE  Carried' /\ QueueStep
<1>1. Carried' /\ Waiting' = Waiting /\ Current' = Current
  BY FramesUnmoved
<1>2. CASE up' = up
  BY <1>1, <1>2, QueueStays
<1>3. CASE up /\ up' = FALSE
  BY <1>1, <1>3, QueueHalts
<1> QED BY <1>1, <1>2, <1>3

LEMMA QueueStepped == FInv /\ Carried /\ [Next]_vars => Carried' /\ QueueStep
<1> SUFFICES ASSUME FInv, Carried, [Next]_vars PROVE Carried' /\ QueueStep
  OBVIOUS
<1>1. CASE RxReceive
  BY <1>1, RxReceiveQueue
<1>2. CASE RxMsg
  BY <1>2, RxMsgQueue
<1>3. CASE RxPost
  BY <1>3, RxPostQueue
<1>4. CASE TaskFetch
  BY <1>4, TaskFetchQueue
<1>5. CASE TaskFreePbuf
  BY <1>5, TaskFreePbufQueue
<1>6. CASE RxNoMsg
  BY <1>6, RxNoMsgQueue
<1>7. CASE RxLose \/ UNCHANGED vars
  <2>1. UNCHANGED <<mbox, inp, frame, task_p, up>> /\ rx_p' = rx_p
    BY <1>7 DEF RxLose, RxDrop, vars, rxv, taskv
  <2> QED BY <2>1, RestQueue
<1>8. CASE TaskQuiet \/ TaskReply \/ TaskSynAck \/ TaskAckAlloc \/ TaskAckSend \/ TaskFreeMsg
  <2>1. UNCHANGED <<mbox, inp, frame, task_p, up>> /\ rx_p' = rx_p
    BY <1>8 DEF TaskQuiet, TaskReply, TaskSynAck, TaskAckAlloc, TaskAckSend, TaskFreeMsg, rxv
  <2> QED BY <2>1, RestQueue
<1>9. CASE AppStart \/ AppAlloc \/ AppSend \/ AppConnect \/ AppSynSent
  <2>1. UNCHANGED <<mbox, inp, frame, task_p, up>> /\ rx_p' = rx_p
    BY <1>9 DEF AppStart, AppAlloc, AppSend, AppConnect, AppSynSent, rxv, taskv
  <2> QED BY <2>1, RestQueue
<1>10. CASE TaskReplyTooEarly \/ TaskSynAckTooEarly \/ AppNoBuffer \/ AppNoPcb \/ AppExit
  <2>1. UNCHANGED <<mbox, inp, frame, task_p>> /\ rx_p' = rx_p
    BY <1>10 DEF TaskReplyTooEarly, TaskSynAckTooEarly, AppNoBuffer, AppNoPcb, AppExit, rxv, taskv
  <2>2. up' = up \/ (up /\ up' = FALSE)
    BY <1>10, Zenon DEF TaskReplyTooEarly, TaskSynAckTooEarly, AppNoBuffer, AppNoPcb, AppExit, Crash
  <2> QED BY <2>1, <2>2, RestQueue
<1> QED
  BY <1>1, <1>2, <1>3, <1>4, <1>5, <1>6, <1>7, <1>8, <1>9, <1>10
     DEF Next, Rx, RxRest, Task, App, AppKey, AppRest

LEMMA InitQueue == Init => Carried /\ Queue!Init
<1> SUFFICES ASSUME Init PROVE Carried /\ Queue!Init
  OBVIOUS
<1>1. mbox = <<>> /\ rx_p = NULL /\ task_p = NULL /\ up = TRUE
  BY DEF Init
<1>2. Slots = {}
  BY <1>1 DEF Slots
<1>3. Carried
  BY <1>1, <1>2 DEF Carried
<1>4. Waiting = <<>>
  BY <1>2 DEF Waiting
<1> QED BY <1>1, <1>3, <1>4 DEF Queue!Init, Waiting

\* Every frame t_tcpip_input has posted is handed to t_raw_input once, with the
\* content it arrived with, in the order of the posts and one at a time: no
\* thread writes into a buffer, or fills in a message, that waits for the task.
THEOREM FramesInOrder == Spec => Queue!Safety
<1>1. FInv /\ Carried /\ [Next]_vars => Carried' /\ [Queue!Next]_(Queue!vars)
  BY QueueStepped DEF QueueStep
<1> QED BY <1>1, InitQueue, InductiveInvariant, PTL DEF Spec, Queue!Safety
=============================================================================
