------------------------------ MODULE UdpProofs ------------------------------
(***************************************************************************)
(* The list of UDP pcbs under a walk of t_udp_input, for any number of     *)
(* pcbs and ports.                                                         *)
(*                                                                         *)
(* The walk may stand on a pcb that is no longer on the list, and be led   *)
(* from one such pcb to the next, as t_udp_remove leaves the link of what  *)
(* it removes.  What it has before it is therefore a list of its own       *)
(* (Ahead), of pcbs on the list and pcbs removed.                          *)
(***************************************************************************)
EXTENDS TUdp, LinkedLists

\* The list itself.
Listed ==
  /\ Leads(Pcbs, NULL, next, t_udp_pcbs, listed)
  /\ listed \subseteq live /\ live \cap free = {}

\* What the main thread may count on between two steps of a call.
Caller ==
  /\ app \in {"push", "push_flag"} => acur \in live \ listed /\ next[acur] = t_udp_pcbs
  /\ app = "flag" => acur \in live
  /\ app = "free" => acur \in Pcbs \ live

\* From p the links nx lead to every pcb of s and to no pcb in use, of v, that is
\* not on the list l.
Ahead(nx, p, l, v, s) ==
  \E W : Leads(Pcbs, NULL, nx, p, W) /\ s \subseteq W /\ W \cap v \subseteq l

\* What t_udp_input may count on, until t_udp_new hands a block out.
Walker ==
  /\ ~fresh => \A p \in steady : p \in Pcbs /\ Wanted(p)
  /\ task = "walk" /\ ~fresh => Ahead(next, pcb, listed, live, steady)
  /\ task = "call" => pcb \in Pcbs /\ (recv[pcb] \/ fresh \/ unset)
  /\ task = "end" /\ pcb = NULL /\ ~fresh => steady = {}
  /\ task = "idle" => steady = {}
  /\ ~up => fresh \/ unset

IInv == TypeOK /\ Listed /\ Caller /\ Walker

LEMMA NullIsNone == NULL \notin Pcbs
  BY UdpAssumption

LEMMA AtIs == At = Following(NULL, next, t_udp_pcbs)
  BY Zenon DEF At, Following

LEMMA OnListIs ==
  ASSUME Listed, NEW p \in Pcbs
  PROVE  OnList(p) <=> p \in listed
<1>1. PICK f : f = Following(NULL, next, t_udp_pcbs)
  OBVIOUS
<1>2. PICK N : N = Cardinality(Pcbs)
  OBVIOUS
<1>3. Leads(Pcbs, NULL, next, t_udp_pcbs, listed) /\ IsFiniteSet(Pcbs)
  BY UdpAssumption DEF Listed
<1>4. p \in listed <=> \E k \in 0..N : f[k] = p
  BY <1>1, <1>2, <1>3, NullIsNone, FollowingMeets
<1>5. At = f /\ Indices = 0..N
  BY <1>1, <1>2, AtIs DEF Indices
<1> QED BY <1>4, <1>5 DEF OnList

LEMMA InitIs == Init => IInv
<1> SUFFICES ASSUME Init PROVE IInv
  OBVIOUS
<1>1. TypeOK
  BY UdpAssumption DEF Init, TypeOK
<1>2. Listed
  <2>1. Leads(Pcbs, NULL, next, NULL, {})
    BY LeadsNowhere
  <2> QED BY <2>1 DEF Init, Listed
<1>3. Caller /\ Walker
  BY DEF Init, Caller, Walker
<1> QED BY <1>1, <1>2, <1>3 DEF IInv

(***************************************************************************)
(* Type correctness.                                                       *)
(***************************************************************************)

LEMMA PortsAre ==
  /\ Ports \subseteq 0..PortSpace - 1 /\ RANGE_START \in 0..PortSpace - 1 /\ 0 \in 0..PortSpace - 1
  /\ MaxCount \in Nat
  /\ start_count \in 0..MaxCount => Ephemeral \in 0..PortSpace - 1
<1>1. PortSpace \in Nat \ {0} /\ RANGE_START \in Nat
  BY UdpAssumption
<1>2. start_count \in 0..MaxCount => Ephemeral \in 0..PortSpace - 1
  BY <1>1, UdpAssumption DEF Ephemeral
<1> QED BY <1>1, <1>2, UdpAssumption

LEMMA BindToType ==
  ASSUME TypeOK, NEW p \in Pcbs, NEW a \in Addrs, NEW q \in 0..PortSpace - 1,
         NEW then \in {"idle", "flag"}, BindTo(p, a, q, then), start_count' \in 0..MaxCount
  PROVE  TypeOK'
<1>1. /\ port' \in [Pcbs -> 0..PortSpace - 1] /\ local_ip' \in [Pcbs -> Addrs]
      /\ next' \in [Pcbs -> Pcbs \cup {NULL}]
      /\ app' \in {"idle", "push", "push_flag", "flag", "free"} /\ acur' \in Pcbs \cup {NULL}
  BY DEF TypeOK, BindTo
<1>2. UNCHANGED <<t_udp_pcbs, connected, recv, free, live, task, pcb, dest, dst, up>>
  BY DEF BindTo, taskv
<1> QED BY <1>1, <1>2 DEF TypeOK

LEMMA TypeStep ==
  ASSUME TypeOK, Caller, [Next]_vars
  PROVE  TypeOK'
<1>1. CASE New
  BY <1>1, PortsAre, UdpAssumption DEF TypeOK, New, taskv
<1>2. CASE Bind
  <2>1. PICK p \in live, a \in Addrs :
          \/ \E q \in Ports : BindTo(p, a, q, "idle") /\ UNCHANGED start_count
          \/ start_count < MaxCount /\ start_count' = start_count + 1 /\ BindTo(p, a, Ephemeral, "idle")
    BY <1>2 DEF Bind
  <2>2. p \in Pcbs /\ start_count \in 0..MaxCount
    BY DEF TypeOK
  <2>3. CASE \E q \in Ports : BindTo(p, a, q, "idle") /\ UNCHANGED start_count
    BY <2>2, <2>3, PortsAre, BindToType
  <2>4. CASE start_count < MaxCount /\ start_count' = start_count + 1 /\ BindTo(p, a, Ephemeral, "idle")
    <3>1. start_count' \in 0..MaxCount /\ Ephemeral \in 0..PortSpace - 1
      BY <2>2, <2>4, PortsAre
    <3> QED BY <2>2, <2>4, <3>1, BindToType
  <2> QED BY <2>1, <2>3, <2>4
<1>3. CASE ConnectUnbound
  <2>1. PICK p \in live : BindTo(p, local_ip[p], Ephemeral, "flag")
    BY <1>3 DEF ConnectUnbound
  <2>2. /\ start_count \in 0..MaxCount /\ p \in Pcbs /\ local_ip[p] \in Addrs
        /\ start_count < MaxCount /\ start_count' = start_count + 1
    BY <1>3 DEF ConnectUnbound, TypeOK
  <2>3. start_count' \in 0..MaxCount /\ Ephemeral \in 0..PortSpace - 1
    BY <2>2, PortsAre
  <2> QED BY <2>1, <2>2, <2>3, BindToType
<1>4. CASE Push
  BY <1>4, NullIsNone DEF TypeOK, Push, taskv, fields
<1>5. CASE Connect
  BY <1>5 DEF TypeOK, Connect, taskv, fields
<1>6. CASE Flag
  BY <1>6 DEF TypeOK, Flag, taskv
<1>7. CASE SetRecv
  BY <1>7 DEF TypeOK, SetRecv, taskv
<1>8. CASE Remove
  BY <1>8 DEF TypeOK, Remove, Unlinked, taskv
<1>9. CASE Free
  BY <1>9 DEF TypeOK, Caller, Free, taskv, fields
<1>10. CASE Begin
  BY <1>10, PortsAre, UdpAssumption DEF TypeOK, Begin, appAll, fields
<1>11. CASE Step
  BY <1>11 DEF TypeOK, Step, appAll, fields
<1>12. CASE Stop
  BY <1>12 DEF TypeOK, Stop, appAll, fields
<1>13. CASE Call
  BY <1>13 DEF TypeOK, Call, appAll, fields
<1>14. CASE End
  BY <1>14, PortsAre, UdpAssumption DEF TypeOK, End, appAll, fields
<1>15. CASE UNCHANGED vars
  BY <1>15 DEF TypeOK, vars, fields, taskv
<1> QED BY <1>1, <1>2, <1>3, <1>4, <1>5, <1>6, <1>7, <1>8, <1>9, <1>10, <1>11, <1>12, <1>13,
           <1>14, <1>15 DEF Next

(***************************************************************************)
(* The list.                                                               *)
(***************************************************************************)

\* t_udp_bind: the link of a pcb in use that is not on the list is set.
LEMMA BindToLinks ==
  ASSUME TypeOK, Listed, NEW p \in live, NEW a, NEW q,
         NEW then \in {"idle", "flag"}, BindTo(p, a, q, then)
  PROVE  /\ UNCHANGED <<t_udp_pcbs, listed, live, free>>
         /\ \A r \in Pcbs : r \notin live \/ r \in listed => next'[r] = next[r]
         /\ \/ app' = then /\ (then = "flag" => acur' = p)
            \/ app' \in {"push", "push_flag"} /\ acur' = p /\ p \notin listed /\ next'[p] = t_udp_pcbs
<1>1. p \in Pcbs /\ next \in [Pcbs -> Pcbs \cup {NULL}]
  BY DEF TypeOK
<1>2. OnList(p) <=> p \in listed
  BY <1>1, OnListIs
<1>3. CASE OnList(p)
  BY <1>2, <1>3 DEF BindTo
<1>4. CASE ~OnList(p)
  <2>1. next' = [next EXCEPT ![p] = t_udp_pcbs]
    BY <1>4 DEF BindTo
  <2>2. app' \in {"push", "push_flag"} /\ acur' = p /\ UNCHANGED <<t_udp_pcbs, listed, live, free>>
    BY <1>4 DEF BindTo
  <2> QED BY <1>1, <1>2, <1>4, <2>1, <2>2
<1> QED BY <1>3, <1>4

LEMMA ListedStill ==
  ASSUME Listed, TypeOK, \A r \in listed : next'[r] = next[r],
         UNCHANGED <<t_udp_pcbs, listed>>, listed \subseteq live', live' \cap free' = {}
  PROVE  Listed'
<1>1. Leads(Pcbs, NULL, next, t_udp_pcbs, listed)
  BY DEF Listed
<1>2. Leads(Pcbs, NULL, next', t_udp_pcbs, listed)
  BY <1>1, LeadsStill
<1> QED BY <1>2 DEF Listed

LEMMA BindToListed ==
  ASSUME TypeOK, Listed, NEW p \in live, NEW a, NEW q,
         NEW then \in {"idle", "flag"}, BindTo(p, a, q, then)
  PROVE  Listed'
<1>1. /\ UNCHANGED <<t_udp_pcbs, listed, live, free>>
      /\ \A r \in Pcbs : r \notin live \/ r \in listed => next'[r] = next[r]
  BY BindToLinks
<1>2. listed \subseteq Pcbs /\ listed \subseteq live /\ live \cap free = {}
  BY DEF Listed, TypeOK
<1> QED BY <1>1, <1>2, ListedStill

\* t_udp_remove takes p off whatever list it is on, its own or the walk's, as
\* far as the pcb in front of p there is on the list.
LEMMA UnlinkedLeads ==
  ASSUME TypeOK, Listed, NEW p \in Pcbs, NEW h, NEW W, Leads(Pcbs, NULL, next, h, W)
  PROVE  \/ Leads(Pcbs, NULL, Unlinked(p), h, W) /\ \A q \in W \cap listed : next[q] # p
         \/ Leads(Pcbs, NULL, Unlinked(p), h, W \ {p})
<1> DEFINE nx == Unlinked(p)
<1>1. W \subseteq Pcbs /\ listed \subseteq Pcbs
  BY LeadsWithin DEF Listed, TypeOK
<1>2. \A q \in Pcbs : nx[q] = IF q \in listed /\ next[q] = p THEN next[p] ELSE next[q]
  BY OnListIs DEF Unlinked
<1> HIDE DEF nx
<1>3. CASE \A q \in W \cap listed : next[q] # p
  <2>1. \A q \in W : nx[q] = next[q]
    BY <1>1, <1>2, <1>3
  <2>2. Leads(Pcbs, NULL, nx, h, W)
    BY <2>1, LeadsStill
  <2> QED BY <1>3, <2>2 DEF nx
<1>4. ASSUME NEW q \in W \cap listed, next[q] = p
      PROVE  Leads(Pcbs, NULL, nx, h, W \ {p})
  <2>1. p # NULL /\ q \in W /\ q \in Pcbs
    BY <1>1, NullIsNone
  <2>2. nx[q] = next[p]
    BY <1>2, <1>4, <2>1
  <2>3. \A r \in W : next[r] = p => r = q
    <3>1. \A r, t \in W : next[r] = next[t] /\ next[r] # NULL => r = t
      BY NullIsNone, LeadsBefore
    <3> QED BY <1>4, <2>1, <3>1
  <2>4. \A r \in W \ {p, q} : nx[r] = next[r]
    BY <1>1, <1>2, <2>3
  <2> QED BY <1>4, <2>1, <2>2, <2>4, NullIsNone, LeadsDrop
<1> QED BY <1>3, <1>4 DEF nx

LEMMA RemoveListed ==
  ASSUME TypeOK, Listed, Remove
  PROVE  Listed'
<1>1. PICK p \in live :
        /\ \/ t_udp_pcbs = p /\ t_udp_pcbs' = next[p] /\ UNCHANGED next
           \/ t_udp_pcbs # p /\ next' = Unlinked(p) /\ UNCHANGED t_udp_pcbs
        /\ live' = live \ {p} /\ listed' = listed \ {p} /\ UNCHANGED free
  BY DEF Remove
<1>2. /\ Leads(Pcbs, NULL, next, t_udp_pcbs, listed) /\ listed \subseteq live /\ live \cap free = {}
      /\ p \in Pcbs /\ NULL \notin Pcbs
  BY UdpAssumption DEF Listed, TypeOK
<1>3. listed' \subseteq live' /\ live' \cap free' = {}
  BY <1>1, <1>2
<1>4. CASE t_udp_pcbs = p /\ t_udp_pcbs' = next[p] /\ UNCHANGED next
  <2>1. Leads(Pcbs, NULL, next, next[p], listed \ {p})
    BY <1>2, <1>4, LeadsOn
  <2> QED BY <1>1, <1>3, <1>4, <2>1 DEF Listed
<1>5. CASE t_udp_pcbs # p /\ next' = Unlinked(p) /\ UNCHANGED t_udp_pcbs
  <2>1. CASE Leads(Pcbs, NULL, Unlinked(p), t_udp_pcbs, listed) /\ \A q \in listed : next[q] # p
    <3>1. p \notin listed
      BY <1>2, <1>5, <2>1, LeadsBefore
    <3>2. listed' = listed
      BY <1>1, <3>1
    <3> QED BY <1>3, <1>5, <2>1, <3>2 DEF Listed
  <2>2. CASE Leads(Pcbs, NULL, Unlinked(p), t_udp_pcbs, listed \ {p})
    BY <1>1, <1>3, <1>5, <2>2 DEF Listed
  <2>3. listed \cap listed = listed
    OBVIOUS
  <2> QED BY <1>2, <2>1, <2>2, <2>3, UnlinkedLeads
<1> QED BY <1>1, <1>4, <1>5

LEMMA PushListed ==
  ASSUME TypeOK, Listed, Caller, Push
  PROVE  Listed'
<1>1. acur \in live /\ acur \notin listed /\ next[acur] = t_udp_pcbs /\ acur \in Pcbs
  BY DEF Push, Caller, TypeOK
<1>2. /\ Leads(Pcbs, NULL, next, t_udp_pcbs, listed) /\ listed \subseteq live /\ live \cap free = {}
  BY DEF Listed
<1>3. t_udp_pcbs' = acur /\ listed' = listed \cup {acur} /\ UNCHANGED <<next, live, free>>
  BY DEF Push, fields
<1>4. Leads(Pcbs, NULL, next, acur, listed \cup {acur})
  BY <1>1, <1>2, LeadsPush
<1> QED BY <1>1, <1>2, <1>3, <1>4 DEF Listed

\* t_udp_new clears the link of a block that is not on the list.
LEMMA NewListed ==
  ASSUME TypeOK, Listed, New
  PROVE  Listed'
<1>1. PICK p \in free : /\ free' = free \ {p} /\ live' = live \cup {p}
                        /\ next' = [next EXCEPT ![p] = NULL] /\ UNCHANGED <<t_udp_pcbs, listed>>
  BY DEF New
<1>2. listed \subseteq live /\ live \cap free = {} /\ listed \subseteq Pcbs
      /\ next \in [Pcbs -> Pcbs \cup {NULL}]
  BY DEF Listed, TypeOK
<1>3. \A r \in listed : next'[r] = next[r]
  BY <1>1, <1>2
<1>4. listed \subseteq live' /\ live' \cap free' = {}
  BY <1>1, <1>2
<1> QED BY <1>1, <1>3, <1>4, ListedStill

LEMMA ListedStep ==
  ASSUME TypeOK, Listed, Caller, [Next]_vars
  PROVE  Listed'
<1>1. CASE New
  BY <1>1, NewListed
<1>2. CASE Bind
  <2>1. PICK p \in live : \E a, q : BindTo(p, a, q, "idle")
    BY <1>2 DEF Bind
  <2> QED BY <2>1, BindToListed
<1>3. CASE ConnectUnbound
  <2>1. PICK p \in live : \E a, q : BindTo(p, a, q, "flag")
    BY <1>3 DEF ConnectUnbound
  <2> QED BY <2>1, BindToListed
<1>4. CASE Push
  BY <1>4, PushListed
<1>5. CASE Remove
  BY <1>5, RemoveListed
<1>6. CASE Free
  <2>1. UNCHANGED <<t_udp_pcbs, next, live, listed>> /\ free' = free \cup {acur} /\ acur \notin live
    BY <1>6 DEF Free, Caller, fields, history
  <2> QED BY <2>1 DEF Listed
<1>7. CASE Connect \/ Flag \/ SetRecv \/ Begin \/ Step \/ Stop \/ Call \/ End \/ UNCHANGED vars
  <2>1. UNCHANGED <<t_udp_pcbs, next, live, listed, free>>
    BY <1>7 DEF Connect, Flag, SetRecv, Begin, Step, Stop, Call, End, vars, fields, appAll, history
  <2> QED BY <2>1 DEF Listed
<1> QED BY <1>1, <1>2, <1>3, <1>4, <1>5, <1>6, <1>7 DEF Next

(***************************************************************************)
(* The main thread between the steps of a call, and the walk.              *)
(***************************************************************************)

LEMMA CallerStep ==
  ASSUME TypeOK, Listed, Caller, [Next]_vars
  PROVE  Caller'
<1>1. CASE New \/ SetRecv \/ Flag \/ Free
  <2>1. app' = "idle"
    BY <1>1 DEF New, SetRecv, Flag, Free
  <2> QED BY <2>1 DEF Caller
<1>2. ASSUME NEW p \in live, NEW a, NEW q, NEW then \in {"idle", "flag"}, BindTo(p, a, q, then)
      PROVE  Caller'
  <2>1. /\ UNCHANGED <<t_udp_pcbs, listed, live, free>>
        /\ \/ app' = then /\ (then = "flag" => acur' = p)
           \/ app' \in {"push", "push_flag"} /\ acur' = p /\ p \notin listed /\ next'[p] = t_udp_pcbs
    BY <1>2, BindToLinks
  <2> QED BY <2>1 DEF Caller
<1>3. CASE Bind
  <2>1. PICK p \in live : \E a, q : BindTo(p, a, q, "idle")
    BY <1>3 DEF Bind
  <2> QED BY <1>2, <2>1
<1>4. CASE ConnectUnbound
  <2>1. PICK p \in live : \E a, q : BindTo(p, a, q, "flag")
    BY <1>4 DEF ConnectUnbound
  <2> QED BY <1>2, <2>1
<1>5. CASE Push
  <2>1. acur \in live /\ UNCHANGED live /\ (app' = "idle" \/ (app' = "flag" /\ acur' = acur))
    BY <1>5 DEF Push, Caller
  <2> QED BY <2>1 DEF Caller
<1>6. CASE Connect
  <2>1. acur' \in live /\ app' = "flag" /\ UNCHANGED live
    BY <1>6 DEF Connect
  <2> QED BY <2>1 DEF Caller
<1>7. CASE Remove
  <2>1. acur' \in Pcbs /\ acur' \notin live' /\ app' = "free"
    BY <1>7 DEF Remove, TypeOK
  <2> QED BY <2>1 DEF Caller
<1>8. CASE Begin \/ Step \/ Stop \/ Call \/ End \/ UNCHANGED vars
  <2>1. UNCHANGED <<t_udp_pcbs, next, live, listed, app, acur>>
    BY <1>8 DEF Begin, Step, Stop, Call, End, vars, fields, appAll, history
  <2> QED BY <2>1 DEF Caller
<1> QED BY <1>1, <1>3, <1>4, <1>5, <1>6, <1>7, <1>8 DEF Next

\* What lies ahead of the walk stays so when links of pcbs in use that are not
\* on the list change, and pcbs are listed or no longer looked for.
LEMMA AheadStill ==
  ASSUME TypeOK, Listed, NEW h, Ahead(next, h, listed, live, steady),
         NEW nx, \A r \in Pcbs : r \notin live \/ r \in listed => nx[r] = next[r],
         NEW l, listed \subseteq l, NEW v, v \subseteq live, NEW s, s \subseteq steady
  PROVE  Ahead(nx, h, l, v, s)
<1>1. PICK W : Leads(Pcbs, NULL, next, h, W) /\ steady \subseteq W /\ W \cap live \subseteq listed
  BY DEF Ahead
<1>2. W \subseteq Pcbs
  BY <1>1, LeadsWithin
<1>3. \A r \in W : nx[r] = next[r]
  BY <1>1, <1>2
<1>4. Leads(Pcbs, NULL, nx, h, W)
  BY <1>1, <1>3, LeadsStill
<1>5. s \subseteq W /\ W \cap v \subseteq l
  BY <1>1
<1> QED BY <1>4, <1>5 DEF Ahead

\* t_udp_remove under a walk: a pcb it stands on, or is led to, may go.
LEMMA AheadRemove ==
  ASSUME TypeOK, Listed, NEW h, Ahead(next, h, listed, live, steady), NEW p \in live,
         NEW nx, nx = next \/ nx = Unlinked(p)
  PROVE  Ahead(nx, h, listed \ {p}, live \ {p}, steady \ {p})
<1>1. PICK W : Leads(Pcbs, NULL, next, h, W) /\ steady \subseteq W /\ W \cap live \subseteq listed
  BY DEF Ahead
<1>2. p \in Pcbs
  BY DEF TypeOK
<1>3. \/ Leads(Pcbs, NULL, nx, h, W)
      \/ Leads(Pcbs, NULL, nx, h, W \ {p})
  BY <1>1, <1>2, UnlinkedLeads
<1>4. CASE Leads(Pcbs, NULL, nx, h, W)
  <2>1. steady \ {p} \subseteq W /\ W \cap (live \ {p}) \subseteq listed \ {p}
    BY <1>1
  <2> QED BY <1>4, <2>1 DEF Ahead
<1>5. CASE Leads(Pcbs, NULL, nx, h, W \ {p})
  <2>1. steady \ {p} \subseteq W \ {p} /\ (W \ {p}) \cap (live \ {p}) \subseteq listed \ {p}
    BY <1>1
  <2> QED BY <1>5, <2>1 DEF Ahead
<1> QED BY <1>3, <1>4, <1>5

\* A call of the main thread, as the walk sees it.
LEMMA WalkerStill ==
  ASSUME Walker, UNCHANGED <<task, pcb, dest, dst, up, fresh, unset, recv>>,
         steady' \subseteq steady,
         \A p \in steady' : p \in Pcbs /\ Wanted(p) => Wanted(p)',
         Ahead(next, pcb, listed, live, steady) => Ahead(next', pcb, listed', live', steady')
  PROVE  Walker'
<1>1. ~fresh' => \A p \in steady' : p \in Pcbs /\ Wanted(p)'
  BY DEF Walker
<1>2. task' = "walk" /\ ~fresh' => Ahead(next', pcb', listed', live', steady')
  BY DEF Walker
<1>3. /\ task' = "call" => pcb' \in Pcbs /\ (recv'[pcb'] \/ fresh' \/ unset')
      /\ task' = "end" /\ pcb' = NULL /\ ~fresh' => steady' = {}
      /\ task' = "idle" => steady' = {}
      /\ ~up' => fresh' \/ unset'
  BY DEF Walker
<1> QED BY <1>1, <1>2, <1>3 DEF Walker

LEMMA BindToWalker ==
  ASSUME TypeOK, Listed, Walker,
         NEW p \in live, NEW a, NEW q, NEW then \in {"idle", "flag"}, BindTo(p, a, q, then)
  PROVE  Walker'
<1>1. /\ UNCHANGED <<t_udp_pcbs, listed, live, free>>
      /\ \A r \in Pcbs : r \notin live \/ r \in listed => next'[r] = next[r]
  BY BindToLinks
<1>2. /\ UNCHANGED <<task, pcb, dest, dst, up, fresh, unset, recv, connected>>
      /\ local_ip' = [local_ip EXCEPT ![p] = a] /\ port' = [port EXCEPT ![p] = q]
      /\ steady' = IF a = dst /\ q = dest THEN steady ELSE steady \ {p}
  BY DEF BindTo, taskv
<1>3. /\ port \in [Pcbs -> 0..PortSpace - 1] /\ local_ip \in [Pcbs -> Addrs]
      /\ p \in Pcbs
  BY DEF TypeOK
<1>4. ASSUME NEW r \in steady', r \in Pcbs /\ Wanted(r)
      PROVE  Wanted(r)'
  <2>1. connected'[r] /\ dest' = dest /\ dst' = dst
    BY <1>2, <1>4 DEF Wanted
  <2>2. CASE r = p
    <3>1. a = dst /\ q = dest
      BY <1>2, <2>2
    <3>2. port'[r] = q /\ local_ip'[r] = a
      BY <1>2, <1>3, <2>2
    <3> QED BY <2>1, <3>1, <3>2 DEF Wanted
  <2>3. CASE r # p
    <3>1. port'[r] = port[r] /\ local_ip'[r] = local_ip[r]
      BY <1>2, <1>3, <1>4, <2>3
    <3> QED BY <1>4, <2>1, <3>1 DEF Wanted
  <2> QED BY <2>2, <2>3
<1>5. steady' \subseteq steady
  BY <1>2
<1>6. Ahead(next, pcb, listed, live, steady) => Ahead(next', pcb, listed', live', steady')
  BY <1>1, <1>5, AheadStill
<1> QED BY <1>2, <1>4, <1>5, <1>6, WalkerStill

LEMMA RemoveWalker ==
  ASSUME TypeOK, Listed, Walker, Remove
  PROVE  Walker'
<1>1. PICK p \in live :
        /\ next' = next \/ next' = Unlinked(p)
        /\ live' = live \ {p} /\ listed' = listed \ {p} /\ steady' = steady \ {p}
        /\ UNCHANGED <<local_ip, port, connected, recv, task, pcb, dest, dst, up, fresh, unset>>
  BY DEF Remove, taskv
<1>2. Ahead(next, pcb, listed, live, steady) => Ahead(next', pcb, listed', live', steady')
  BY <1>1, AheadRemove
<1>3. steady' \subseteq steady /\ \A q \in Pcbs : Wanted(q) => Wanted(q)'
  BY <1>1 DEF Wanted
<1> QED BY <1>1, <1>2, <1>3, WalkerStill

\* What is steady is wanted, so that a pcb the walk passes is not.
LEMMA StepWalker ==
  ASSUME TypeOK, Listed, Walker, Step
  PROVE  Walker'
<1>1. /\ task = "walk" /\ pcb # NULL /\ ~Wanted(pcb) /\ pcb' = next[pcb]
      /\ UNCHANGED <<next, local_ip, port, connected, recv, listed, live, task, dest, dst, up, steady, fresh, unset>>
  BY DEF Step, appAll, fields
<1>2. ASSUME ~fresh
      PROVE  Ahead(next, next[pcb], listed, live, steady)
  <2>1. PICK W : Leads(Pcbs, NULL, next, pcb, W) /\ steady \subseteq W /\ W \cap live \subseteq listed
    BY <1>1, <1>2 DEF Walker, Ahead
  <2>2. Leads(Pcbs, NULL, next, next[pcb], W \ {pcb})
    BY <1>1, <2>1, NullIsNone, LeadsOn
  <2>3. pcb \notin steady
    BY <1>1, <1>2 DEF Walker
  <2>4. steady \subseteq W \ {pcb} /\ (W \ {pcb}) \cap live \subseteq listed
    BY <2>1, <2>3
  <2> QED BY <2>2, <2>4 DEF Ahead
<1>3. \A p \in Pcbs : Wanted(p) => Wanted(p)'
  BY <1>1 DEF Wanted
<1> QED BY <1>1, <1>2, <1>3 DEF Walker

LEMMA StopWalker ==
  ASSUME TypeOK, Listed, Walker, Stop
  PROVE  Walker'
<1>1. /\ task = "walk" /\ task' = IF HasCallback THEN "call" ELSE "end"
      /\ UNCHANGED <<next, local_ip, port, connected, recv, listed, live, pcb, dest, dst, up, steady, fresh, unset>>
  BY DEF Stop, appAll, fields
<1>2. ASSUME ~fresh, pcb = NULL
      PROVE  steady = {}
  <2>1. PICK W : Leads(Pcbs, NULL, next, pcb, W) /\ steady \subseteq W
    BY <1>1, <1>2 DEF Walker, Ahead
  <2>2. W = {}
    BY <1>2, <2>1, NullIsNone, LeadsEnd
  <2> QED BY <2>1, <2>2
<1>3. HasCallback => pcb \in Pcbs /\ recv[pcb]
  BY DEF HasCallback, TypeOK
<1>4. \A p \in Pcbs : Wanted(p) => Wanted(p)'
  BY <1>1 DEF Wanted
<1> QED BY <1>1, <1>2, <1>3, <1>4 DEF Walker

LEMMA BeginWalker ==
  ASSUME TypeOK, Listed, Walker, Begin
  PROVE  Walker'
<1>1. /\ task = "idle" /\ task' = "walk" /\ pcb' = t_udp_pcbs
      /\ steady' = {p \in listed : connected[p] /\ port[p] = dest' /\ local_ip[p] = dst'}
      /\ UNCHANGED <<next, local_ip, port, connected, recv, listed, live, up, fresh, unset>>
  BY DEF Begin, appAll, fields
<1>2. Leads(Pcbs, NULL, next, t_udp_pcbs, listed) /\ listed \subseteq Pcbs
  BY DEF Listed, TypeOK
<1>3. steady' \subseteq listed /\ listed \cap live \subseteq listed
  BY <1>1
<1>4. Ahead(next, t_udp_pcbs, listed, live, steady')
  BY <1>2, <1>3 DEF Ahead
<1>5. \A p \in steady' : p \in Pcbs /\ Wanted(p)'
  BY <1>1, <1>2 DEF Wanted
<1> QED BY <1>1, <1>4, <1>5 DEF Walker

LEMMA WalkerStep ==
  ASSUME TypeOK, Listed, Caller, Walker, [Next]_vars
  PROVE  Walker'
<1>1. CASE New
  <2>1. fresh' = (task # "idle") /\ UNCHANGED <<task, pcb, up, steady>> /\ up
    BY <1>1 DEF New, taskv
  <2> QED BY <2>1 DEF Walker
<1>2. CASE Bind
  <2>1. PICK p \in live : \E a, q : BindTo(p, a, q, "idle")
    BY <1>2 DEF Bind
  <2> QED BY <2>1, BindToWalker
<1>3. CASE ConnectUnbound
  <2>1. PICK p \in live : \E a, q : BindTo(p, a, q, "flag")
    BY <1>3 DEF ConnectUnbound
  <2> QED BY <2>1, BindToWalker
<1>4. CASE Push
  <2>1. /\ UNCHANGED <<task, pcb, dest, dst, up, fresh, unset, fields, steady, live>>
        /\ listed \subseteq listed'
    BY <1>4 DEF Push, taskv
  <2>2. Ahead(next, pcb, listed, live, steady) => Ahead(next', pcb, listed', live', steady')
    BY <2>1, AheadStill DEF fields
  <2>3. \A p \in Pcbs : Wanted(p) => Wanted(p)'
    BY <2>1 DEF Wanted, fields
  <2>4. UNCHANGED recv
    BY <2>1 DEF fields
  <2> QED BY <2>1, <2>2, <2>3, <2>4, WalkerStill
<1>5. CASE Flag
  <2>1. /\ UNCHANGED <<task, pcb, dest, dst, up, fresh, unset, recv, local_ip, port, steady, next, live, listed>>
        /\ connected' = [connected EXCEPT ![acur] = TRUE]
    BY <1>5 DEF Flag, taskv, history
  <2>2. \A p \in Pcbs : connected[p] => connected'[p]
    BY <2>1 DEF TypeOK
  <2>3. \A p \in Pcbs : Wanted(p) => Wanted(p)'
    BY <2>1, <2>2 DEF Wanted
  <2> QED BY <2>1, <2>3, WalkerStill
<1>6. CASE SetRecv
  <2>1. PICK p \in live, set \in BOOLEAN :
          /\ recv' = [recv EXCEPT ![p] = set]
          /\ unset' = (unset \/ (task = "call" /\ p = pcb /\ ~set))
          /\ UNCHANGED <<task, pcb, dest, dst, up, fresh, local_ip, port, connected, steady, next, live, listed>>
    BY <1>6 DEF SetRecv, taskv
  <2>2. task = "call" /\ pcb \in Pcbs /\ recv[pcb] => recv'[pcb] \/ unset'
    <3>1. CASE p = pcb
      <4>1. CASE set
        BY <2>1, <3>1, <4>1 DEF TypeOK
      <4>2. CASE ~set
        BY <2>1, <3>1, <4>2
      <4> QED BY <4>1, <4>2
    <3>2. CASE p # pcb
      BY <2>1, <3>2 DEF TypeOK
    <3> QED BY <3>1, <3>2
  <2>3. \A q \in Pcbs : Wanted(q) => Wanted(q)'
    BY <2>1 DEF Wanted
  <2> QED BY <2>1, <2>2, <2>3 DEF Walker
<1>7. CASE Remove
  BY <1>7, RemoveWalker
<1>8. CASE Connect \/ Free \/ UNCHANGED vars
  <2>1. UNCHANGED <<task, pcb, dest, dst, up, fresh, unset, fields, steady, live, listed>>
    BY <1>8 DEF Connect, Free, vars, taskv, history
  <2>2. UNCHANGED <<next, recv>> /\ \A p \in Pcbs : Wanted(p) => Wanted(p)'
    BY <2>1 DEF Wanted, fields
  <2> QED BY <2>1, <2>2 DEF Walker
<1>9. CASE Begin
  BY <1>9, BeginWalker
<1>10. CASE Step
  BY <1>10, StepWalker
<1>11. CASE Stop
  BY <1>11, StopWalker
<1>12. CASE Call
  <2>1. /\ UNCHANGED <<pcb, dest, dst, fresh, unset, fields, steady, live, listed>>
        /\ task = "call" /\ pcb \in Pcbs /\ (recv[pcb] \/ fresh \/ unset)
        /\ \/ task' = "end" /\ UNCHANGED up
           \/ ~recv[pcb] /\ UNCHANGED task
    BY <1>12 DEF Call, appAll, Walker
  <2>2. UNCHANGED recv /\ \A p \in Pcbs : Wanted(p) => Wanted(p)'
    BY <2>1 DEF Wanted, fields
  <2> QED BY <2>1, <2>2, NullIsNone DEF Walker
<1>13. CASE End
  <2>1. task' = "idle" /\ steady' = {} /\ UNCHANGED up /\ up
    BY <1>13 DEF End
  <2> QED BY <2>1 DEF Walker
<1> QED BY <1>1, <1>2, <1>3, <1>4, <1>5, <1>6, <1>7, <1>8, <1>9, <1>10, <1>11, <1>12, <1>13 DEF Next

(***************************************************************************)
(* The theorems.                                                           *)
(***************************************************************************)

\* What holds between any two steps of the main thread and the task: the list
\* is whole, and what lies ahead of a walk is known, although it may have left
\* the list.
THEOREM Invariant == Spec => []IInv
<1>1. Init => IInv
  BY InitIs
<1>2. IInv /\ [Next]_vars => IInv'
  BY TypeStep, ListedStep, CallerStep, WalkerStep DEF IInv
<1> QED BY <1>1, <1>2, PTL DEF Spec

\* Links lead to blocks of the pool or nowhere, and a port given out for port
\* 0 fits in u16 although it counts past the end of its range.
THEOREM TypeCorrect == Spec => []TypeOK
<1>1. IInv => TypeOK
  BY DEF IInv
<1> QED BY <1>1, Invariant, PTL

\* After any calls of bind, connect and remove the list ends and has every
\* bound pcb once, none removed or freed.
THEOREM ListCorrect == Spec => []ListExact
<1>1. ASSUME IInv
      PROVE  ListExact
  <2>1. Leads(Pcbs, NULL, next, t_udp_pcbs, listed) /\ listed \subseteq live /\ IsFiniteSet(Pcbs)
    BY <1>1, UdpAssumption DEF IInv, Listed
  <2>2. PICK f : f = Following(NULL, next, t_udp_pcbs)
    OBVIOUS
  <2>3. PICK N : N = Cardinality(Pcbs)
    OBVIOUS
  <2>4. /\ f[N] = NULL /\ {f[k] : k \in 0..N} \ {NULL} = listed
        /\ \A j, k \in 0..N : f[j] = f[k] /\ f[j] # NULL => j = k
    BY <2>1, <2>2, <2>3, NullIsNone, FollowingMeets
  <2>5. At = f /\ Indices = 0..N
    BY <2>2, <2>3, AtIs DEF Indices
  <2> QED BY <2>1, <2>3, <2>4, <2>5, Zenon DEF ListExact
<1> QED BY <1>1, Invariant, PTL

\* t_udp_input finds a pcb that was connected and bound to the datagram's port
\* and address all along, whatever is bound and removed under it, unless t_udp_new was called.
THEOREM NoneMissed == Spec => []NotMissed
<1>1. IInv => NotMissed
  BY DEF IInv, Walker, NotMissed
<1> QED BY <1>1, Invariant, PTL

\* pcb->recv, read a second time to call it, is still set unless t_set_udp_recv
\* took it off in between, or a block was handed out.
THEOREM CallbackCalled == Spec => []NullCallOnlyIfTakenAway
<1>1. IInv => NullCallOnlyIfTakenAway
  BY DEF IInv, Walker, NullCallOnlyIfTakenAway
<1> QED BY <1>1, Invariant, PTL
=============================================================================
