--------------------------- MODULE TTcpPcbsProofs ---------------------------
(***************************************************************************)
(* The list tcp_active_pcbs under registration by the main thread and the  *)
(* search of the task, for any number of pcbs.                             *)
(*                                                                         *)
(* As long as no registration has overlapped a move to the front, the list *)
(* is whole except for the pcb being moved (Whole).  An overlap takes      *)
(* three pcbs (Threads), so that with the two of the build there is none.  *)
(***************************************************************************)
EXTENDS TTcpPcbs, LinkedLists

Threads ==
  /\ app # "idle" => npcb \in Pcbs \ free
  /\ app \in {"link", "push"} => npcb \notin registered
  /\ app = "syn" => npcb \in registered
  /\ overlapped => Cardinality(Pcbs \ free) >= 3
  /\ due => dest \in registered \cap addressed

\* The pcbs the links lead to.
InPlace == IF Moving(task) THEN registered \ {pcb} ELSE registered

\* From p the links nx lead to registered pcbs, of r, and to d if it is due.
Ahead(nx, p, r, is, d) ==
  \E W : Leads(Pcbs, NULL, nx, p, W) /\ W \subseteq r /\ (is => d \in W)

Whole ==
  /\ Leads(Pcbs, NULL, next, tcp_active_pcbs, InPlace)
  /\ app = "push" => ~Moving(task) /\ next[npcb] = tcp_active_pcbs
  /\ Moving(task) => pcb \in registered /\ prev \in registered /\ prev # pcb
  /\ task = "head" => next[pcb] = tcp_active_pcbs
  /\ task = "walk" => Ahead(next, pcb, registered, due, dest)
  /\ task = "walk" /\ prev # NULL => prev \in registered /\ next[prev] = pcb
  /\ due /\ task # "walk" => pcb = dest

IInv == TypeOK /\ Threads /\ (~overlapped => Whole)

LEMMA NullIsNone == NULL \notin Pcbs
  BY PcbAssumption

LEMMA InitIs == Init => IInv
<1> SUFFICES ASSUME Init PROVE IInv
  OBVIOUS
<1>1. TypeOK
  BY DEF Init, TypeOK
<1>2. Threads
  BY DEF Init, Threads, Moving
<1>3. Whole
  <2>1. Leads(Pcbs, NULL, next, NULL, {})
    BY LeadsNowhere
  <2> QED BY <2>1 DEF Init, Whole, InPlace, Moving
<1> QED BY <1>1, <1>2, <1>3 DEF IInv

(***************************************************************************)
(* Types, and how many pcbs an overlap takes.                              *)
(***************************************************************************)

LEMMA TypeStep ==
  ASSUME TypeOK, Threads, [Next]_vars
  PROVE  TypeOK'
<1>1. CASE New
  BY <1>1 DEF TypeOK, New, taskv
<1>2. CASE NewFails
  BY <1>2 DEF TypeOK, NewFails, taskv, listv, appv
<1>3. CASE RegLink
  BY <1>3 DEF TypeOK, Threads, RegLink, Linked, taskv
<1>4. CASE RegPush
  BY <1>4 DEF TypeOK, Threads, RegPush, taskv
<1>5. CASE ConnectEnds
  BY <1>5 DEF TypeOK, Threads, ConnectEnds, taskv, listv
<1>6. CASE Begin
  BY <1>6 DEF TypeOK, Begin, appv, listv
<1>7. CASE Step
  BY <1>7 DEF TypeOK, Step, appv, listv
<1>8. CASE Found
  BY <1>8 DEF TypeOK, Found, Unlinked, appv
<1>9. CASE MoveLink
  BY <1>9 DEF TypeOK, MoveLink, LinkedInFront, appv
<1>10. CASE MovePush
  BY <1>10 DEF TypeOK, MovePush, appv
<1>11. CASE NotFound
  BY <1>11 DEF TypeOK, NotFound, appv, listv
<1>12. CASE End
  BY <1>12 DEF TypeOK, End, appv, listv
<1>13. CASE UNCHANGED vars
  BY <1>13 DEF TypeOK, vars, appv, listv, taskv
<1> QED BY <1>1, <1>2, <1>3, <1>4, <1>5, <1>6, <1>7, <1>8, <1>9, <1>10, <1>11, <1>12, <1>13
           DEF Next, App, Search

LEMMA ThreePcbs ==
  ASSUME NEW S, IsFiniteSet(S), NEW a \in S, NEW b \in S, NEW c \in S, a # b, a # c, b # c
  PROVE  Cardinality(S) >= 3
<1>1. IsFiniteSet({}) /\ Cardinality({}) = 0
  BY FS_EmptySet
<1>2. IsFiniteSet({a}) /\ Cardinality({a}) = 1
  BY FS_Singleton
<1>3. IsFiniteSet({a} \cup {b}) /\ Cardinality({a} \cup {b}) = 2
  <2>1. b \notin {a}
    OBVIOUS
  <2>2. Cardinality({a} \cup {b}) = Cardinality({a}) + 1 /\ IsFiniteSet({a} \cup {b})
    BY <1>2, <2>1, FS_AddElement
  <2> QED BY <1>2, <2>2
<1>4. IsFiniteSet({a, b} \cup {c}) /\ Cardinality({a, b} \cup {c}) = 3
  <2>1. c \notin {a, b} /\ {a} \cup {b} = {a, b}
    OBVIOUS
  <2> QED BY <1>3, <2>1, FS_AddElement
<1>5. {a, b} \cup {c} \in SUBSET S
  OBVIOUS
<1>6. Cardinality({a, b} \cup {c}) <= Cardinality(S)
  BY <1>5, FS_Subset
<1> QED BY <1>4, <1>6, FS_CardinalityType

LEMMA MorePcbs ==
  ASSUME NEW S \in SUBSET Pcbs, NEW T \in SUBSET S, Cardinality(Pcbs \ S) >= 3
  PROVE  Cardinality(Pcbs \ T) >= 3
<1>1. IsFiniteSet(Pcbs \ T) /\ Pcbs \ S \in SUBSET (Pcbs \ T)
  BY PcbAssumption, FS_Subset
<1>2. Cardinality(Pcbs \ S) <= Cardinality(Pcbs \ T)
  BY <1>1, FS_Subset
<1>3. Cardinality(Pcbs \ T) \in Nat /\ Cardinality(Pcbs \ S) \in Nat
  BY <1>1, FS_Subset, FS_CardinalityType
<1> QED BY <1>2, <1>3

\* A registration and a move under way together: the pcb being registered, the
\* one being moved, and the one it had in front of it.
LEMMA OverlapTakesThree ==
  ASSUME TypeOK, NEW a \in registered, NEW b \in registered, a # b,
         NEW c \in Pcbs \ free, c \notin registered
  PROVE  Cardinality(Pcbs \ free) >= 3
<1>1. IsFiniteSet(Pcbs \ free)
  BY PcbAssumption, FS_Subset
<1>2. a \in Pcbs \ free /\ b \in Pcbs \ free
  BY DEF TypeOK
<1> QED BY <1>1, <1>2, ThreePcbs

\* What the search has found, and what it has in front of it.
LEMMA FoundIs ==
  ASSUME TypeOK, Whole, task = "walk", pcb # NULL
  PROVE  /\ InPlace = registered /\ pcb \in registered
         /\ prev # NULL => prev \in registered /\ prev # pcb /\ next[prev] = pcb
<1>1. ~Moving(task)
  BY DEF Moving
<1>2. Leads(Pcbs, NULL, next, tcp_active_pcbs, registered) /\ InPlace = registered
  BY <1>1 DEF Whole, InPlace
<1>3. PICK W : Leads(Pcbs, NULL, next, pcb, W) /\ W \subseteq registered
  BY DEF Whole, Ahead
<1>4. pcb \in W
  BY <1>3, NullIsNone, LeadsOn
<1>5. \A q \in registered : next[q] # q
  BY <1>2, NullIsNone, LeadsBefore
<1>6. prev # NULL => prev \in registered /\ next[prev] = pcb
  BY DEF Whole
<1> QED BY <1>2, <1>3, <1>4, <1>5, <1>6

LEMMA ThreadsStep ==
  ASSUME TypeOK, Threads, ~overlapped => Whole, [Next]_vars
  PROVE  Threads'
<1>1. CASE New
  <2>1. PICK p \in free :
          /\ npcb' = p /\ free' = free \ {p} /\ app' = "link"
          /\ UNCHANGED <<addressed, registered, due, dest, overlapped>>
    BY <1>1 DEF New, taskv
  <2>2. p \in Pcbs /\ p \notin registered /\ free \in SUBSET Pcbs /\ free' \in SUBSET free
    BY <2>1 DEF TypeOK
  <2>3. overlapped' => Cardinality(Pcbs \ free') >= 3
    BY <2>1, <2>2, MorePcbs DEF Threads
  <2> QED BY <2>1, <2>2, <2>3 DEF Threads
<1>2. CASE RegLink
  <2>1. /\ app = "link" /\ app' = "push" /\ overlapped' = (overlapped \/ Moving(task))
        /\ UNCHANGED <<npcb, free, registered, addressed, due, dest>>
    BY <1>2 DEF RegLink, taskv
  <2>2. npcb \in Pcbs \ free /\ npcb \notin registered
    BY <2>1 DEF Threads
  <2>3. ~overlapped /\ Moving(task) => Cardinality(Pcbs \ free) >= 3
    <3>1. Whole /\ Moving(task) => pcb \in registered /\ prev \in registered /\ prev # pcb
      BY DEF Whole
    <3> QED BY <2>2, <3>1, OverlapTakesThree
  <2> QED BY <2>1, <2>2, <2>3 DEF Threads
<1>3. CASE RegPush
  <2>1. /\ app' = "syn" /\ npcb \in Pcbs \ free /\ registered' = registered \cup {npcb}
        /\ UNCHANGED <<npcb, free, addressed, due, dest, overlapped>>
    BY <1>3 DEF RegPush, Threads, taskv
  <2> QED BY <2>1 DEF Threads
<1>4. CASE ConnectEnds
  <2>1. /\ app' = "idle" /\ addressed \subseteq addressed'
        /\ UNCHANGED <<free, registered, due, dest, overlapped>>
    BY <1>4 DEF ConnectEnds, taskv
  <2> QED BY <2>1 DEF Threads
<1>5. CASE Begin
  <2>1. /\ due' = (dest' \in registered \cap addressed)
        /\ UNCHANGED <<free, registered, addressed, app, npcb, overlapped>>
    BY <1>5 DEF Begin, appv
  <2> QED BY <2>1 DEF Threads
<1>6. CASE Found
  <2>1. /\ task = "walk" /\ pcb # NULL
        /\ UNCHANGED <<free, registered, addressed, app, npcb, due, dest>>
        /\ overlapped' => overlapped \/ (prev # NULL /\ app = "push")
    <3>1. /\ task = "walk" /\ pcb # NULL
          /\ UNCHANGED <<free, registered, addressed, app, npcb, due, dest>>
      BY <1>6 DEF Found, appv
    <3>2. CASE UNCHANGED overlapped
      BY <3>1, <3>2
    <3>3. CASE prev # NULL /\ overlapped' = (overlapped \/ app = "push")
      <4>1. overlapped' => overlapped \/ app = "push"
        BY <3>3, Zenon
      <4> QED BY <3>1, <3>3, <4>1, Zenon
    <3> QED BY <1>6, <3>2, <3>3 DEF Found
  <2>2. ~overlapped /\ prev # NULL /\ app = "push" => Cardinality(Pcbs \ free) >= 3
    <3>1. Whole /\ prev # NULL => pcb \in registered /\ prev \in registered /\ prev # pcb
      BY <2>1, FoundIs
    <3>2. app = "push" => npcb \in Pcbs \ free /\ npcb \notin registered
      BY DEF Threads
    <3> QED BY <3>1, <3>2, OverlapTakesThree
  <2> QED BY <2>1, <2>2 DEF Threads
<1>7. CASE NewFails \/ Step \/ MoveLink \/ MovePush \/ NotFound \/ UNCHANGED vars
  <2>1. UNCHANGED <<free, registered, addressed, app, npcb, due, dest, overlapped>>
    BY <1>7 DEF NewFails, Step, MoveLink, MovePush, NotFound, vars, appv, taskv
  <2> QED BY <2>1 DEF Threads
<1>8. CASE End
  <2>1. due' = FALSE /\ UNCHANGED <<free, registered, addressed, app, npcb, overlapped>>
    BY <1>8 DEF End, appv
  <2> QED BY <2>1 DEF Threads
<1> QED BY <1>1, <1>2, <1>3, <1>4, <1>5, <1>6, <1>7, <1>8 DEF Next, App, Search

(***************************************************************************)
(* The list, while nothing has overlapped.                                 *)
(***************************************************************************)

\* The link of a pcb that is not registered may be set.
LEMMA LinkSet ==
  ASSUME TypeOK, Whole, NEW p \in Pcbs, p \notin registered, NEW h, next' = [next EXCEPT ![p] = h],
         UNCHANGED <<registered, task, pcb, prev, dest, due>>
  PROVE  /\ Leads(Pcbs, NULL, next', tcp_active_pcbs, InPlace')
         /\ task = "walk" => Ahead(next', pcb, registered, due, dest)
         /\ \A q \in registered : next'[q] = next[q]
         /\ next'[p] = h
<1>1. \A q \in registered : next'[q] = next[q]
  BY DEF TypeOK
<1>2. InPlace' = InPlace /\ InPlace \subseteq registered
  BY DEF InPlace, Moving
<1>3. Leads(Pcbs, NULL, next', tcp_active_pcbs, InPlace)
  <2>1. Leads(Pcbs, NULL, next, tcp_active_pcbs, InPlace)
    BY DEF Whole
  <2>2. \A q \in InPlace : next'[q] = next[q]
    BY <1>1, <1>2
  <2> QED BY <2>1, <2>2, LeadsStill
<1>4. task = "walk" => Ahead(next', pcb, registered, due, dest)
  <2> SUFFICES ASSUME task = "walk" PROVE Ahead(next', pcb, registered, due, dest)
    OBVIOUS
  <2>1. PICK W : Leads(Pcbs, NULL, next, pcb, W) /\ W \subseteq registered /\ (due => dest \in W)
    BY DEF Whole, Ahead
  <2>2. \A q \in W : next'[q] = next[q]
    BY <1>1, <2>1
  <2>3. Leads(Pcbs, NULL, next', pcb, W)
    BY <2>1, <2>2, LeadsStill
  <2> QED BY <2>1, <2>3 DEF Ahead
<1>5. next'[p] = h
  BY DEF TypeOK
<1> QED BY <1>1, <1>2, <1>3, <1>4, <1>5

\* The step may set the link of a pcb that is not registered, no more.
LEMMA LinkSetWhole ==
  ASSUME TypeOK, Whole, NEW p \in Pcbs, p \notin registered, NEW h, next' = [next EXCEPT ![p] = h],
         UNCHANGED <<registered, tcp_active_pcbs, task, pcb, prev, dest, due>>,
         app' = "push" => ~Moving(task) /\ npcb' = p /\ h = tcp_active_pcbs
  PROVE  Whole'
<1>1. /\ Leads(Pcbs, NULL, next', tcp_active_pcbs, InPlace')
      /\ task = "walk" => Ahead(next', pcb, registered, due, dest)
      /\ \A q \in registered : next'[q] = next[q]
      /\ next'[p] = h
  BY LinkSet
<1>2. task = "head" => pcb \in registered
  BY DEF Whole, Moving
<1> QED BY <1>1, <1>2 DEF Whole

LEMMA RegPushWhole ==
  ASSUME TypeOK, Threads, Whole, RegPush
  PROVE  Whole'
<1>1. /\ app = "push" /\ app' = "syn" /\ tcp_active_pcbs' = npcb /\ registered' = registered \cup {npcb}
      /\ UNCHANGED <<next, task, pcb, prev, dest, due>>
  BY DEF RegPush, taskv
<1>2. /\ ~Moving(task) /\ next[npcb] = tcp_active_pcbs /\ npcb \in Pcbs /\ npcb \notin registered
      /\ InPlace = registered /\ InPlace' = registered'
  BY <1>1 DEF Whole, Threads, InPlace, Moving
<1>3. Leads(Pcbs, NULL, next, npcb, registered \cup {npcb})
  <2>1. Leads(Pcbs, NULL, next, tcp_active_pcbs, registered)
    BY <1>2 DEF Whole
  <2> QED BY <1>2, <2>1, LeadsPush
<1>4. task = "walk" => Ahead(next, pcb, registered', due, dest)
  BY <1>1 DEF Whole, Ahead
<1>5. ~Moving(task') /\ task # "head"
  BY <1>1, <1>2 DEF Moving
<1> QED BY <1>1, <1>2, <1>3, <1>4, <1>5 DEF Whole

LEMMA BeginWhole ==
  ASSUME TypeOK, Whole, Begin
  PROVE  Whole'
<1>1. /\ task = "idle" /\ task' = "walk" /\ pcb' = tcp_active_pcbs /\ prev' = NULL
      /\ due' = (dest' \in registered \cap addressed)
      /\ UNCHANGED <<next, tcp_active_pcbs, registered, app, npcb>>
  BY DEF Begin, appv, listv
<1>2. InPlace = registered /\ InPlace' = registered /\ ~Moving(task')
  BY <1>1 DEF InPlace, Moving
<1>3. Leads(Pcbs, NULL, next, tcp_active_pcbs, registered)
  BY <1>2 DEF Whole
<1>4. Ahead(next, tcp_active_pcbs, registered, due', dest')
  BY <1>1, <1>3 DEF Ahead
<1>5. app = "push" => next[npcb] = tcp_active_pcbs
  BY DEF Whole
<1> QED BY <1>1, <1>2, <1>3, <1>4, <1>5 DEF Whole

LEMMA StepWhole ==
  ASSUME TypeOK, Threads, Whole, Step
  PROVE  Whole'
<1>1. /\ task = "walk" /\ pcb # NULL /\ ~Matches(pcb) /\ prev' = pcb /\ pcb' = next[pcb]
      /\ UNCHANGED <<next, tcp_active_pcbs, registered, app, npcb, task, due, dest>>
  BY DEF Step, appv, listv
<1>2. InPlace' = InPlace /\ ~Moving(task) /\ task # "head"
  BY <1>1 DEF InPlace, Moving
<1>3. pcb \in registered
  BY <1>1, FoundIs
<1>4. due => pcb # dest
  BY <1>1 DEF Threads, Matches
<1>5. Ahead(next, next[pcb], registered, due, dest)
  <2>1. PICK W : Leads(Pcbs, NULL, next, pcb, W) /\ W \subseteq registered /\ (due => dest \in W)
    BY <1>1 DEF Whole, Ahead
  <2>2. Leads(Pcbs, NULL, next, next[pcb], W \ {pcb})
    BY <1>1, <2>1, NullIsNone, LeadsOn
  <2>3. W \ {pcb} \subseteq registered /\ (due => dest \in W \ {pcb})
    BY <1>4, <2>1
  <2> QED BY <2>2, <2>3 DEF Ahead
<1> QED BY <1>1, <1>2, <1>3, <1>5 DEF Whole

\* The pcb found is taken out, unless it is the first the search met.
LEMMA FoundWhole ==
  ASSUME TypeOK, Threads, Whole, Found, ~overlapped'
  PROVE  Whole'
<1>1. /\ task = "walk" /\ pcb # NULL /\ Matches(pcb)
      /\ UNCHANGED <<tcp_active_pcbs, registered, app, npcb, pcb, prev, dest, due>>
  BY DEF Found, appv
<1>2. /\ InPlace = registered /\ pcb \in registered /\ registered \subseteq Pcbs
      /\ prev # NULL => prev \in registered /\ prev # pcb /\ next[prev] = pcb
  BY <1>1, FoundIs DEF TypeOK
<1>3. pcb = dest
  BY <1>1 DEF Matches
<1>4. Leads(Pcbs, NULL, next, tcp_active_pcbs, registered)
  BY <1>2 DEF Whole
<1>5. CASE prev = NULL /\ task' = "end" /\ UNCHANGED next
  <2>1. InPlace' = registered /\ ~Moving(task')
    BY <1>1, <1>5 DEF InPlace, Moving
  <2>2. app = "push" => next[npcb] = tcp_active_pcbs
    BY DEF Whole
  <2> QED BY <1>1, <1>3, <1>4, <1>5, <2>1, <2>2 DEF Whole
<1>6. CASE prev # NULL /\ task' = "front" /\ next' = Unlinked /\ app # "push"
  <2>1. InPlace' = registered \ {pcb}
    BY <1>1, <1>6 DEF InPlace, Moving
  <2>2. /\ next'[prev] = next[pcb]
        /\ \A q \in registered \ {pcb, prev} : next'[q] = next[q]
    BY <1>2, <1>6 DEF Unlinked, TypeOK
  <2>3. Leads(Pcbs, NULL, next', tcp_active_pcbs, registered \ {pcb})
    BY <1>1, <1>2, <1>4, <1>6, <2>2, NullIsNone, LeadsDrop
  <2> QED BY <1>1, <1>2, <1>3, <1>6, <2>1, <2>3 DEF Whole
<1>7. app = "push" /\ prev # NULL => overlapped'
  BY DEF Found
<1> QED BY <1>5, <1>6, <1>7 DEF Found

LEMMA MoveLinkWhole ==
  ASSUME TypeOK, Whole, MoveLink
  PROVE  Whole'
<1>1. /\ task = "front" /\ task' = "head" /\ next' = LinkedInFront
      /\ UNCHANGED <<tcp_active_pcbs, registered, app, npcb, pcb, prev, dest, due>>
  BY DEF MoveLink, appv
<1>2. /\ InPlace = registered \ {pcb} /\ InPlace' = registered \ {pcb} /\ Moving(task)
      /\ Moving(task')
  BY <1>1 DEF InPlace, Moving
<1>3. /\ Leads(Pcbs, NULL, next, tcp_active_pcbs, registered \ {pcb}) /\ app # "push"
      /\ pcb \in registered /\ prev \in registered /\ prev # pcb /\ (due => pcb = dest)
  BY <1>1, <1>2 DEF Whole
<1>4. \A q \in registered \ {pcb} : next'[q] = next[q]
  BY <1>1 DEF LinkedInFront, TypeOK
<1>5. next'[pcb] = tcp_active_pcbs
  BY <1>1, <1>3 DEF LinkedInFront, TypeOK
<1>6. Leads(Pcbs, NULL, next', tcp_active_pcbs, registered \ {pcb})
  BY <1>3, <1>4, LeadsStill
<1> QED BY <1>1, <1>2, <1>3, <1>5, <1>6 DEF Whole

LEMMA MovePushWhole ==
  ASSUME TypeOK, Whole, MovePush
  PROVE  Whole'
<1>1. /\ task = "head" /\ task' = "end" /\ tcp_active_pcbs' = pcb
      /\ UNCHANGED <<next, registered, app, npcb, pcb, prev, dest, due>>
  BY DEF MovePush, appv
<1>2. /\ InPlace = registered \ {pcb} /\ InPlace' = registered /\ Moving(task) /\ ~Moving(task')
  BY <1>1 DEF InPlace, Moving
<1>3. /\ Leads(Pcbs, NULL, next, tcp_active_pcbs, registered \ {pcb}) /\ app # "push"
      /\ pcb \in registered /\ next[pcb] = tcp_active_pcbs /\ (due => pcb = dest)
  BY <1>1, <1>2 DEF Whole
<1>4. Leads(Pcbs, NULL, next, pcb, registered)
  <2>1. pcb \in Pcbs /\ (registered \ {pcb}) \cup {pcb} = registered
    BY <1>3 DEF TypeOK
  <2>2. Leads(Pcbs, NULL, next, pcb, (registered \ {pcb}) \cup {pcb})
    BY <1>3, <2>1, LeadsPush
  <2> QED BY <2>1, <2>2
<1> QED BY <1>1, <1>2, <1>3, <1>4 DEF Whole

\* The search comes to the end of the list only when dest is not on it.
LEMMA NotFoundWhole ==
  ASSUME TypeOK, Whole, NotFound
  PROVE  Whole'
<1>1. /\ task = "walk" /\ pcb = NULL /\ task' = "end"
      /\ UNCHANGED <<next, tcp_active_pcbs, registered, app, npcb, pcb, prev, dest, due>>
  BY DEF NotFound, appv, listv
<1>2. InPlace = registered /\ InPlace' = registered /\ ~Moving(task')
  BY <1>1 DEF InPlace, Moving
<1>3. ~due
  <2>1. PICK W : Leads(Pcbs, NULL, next, pcb, W) /\ (due => dest \in W)
    BY <1>1 DEF Whole, Ahead
  <2>2. W = {}
    BY <1>1, <2>1, NullIsNone, LeadsEnd
  <2> QED BY <2>1, <2>2
<1>4. /\ Leads(Pcbs, NULL, next, tcp_active_pcbs, registered)
      /\ app = "push" => next[npcb] = tcp_active_pcbs
  BY <1>2 DEF Whole
<1> QED BY <1>1, <1>2, <1>3, <1>4 DEF Whole

LEMMA WholeStep ==
  ASSUME TypeOK, Threads, Whole, [Next]_vars, ~overlapped'
  PROVE  Whole'
<1>1. CASE New
  <2>1. PICK p \in free : /\ next' = [next EXCEPT ![p] = NULL] /\ app' = "link"
                          /\ UNCHANGED <<registered, tcp_active_pcbs, task, pcb, prev, dest, due>>
    BY <1>1 DEF New, taskv
  <2>2. p \in Pcbs /\ p \notin registered
    BY DEF TypeOK
  <2> QED BY <2>1, <2>2, LinkSetWhole
<1>2. CASE RegLink
  <2>1. /\ next' = [next EXCEPT ![npcb] = tcp_active_pcbs] /\ ~Moving(task)
        /\ UNCHANGED <<registered, tcp_active_pcbs, npcb, task, pcb, prev, dest, due>>
    BY <1>2 DEF RegLink, Linked, taskv
  <2>2. npcb \in Pcbs /\ npcb \notin registered
    BY <1>2 DEF RegLink, Threads
  <2> QED BY <2>1, <2>2, LinkSetWhole
<1>3. CASE RegPush
  BY <1>3, RegPushWhole
<1>4. CASE NewFails \/ ConnectEnds \/ UNCHANGED vars
  <2>1. /\ UNCHANGED <<next, registered, tcp_active_pcbs, task, pcb, prev, dest, due>>
        /\ UNCHANGED <<app, npcb>> \/ app' = "idle"
    BY <1>4 DEF NewFails, ConnectEnds, vars, listv, appv, taskv
  <2> QED BY <2>1 DEF Whole, InPlace
<1>5. CASE Begin
  BY <1>5, BeginWhole
<1>6. CASE Step
  BY <1>6, StepWhole
<1>7. CASE Found
  BY <1>7, FoundWhole
<1>8. CASE MoveLink
  BY <1>8, MoveLinkWhole
<1>9. CASE MovePush
  BY <1>9, MovePushWhole
<1>10. CASE NotFound
  BY <1>10, NotFoundWhole
<1>11. CASE End
  <2>1. /\ task = "end" /\ task' = "idle" /\ due' = FALSE
        /\ UNCHANGED <<next, tcp_active_pcbs, registered, app, npcb>>
    BY <1>11 DEF End, listv, appv
  <2>2. InPlace = registered /\ InPlace' = registered /\ ~Moving(task')
    BY <2>1 DEF InPlace, Moving
  <2>3. /\ Leads(Pcbs, NULL, next, tcp_active_pcbs, registered)
        /\ app = "push" => next[npcb] = tcp_active_pcbs
    BY <2>2 DEF Whole
  <2> QED BY <2>1, <2>2, <2>3 DEF Whole
<1> QED BY <1>1, <1>2, <1>3, <1>4, <1>5, <1>6, <1>7, <1>8, <1>9, <1>10, <1>11 DEF Next, App, Search

(***************************************************************************)
(* The theorems.                                                           *)
(***************************************************************************)

\* Until a registration overlaps a move to the front, which takes three pcbs
\* out of the pool, the list is whole but for the pcb being moved.
THEOREM Invariant == Spec => []IInv
<1>1. Init => IInv
  BY InitIs
<1>2. IInv /\ [Next]_vars => IInv'
  <2> SUFFICES ASSUME IInv, [Next]_vars PROVE IInv'
    OBVIOUS
  <2>1. TypeOK' /\ Threads'
    BY TypeStep, ThreadsStep DEF IInv
  <2>2. ~overlapped' => ~overlapped
    BY DEF Next, App, Search, New, NewFails, RegLink, RegPush, ConnectEnds, Begin, Step, Found,
           MoveLink, MovePush, NotFound, End, vars
  <2>3. ~overlapped' => Whole'
    BY <2>2, WholeStep DEF IInv
  <2> QED BY <2>1, <2>3 DEF IInv
<1> QED BY <1>1, <1>2, PTL DEF Spec

\* With at most two pcbs out of the pool, as in the build, nothing overlaps.
LEMMA UndisturbedIs ==
  ASSUME IInv, Undisturbed
  PROVE  ~overlapped
<1>1. overlapped => Cardinality(Pcbs \ free) >= 3
  BY DEF IInv, Threads
<1>2. Cardinality(Pcbs \ free) \in Nat
  BY PcbAssumption, FS_Subset, FS_CardinalityType
<1> QED BY <1>1, <1>2 DEF Undisturbed

\* A registered pcb is out of the pool, an addressed one registered, and both
\* threads' pointers are pcbs or NULL.
THEOREM TypeCorrect == Spec => []TypeOK
<1>1. IInv => TypeOK
  BY DEF IInv
<1> QED BY <1>1, Invariant, PTL

\* T_TCP_REG and the move to the front of t_tcp_input lose no pcb and close no
\* ring, as long as they do not overlap.
THEOREM ListCorrect == Spec => []ListExact
<1>1. ASSUME IInv, Undisturbed
      PROVE  /\ At[Cardinality(Pcbs)] = NULL
             /\ registered = OnList \cup (IF Moving(task) THEN {pcb} ELSE {})
  <2>1. Whole
    BY <1>1, UndisturbedIs DEF IInv
  <2>2. PICK f : f = Following(NULL, next, tcp_active_pcbs)
    OBVIOUS
  <2>3. PICK N : N = Cardinality(Pcbs)
    OBVIOUS
  <2>4. At = f
    BY <2>2, Zenon DEF At, Following
  <2>5. Leads(Pcbs, NULL, next, tcp_active_pcbs, InPlace) /\ IsFiniteSet(Pcbs)
    BY <2>1, PcbAssumption DEF Whole
  <2>6. f[N] = NULL /\ {f[k] : k \in 0..N} \ {NULL} = InPlace
    BY <2>2, <2>3, <2>5, NullIsNone, FollowingMeets
  <2>7. OnList = InPlace /\ At[Cardinality(Pcbs)] = NULL
    BY <2>3, <2>4, <2>6, Zenon DEF OnList
  <2>8. registered = InPlace \cup (IF Moving(task) THEN {pcb} ELSE {})
    BY <2>1 DEF Whole, InPlace
  <2> QED BY <2>7, <2>8, Zenon
<1>2. IInv => ListExact
  BY <1>1 DEF ListExact
<1> QED BY <1>2, Invariant, PTL

\* A segment's pcb, registered and addressed when its search began, is found.
THEOREM SearchCorrect == Spec => []SearchFinds
<1>1. ASSUME IInv
      PROVE  SearchFinds
  <2>1. Undisturbed => Whole
    BY <1>1, UndisturbedIs DEF IInv
  <2> QED BY <2>1 DEF SearchFinds, Whole
<1> QED BY <1>1, Invariant, PTL
=============================================================================
