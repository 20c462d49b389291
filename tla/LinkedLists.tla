----------------------------- MODULE LinkedLists -----------------------------
(***************************************************************************)
(* What the proofs about the lists of pcbs need to know of a linked list:  *)
(* elements of a set S, a link word nx for each, nil at the end.  A list   *)
(* is described by the set of its elements (Leads); the numbering of them  *)
(* (Trail) stays inside this module.                                       *)
(* The induction behind it (Induct) serves the queues of TTcpProofs too.   *)
(***************************************************************************)
EXTENDS Integers, FiniteSets, FiniteSetTheorems, FunctionTheorems, WellFoundedInduction, TLAPS

\* Following nx from h, one meets t[1], ..., t[n], each once, and then nil.
Trail(S, nil, nx, h, t, n) ==
  /\ n \in Nat /\ t \in [1..n -> S]
  /\ h = IF n = 0 THEN nil ELSE t[1]
  /\ \A i \in 1..n : nx[t[i]] = IF i = n THEN nil ELSE t[i + 1]
  /\ \A i, j \in 1..n : t[i] = t[j] => i = j

Elements(t, n) == {t[i] : i \in 1..n}

\* Following nx from h, one meets each element of L once, nothing else, and
\* comes to an end.
Leads(S, nil, nx, h, L) ==
  \E n, t : Trail(S, nil, nx, h, t, n) /\ L = Elements(t, n)

\* The kth element from h, nil beyond the end.
Following(nil, nx, h) ==
  CHOOSE f : f = [k \in Nat |-> IF k = 0 THEN h
                                ELSE IF f[k - 1] = nil THEN nil ELSE nx[f[k - 1]]]

-----------------------------------------------------------------------------
(* Induction over indices, as a fact about the set of good ones.            *)

LEMMA NatMin ==
  ASSUME NEW T \in SUBSET Nat, T # {}
  PROVE  \E n \in T : \A m \in T : n <= m
<1> DEFINE R == OpToRel(<, Nat)
<1>1. IsWellFoundedOn(R, Nat)
  BY NatLessThanWellFounded, Zenon
<1>2. \A x \in Nat, y \in Nat : <<y, x>> \in R <=> y < x
  BY DEF OpToRel
<1> HIDE DEF R
<1>3. \E x \in T : \A y \in T : ~(<<y, x>> \in R)
  BY <1>1, WFMin
<1>4. PICK x \in T : \A y \in T : ~(<<y, x>> \in R)
  BY <1>3
<1>5. ASSUME NEW y \in T
      PROVE  x <= y
  <2>1. x \in Nat /\ y \in Nat
    OBVIOUS
  <2>2. ~(y < x)
    BY <1>2, <1>4, <2>1, Zenon
  <2> QED BY <2>1, <2>2
<1> QED BY <1>5

LEMMA Induct ==
  ASSUME NEW n \in Nat, NEW G, 0 \in G, \A i \in 0..n - 1 : i \in G => i + 1 \in G
  PROVE  0..n \subseteq G
<1> SUFFICES ASSUME NEW j \in 0..n, j \notin G PROVE FALSE
  OBVIOUS
<1> DEFINE T == {i \in 0..n : i \notin G}
<1>1. T \in SUBSET Nat /\ T # {}
  OBVIOUS
<1>2. PICK m \in T : \A i \in T : m <= i
  BY <1>1, NatMin
<1>3. m # 0 /\ m \in 0..n /\ m \notin G
  OBVIOUS
<1>4. m - 1 \in 0..n-1 /\ m - 1 \notin T /\ m - 1 \in 0..n
  BY <1>2, <1>3
<1>5. m - 1 \in G
  BY <1>4
<1>6. (m - 1) + 1 \in G
  BY <1>4, <1>5
<1> QED BY <1>3, <1>6

-----------------------------------------------------------------------------
(* The ways the calls change a list.                                        *)

LEMMA LeadsWithin ==
  ASSUME NEW S, NEW nil, NEW nx, NEW h, NEW L, Leads(S, nil, nx, h, L)
  PROVE  L \subseteq S /\ h \in S \cup {nil}
<1>1. PICK n, t : Trail(S, nil, nx, h, t, n) /\ L = Elements(t, n)
  BY Zenon DEF Leads
<1>2. n \in Nat /\ t \in [1..n -> S] /\ h = IF n = 0 THEN nil ELSE t[1]
  BY <1>1, Zenon DEF Trail
<1>3. n # 0 => 1 \in 1..n
  BY <1>2
<1> QED BY <1>1, <1>2, <1>3 DEF Elements

LEMMA LeadsNowhere ==
  ASSUME NEW S, NEW nil, NEW nx
  PROVE  Leads(S, nil, nx, nil, {})
<1> DEFINE t == [i \in 1..0 |-> nil]
<1>1. 1..0 = {} /\ 0 \in Nat
  OBVIOUS
<1>2. t \in [1..0 -> S] /\ Elements(t, 0) = {}
  BY <1>1 DEF Elements
<1> HIDE DEF t
<1>3. Trail(S, nil, nx, nil, t, 0)
  BY <1>1, <1>2 DEF Trail
<1> QED BY <1>2, <1>3, Zenon DEF Leads

\* Only the links of the list's own elements count.
LEMMA LeadsStill ==
  ASSUME NEW S, NEW nil, NEW nx, NEW h, NEW L, Leads(S, nil, nx, h, L),
         NEW ny, \A q \in L : ny[q] = nx[q]
  PROVE  Leads(S, nil, ny, h, L)
<1>1. PICK n, t : Trail(S, nil, nx, h, t, n) /\ L = Elements(t, n)
  BY Zenon DEF Leads
<1>2. \A i \in 1..n : t[i] \in L
  BY <1>1 DEF Elements
<1>3. \A i \in 1..n : ny[t[i]] = nx[t[i]]
  BY <1>2
<1>4. Trail(S, nil, ny, h, t, n)
  BY <1>1, <1>3, Zenon DEF Trail
<1> QED BY <1>1, <1>4, Zenon DEF Leads

LEMMA LeadsPush ==
  ASSUME NEW S, NEW nil, NEW nx, NEW h, NEW L, Leads(S, nil, nx, h, L),
         NEW p \in S, p \notin L, nx[p] = h
  PROVE  Leads(S, nil, nx, p, L \cup {p})
<1>1. PICK n, t : Trail(S, nil, nx, h, t, n) /\ L = Elements(t, n)
  BY Zenon DEF Leads
<1>2. /\ n \in Nat /\ t \in [1..n -> S] /\ h = IF n = 0 THEN nil ELSE t[1]
      /\ \A i \in 1..n : nx[t[i]] = IF i = n THEN nil ELSE t[i + 1]
      /\ \A i, j \in 1..n : t[i] = t[j] => i = j
  BY <1>1, Zenon DEF Trail
<1> DEFINE m == n + 1
           u == [i \in 1..m |-> IF i = 1 THEN p ELSE t[i - 1]]
<1>3. /\ m \in Nat /\ m # 0 /\ 1 \in 1..m
      /\ \A i \in 1..m : i # 1 => i - 1 \in 1..n /\ (i - 1) + 1 = i /\ (i - 1 = n <=> i = m)
      /\ \A i \in 1..n : i + 1 \in 1..m /\ i + 1 # 1 /\ (i + 1) - 1 = i
      /\ n = 0 => m = 1
      /\ n # 0 => 1 \in 1..n /\ 1 + 1 \in 1..m
  BY <1>2
<1>4. u[1] = p /\ \A i \in 1..m : i # 1 => u[i] = t[i - 1]
  BY <1>3
<1>5. u \in [1..m -> S]
  BY <1>2, <1>3
<1>6. \A i \in 1..n : u[i + 1] = t[i]
  BY <1>3, <1>4
<1> HIDE DEF u, m
<1>7. ASSUME NEW i \in 1..m
      PROVE  nx[u[i]] = IF i = m THEN nil ELSE u[i + 1]
  <2>1. CASE i = 1
    <3>1. nx[u[i]] = h
      BY <1>4, <2>1
    <3>2. CASE n = 0
      BY <1>2, <1>3, <2>1, <3>1, <3>2
    <3>3. CASE n # 0
      <4>1. u[1 + 1] = t[1] /\ 1 # m
        BY <1>2, <1>3, <1>6, <3>3 DEF m
      <4> QED BY <1>2, <2>1, <3>1, <3>3, <4>1
    <3> QED BY <3>2, <3>3
  <2>2. CASE i # 1
    <3> DEFINE j == i - 1
    <3>1. j \in 1..n /\ j + 1 = i /\ (j = n <=> i = m) /\ u[i] = t[j]
      BY <1>3, <1>4, <2>2
    <3>2. i # m => u[i + 1] = t[j + 1]
      <4>1. i # m => i \in 1..n
        BY <1>2 DEF m
      <4> QED BY <1>6, <3>1, <4>1
    <3> HIDE DEF j
    <3>3. nx[t[j]] = IF j = n THEN nil ELSE t[j + 1]
      BY <1>2, <3>1
    <3> QED BY <3>1, <3>2, <3>3
  <2> QED BY <2>1, <2>2
<1>8. \A i \in 1..n : t[i] \in L
  BY <1>1 DEF Elements
<1>9. ASSUME NEW i \in 1..m, NEW j \in 1..m, u[i] = u[j]
      PROVE  i = j
  <2>1. i # 1 => i - 1 \in 1..n /\ u[i] = t[i - 1] /\ u[i] # p
    BY <1>3, <1>4, <1>8
  <2>2. j # 1 => j - 1 \in 1..n /\ u[j] = t[j - 1] /\ u[j] # p
    BY <1>3, <1>4, <1>8
  <2>3. i # 1 /\ j # 1 => i - 1 = j - 1
    BY <1>2, <1>9, <2>1, <2>2
  <2> QED BY <1>4, <1>9, <2>1, <2>2, <2>3
<1>10. Trail(S, nil, nx, p, u, m)
  BY <1>3, <1>4, <1>5, <1>7, <1>9 DEF Trail
<1>11. L \cup {p} = Elements(u, m)
  <2>1. \A i \in 1..m : u[i] \in L \cup {p}
    BY <1>3, <1>4, <1>8
  <2>2. \A q \in L : \E i \in 1..m : u[i] = q
    BY <1>1, <1>3, <1>6 DEF Elements
  <2> QED BY <1>3, <1>4, <2>1, <2>2 DEF Elements
<1> QED BY <1>10, <1>11, Zenon DEF Leads

LEMMA LeadsEnd ==
  ASSUME NEW S, NEW nil, nil \notin S, NEW nx, NEW L, Leads(S, nil, nx, nil, L)
  PROVE  L = {}
<1>1. PICK n, t : Trail(S, nil, nx, nil, t, n) /\ L = Elements(t, n)
  BY Zenon DEF Leads
<1>2. n \in Nat /\ t \in [1..n -> S] /\ nil = IF n = 0 THEN nil ELSE t[1]
  BY <1>1, Zenon DEF Trail
<1>3. n # 0 => 1 \in 1..n
  BY <1>2
<1>4. n = 0
  BY <1>2, <1>3
<1> QED BY <1>1, <1>4 DEF Elements

LEMMA LeadsOn ==
  ASSUME NEW S, NEW nil, nil \notin S, NEW nx, NEW h, NEW L, Leads(S, nil, nx, h, L), h # nil
  PROVE  h \in L /\ Leads(S, nil, nx, nx[h], L \ {h})
<1>1. PICK n, t : Trail(S, nil, nx, h, t, n) /\ L = Elements(t, n)
  BY Zenon DEF Leads
<1>2. /\ n \in Nat /\ t \in [1..n -> S] /\ h = IF n = 0 THEN nil ELSE t[1]
      /\ \A i \in 1..n : nx[t[i]] = IF i = n THEN nil ELSE t[i + 1]
      /\ \A i, j \in 1..n : t[i] = t[j] => i = j
  BY <1>1, Zenon DEF Trail
<1> DEFINE m == n - 1
           u == [i \in 1..m |-> t[i + 1]]
<1>3. n # 0 /\ h = t[1]
  BY <1>2
<1>4. /\ m \in Nat /\ 1 \in 1..n
      /\ \A i \in 1..m : /\ i \in 1..n /\ i + 1 \in 1..n /\ i + 1 # 1
                         /\ (i = m <=> i + 1 = n) /\ (i # m => i + 1 \in 1..m)
      /\ \A i \in 1..n : i = 1 \/ (i - 1 \in 1..m /\ (i - 1) + 1 = i)
      /\ m = 0 <=> n = 1
      /\ m # 0 => 1 \in 1..m
  BY <1>2, <1>3
<1>5. u \in [1..m -> S] /\ \A i \in 1..m : u[i] = t[i + 1]
  BY <1>2, <1>4
<1> HIDE DEF u, m
<1>6. nx[h] = IF m = 0 THEN nil ELSE u[1]
  BY <1>2, <1>3, <1>4, <1>5
<1>7. ASSUME NEW i \in 1..m
      PROVE  nx[u[i]] = IF i = m THEN nil ELSE u[i + 1]
  <2>1. i + 1 \in 1..n /\ (i = m <=> i + 1 = n) /\ u[i] = t[i + 1]
    BY <1>4, <1>5
  <2>2. nx[u[i]] = IF i + 1 = n THEN nil ELSE t[(i + 1) + 1]
    BY <1>2, <2>1
  <2>3. i # m => u[i + 1] = t[(i + 1) + 1]
    BY <1>4, <1>5
  <2> QED BY <2>1, <2>2, <2>3
<1>8. ASSUME NEW i \in 1..m, NEW j \in 1..m, u[i] = u[j]
      PROVE  i = j
  <2>1. i + 1 \in 1..n /\ j + 1 \in 1..n /\ t[i + 1] = t[j + 1]
    BY <1>4, <1>5, <1>8, Zenon
  <2>2. i + 1 = j + 1
    BY <1>2, <2>1, Zenon
  <2> QED BY <2>2
<1>9. Trail(S, nil, nx, nx[h], u, m)
  BY <1>4, <1>5, <1>6, <1>7, <1>8 DEF Trail
<1>10. ASSUME NEW i \in 1..m
       PROVE  u[i] # h
  <2>1. i + 1 \in 1..n /\ i + 1 # 1 /\ 1 \in 1..n /\ u[i] = t[i + 1]
    BY <1>4, <1>5
  <2>2. t[i + 1] # t[1]
    BY <1>2, <2>1, Zenon
  <2> QED BY <1>3, <2>1, <2>2
<1>11. h \in L /\ L \ {h} = Elements(u, m)
  <2>1. L = {t[i] : i \in 1..n} /\ Elements(u, m) = {u[i] : i \in 1..m}
    BY <1>1, Zenon DEF Elements
  <2>2. h \in L
    BY <1>3, <1>4, <2>1, Zenon
  <2>3. ASSUME NEW x \in L, x # h
        PROVE  x \in Elements(u, m)
    <3>1. PICK i \in 1..n : x = t[i]
      BY <2>1
    <3>2. i # 1
      BY <1>3, <2>3, <3>1, Zenon
    <3>3. i - 1 \in 1..m /\ (i - 1) + 1 = i
      BY <1>4, <3>2, Zenon
    <3>4. u[i - 1] = x
      BY <1>5, <3>1, <3>3, Zenon
    <3> QED BY <2>1, <3>3, <3>4, Zenon
  <2>4. ASSUME NEW i \in 1..m
        PROVE  u[i] \in L \ {h}
    <3>1. i + 1 \in 1..n /\ u[i] = t[i + 1]
      BY <1>4, <1>5
    <3>2. t[i + 1] \in L
      BY <2>1, <3>1
    <3> QED BY <1>10, <3>1, <3>2
  <2>5. \A x \in Elements(u, m) : x \in L \ {h}
    BY <2>1, <2>4
  <2> QED BY <2>2, <2>3, <2>5
<1> QED BY <1>9, <1>11, Zenon DEF Leads

\* Every element but the first has one in front of it, and only one.
LEMMA LeadsBefore ==
  ASSUME NEW S, NEW nil, nil \notin S, NEW nx, NEW h, NEW L, Leads(S, nil, nx, h, L)
  PROVE  /\ \A p \in L : p # h => \E q \in L : nx[q] = p
         /\ \A q, r \in L : nx[q] = nx[r] /\ nx[q] # nil => q = r
         /\ \A q \in L : nx[q] \in L \cup {nil} /\ nx[q] # q /\ nx[q] # h
<1>1. PICK n, t : Trail(S, nil, nx, h, t, n) /\ L = Elements(t, n)
  BY Zenon DEF Leads
<1>2. /\ n \in Nat /\ t \in [1..n -> S] /\ h = IF n = 0 THEN nil ELSE t[1]
      /\ \A i \in 1..n : nx[t[i]] = IF i = n THEN nil ELSE t[i + 1]
      /\ \A i, j \in 1..n : t[i] = t[j] => i = j
  BY <1>1, Zenon DEF Trail
<1>3. /\ \A i \in 1..n : n # 0 /\ t[i] \in L /\ t[i] \in S /\ t[i] # nil
      /\ \A p \in L : \E i \in 1..n : p = t[i]
  BY <1>1, <1>2 DEF Elements
<1>4. \A i \in 1..n : i # n => i + 1 \in 1..n /\ i + 1 # i /\ i + 1 # 1
  BY <1>2
<1>5. ASSUME NEW p \in L, p # h
      PROVE  \E q \in L : nx[q] = p
  <2>1. PICK i \in 1..n : p = t[i]
    BY <1>3
  <2>2. i # 1
    BY <1>2, <1>3, <1>5, <2>1
  <2>3. i - 1 \in 1..n /\ i - 1 # n /\ (i - 1) + 1 = i
    BY <1>2, <2>2
  <2>4. nx[t[i - 1]] = t[i]
    BY <1>2, <2>3
  <2> QED BY <1>3, <2>1, <2>3, <2>4
<1>6. ASSUME NEW q \in L, NEW r \in L, nx[q] = nx[r], nx[q] # nil
      PROVE  q = r
  <2>1. PICK i \in 1..n : q = t[i]
    BY <1>3
  <2>2. PICK j \in 1..n : r = t[j]
    BY <1>3
  <2>3. i # n /\ j # n /\ nx[q] = t[i + 1] /\ nx[r] = t[j + 1]
    BY <1>2, <1>6, <2>1, <2>2
  <2>4. i + 1 = j + 1
    BY <1>2, <1>4, <1>6, <2>3
  <2> QED BY <2>1, <2>2, <2>4
<1>7. ASSUME NEW q \in L
      PROVE  nx[q] \in L \cup {nil} /\ nx[q] # q /\ nx[q] # h
  <2>1. PICK i \in 1..n : q = t[i]
    BY <1>3
  <2>2. h = t[1] /\ 1 \in 1..n /\ h # nil /\ q # nil
    BY <1>2, <1>3, <2>1
  <2>3. CASE i = n
    BY <1>2, <2>1, <2>2, <2>3
  <2>4. CASE i # n
    BY <1>2, <1>3, <1>4, <2>1, <2>2, <2>4
  <2> QED BY <2>3, <2>4
<1> QED BY <1>5, <1>6, <1>7

\* Unlinking p: the element q in front of it now points behind it.
LEMMA LeadsDrop ==
  ASSUME NEW S, NEW nil, nil \notin S, NEW nx, NEW h, NEW L, Leads(S, nil, nx, h, L),
         NEW q \in L, NEW p, p = nx[q], p # nil,
         NEW ny, ny[q] = nx[p], \A r \in L \ {p, q} : ny[r] = nx[r]
  PROVE  p \in L /\ Leads(S, nil, ny, h, L \ {p})
<1>1. PICK n, t : Trail(S, nil, nx, h, t, n) /\ L = Elements(t, n)
  BY Zenon DEF Leads
<1>2. /\ n \in Nat /\ t \in [1..n -> S] /\ h = IF n = 0 THEN nil ELSE t[1]
      /\ \A i \in 1..n : nx[t[i]] = IF i = n THEN nil ELSE t[i + 1]
      /\ \A i, j \in 1..n : t[i] = t[j] => i = j
  BY <1>1, Zenon DEF Trail
<1>3. /\ \A i \in 1..n : t[i] \in L
      /\ \A i, j \in 1..n : t[i] = t[j] => i = j
  BY <1>1, <1>2 DEF Elements
<1>4. PICK j \in 1..n : q = t[j]
  BY <1>1 DEF Elements
<1>5. j # n /\ p = t[j + 1]
  BY <1>2, <1>4
<1> DEFINE m == n - 1
           k == j + 1
           u == [i \in 1..m |-> IF i <= j THEN t[i] ELSE t[i + 1]]
<1>6. /\ m \in Nat /\ m # 0 /\ n # 0 /\ k \in 1..n /\ k # j /\ p = t[k] /\ j \in 1..m
      /\ 1 \in 1..n /\ 1 \in 1..m /\ 1 <= j
      /\ \A i \in 1..m : /\ i \in 1..n /\ i # n /\ i + 1 \in 1..n /\ i # i + 1
                         /\ (i <= j => i # k) /\ (~(i <= j) => i + 1 # k /\ i + 1 # j)
                         /\ (i = m <=> i + 1 = n) /\ (i # m => i + 1 \in 1..m)
                         /\ (i <= j /\ i # j => i + 1 <= j)
                         /\ (~(i <= j) => ~(i + 1 <= j))
      /\ ~(j + 1 <= j) /\ (j = m <=> k = n)
      /\ \A i \in 1..n : ~(i <= j) /\ i # k => i - 1 \in 1..m /\ ~(i - 1 <= j) /\ (i - 1) + 1 = i
      /\ \A i \in 1..n : i <= j => i \in 1..m
  BY <1>2, <1>5
<1>7. /\ u \in [1..m -> S]
      /\ \A i \in 1..m : u[i] = IF i <= j THEN t[i] ELSE t[i + 1]
  BY <1>2, <1>6
<1> HIDE DEF u, m, k
<1>8. /\ ny[t[j]] = nx[t[k]]
      /\ \A i \in 1..n : i # j /\ i # k => ny[t[i]] = nx[t[i]]
  <2>1. k \in 1..n /\ p = t[k]
    BY <1>6, Zenon
  <2>2. \A i \in 1..n : i # j /\ i # k => t[i] \in L \ {p, q}
    BY <1>3, <1>4, <2>1
  <2> QED BY <1>4, <2>1, <2>2
<1>9. ASSUME NEW i \in 1..m
      PROVE  ny[u[i]] = IF i = m THEN nil ELSE u[i + 1]
  <2>0. /\ i \in 1..n /\ i # n /\ i + 1 \in 1..n
        /\ (i <= j => i # k) /\ (~(i <= j) => i + 1 # k /\ i + 1 # j)
        /\ (i = m <=> i + 1 = n) /\ (i # m => i + 1 \in 1..m)
        /\ (i <= j /\ i # j => i + 1 <= j)
        /\ (~(i <= j) => ~(i + 1 <= j))
        /\ u[i] = IF i <= j THEN t[i] ELSE t[i + 1]
        /\ i # m => u[i + 1] = IF i + 1 <= j THEN t[i + 1] ELSE t[(i + 1) + 1]
    <3>1. i # m => i + 1 \in 1..m
      BY <1>6, Zenon
    <3> QED BY <1>6, <1>7, <3>1, Zenon
  <2>1. CASE i <= j /\ i # j
    <3>0. i + 1 <= j /\ j \in 1..m /\ m \in Nat
      BY <1>6, <2>0, <2>1, Zenon
    <3>1. u[i] = t[i] /\ i # m /\ u[i + 1] = t[i + 1]
      BY <2>0, <2>1, <3>0
    <3>2. ny[t[i]] = nx[t[i]] /\ i \in 1..n /\ i # n
      BY <1>8, <2>0, <2>1, Zenon
    <3>3. nx[t[i]] = t[i + 1]
      BY <1>2, <3>2, Zenon
    <3> QED BY <3>1, <3>2, <3>3
  <2>2. CASE i = j
    <3>0. j <= j /\ ~(j + 1 <= j) /\ (j = m <=> k = n)
      BY <1>6, Zenon DEF k
    <3>1. u[i] = t[j] /\ (i = m <=> k = n) /\ (i # m => u[i + 1] = t[k + 1])
      BY <2>0, <2>2, <3>0, Zenon DEF k
    <3>2. ny[t[j]] = IF k = n THEN nil ELSE t[k + 1]
      BY <1>2, <1>6, <1>8, Zenon
    <3> QED BY <3>1, <3>2
  <2>3. CASE ~(i <= j)
    <3>1. u[i] = t[i + 1] /\ (i # m => u[i + 1] = t[(i + 1) + 1]) /\ (i = m <=> i + 1 = n)
      BY <2>0, <2>3, Zenon
    <3>2. i + 1 \in 1..n /\ i + 1 # j /\ i + 1 # k
      BY <2>0, <2>3, Zenon
    <3>3. ny[t[i + 1]] = IF i + 1 = n THEN nil ELSE t[(i + 1) + 1]
      BY <1>2, <1>8, <3>2, Zenon
    <3> QED BY <3>1, <3>3
  <2> QED BY <2>1, <2>2, <2>3
<1>10. ASSUME NEW i \in 1..m, NEW l \in 1..m, u[i] = u[l]
       PROVE  i = l
  <2> DEFINE a == IF i <= j THEN i ELSE i + 1
             b == IF l <= j THEN l ELSE l + 1
  <2>1. a \in 1..n /\ b \in 1..n
    BY <1>6
  <2>2. u[i] = t[a] /\ u[l] = t[b]
    BY <1>7
  <2>3. a = b
    <3> HIDE DEF a, b
    <3>1. t[a] = t[b]
      BY <1>10, <2>2, Zenon
    <3> QED BY <1>3, <2>1, <3>1
  <2> QED BY <1>2, <2>3 DEF m
<1>11. h = u[1]
  BY <1>2, <1>6, <1>7
<1>12. Trail(S, nil, ny, h, u, m)
  BY <1>6, <1>7, <1>9, <1>10, <1>11 DEF Trail
<1>13. p \in L
  BY <1>3, <1>6
<1>14. L \ {p} = Elements(u, m)
  <2>1. ASSUME NEW i \in 1..m
        PROVE  u[i] \in L \ {p}
    <3>1. \A l \in 1..n : l # k => t[l] \in L \ {p}
      BY <1>3, <1>6
    <3>2. PICK l \in 1..n : u[i] = t[l] /\ l # k
      BY <1>6, <1>7
    <3> QED BY <3>1, <3>2
  <2>2. ASSUME NEW r \in L \ {p}
        PROVE  \E i \in 1..m : u[i] = r
    <3>1. PICK i \in 1..n : r = t[i]
      BY <1>1 DEF Elements
    <3>2. i # k
      BY <1>6, <3>1
    <3>3. CASE i <= j
      BY <1>6, <1>7, <3>1, <3>3
    <3>4. CASE ~(i <= j)
      <4>1. i - 1 \in 1..m /\ ~(i - 1 <= j) /\ (i - 1) + 1 = i
        BY <1>6, <3>2, <3>4
      <4>2. u[i - 1] = t[(i - 1) + 1]
        BY <1>7, <4>1
      <4> QED BY <3>1, <4>1, <4>2
    <3> QED BY <3>3, <3>4
  <2> QED BY <2>1, <2>2 DEF Elements
<1> QED BY <1>12, <1>13, <1>14, Zenon DEF Leads

-----------------------------------------------------------------------------
(* Following the links is meeting the elements one after the other.         *)

LEMMA TrailBound ==
  ASSUME NEW S, IsFiniteSet(S), NEW n \in Nat, NEW t \in [1..n -> S],
         \A i, j \in 1..n : t[i] = t[j] => i = j
  PROVE  Cardinality(S) \in Nat /\ n <= Cardinality(S)
<1>1. t \in Injection(1..n, S)
  BY Zenon DEF Injection, IsInjective
<1>2. Cardinality(1..n) = n
  <2>1. Cardinality(1..n) = IF 1 > n THEN 0 ELSE n - 1 + 1
    BY FS_Interval
  <2> QED BY <2>1
<1>3. Cardinality(1..n) <= Cardinality(S)
  BY <1>1, FS_Injection, Zenon
<1> QED BY <1>2, <1>3, FS_CardinalityType

LEMMA FollowingTrail ==
  ASSUME NEW S, NEW nil, nil \notin S, NEW nx, NEW h, NEW n, NEW t, Trail(S, nil, nx, h, t, n),
         NEW f, f = Following(nil, nx, h)
  PROVE  \A k \in Nat : f[k] = IF k < n THEN t[k + 1] ELSE nil
<1>1. /\ n \in Nat /\ t \in [1..n -> S] /\ h = IF n = 0 THEN nil ELSE t[1]
      /\ \A i \in 1..n : nx[t[i]] = IF i = n THEN nil ELSE t[i + 1]
  BY Zenon DEF Trail
<1> DEFINE w == [k \in Nat |-> IF k < n THEN t[k + 1] ELSE nil]
           F(g) == [k \in Nat |-> IF k = 0 THEN h ELSE IF g[k - 1] = nil THEN nil ELSE nx[g[k - 1]]]
<1>2. \A k \in Nat : w[k] = IF k < n THEN t[k + 1] ELSE nil
  OBVIOUS
<1>3. ASSUME NEW k \in Nat
      PROVE  w[k] = IF k = 0 THEN h ELSE IF w[k - 1] = nil THEN nil ELSE nx[w[k - 1]]
  <2> HIDE DEF w
  <2>1. CASE k = 0
    <3>1. w[0] = h
      BY <1>1, <1>2
    <3> QED BY <2>1, <3>1
  <2>2. CASE k # 0 /\ k <= n
    <3>1. k - 1 \in Nat /\ k - 1 < n /\ (k - 1) + 1 = k /\ k \in 1..n /\ (k < n <=> k # n)
      BY <1>1, <2>2
    <3>2. w[k - 1] = t[k] /\ t[k] # nil
      BY <1>1, <1>2, <3>1
    <3>3. nx[t[k]] = IF k = n THEN nil ELSE t[k + 1]
      BY <1>1, <3>1, Zenon
    <3> QED BY <1>2, <2>2, <3>1, <3>2, <3>3
  <2>3. CASE k # 0 /\ ~(k <= n)
    <3>1. k - 1 \in Nat /\ ~(k - 1 < n) /\ ~(k < n)
      BY <1>1, <2>3
    <3> QED BY <1>2, <2>3, <3>1
  <2> QED BY <1>1, <2>1, <2>2, <2>3
<1>4. w = F(w)
  <2>1. w = [k \in Nat |-> w[k]]
    OBVIOUS
  <2> HIDE DEF w
  <2> QED BY <1>3, <2>1
<1>5. f = CHOOSE g : g = F(g)
  BY DEF Following
<1> HIDE DEF w, F
<1>6. f = F(f)
  BY <1>4, <1>5
<1>7. \A k \in Nat : f[k] = IF k = 0 THEN h ELSE IF f[k - 1] = nil THEN nil ELSE nx[f[k - 1]]
  <2> DEFINE e == F(f)
  <2>1. \A k \in Nat : e[k] = IF k = 0 THEN h ELSE IF f[k - 1] = nil THEN nil ELSE nx[f[k - 1]]
    BY DEF F
  <2> HIDE DEF e
  <2>2. f = e
    BY <1>6, Zenon DEF e
  <2> QED BY <2>1, <2>2, Zenon
<1> DEFINE G == {k \in Nat : f[k] = w[k]}
<1>8. 0 \in G
  BY <1>3, <1>7
<1>9. ASSUME NEW k \in Nat, k \in G
      PROVE  k + 1 \in G
  <2>1. k + 1 \in Nat /\ k + 1 # 0 /\ (k + 1) - 1 = k /\ f[k] = w[k]
    BY <1>9
  <2> QED BY <1>3, <1>7, <2>1
<1> HIDE DEF G
<1>10. ASSUME NEW k \in Nat
       PROVE  k \in G
  <2>1. \A i \in 0..k - 1 : i \in G => i + 1 \in G
    BY <1>9
  <2>2. 0..k \subseteq G
    BY <1>8, <2>1, Induct
  <2> QED BY <2>2
<1> QED BY <1>2, <1>10 DEF G

\* Within as many steps as there are elements at all, each of L is met, once,
\* and the list is at its end.
LEMMA FollowingMeets ==
  ASSUME NEW S, IsFiniteSet(S), NEW nil, nil \notin S, NEW nx, NEW h, NEW L,
         Leads(S, nil, nx, h, L),
         NEW f, f = Following(nil, nx, h), NEW N, N = Cardinality(S)
  PROVE  /\ f[N] = nil
         /\ {f[k] : k \in 0..N} \ {nil} = L
         /\ \A j, k \in 0..N : f[j] = f[k] /\ f[j] # nil => j = k
         /\ \A p \in S : p \in L <=> \E k \in 0..N : f[k] = p
<1>1. PICK n, t : Trail(S, nil, nx, h, t, n) /\ L = Elements(t, n)
  BY Zenon DEF Leads
<1>2. /\ n \in Nat /\ t \in [1..n -> S] /\ \A i, j \in 1..n : t[i] = t[j] => i = j
  BY <1>1, Zenon DEF Trail
<1>3. N \in Nat /\ n <= N
  BY <1>2, TrailBound
<1>4. \A k \in Nat : f[k] = IF k < n THEN t[k + 1] ELSE nil
  BY <1>1, FollowingTrail
<1>5. /\ N \in Nat /\ ~(N < n)
      /\ \A k \in 0..N : k \in Nat /\ (k < n => k + 1 \in 1..n)
      /\ \A i \in 1..n : i - 1 \in 0..N /\ i - 1 < n /\ (i - 1) + 1 = i
  BY <1>2, <1>3
<1>6. f[N] = nil
  BY <1>4, <1>5
<1>7. \A k \in 0..N : f[k] = nil \/ (k < n /\ k + 1 \in 1..n /\ f[k] = t[k + 1])
  BY <1>4, <1>5
<1>8. \A i \in 1..n : i - 1 \in 0..N /\ f[i - 1] = t[i] /\ t[i] \in S /\ t[i] # nil
  <2>1. ASSUME NEW i \in 1..n
        PROVE  f[i - 1] = t[i]
    <3>1. i - 1 \in Nat /\ i - 1 < n /\ (i - 1) + 1 = i
      BY <1>2
    <3> QED BY <1>4, <3>1
  <2> QED BY <1>2, <1>5, <2>1
<1>9. \A j, k \in 0..N : f[j] = f[k] /\ f[j] # nil => j = k
  <2> SUFFICES ASSUME NEW j \in 0..N, NEW k \in 0..N, f[j] = f[k], f[j] # nil
               PROVE  j = k
    OBVIOUS
  <2>1. j + 1 \in 1..n /\ k + 1 \in 1..n /\ t[j + 1] = t[k + 1]
    BY <1>7
  <2>2. j + 1 = k + 1
    BY <1>2, <2>1, Zenon
  <2> QED BY <2>2
<1>10. \A p \in S : p \in L <=> \E k \in 0..N : f[k] = p
  BY <1>1, <1>7, <1>8 DEF Elements
<1>11. {f[k] : k \in 0..N} \ {nil} = L
  BY <1>1, <1>7, <1>8 DEF Elements
<1> QED BY <1>6, <1>9, <1>10, <1>11
=============================================================================
