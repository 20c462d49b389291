----------------------------- MODULE MempProofs -----------------------------
(***************************************************************************)
(* The pools of t_memp.c are correct for any number of pools of any sizes. *)
(* The inductive invariant is the conjunction of the three invariants of   *)
(* Memp: the shape of the chains (FreeListExact) survives a free into an   *)
(* empty pool only because a held block's link is NULL (HeldUnlinked).     *)
(***************************************************************************)
EXTENDS Memp, FiniteSetTheorems, TLAPS

IInv == TypeOK /\ HeldUnlinked /\ FreeListExact

-----------------------------------------------------------------------------
\* Blocks know their pool, so the pools of t_memp_init do not overlap.
LEMMA PoolsDisjoint ==
  ASSUME NEW t \in Types, NEW u \in Types, t # u
  PROVE  Pool(t) \cap Pool(u) = {}
BY DEF Pool

LEMMA PoolInBlock ==
  ASSUME NEW t \in Types
  PROVE  Pool(t) \subseteq Block /\ NULL \notin Pool(t)
BY NullAssumption DEF Block

\* A chain without repetition is no longer than its pool is large.
LEMMA ChainBound ==
  ASSUME NEW t \in Types, NEW k \in Nat, NEW fl \in [1..k -> Pool(t)],
         \A i, j \in 1..k : fl[i] = fl[j] => i = j
  PROVE  k <= Num[t]
<1> DEFINE g == [i \in 1..k |-> fl[i][2]]
<1>1. Num[t] \in Nat
  BY NumAssumption
<1>2. \A i \in 1..k : fl[i] = <<t, fl[i][2]>> /\ fl[i][2] \in 1..Num[t]
  BY DEF Pool
<1>3. g \in Injection(1..k, 1..Num[t])
  <2>1. g \in [1..k -> 1..Num[t]]
    BY <1>2
  <2>2. \A i, j \in 1..k : g[i] = g[j] => i = j
    <3> SUFFICES ASSUME NEW i \in 1..k, NEW j \in 1..k, g[i] = g[j]
                 PROVE  i = j
      OBVIOUS
    <3>1. fl[i][2] = fl[j][2]
      OBVIOUS
    <3>2. fl[i] = fl[j]
      BY <1>2, <3>1
    <3> QED
      BY <3>2
  <2> QED
    BY <2>1, <2>2, Zenon DEF Injection, IsInjective
<1>4. IsFiniteSet(1..Num[t]) /\ Cardinality(1..Num[t]) = Num[t]
  <2>1. Num[t] \in Int /\ 1 \in Int /\ ~(1 > Num[t]) /\ Num[t] - 1 + 1 = Num[t]
    BY NumAssumption
  <2> QED
    BY <2>1, FS_Interval, Zenon
<1>5. Cardinality(1..k) = k
  <2>1. k \in Int /\ 1 \in Int /\ k - 1 + 1 = k /\ (1 > k => k = 0)
    OBVIOUS
  <2>2. Cardinality(1..k) = IF 1 > k THEN 0 ELSE k - 1 + 1
    BY <2>1, FS_Interval, Zenon
  <2> QED
    BY <2>1, <2>2
<1>6. Cardinality(1..k) <= Cardinality(1..Num[t])
  BY <1>3, <1>4, FS_Injection, Zenon
<1> QED
  BY <1>4, <1>5, <1>6

\* What t_memp_malloc's test of the head means.
LEMMA HeadFree ==
  ASSUME IInv, NEW t \in Types
  PROVE  /\ memp_tab[t] # NULL => memp_tab[t] \in Pool(t) \ held
         /\ memp_tab[t] = NULL => Pool(t) \ held = {}
<1>1. PICK k \in 0..Num[t] : \E fl \in [1..k -> Pool(t)] : Chain(t, k, fl)
  BY DEF IInv, FreeListExact
<1>2. PICK fl \in [1..k -> Pool(t)] : Chain(t, k, fl)
  BY <1>1
<1>3. CASE k = 0
  <2>1. {fl[i] : i \in 1..k} = {}
    BY <1>3
  <2> QED
    BY <1>2, <1>3, <2>1 DEF Chain
<1>4. CASE k # 0
  <2>1. 1 \in 1..k
    BY <1>4, NumAssumption
  <2>2. memp_tab[t] = fl[1] /\ fl[1] \in Pool(t) \ held
    BY <1>2, <1>4, <2>1 DEF Chain
  <2> QED
    BY <2>2, PoolInBlock
<1> QED
  BY <1>3, <1>4

-----------------------------------------------------------------------------
LEMMA InitIInv == t_memp_init => IInv
<1> SUFFICES ASSUME t_memp_init PROVE IInv
  OBVIOUS
<1> USE DEF t_memp_init
<1>1. TypeOK
  <2>1. \A t \in Types : <<t, 1>> \in Block
    <3> SUFFICES ASSUME NEW t \in Types PROVE <<t, 1>> \in Pool(t)
      BY DEF Block
    <3>1. 1 \in 1..Num[t]
      BY NumAssumption
    <3> QED
      BY <3>1 DEF Pool
  <2>2. \A b \in Block : Chained(b) \in Block \cup {NULL}
    <3> SUFFICES ASSUME NEW t \in Types, NEW b \in Pool(t)
                 PROVE  Chained(b) \in Pool(t) \cup {NULL}
      BY DEF Block
    <3> QED
      BY NumAssumption DEF Pool, Chained
  <2> QED
    BY <2>1, <2>2 DEF TypeOK
<1>2. HeldUnlinked
  BY DEF HeldUnlinked
<1>3. FreeListExact
  <2> SUFFICES ASSUME NEW t \in Types
               PROVE  \E k \in 0..Num[t] : \E fl \in [1..k -> Pool(t)] : Chain(t, k, fl)
    BY DEF FreeListExact
  <2> DEFINE n == Num[t]
             f == [i \in 1..n |-> <<t, i>>]
  <2>1. n \in Nat \ {0}
    BY NumAssumption
  <2>2. f \in [1..n -> Pool(t)]
    BY DEF Pool
  <2>3. \A i \in 1..n : next[f[i]] = IF i = n THEN NULL ELSE f[i + 1]
    <3> SUFFICES ASSUME NEW i \in 1..n
                 PROVE  next[f[i]] = IF i = n THEN NULL ELSE f[i + 1]
      OBVIOUS
    <3>1. f[i] \in Block /\ f[i] = <<t, i>>
      BY <2>2, PoolInBlock
    <3>2. next[f[i]] = IF i < n THEN <<t, i + 1>> ELSE NULL
      BY <3>1 DEF Chained
    <3> QED
      BY <3>2, <2>1
  <2>4. {f[i] : i \in 1..n} = Pool(t) \ held
    <3>1. \A b \in Pool(t) : b[2] \in 1..n /\ b = f[b[2]]
      BY DEF Pool
    <3> QED
      BY <2>2, <3>1
  <2>5. \A i, j \in 1..n : f[i] = f[j] => i = j
    OBVIOUS
  <2>6. memp_tab[t] = f[1]
    BY <2>1
  <2>7. Chain(t, n, f)
    BY <2>1, <2>3, <2>4, <2>5, <2>6 DEF Chain
  <2> HIDE DEF n, f
  <2>8. n \in 0..n
    BY <2>1
  <2> QED
    BY <2>2, <2>7, <2>8 DEF n
<1> QED
  BY <1>1, <1>2, <1>3 DEF IInv

\* malloc: the chain of pool t loses its first block, the others stay.
LEMMA MallocIInv ==
  ASSUME IInv, NEW t \in Types, t_memp_malloc(t)
  PROVE  IInv'
<1>1. CASE memp_tab[t] = NULL
  <2>1. UNCHANGED <<memp_tab, next, held>> /\ ret' = NULL
    BY <1>1 DEF t_memp_malloc
  <2>2. TypeOK' /\ HeldUnlinked'
    BY <2>1 DEF IInv, TypeOK, HeldUnlinked
  <2>3. ASSUME NEW u \in Types, NEW k, NEW fl
        PROVE  Chain(u, k, fl)' <=> Chain(u, k, fl)
    BY <2>1 DEF Chain
  <2>4. FreeListExact'
    BY <2>3, Zenon DEF IInv, FreeListExact
  <2> QED
    BY <2>2, <2>4 DEF IInv
<1>2. CASE memp_tab[t] # NULL
  <2> DEFINE b == memp_tab[t]
  <2>1. /\ ret' = b
        /\ memp_tab' = [memp_tab EXCEPT ![t] = next[b]]
        /\ next' = [next EXCEPT ![b] = NULL]
        /\ held' = held \cup {b}
    BY <1>2 DEF t_memp_malloc, LinkCleared
  <2>2. b \in Pool(t) /\ b \notin held /\ b \in Block
    BY <1>2, HeadFree, PoolInBlock
  <2>3. TypeOK'
    BY <2>1, <2>2 DEF IInv, TypeOK
  <2>4. HeldUnlinked'
    BY <2>1, <2>2 DEF IInv, TypeOK, HeldUnlinked
  <2>5. FreeListExact'
    <3> SUFFICES ASSUME NEW u \in Types
                 PROVE  \E k \in 0..Num[u] : \E fl \in [1..k -> Pool(u)] : Chain(u, k, fl)'
      BY DEF FreeListExact
    <3>0. PICK k \in 0..Num[u] : \E fl \in [1..k -> Pool(u)] : Chain(u, k, fl)
      BY DEF IInv, FreeListExact
    <3>1. PICK fl \in [1..k -> Pool(u)] : Chain(u, k, fl)
      BY <3>0
    <3>2. CASE u # t
      <4>1. b \notin Pool(u)
        BY <2>2, <3>2, PoolsDisjoint
      <4>2. \A i \in 1..k : fl[i] \in Block /\ next'[fl[i]] = next[fl[i]]
        BY <2>1, <4>1, PoolInBlock DEF IInv, TypeOK
      <4>3. memp_tab'[u] = memp_tab[u]
        BY <2>1, <3>2 DEF IInv, TypeOK
      <4>4. Pool(u) \ held' = Pool(u) \ held
        BY <2>1, <4>1
      <4>5. Chain(u, k, fl)'
        BY <3>1, <4>2, <4>3, <4>4 DEF Chain
      <4> QED
        BY <4>5
    <3>3. CASE u = t
      <4>1. k \in Nat /\ k # 0 /\ fl[1] = b /\ 1 \in 1..k
        BY <1>2, <3>1, <3>3, NumAssumption DEF Chain
      <4> DEFINE m == k - 1
                 f == [i \in 1..m |-> fl[i + 1]]
      <4>2. m \in 0..Num[u] /\ m \in Nat
        BY <4>1, NumAssumption
      <4>3. \A i \in 1..m : i + 1 \in 1..k /\ i + 1 # 1
        BY <4>1
      <4>4. f \in [1..m -> Pool(u)]
        BY <4>3
      <4>5. \A i \in 1..m : f[i] # b /\ f[i] \in Block
        BY <4>1, <4>3, <4>4, <3>1, PoolInBlock DEF Chain
      <4>6. \A i \in 1..m : next'[f[i]] = IF i = m THEN NULL ELSE f[i + 1]
        <5> SUFFICES ASSUME NEW i \in 1..m
                     PROVE  next'[f[i]] = IF i = m THEN NULL ELSE f[i + 1]
          OBVIOUS
        <5>1. next'[f[i]] = next[fl[i + 1]]
          BY <2>1, <4>5 DEF IInv, TypeOK
        <5>2. next[fl[i + 1]] = IF i + 1 = k THEN NULL ELSE fl[(i + 1) + 1]
          BY <3>1, <4>3 DEF Chain
        <5>3. i # m => f[i + 1] = fl[(i + 1) + 1]
          BY <4>1
        <5> QED
          BY <5>1, <5>2, <5>3, <4>1
      <4>7. memp_tab'[u] = IF m = 0 THEN NULL ELSE f[1]
        <5>1. memp_tab'[u] = next[fl[1]]
          BY <2>1, <3>3, <4>1 DEF IInv, TypeOK
        <5>2. next[fl[1]] = IF k = 1 THEN NULL ELSE fl[2]
          BY <3>1, <4>1 DEF Chain
        <5>3. m # 0 => f[1] = fl[2]
          BY <4>1
        <5> QED
          BY <5>1, <5>2, <5>3, <4>1
      <4>8. \A i, j \in 1..m : f[i] = f[j] => i = j
        <5> SUFFICES ASSUME NEW i \in 1..m, NEW j \in 1..m, f[i] = f[j]
                     PROVE  i = j
          OBVIOUS
        <5>1. fl[i + 1] = fl[j + 1]
          OBVIOUS
        <5>2. i + 1 = j + 1
          BY <5>1, <4>3, <3>1 DEF Chain
        <5> QED
          BY <5>2
      <4>9. {f[i] : i \in 1..m} = Pool(u) \ held'
        <5>1. {fl[i] : i \in 1..k} = Pool(u) \ held
          BY <3>1 DEF Chain
        <5>2. \A i \in 1..m : f[i] \in Pool(u) \ held'
          BY <5>1, <4>3, <4>5, <2>1
        <5>3. \A x \in Pool(u) \ held' : \E i \in 1..m : f[i] = x
          <6> SUFFICES ASSUME NEW x \in Pool(u) \ held'
                       PROVE  \E i \in 1..m : f[i] = x
            OBVIOUS
          <6>1. PICK j \in 1..k : fl[j] = x
            BY <5>1, <2>1
          <6>2. j # 1
            BY <6>1, <4>1, <2>1
          <6>3. j - 1 \in 1..m /\ f[j - 1] = x
            BY <6>1, <6>2, <4>1
          <6> QED
            BY <6>3
        <5> QED
          BY <5>2, <5>3
      <4>10. Chain(u, m, f)'
        BY <4>6, <4>7, <4>8, <4>9 DEF Chain
      <4> QED
        BY <4>2, <4>4, <4>10
    <3> QED
      BY <3>2, <3>3
  <2> QED
    BY <2>3, <2>4, <2>5 DEF IInv
<1> QED
  BY <1>1, <1>2

\* free: the freed block goes in front of the chain of its pool.
LEMMA FreeIInv ==
  ASSUME IInv, NEW t \in Types, NEW b \in Pool(t), t_memp_free(t, b)
  PROVE  IInv'
<1>1. /\ b \in held /\ b \in Block
      /\ memp_tab' = [memp_tab EXCEPT ![t] = b]
      /\ held' = held \ {b}
      /\ ret' = ret
  BY PoolInBlock DEF t_memp_free
<1>2. next' = [next EXCEPT ![b] = memp_tab[t]]
  <2>1. next[b] = NULL
    BY <1>1 DEF IInv, HeldUnlinked
  <2> QED
    BY <1>1, <2>1 DEF t_memp_free, LinkedInFront, IInv, TypeOK
<1>3. TypeOK'
  BY <1>1, <1>2 DEF IInv, TypeOK
<1>4. HeldUnlinked'
  BY <1>1, <1>2 DEF IInv, TypeOK, HeldUnlinked
<1>5. FreeListExact'
  <2> SUFFICES ASSUME NEW u \in Types
               PROVE  \E k \in 0..Num[u] : \E fl \in [1..k -> Pool(u)] : Chain(u, k, fl)'
    BY DEF FreeListExact
  <2>0. PICK k \in 0..Num[u] : \E fl \in [1..k -> Pool(u)] : Chain(u, k, fl)
    BY DEF IInv, FreeListExact
  <2>1. PICK fl \in [1..k -> Pool(u)] : Chain(u, k, fl)
    BY <2>0
  <2>2. \A i \in 1..k : fl[i] \in Block /\ fl[i] # b
    BY <1>1, <2>1, PoolInBlock DEF Chain
  <2>3. \A i \in 1..k : next'[fl[i]] = next[fl[i]]
    BY <1>2, <2>2 DEF IInv, TypeOK
  <2>4. CASE u # t
    <3>1. memp_tab'[u] = memp_tab[u]
      BY <1>1, <2>4 DEF IInv, TypeOK
    <3>2. Pool(u) \ held' = Pool(u) \ held
      BY <1>1, <2>4, PoolsDisjoint
    <3>3. Chain(u, k, fl)'
      BY <2>1, <2>3, <3>1, <3>2 DEF Chain
    <3> QED
      BY <3>3
  <2>5. CASE u = t
    <3> DEFINE m == k + 1
               f == [i \in 1..m |-> IF i = 1 THEN b ELSE fl[i - 1]]
    <3>1. k \in Nat /\ m \in Nat /\ m # 0
      BY NumAssumption
    <3>2. \A i \in 1..m : i # 1 => i - 1 \in 1..k
      BY <3>1
    <3>3. f \in [1..m -> Pool(t)]
      BY <2>5, <3>2
    <3>4. \A i, j \in 1..m : f[i] = f[j] => i = j
      <4> SUFFICES ASSUME NEW i \in 1..m, NEW j \in 1..m, f[i] = f[j]
                   PROVE  i = j
        OBVIOUS
      <4>1. (i = 1) <=> (j = 1)
        BY <2>2, <3>2
      <4>2. CASE i # 1
        <5>1. fl[i - 1] = fl[j - 1]
          BY <4>1, <4>2
        <5>2. i - 1 = j - 1
          BY <5>1, <4>1, <4>2, <3>2, <2>1 DEF Chain
        <5> QED
          BY <5>2
      <4> QED
        BY <4>1, <4>2
    <3>5. m <= Num[t]
      BY <3>1, <3>3, <3>4, ChainBound
    <3>6. memp_tab'[t] = f[1]
      BY <1>1, <3>1 DEF IInv, TypeOK
    <3>7. \A i \in 1..m : next'[f[i]] = IF i = m THEN NULL ELSE f[i + 1]
      <4> SUFFICES ASSUME NEW i \in 1..m
                   PROVE  next'[f[i]] = IF i = m THEN NULL ELSE f[i + 1]
        OBVIOUS
      <4>1. CASE i = 1
        <5>1. next'[f[i]] = memp_tab[t]
          BY <1>1, <1>2, <4>1 DEF IInv, TypeOK
        <5>2. memp_tab[t] = IF k = 0 THEN NULL ELSE fl[1]
          BY <2>1, <2>5 DEF Chain
        <5>3. k # 0 => f[2] = fl[1]
          BY <3>1
        <5> QED
          BY <5>1, <5>2, <5>3, <4>1, <3>1
      <4>2. CASE i # 1
        <5>1. next'[f[i]] = next[fl[i - 1]]
          BY <2>3, <3>2, <4>2
        <5>2. next[fl[i - 1]] = IF i - 1 = k THEN NULL ELSE fl[(i - 1) + 1]
          BY <2>1, <3>2, <4>2 DEF Chain
        <5>3. i # m => f[i + 1] = fl[(i - 1) + 1]
          BY <4>2, <3>1
        <5> QED
          BY <5>1, <5>2, <5>3, <3>1
      <4> QED
        BY <4>1, <4>2
    <3>8. {f[i] : i \in 1..m} = Pool(t) \ held'
      <4>1. {fl[i] : i \in 1..k} = Pool(t) \ held
        BY <2>1, <2>5 DEF Chain
      <4>2. \A i \in 1..m : f[i] \in Pool(t) \ held'
        BY <4>1, <3>2, <1>1
      <4>3. \A x \in Pool(t) \ held' : \E i \in 1..m : f[i] = x
        <5> SUFFICES ASSUME NEW x \in Pool(t) \ held'
                     PROVE  \E i \in 1..m : f[i] = x
          OBVIOUS
        <5>1. CASE x = b
          <6>1. 1 \in 1..m /\ f[1] = b
            BY <3>1
          <6> QED
            BY <5>1, <6>1
        <5>2. CASE x # b
          <6>1. PICK j \in 1..k : fl[j] = x
            BY <4>1, <5>2, <1>1
          <6>2. j + 1 \in 1..m /\ f[j + 1] = x
            BY <6>1, <3>1
          <6> QED
            BY <6>2
        <5> QED
          BY <5>1, <5>2
      <4> QED
        BY <4>2, <4>3
    <3>9. Chain(t, m, f)'
      BY <3>1, <3>4, <3>6, <3>7, <3>8 DEF Chain
    <3>10. m \in 0..Num[t]
      BY <3>1, <3>5, NumAssumption
    <3> HIDE DEF m, f
    <3> QED
      BY <2>5, <3>3, <3>9, <3>10
  <2> QED
    BY <2>4, <2>5
<1> QED
  BY <1>3, <1>4, <1>5 DEF IInv

LEMMA StutterIInv ==
  ASSUME IInv, UNCHANGED vars
  PROVE  IInv'
BY DEF vars, IInv, TypeOK, HeldUnlinked, FreeListExact, Chain

-----------------------------------------------------------------------------
LEMMA InductiveInvariant == Spec => []IInv
<1>1. t_memp_init => IInv
  BY InitIInv
<1>2. IInv /\ [Next]_vars => IInv'
  <2> SUFFICES ASSUME IInv, [Next]_vars PROVE IInv'
    OBVIOUS
  <2>1. CASE Malloc
    BY <2>1, MallocIInv DEF Malloc
  <2>2. CASE Free
    BY <2>2, FreeIInv DEF Free
  <2>3. CASE UNCHANGED vars
    BY <2>3, StutterIInv
  <2> QED
    BY <2>1, <2>2, <2>3 DEF Next
<1> QED
  BY <1>1, <1>2, PTL DEF Spec

\* The header words and list heads of t_memp.c always hold block addresses or
\* NULL, whatever the pools' number and sizes.
THEOREM TypeCorrect == Spec => []TypeOK
<1>1. IInv => TypeOK
  BY DEF IInv
<1> QED
  BY <1>1, InductiveInvariant, PTL

\* No sequence of t_memp_malloc and t_memp_free loses a block, hands one out
\* twice or makes a chain cyclic.
THEOREM FreeListCorrect == Spec => []FreeListExact
<1>1. IInv => FreeListExact
  BY DEF IInv
<1> QED
  BY <1>1, InductiveInvariant, PTL

\* A block a caller holds carries a NULL link: t_memp_free may skip writing it.
THEOREM HeldLinksNull == Spec => []HeldUnlinked
<1>1. IInv => HeldUnlinked
  BY DEF IInv
<1> QED
  BY <1>1, InductiveInvariant, PTL

\* Every t_memp_malloc and t_memp_free is a step of the abstract pool: the
\* list implementation answers NULL exactly when the pool is used up and
\* otherwise hands out a block nobody holds.
THEOREM ImplementsPool == Spec => PoolSpec
<1> DEFINE aFree == [t \in Types |-> Pool(t) \ held]
<1>1. t_memp_init => Abstract!Init
  BY DEF t_memp_init, Abstract!Init
<1>2. IInv /\ [Next]_vars => [Abstract!Next]_(Abstract!vars)
  <2> SUFFICES ASSUME IInv, [Next]_vars
               PROVE  Abstract!Next \/ UNCHANGED Abstract!vars
    OBVIOUS
  <2>1. ASSUME NEW t \in Types, t_memp_malloc(t)
        PROVE  Abstract!Next
    <3>1. CASE memp_tab[t] = NULL
      <4>1. ret' = NULL /\ held' = held /\ Pool(t) \ held = {}
        BY <2>1, <3>1, HeadFree DEF t_memp_malloc
      <4>2. Abstract!Exhausted(t)
        BY <4>1 DEF Abstract!Exhausted
      <4> QED
        BY <4>2 DEF Abstract!Next
    <3>2. CASE memp_tab[t] # NULL
      <4> DEFINE b == memp_tab[t]
      <4>1. ret' = b /\ held' = held \cup {b} /\ b \in Pool(t) \ held
        BY <2>1, <3>2, HeadFree DEF t_memp_malloc
      <4>2. \A u \in Types : u # t => b \notin Pool(u)
        BY <4>1, PoolsDisjoint
      <4>3. aFree' = [aFree EXCEPT ![t] = @ \ {b}]
        BY <4>1, <4>2
      <4>4. Abstract!Alloc(t)
        BY <4>1, <4>3 DEF Abstract!Alloc
      <4> QED
        BY <4>4 DEF Abstract!Next
    <3> QED
      BY <3>1, <3>2
  <2>2. ASSUME NEW t \in Types, NEW b \in Pool(t), t_memp_free(t, b)
        PROVE  Abstract!Next
    <3>1. ret' = ret /\ held' = held \ {b} /\ b \in held
      BY <2>2 DEF t_memp_free
    <3>2. \A u \in Types : u # t => b \notin Pool(u)
      BY PoolsDisjoint
    <3>3. aFree' = [aFree EXCEPT ![t] = @ \cup {b}]
      BY <3>1, <3>2
    <3>4. Abstract!Release(t)
      BY <3>1, <3>3 DEF Abstract!Release
    <3> QED
      BY <3>4 DEF Abstract!Next
  <2>3. CASE UNCHANGED vars
    BY <2>3 DEF vars, Abstract!vars
  <2> QED
    BY <2>1, <2>2, <2>3 DEF Next, Malloc, Free
<1> QED
  BY <1>1, <1>2, InductiveInvariant, PTL DEF Spec, PoolSpec, Abstract!Spec
=============================================================================
