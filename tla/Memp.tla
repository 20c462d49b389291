------------------------------- MODULE Memp -------------------------------
(***************************************************************************)
(* The typed block pools of core/t_memp.c.  One array is cut into a pool   *)
(* per type; each pool's free blocks are chained through the header word   *)
(* in front of the block, and memp_tab[type] heads the chain.  malloc and  *)
(* free run between TASKSUSPENDALL and TASKRESUMEALL (one process-wide     *)
(* mutex, never nested), so each is one action whichever thread calls it.  *)
(*                                                                         *)
(* A block is <<t, i>>, the i-th block cut for pool t.  held and ret are   *)
(* history: the blocks the callers hold and the last answer of malloc.     *)
(* Callers free a block they hold, under the type they allocated it with.  *)
(***************************************************************************)
EXTENDS Naturals

CONSTANTS Types,  \* t_memp_t
          Num,    \* memp_num
          NULL

Pool(t) == {t} \X (1..Num[t])
Block   == UNION {Pool(t) : t \in Types}

ASSUME NumAssumption  == Num \in [Types -> Nat \ {0}]
ASSUME NullAssumption == NULL \notin Block

VARIABLES memp_tab,  \* head of each pool's chain of free blocks
          next,      \* the header word of every block
          held,
          ret

vars == <<memp_tab, next, held, ret>>

-----------------------------------------------------------------------------
(* Each operator is preceded by a faulty one, which the properties are      *)
(* known to find; nothing uses it.                                          *)

ChainedOneTooFar(b) == IF b[2] <= Num[b[1]] THEN <<b[1], b[2] + 1>> ELSE NULL

\* The loop of t_memp_init: each block points at its successor in memory.
Chained(b) == IF b[2] < Num[b[1]] THEN <<b[1], b[2] + 1>> ELSE NULL

LinkKept(b) == next

\* p->next = NULL on the way out of the pool.
LinkCleared(b) == [next EXCEPT ![b] = NULL]

ChainDropped(t, b) == next

\* A freed block points at the old head.  When the chain was empty the word
\* is left as it is.
LinkedInFront(t, b) ==
  IF memp_tab[t] # NULL THEN [next EXCEPT ![b] = memp_tab[t]] ELSE next

-----------------------------------------------------------------------------
t_memp_init ==
  /\ memp_tab = [t \in Types |-> <<t, 1>>]
  /\ next = [b \in Block |-> Chained(b)]
  /\ held = {}
  /\ ret = NULL

t_memp_malloc(t) ==
  \/ /\ memp_tab[t] # NULL
     /\ ret' = memp_tab[t]
     /\ memp_tab' = [memp_tab EXCEPT ![t] = next[memp_tab[t]]]
     /\ next' = LinkCleared(memp_tab[t])
     /\ held' = held \cup {memp_tab[t]}
  \/ /\ memp_tab[t] = NULL
     /\ ret' = NULL
     /\ UNCHANGED <<memp_tab, next, held>>

t_memp_free(t, b) ==
  /\ b \in held
  /\ memp_tab' = [memp_tab EXCEPT ![t] = b]
  /\ next' = LinkedInFront(t, b)
  /\ held' = held \ {b}
  /\ UNCHANGED ret

Malloc == \E t \in Types : t_memp_malloc(t)
Free   == \E t \in Types : \E b \in Pool(t) : t_memp_free(t, b)

Next == Malloc \/ Free
Spec == t_memp_init /\ [][Next]_vars

-----------------------------------------------------------------------------
\* The header words and the heads only ever hold blocks of the array or NULL
\* (the pointer arithmetic of t_memp_init stays inside memp_memory).
TypeOK ==
  /\ memp_tab \in [Types -> Block \cup {NULL}]
  /\ next \in [Block -> Block \cup {NULL}]
  /\ held \subseteq Block
  /\ ret \in Block \cup {NULL}

\* fl lists, in chain order, the k blocks reached from memp_tab[t].
Chain(t, k, fl) ==
  /\ memp_tab[t] = IF k = 0 THEN NULL ELSE fl[1]
  /\ \A i \in 1..k : next[fl[i]] = IF i = k THEN NULL ELSE fl[i + 1]
  /\ \A i, j \in 1..k : fl[i] = fl[j] => i = j
  /\ {fl[i] : i \in 1..k} = Pool(t) \ held

\* After any mixture of malloc and free the chain from memp_tab[t] ends, has
\* no cycle, and carries exactly the blocks of pool t that nobody holds: none
\* is lost, none is both free and in use, none strays into another pool.
FreeListExact ==
  \A t \in Types : \E k \in 0..Num[t] : \E fl \in [1..k -> Pool(t)] : Chain(t, k, fl)

\* A held block's header word is NULL.  t_memp_free depends on it: freeing
\* into an empty pool writes no link, so a stale word would splice blocks
\* that are still in use back into the chain.
HeldUnlinked == \A b \in held : next[b] = NULL

\* The pools as their callers see them: malloc answers NULL only when the
\* pool is used up and otherwise a block nobody holds; free returns one.
Abstract == INSTANCE BlockPool WITH
              BlocksOf <- [t \in Types |-> Pool(t)],
              free     <- [t \in Types |-> Pool(t) \ held]
PoolSpec == Abstract!Spec
=============================================================================
