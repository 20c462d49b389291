----------------------------- MODULE BlockPool -----------------------------
(***************************************************************************)
(* What a caller of a fixed-size pool may rely on (t_memp_malloc and       *)
(* t_memp_free, core/t_memp.c).  A pool is a set of blocks; a call takes   *)
(* some free block of the pool that was asked for, and answers NULL only   *)
(* when that pool has no free block left.  A block is handed out to one    *)
(* holder at a time.  Which free block is chosen is left open: the list    *)
(* of the implementation is last-in first-out, no caller depends on it.    *)
(***************************************************************************)
CONSTANTS Types,    \* the pools (t_memp_t)
          BlocksOf, \* BlocksOf[t]: the blocks carved out for pool t
          NULL

VARIABLES free,     \* free[t]: the blocks of pool t no caller holds
          ret       \* the answer of the last allocation

vars == <<free, ret>>

Init == /\ free = BlocksOf
        /\ ret = NULL

Alloc(t) ==
  /\ free[t] # {}
  /\ \E b \in free[t] : /\ ret' = b
                        /\ free' = [free EXCEPT ![t] = @ \ {b}]

Exhausted(t) ==
  /\ free[t] = {}
  /\ ret' = NULL
  /\ UNCHANGED free

Release(t) ==
  /\ \E b \in BlocksOf[t] \ free[t] : free' = [free EXCEPT ![t] = @ \cup {b}]
  /\ UNCHANGED ret

Next == \E t \in Types : Alloc(t) \/ Exhausted(t) \/ Release(t)

Spec == Init /\ [][Next]_vars
=============================================================================
