----------------------------- MODULE ObjectPool -----------------------------
(***************************************************************************)
(* What a pool of pre-allocated objects promises its clients: the free     *)
(* objects wait in first-in first-out order, an object is lent to at most  *)
(* one client at a time, and only a lent object comes back.  Pool.tla      *)
(* shows that src/milutil/pool.c implements this module.                   *)
(***************************************************************************)
EXTENDS Naturals, Sequences

CONSTANTS
  PSz,      \* number of objects in the pool (create_pool's p_sz)
  Start     \* address of the first object, in units of one object

VARIABLES
  freeq,    \* the free objects, the next one to be lent first
  lent      \* the objects that are out of the pool

vars == <<freeq, lent>>

Init ==
  /\ freeq = [i \in 1..PSz |-> Start + i - 1]
  /\ lent = {}

Take ==
  /\ freeq # <<>>
  /\ freeq' = Tail(freeq)
  /\ lent' = lent \cup {Head(freeq)}

Give(o) ==
  /\ o \in lent
  /\ freeq' = Append(freeq, o)
  /\ lent' = lent \ {o}

Next == Take \/ \E o \in lent : Give(o)

Spec == Init /\ [][Next]_vars
=============================================================================
