------------------------------ MODULE PoolBank ------------------------------
(***************************************************************************)
(* src/milutil/poolbank.c on top of create_pool and destroy_pool of        *)
(* src/milutil/pool.c: an array of pools that is searched one pool after   *)
(* the other.                                                              *)
(*                                                                         *)
(* Pool.tla shows that pool_get_ptr and pool_put_ptr act on one queue of   *)
(* objects, atomically, so each is one step here; the steps of different   *)
(* calls to the bank interleave between pools.  Nothing protects the array *)
(* itself: create_bank, add_pool and destroy_bank run while no other call  *)
(* does (Alone).  Every allocation may fail; the allocator is whatever     *)
(* custom_b_allocator has set, and a block is known by its owner and size. *)
(***************************************************************************)
EXTENDS Naturals, SequencesExt

CONSTANTS
  Threads,
  NPools,    \* values of n_pools
  PoolSz,    \* objects per pool
  CountMod,  \* values of _allocd_pools: 2^16, it is a uint16_t
  MaxBanks,  \* bound: calls of create_bank
  Foreign    \* a pointer that is in no pool

ASSUME BankAssumption ==
  /\ CountMod \in Nat \ {0} /\ NPools \subseteq 0..(CountMod - 1)
  /\ PoolSz \in Nat /\ MaxBanks \in Nat /\ Foreign \notin Nat \X Nat

VARIABLES
  state,     \* "none", "filling" inside create_bank, "open"
  n,         \* n_pools of the create_bank in progress
  max,       \* _max_pools, 0 for no limit
  count,     \* _allocd_pools
  pools,     \* the array: FALSE for a NULL pool
  freeq,     \* the free objects of each pool, first in first out
  heap,      \* allocated blocks
  bank,      \* number of banks so far; the tag of the blocks of this one
  lost,      \* banks that were given up with blocks still allocated
  pc, i,     \* where each thread is in its call, and its loop index
  obj,       \* the pointer each thread puts or has put back
  ret,       \* what the last call of each thread returned
  overlap,   \* threads that look for an object and were overtaken by a put
  held       \* objects returned to clients and not yet put back

life == <<state, n, max, count, pools, heap, bank, lost>>
vars == <<life, freeq, pc, i, obj, ret, overlap, held>>

Objects(k) == {<<k, j>> : j \in 1..PoolSz}
AllObjects == UNION {Objects(k) : k \in {j \in DOMAIN pools : pools[j]}}

\* Blocks of the current bank; an array of no pools is not allocated.
Struct   == <<bank, "bank", 0>>
Array(k) == {<<bank, "array", j>> : j \in {k} \ {0}}
PoolBlocks(k) == {<<bank, b, k>> : b \in {"pool", "mem", "entries"}}
Owned == {Struct} \cup Array(IF state = "filling" THEN n ELSE Len(pools))
           \cup UNION {PoolBlocks(k) : k \in {j \in DOMAIN pools : pools[j]}}

Alone == \A t \in Threads : pc[t] = "idle"

Init ==
  /\ state = "none" /\ n = 0 /\ max = 0 /\ count = 0 /\ pools = <<>> /\ freeq = <<>>
  /\ heap = {} /\ bank = 0 /\ lost = {}
  /\ pc = [t \in Threads |-> "idle"] /\ i = [t \in Threads |-> 1]
  /\ obj = [t \in Threads |-> Foreign] /\ ret = [t \in Threads |-> "none"]
  /\ overlap = {} /\ held = {}

----------------------------------------------------------------------------
\* Mutant: the block of objects is not freed when the entries cannot be had.
create_pool_leaks(h, k) ==
  {<<TRUE, h \cup PoolBlocks(k)>>, <<FALSE, h>>, <<FALSE, h \cup {<<bank, "mem", k>>}>>}

\* Whether create_pool succeeds and the heap it leaves: the struct, then the
\* objects, then the entries are allocated, and freed when the next one fails.
create_pool(h, k) ==
  LET p == h \cup {<<bank, "pool", k>>}
      m == p \cup {<<bank, "mem", k>>}
      e == m \cup {<<bank, "entries", k>>}
  IN  {<<TRUE, e>>, <<FALSE, h>>, <<FALSE, p \ {<<bank, "pool", k>>}>>,
       <<FALSE, m \ {<<bank, "mem", k>>, <<bank, "pool", k>>}>>}

\* Mutant: the counter is as wide as an int.
EnterNoWrap(ok) ==
  /\ pools' = Append(pools, ok)
  /\ freeq' = Append(freeq, IF ok THEN [j \in 1..PoolSz |-> <<Len(pools) + 1, j>>] ELSE <<>>)
  /\ count' = count + 1

\* A new pool that was created (or not: NULL) at the end of the array.
Enter(ok) ==
  /\ pools' = Append(pools, ok)
  /\ freeq' = Append(freeq, IF ok THEN [j \in 1..PoolSz |-> <<Len(pools) + 1, j>>] ELSE <<>>)
  /\ count' = (count + 1) % CountMod

\* The bank is gone, and with it all that its clients had of it.
Gone(h) ==
  /\ state' = "none" /\ pools' = <<>> /\ freeq' = <<>> /\ count' = 0 /\ heap' = h /\ held' = {}
  /\ lost' = IF \E b \in h : b[1] = bank THEN lost \cup {bank} ELSE lost

\* No call is in progress.
Forget ==
  /\ ret' = [t \in Threads |-> "none"] /\ obj' = [t \in Threads |-> Foreign]
  /\ overlap' = {}
  /\ UNCHANGED <<pc, i>>

----------------------------------------------------------------------------
(* create_bank *)

CreateBank == \E np \in NPools, growing \in BOOLEAN :
  /\ state = "none" /\ Alone /\ bank < MaxBanks
  /\ bank' = bank + 1 /\ n' = np /\ max' = IF growing THEN 0 ELSE np
  /\ \/ UNCHANGED <<state, heap>>
     \/ /\ state' = IF np = 0 THEN "open" ELSE "filling"
        /\ heap' = heap \cup {<<bank', "bank", 0>>} \cup
             IF np = 0 THEN {} ELSE {<<bank', "array", np>>}
  /\ Forget
  /\ UNCHANGED <<count, pools, freeq, lost, held>>

\* One round of the loop.  A first pool that cannot be created is counted and
\* stays NULL, because the clean-up loop has no round; a later one makes it
\* free(NULL), free(b) and return.
FillBank == \E r \in create_pool(heap, Len(pools) + 1) :
  /\ state = "filling"
  /\ IF r[1] \/ pools = <<>>
     THEN /\ Enter(r[1])
          /\ heap' = r[2]
          /\ state' = IF Len(pools) + 1 = n THEN "open" ELSE "filling"
          /\ UNCHANGED <<lost, held>>
     ELSE Gone(r[2] \ {Struct})
  /\ Forget
  /\ UNCHANGED <<n, max, bank>>

\* Bound: the array has room for CountMod pools.
AddPool == \E r \in create_pool(heap \cup Array(count + 1), Len(pools) + 1) :
  /\ state = "open" /\ Alone
  /\ Len(pools) = count
  /\ max = 0 \/ count # max
  /\ IF r[1] THEN Enter(TRUE) /\ heap' = r[2] \ Array(count)
             ELSE heap' = r[2] \ Array(count + 1) /\ UNCHANGED <<pools, freeq, count>>
  /\ Forget
  /\ UNCHANGED <<state, n, max, bank, lost, held>>

\* Mutant: the array of pools is not freed.
DestroyBankArray ==
  /\ state = "open" /\ Alone
  /\ Gone(heap \ ({Struct} \cup UNION {PoolBlocks(k) : k \in {j \in 1..count : pools[j]}}))
  /\ Forget
  /\ UNCHANGED <<n, max, bank>>

\* destroy_pool of each pool that is counted, then the array and the struct.
DestroyBank ==
  /\ state = "open" /\ Alone
  /\ Gone(heap \ ({Struct} \cup Array(Len(pools)) \cup
                  UNION {PoolBlocks(k) : k \in {j \in 1..count : pools[j]}}))
  /\ Forget
  /\ UNCHANGED <<n, max, bank>>

----------------------------------------------------------------------------
(* bank_get_ptr and bank_put_ptr *)

Begin(t, c, o) ==
  /\ pc[t] = "idle" /\ state # "filling"
  /\ pc' = [pc EXCEPT ![t] = c]
  /\ obj' = [obj EXCEPT ![t] = o]
  /\ ret' = [ret EXCEPT ![t] = "none"]
  /\ overlap' = overlap \ {t}
  /\ UNCHANGED <<life, freeq, i>>

Return(t, r) ==
  /\ pc' = [pc EXCEPT ![t] = "idle"]
  /\ i' = [i EXCEPT ![t] = 1]
  /\ ret' = [ret EXCEPT ![t] = r]
  /\ UNCHANGED <<life, obj>>

NextPool(t) ==
  /\ i' = [i EXCEPT ![t] = @ + 1]
  /\ UNCHANGED <<life, freeq, pc, obj, ret, overlap, held>>

GetBegin(t) == Begin(t, "get", Foreign) /\ UNCHANGED held

\* pool_get_ptr( b->bank[i] )
GetHit(t) ==
  /\ pc[t] = "get" /\ i[t] <= count /\ freeq[i[t]] # <<>>
  /\ freeq' = [freeq EXCEPT ![i[t]] = Tail(@)]
  /\ held' = held \cup {Head(freeq[i[t]])}
  /\ Return(t, "object")
  /\ UNCHANGED overlap

GetMiss(t) == pc[t] = "get" /\ i[t] <= count /\ freeq[i[t]] = <<>> /\ NextPool(t)

\* Mutant: the last pool is not looked at.
GetNullEarly(t) ==
  /\ pc[t] = "get" /\ i[t] >= count
  /\ Return(t, "null")
  /\ UNCHANGED <<freeq, overlap, held>>

\* No bank, or every pool has answered NULL.
GetNull(t) ==
  /\ pc[t] = "get" /\ i[t] > count
  /\ Return(t, "null")
  /\ UNCHANGED <<freeq, overlap, held>>

PutBegin(t) == \E o \in held \cup {Foreign} :
  Begin(t, "put", o) /\ held' = held \ {o}

\* Mutant: the range ends with the first object.
InPoolFirst(o, k) == o = <<k, 1>>

\* pool_put_ptr takes what is in its range; a NULL pool takes nothing.
InPool(o, k) == pools[k] /\ o \in Objects(k)

PutHit(t) ==
  /\ pc[t] = "put" /\ i[t] <= count /\ InPool(obj[t], i[t])
  /\ freeq' = [freeq EXCEPT ![i[t]] = Append(@, obj[t])]
  /\ overlap' = overlap \cup {u \in Threads : pc[u] = "get"}
  /\ Return(t, "taken")
  /\ UNCHANGED held

PutMiss(t) == pc[t] = "put" /\ i[t] <= count /\ ~InPool(obj[t], i[t]) /\ NextPool(t)

\* Mutant: 0 unless a pool has taken the pointer is not told from refusal.
PutEndZero(t) ==
  /\ pc[t] = "put" /\ i[t] > count
  /\ Return(t, "taken")
  /\ UNCHANGED <<freeq, overlap, held>>

\* The last pool's answer, -1; 0 if there is a bank but no pool in it.
PutEnd(t) ==
  /\ pc[t] = "put" /\ i[t] > count
  /\ Return(t, IF state = "open" /\ count = 0 THEN "taken" ELSE "refused")
  /\ UNCHANGED <<freeq, overlap, held>>

Next ==
  \/ CreateBank \/ FillBank \/ AddPool \/ DestroyBank
  \/ \E t \in Threads :
       \/ GetBegin(t) \/ GetHit(t) \/ GetMiss(t) \/ GetNull(t)
       \/ PutBegin(t) \/ PutHit(t) \/ PutMiss(t) \/ PutEnd(t)

Spec == Init /\ [][Next]_vars
----------------------------------------------------------------------------
TypeOK ==
  /\ state \in {"none", "filling", "open"} /\ n \in NPools \cup {0} /\ max \in NPools \cup {0}
  /\ count \in 0..(CountMod - 1) /\ pools \in Seq(BOOLEAN) /\ Len(freeq) = Len(pools)
  /\ bank \in 0..MaxBanks /\ lost \subseteq 1..MaxBanks
  /\ \A t \in Threads : pc[t] \in {"idle", "get", "put"} /\ i[t] \in 1..(Len(pools) + 1)
  /\ held \subseteq AllObjects /\ overlap \subseteq Threads

\* _allocd_pools has not wrapped: a bank that is given its 65536th pool forgets
\* them all.
Counted == count = Len(pools)

\* However calls overlap and pools are added, each object of a bank is in one
\* place: the queue of the pool it was made for, a client, or a call that is
\* putting it back and will find its pool (poolbank.c:108 to 140).
ObjectsInOnePlace == state = "open" /\ Counted =>
  LET Carriers(o) == {t \in Threads : pc[t] = "put" /\ obj[t] = o}
  IN  /\ \A k \in DOMAIN freeq : ToSet(freeq[k]) \subseteq Objects(k) /\ IsInjective(freeq[k])
      /\ \A o \in AllObjects :
           /\ (o \in ToSet(freeq[o[1]])) # (o \in held \/ Carriers(o) # {})
           /\ Carriers(o) # {} => o \notin held /\ \A t, u \in Carriers(o) : t = u
           /\ \A t \in Carriers(o) : i[t] <= o[1]

\* A client's object is never refused; a foreign pointer always is, unless the
\* bank has no pool: then bank_put_ptr never assigns its result
\* (poolbank.c:126).
PutAnswersRight == \A t \in Threads : Counted =>
  /\ ret[t] = "refused" => obj[t] = Foreign
  /\ ret[t] = "taken" /\ obj[t] = Foreign => pools = <<>>

\* Looking at one pool after the other, bank_get_ptr may miss an object that
\* comes back behind it.  If none did, NULL means that the whole bank is empty,
\* whatever other threads have taken meanwhile (poolbank.c:116).
NullMeansEmpty == [][\A t \in Threads :
  pc[t] = "get" /\ pc'[t] = "idle" /\ ret'[t] = "null" /\ t \notin overlap /\ Counted
    => \A k \in DOMAIN freeq : freeq[k] = <<>>]_vars

\* What a bank uses is allocated, what is allocated belongs to the bank, and a
\* bank is given up with blocks in use only by create_bank, when a pool after
\* the first cannot be created (poolbank.c:36 to 42).  In particular failures
\* of create_pool, add_pool and of the first pool leak nothing.
BlocksAccounted ==
  /\ state # "none" => Owned = {b \in heap : b[1] = bank}
  /\ \A b \in heap : b[1] \in lost \/ (state # "none" /\ b[1] = bank)

OnlyLateFailureLeaks ==
  [][lost' # lost /\ Counted => state = "filling" /\ Len(pools) > 0]_vars
=============================================================================
