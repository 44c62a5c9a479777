-------------------------------- MODULE Pool --------------------------------
(***************************************************************************)
(* src/milutil/pool.c: a pool of PSz objects carved out of one block, with *)
(* one pool_entry per object.  An entry is always on one of two mutex      *)
(* protected FIFO queues (include/milutil/queue/queue.h) or in the hands   *)
(* of one call: pool_q holds the entries whose ptr is a free object,       *)
(* avail_q the entries without an object.  Any number of threads call      *)
(* pool_get_ptr and pool_put_ptr; nothing but the queues is locked.        *)
(*                                                                         *)
(* get_fifo and put_fifo hold the queue's mutex for their whole body and   *)
(* wait for nothing else, so each is one step here.  The unlocked          *)
(* read-modify-write of _n_q is two steps.                                 *)
(***************************************************************************)
EXTENDS Naturals, Integers, Sequences, FiniteSets

CONSTANTS
  Threads,  \* threads that call into the pool
  PSz,      \* p_sz, the number of objects
  ObjSz,    \* o_sz, the size of an object
  CountMod, \* values of the counter _n_q: 2^16, it is a uint16_t
  Start,    \* _start_addr, in units of one object
  Foreign   \* addresses clients may pass that are not objects of this pool

ASSUME SizeAssumption ==
  /\ PSz \in Nat \ {0} /\ ObjSz \in Nat \ {0} /\ Start \in Nat
  /\ CountMod \in Nat \ {0}
ASSUME ForeignAssumption == Foreign \subseteq Nat \ (Start..(Start + PSz - 1))

Objs    == Start..(Start + PSz - 1)
Entries == 1..PSz
EndAddr == Start + PSz               \* _end_addr

VARIABLES
  pool_q,   \* queue of entries that carry a free object
  avail_q,  \* queue of entries that carry none
  ptr,      \* pool_entry.ptr of every entry
  n_q,      \* _n_q
  pc,       \* where each thread is in its call
  ent,      \* local lh / p_e: the entry a call has in its hands
  obj,      \* local ptr: the object a call carries
  tmp,      \* value of _n_q loaded by a call
  held,     \* objects returned to clients and not yet put back
  ret       \* what the last call of each thread returned

vars == <<pool_q, avail_q, ptr, n_q, pc, ent, obj, tmp, held, ret>>

PCs == {"idle", "get_got", "get_load", "get_store",
        "put_take", "put_got", "put_load", "put_store"}
Results == {"none", "object", "null", "ok", "rejected", "weird"}

(***************************************************************************)
(* create_pool: entry i owns the i-th object and all entries wait in       *)
(* pool_q, in order.  _n_q starts at the object's size.                    *)
(***************************************************************************)
Init ==
  /\ pool_q  = [i \in 1..PSz |-> i]
  /\ avail_q = <<>>
  /\ ptr     = [e \in Entries |-> Start + e - 1]
  /\ n_q     = ObjSz % CountMod
  /\ pc      = [t \in Threads |-> "idle"]
  /\ ent     = [t \in Threads |-> 1]
  /\ obj     = [t \in Threads |-> Start]
  /\ tmp     = [t \in Threads |-> 0]
  /\ held    = {}
  /\ ret     = [t \in Threads |-> "none"]

Goto(t, l) == pc' = [pc EXCEPT ![t] = l]

\* The locals are dead once the call returns.
Return(t, r) ==
  /\ Goto(t, "idle")
  /\ ret' = [ret EXCEPT ![t] = r]
  /\ ent' = [ent EXCEPT ![t] = 1]
  /\ obj' = [obj EXCEPT ![t] = Start]
  /\ tmp' = [tmp EXCEPT ![t] = 0]

----------------------------------------------------------------------------
(* pool_get_ptr *)

\* get_fifo(&p->pool_q): nothing queued means NULL.
GetTake(t) ==
  /\ pc[t] = "idle"
  /\ \/ /\ pool_q = <<>>
        /\ Return(t, "null")
        /\ UNCHANGED pool_q
     \/ /\ pool_q # <<>>
        /\ ent' = [ent EXCEPT ![t] = Head(pool_q)]
        /\ pool_q' = Tail(pool_q)
        /\ Goto(t, "get_got")
        /\ UNCHANGED <<obj, tmp, ret>>
  /\ UNCHANGED <<avail_q, ptr, n_q, held>>

\* Mutant: the entry is not queued in avail_q.
GetPtrNoPut(t) ==
  /\ pc[t] = "get_got"
  /\ obj' = [obj EXCEPT ![t] = ptr[ent[t]]]
  /\ Goto(t, "get_load")
  /\ UNCHANGED <<pool_q, avail_q, ptr, n_q, ent, tmp, held, ret>>

\* ptr = p_e->ptr, then put_fifo(&p->avail_q, lh).
GetPtr(t) ==
  /\ pc[t] = "get_got"
  /\ obj' = [obj EXCEPT ![t] = ptr[ent[t]]]
  /\ avail_q' = Append(avail_q, ent[t])
  /\ Goto(t, "get_load")
  /\ UNCHANGED <<pool_q, ptr, n_q, ent, tmp, held, ret>>

GetLoad(t) ==
  /\ pc[t] = "get_load"
  /\ tmp' = [tmp EXCEPT ![t] = n_q]
  /\ Goto(t, "get_store")
  /\ UNCHANGED <<pool_q, avail_q, ptr, n_q, ent, obj, held, ret>>

\* Mutant: a decrement that does not wrap.
DecNoWrap(n) == n - 1

\* The uint16_t counter wraps.
Dec(n) == (n + CountMod - 1) % CountMod
Inc(n) == (n + 1) % CountMod

\* p->_n_q-- is stored and the object goes to the client.
GetStore(t) ==
  /\ pc[t] = "get_store"
  /\ n_q' = Dec(tmp[t])
  /\ held' = held \cup {obj[t]}
  /\ Return(t, "object")
  /\ UNCHANGED <<pool_q, avail_q, ptr>>

----------------------------------------------------------------------------
(* pool_put_ptr *)

InPool(a) == a >= Start /\ a < EndAddr

\* The range check.  A client passes an object it holds or a foreign address
\* (bank_put_ptr offers every pointer to every pool in turn).
Put(t, a) ==
  /\ pc[t] = "idle"
  /\ \/ /\ ~InPool(a)
        /\ Return(t, "rejected")
        /\ UNCHANGED held
     \/ /\ InPool(a)
        /\ obj' = [obj EXCEPT ![t] = a]
        /\ held' = held \ {a}
        /\ Goto(t, "put_take")
        /\ UNCHANGED <<ent, tmp, ret>>
  /\ UNCHANGED <<pool_q, avail_q, ptr, n_q>>

\* Mutant: get_fifo returns the first entry without list_del.
PutPeek(t) ==
  /\ pc[t] = "put_take"
  /\ IF avail_q = <<>>
     THEN Return(t, "weird")
     ELSE /\ ent' = [ent EXCEPT ![t] = Head(avail_q)]
          /\ Goto(t, "put_got")
          /\ UNCHANGED <<obj, tmp, ret>>
  /\ UNCHANGED <<pool_q, avail_q, ptr, n_q, held>>

\* get_fifo(&p->avail_q); an empty queue is the branch "this would be weird".
PutTake(t) ==
  /\ pc[t] = "put_take"
  /\ IF avail_q = <<>>
     THEN Return(t, "weird") /\ UNCHANGED avail_q
     ELSE /\ ent' = [ent EXCEPT ![t] = Head(avail_q)]
          /\ avail_q' = Tail(avail_q)
          /\ Goto(t, "put_got")
          /\ UNCHANGED <<obj, tmp, ret>>
  /\ UNCHANGED <<pool_q, ptr, n_q, held>>

\* Mutants: p_e->ptr keeps its old value, the entry is queued at the head or
\* not at all.
PutPtrStale(t) ==
  /\ pc[t] = "put_got"
  /\ pool_q' = Append(pool_q, ent[t])
  /\ Goto(t, "put_load")
  /\ UNCHANGED <<avail_q, ptr, n_q, ent, obj, tmp, held, ret>>

PutPtrHead(t) ==
  /\ pc[t] = "put_got"
  /\ ptr' = [ptr EXCEPT ![ent[t]] = obj[t]]
  /\ pool_q' = <<ent[t]>> \o pool_q
  /\ Goto(t, "put_load")
  /\ UNCHANGED <<avail_q, n_q, ent, obj, tmp, held, ret>>

PutPtrLost(t) ==
  /\ pc[t] = "put_got"
  /\ ptr' = [ptr EXCEPT ![ent[t]] = obj[t]]
  /\ Goto(t, "put_load")
  /\ UNCHANGED <<pool_q, avail_q, n_q, ent, obj, tmp, held, ret>>

\* p_e->ptr = ptr, then put_fifo(&p->pool_q, lh).
PutPtr(t) ==
  /\ pc[t] = "put_got"
  /\ ptr' = [ptr EXCEPT ![ent[t]] = obj[t]]
  /\ pool_q' = Append(pool_q, ent[t])
  /\ Goto(t, "put_load")
  /\ UNCHANGED <<avail_q, n_q, ent, obj, tmp, held, ret>>

PutLoad(t) ==
  /\ pc[t] = "put_load"
  /\ tmp' = [tmp EXCEPT ![t] = n_q]
  /\ Goto(t, "put_store")
  /\ UNCHANGED <<pool_q, avail_q, ptr, n_q, ent, obj, held, ret>>

PutStore(t) ==
  /\ pc[t] = "put_store"
  /\ n_q' = Inc(tmp[t])
  /\ Return(t, "ok")
  /\ UNCHANGED <<pool_q, avail_q, ptr, held>>

----------------------------------------------------------------------------
Step(t) ==
  \/ GetTake(t) \/ GetPtr(t) \/ GetLoad(t) \/ GetStore(t)
  \/ \E a \in held \cup Foreign : Put(t, a)
  \/ PutTake(t) \/ PutPtr(t) \/ PutLoad(t) \/ PutStore(t)

Next == \E t \in Threads : Step(t)

Spec == Init /\ [][Next]_vars
----------------------------------------------------------------------------
(* Correctness *)

\* Queues hold entries, entries hold objects of this pool, and the counter
\* stays a uint16_t however it is raced for (pool.c:80 and 109).
TypeOK ==
  /\ pool_q \in Seq(Entries) /\ avail_q \in Seq(Entries)
  /\ ptr \in [Entries -> Objs]
  /\ n_q \in 0..CountMod - 1
  /\ pc \in [Threads -> PCs]
  /\ ent \in [Threads -> Entries]
  /\ obj \in [Threads -> Objs]
  /\ tmp \in [Threads -> 0..CountMod - 1]
  /\ held \subseteq Objs
  /\ ret \in [Threads -> Results]

Queued(q) == {q[i] : i \in 1..Len(q)}

\* A call at one of these points is the only one to know its entry ...
InHand(t) == pc[t] \in {"get_got", "put_got"}
\* ... or its object.
Carries(t) == pc[t] \in {"get_load", "get_store", "put_take", "put_got"}

\* Entries whose ptr field is the only reference to a free object.
Loaded == Queued(pool_q) \cup {ent[t] : t \in {u \in Threads : pc[u] = "get_got"}}

\* Objects of clients, and of calls that have no entry with them.
Out == held \cup {obj[t] : t \in
         {u \in Threads : pc[u] \in {"get_load", "get_store", "put_take"}}}

\* No object is in two places: waiting in pool_q, on its way through a call,
\* or with a client.  This is what makes pool_get_ptr (pool.c:65) safe to call
\* while other threads put objects back under other entries.
NoDoubleLending ==
  /\ \A e, f \in Loaded : e # f => ptr[e] # ptr[f]
  /\ \A e \in Loaded : ptr[e] \notin held
  /\ \A t \in Threads : Carries(t) =>
       /\ obj[t] \notin held
       /\ \A e \in Loaded : ptr[e] # obj[t]
       /\ \A u \in Threads : Carries(u) /\ obj[u] = obj[t] => u = t

\* No object is lost either: whatever the interleaving, each object of the
\* pool is waiting, travelling or held (pool.c:73-79 and 100-108).
NoLeak ==
  Objs = {ptr[e] : e \in Loaded} \cup held
           \cup {obj[t] : t \in {u \in Threads : Carries(u)}}

\* The branch commented "this would be weird" (pool.c:101-104) is dead as long
\* as clients put back what they got: however gets and puts overlap, an entry
\* without an object is waiting in avail_q for every object that comes back.
PutNeverWeird == \A t \in Threads : ret[t] # "weird"

\* With one thread _n_q follows the number of free objects, shifted by
\* o_sz - p_sz because create_pool starts it at o_sz (pool.c:44).  It is a
\* uint16_t, so a pool with o_sz < p_sz wraps it below zero.
CountFollowsHeld ==
  (\A t \in Threads : pc[t] = "idle") =>
    (n_q + Cardinality(held)) % CountMod = ObjSz % CountMod

(***************************************************************************)
(* The inductive invariant behind NoDoubleLending and PutNeverWeird.       *)
(***************************************************************************)
Distinct(q) == \A i, j \in 1..Len(q) : q[i] = q[j] => i = j

EntriesApart ==
  /\ Distinct(pool_q) /\ Distinct(avail_q)
  /\ Queued(pool_q) \cap Queued(avail_q) = {}
  /\ \A t \in Threads : InHand(t) =>
       /\ ent[t] \notin Queued(pool_q) \cup Queued(avail_q)
       /\ \A u \in Threads : InHand(u) /\ ent[u] = ent[t] => u = t

\* avail_q has exactly one entry for every object that is out.
Balance == Len(avail_q) = Cardinality(Out)

IInv == TypeOK /\ EntriesApart /\ NoDoubleLending /\ Balance /\ PutNeverWeird

(***************************************************************************)
(* The pool implements ObjectPool: an object leaves the abstract queue     *)
(* when its entry is taken from pool_q and is back when the entry is.      *)
(***************************************************************************)
FreeQueue == [i \in 1..Len(pool_q) |-> ptr[pool_q[i]]]
Lent == Out \cup {ptr[ent[t]] : t \in {u \in Threads : pc[u] = "get_got"}}
            \cup {obj[t] : t \in {u \in Threads : pc[u] = "put_got"}}

Abstract == INSTANCE ObjectPool WITH freeq <- FreeQueue, lent <- Lent

\* Concurrent pool_get_ptr and pool_put_ptr calls act like atomic operations
\* on one FIFO of objects.
ImplementsObjectPool == Abstract!Spec
=============================================================================
