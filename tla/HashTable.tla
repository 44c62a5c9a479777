------------------------------ MODULE HashTable ------------------------------
(***************************************************************************)
(* The chained hash table of include/milutil/hashtbl/hashtbl.h and         *)
(* src/milutil/hashtbl.c: the _safe operations with their bucket locks,    *)
(* called by any number of threads, hash_table_resize, which replaces the  *)
(* bucket array while they run, and the operations documented as not       *)
(* thread-safe.                                                            *)
(*                                                                         *)
(* One step is one access to what threads share: a critical section of     *)
(* h->lock, the locking or unlocking of a bucket, the body of a bucket's   *)
(* critical section, or an unlocked read or write of a field of h.         *)
(*                                                                         *)
(* A generation is a bucket array with its array of bucket locks.  The     *)
(* fields of h are read one by one, so each field names the generation its *)
(* value belongs to, and while a resize assigns them they may disagree.    *)
(* What C leaves undefined (freed arrays, indexes out of range, an         *)
(* iteration through an entry that has left its chain) sets fault, and     *)
(* nothing happens after.                                                  *)
(***************************************************************************)
EXTENDS Naturals, SequencesExt

CONSTANTS
  Threads,
  Entries,   \* struct hash_entry objects, owned by clients
  Keys,      \* the values of the key argument
  NoEntry,   \* NULL, and the head of a chain during iteration
  NoThread,
  NoBucket,
  LongKeys,  \* the keys hash_entry_init refuses: longer than a pointer, or NULL
  Strings,   \* the keys hash_entry_init copies
  NullKey,   \* what a failed copy leaves; to my_hash_fn and keycmp it is a key
  Hash,      \* my_hash_fn
  Content,   \* what is at a key, in pieces of four bytes, the low half of a word first
  Compare,   \* keycmp
  Sizes,     \* hashtbl_prime_sz, ascending
  UIntMod,   \* unsigned int counts modulo this
  MaxGens,   \* bound: there is no memory for more generations
  Threshold, \* _resize_threshold of the first generation
  MaxUsed,   \* bound: no insertion begins once _used_buckets is this high
  Unsafe     \* whether clients use the operations that are not thread-safe

ASSUME TableAssumption ==
  /\ NoEntry \notin Entries /\ NoThread \notin Threads /\ Keys # {}
  /\ Hash \in [Keys -> Nat]
  /\ Content \in [Keys -> Seq(Nat)]
  /\ LongKeys \subseteq Keys /\ Strings \subseteq Keys /\ NullKey \in Keys \ LongKeys
  /\ Compare \in {"hash64_cmp", "memcmp"} /\ UIntMod \in Nat \ {0}
  /\ Sizes \in Seq(Nat \ {0}) /\ Sizes # <<>> /\ MaxGens \in Nat \ {0}
  /\ NoBucket \notin Nat \X Nat
  /\ Threshold \in Nat \ {0} /\ MaxUsed \in Nat
  /\ Unsafe \in BOOLEAN

Gens == 1..MaxGens

\* threshold*2 at every resize, passed as an unsigned int
ThresholdOf(g) == (Threshold * 2^(g - 1)) % UIntMod

\* The size hash_table_init chooses: roundf(b / 0.75), raised to the next prime
\* of the table unless it is beyond the last one.
SizeFor(b) ==
  LET size == (8 * b + 3) \div 6
      i    == SelectInSeq(Sizes, LAMBDA p : size <= p)
  IN  IF i = 0 THEN size ELSE Sizes[i]

Buckets == [g \in Gens |-> SizeFor(ThresholdOf(g))]
Indexes(g) == 0..Buckets[g] - 1
Fields  == {"locks", "table", "buckets", "used", "threshold"}

VARIABLES
  chain,  \* chain[g][n]: the list of bucket n of generation g
  h,      \* the generation each field of the hash_table belongs to
  used,   \* _used_buckets
  lock,   \* the owner of h->lock
  holds,  \* the bucket lock each thread holds
  dead,   \* the generations whose arrays have been freed
  aux,    \* the generation hash_table_resize is filling
  cur,    \* its locals: bucket hti, list position pos, saved next nxt, the key want
          \* of the deletion it is in, hentry_aux got
  key,    \* key of each entry
  out,    \* the entries that are with clients
  th,     \* each thread: pc, the operation op it is in, the key arg (for an
          \* insertion e->key) and entry ent it handles, local slot (n, hcode), the
          \* generation arr whose bucket_locks it has read, _used_buckets loaded by
          \* ++ tmp
  found,  \* the key of the last delete or lookup and what it returned
  fault   \* undefined behaviour has been reached

fields == <<h, used>>
resize == <<lock, dead, aux, cur>>
table  == <<chain, fields, holds, resize>>
client == <<key, out, found>>
vars   == <<table, client, th, fault>>

PCs == {"idle", "hash", "check", "rs_lock", "rs_init", "rs_walk", "rs_bucket", "rs_unlink",
        "rs_add", "rs_free", "rs_install", "rehash", "bucket", "lock", "count", "store",
        "link", "unlink", "find", "unlock"}
Ops == {"insert", "delete", "lookup"}

----------------------------------------------------------------------------
(* Hashing, comparing and chains *)

Code(g, k) == Hash[k] % Buckets[g]

\* Mutant: the check of the size is the wrong way round.
Hash64CmpSize(k, l) ==
  Len(Content[k]) # 2 => Content[l] # <<>> /\ Content[l][1] = Content[k][1]

\* hash64_cmp reads the keys, answers 0 for any size but eight bytes, and of the
\* difference of two words returns the low half, an int.
Hash64Cmp(k, l) ==
  Len(Content[k]) = 2 => Content[l] # <<>> /\ Content[l][1] = Content[k][1]

MemCmp(k, l) == /\ Len(Content[l]) >= Len(Content[k])
                /\ SubSeq(Content[l], 1, Len(Content[k])) = Content[k]

\* keycmp(tmp->key, key, tmp->klen) == 0
KeyCmp(k, l) == IF Compare = "memcmp" THEN MemCmp(k, l) ELSE Hash64Cmp(k, l)

\* The comparisons of hash_table_lookup_key and of hash_table_lookup_key_safe,
\* which leaves out the length.
Matches(e, k)     == Len(Content[key[e]]) = Len(Content[k]) /\ KeyCmp(key[e], k)
MatchesSafe(e, k) == KeyCmp(key[e], k)

\* list_for_each: the first index in q of an element of S, 0 if there is none.
FirstIn(q, S) == SelectInSeq(q, LAMBDA e : e \in S)
FirstHit(q, k) == FirstIn(q, {e \in Entries : Matches(e, k)})

\* Mutant: the last entry of a chain is not visited.
FollowingSkip(q, e) ==
  LET i == IF e = NoEntry THEN 0 ELSE FirstIn(q, {e})
  IN  IF i + 1 < Len(q) THEN q[i + 1] ELSE NoEntry

Following(q, e) ==   \* e->next, e an entry of q or its head
  LET i == IF e = NoEntry THEN 0 ELSE FirstIn(q, {e})
  IN  IF i < Len(q) THEN q[i + 1] ELSE NoEntry

\* Mutant: list_del_init is left out.
CutNot(g, n, i) == UNCHANGED chain

Put(g, n, e)  == chain' = [chain EXCEPT ![g][n] = <<e>> \o @]
Cut(g, n, i)  == chain' = [chain EXCEPT ![g][n] = RemoveAt(@, i)]

----------------------------------------------------------------------------
(* hash_table_init: empty chains, all fields of the first generation.  The key *)
(* of an entry that never had one is what its memory holds.                    *)

AnyKey == CHOOSE k \in Keys : TRUE
Idle == [pc |-> "idle", op |-> "lookup", arg |-> AnyKey, ent |-> NoEntry,
         slot |-> 0, arr |-> 1, tmp |-> 0]
NoCursor == [hti |-> 0, pos |-> NoEntry, nxt |-> NoEntry, want |-> AnyKey, got |-> NoEntry]

Init ==
  /\ chain = [g \in Gens |-> [n \in Indexes(g) |-> <<>>]]
  /\ h     = [f \in Fields |-> 1]
  /\ used  = 0
  /\ lock  = NoThread
  /\ holds = [t \in Threads |-> NoBucket]
  /\ dead  = {}
  /\ aux   = 1
  /\ cur   = NoCursor
  /\ key \in [Entries -> Keys \ LongKeys]
  /\ out   = Entries
  /\ th    = [t \in Threads |-> Idle]
  /\ found = [t \in Threads |-> <<AnyKey, NoEntry>>]
  /\ fault = FALSE

At(t, l)   == th[t].pc = l
Goto(t, l) == th' = [th EXCEPT ![t].pc = l]

\* The locals are dead once the call returns.
Return(t) == th' = [th EXCEPT ![t] = Idle]

Fault == fault' = TRUE /\ UNCHANGED <<table, client, th>>

\* An access to bucket n of the array of field f that goes wrong.
Gone(f, n) == h[f] \in dead \/ n \notin Indexes(h[f])

----------------------------------------------------------------------------
(* Entering a call *)

\* What hash_entry_init may leave as the key of e; what it returns is ignored.
KeyLeft(e, k) == IF k \in LongKeys THEN {key[e]}
                 ELSE IF k \in Strings THEN {k, NullKey} ELSE {k}

BeginInsert(t, e, k) ==
  /\ At(t, "idle") /\ e \in out /\ used < MaxUsed
  /\ \E l \in KeyLeft(e, k) :
       /\ key' = [key EXCEPT ![e] = l]
       /\ th' = [th EXCEPT ![t].op = "insert", ![t].arg = l, ![t].ent = e,
                          ![t].pc = "hash"]
  /\ out' = out \ {e}
  /\ UNCHANGED <<table, found, fault>>

\* if(len > sizeof(uintptr_t)) return NULL
TooLong(t, k) ==
  /\ At(t, "idle") /\ k \in LongKeys
  /\ found' = [found EXCEPT ![t] = <<k, NoEntry>>]
  /\ UNCHANGED <<table, key, out, th, fault>>

BeginLookup(t, k) ==
  /\ At(t, "idle") /\ k \notin LongKeys
  /\ th' = [th EXCEPT ![t].op = "lookup", ![t].arg = k, ![t].pc = "hash"]
  /\ UNCHANGED <<table, client, fault>>

\* Mutant: the number of buckets is that of the table's creation.
BeginDeleteFirst(t, k) ==
  /\ At(t, "idle") /\ k \notin LongKeys
  /\ th' = [th EXCEPT ![t].op = "delete", ![t].arg = k, ![t].pc = "bucket",
                     ![t].slot = Code(1, k)]
  /\ UNCHANGED <<table, client, fault>>

\* hash_table_del_key_safe computes the bucket without h->lock.
BeginDelete(t, k) ==
  /\ At(t, "idle") /\ k \notin LongKeys
  /\ th' = [th EXCEPT ![t].op = "delete", ![t].arg = k, ![t].pc = "bucket",
                     ![t].slot = Code(h["buckets"], k)]
  /\ UNCHANGED <<table, client, fault>>

\* Mutant: after a resize the old bucket number is used.
HashCodeSafeOnce(t) ==
  /\ th[t].pc \in {"hash", "rehash"} /\ lock = NoThread
  /\ th' = [th EXCEPT ![t].slot = IF At(t, "hash") THEN Code(h["buckets"], th[t].arg) ELSE @,
               ![t].pc = IF @ = "hash" /\ th[t].op = "insert" THEN "check" ELSE "bucket"]
  /\ UNCHANGED <<table, client, fault>>

\* hash_table_hash_code_safe holds h->lock for one modulo.  An insertion calls
\* it again if it has resized the table.
HashCodeSafe(t) ==
  /\ th[t].pc \in {"hash", "rehash"} /\ lock = NoThread
  /\ th' = [th EXCEPT ![t].slot = Code(h["buckets"], th[t].arg),
               ![t].pc = IF @ = "hash" /\ th[t].op = "insert" THEN "check" ELSE "bucket"]
  /\ UNCHANGED <<table, client, fault>>

\* if(h->_used_buckets >= h->_resize_threshold), without a lock
InsCheck(t) ==
  /\ At(t, "check")
  /\ Goto(t, IF used >= ThresholdOf(h["threshold"]) THEN "rs_lock" ELSE "bucket")
  /\ UNCHANGED <<table, client, fault>>

----------------------------------------------------------------------------
(* A bucket's critical section *)

\* hash_table_bucket_lock(h, n) reads h->bucket_locks ...
BucketRead(t) ==
  /\ At(t, "bucket")
  /\ th' = [th EXCEPT ![t].pc = "lock", ![t].arr = h["locks"]]
  /\ UNCHANGED <<table, client, fault>>

\* ... and waits for the mutex it has read, even if a resize has destroyed it.
BucketLock(t) ==
  LET b == <<th[t].arr, th[t].slot>> IN
  /\ At(t, "lock") /\ \A u \in Threads : holds[u] # b
  /\ IF th[t].arr \in dead \/ th[t].slot \notin Indexes(th[t].arr)
     THEN Fault
     ELSE /\ holds' = [holds EXCEPT ![t] = b]
          /\ Goto(t, CASE th[t].op = "insert" -> "count"
                       [] th[t].op = "delete" -> "unlink"
                       [] th[t].op = "lookup" -> "find")
          /\ UNCHANGED <<chain, fields, resize, client, fault>>

\* Mutant: the threshold is checked, and the table resized, under the bucket's lock.
InsCountResizing(t) ==
  /\ At(t, "count")
  /\ IF Gone("table", th[t].slot)
     THEN Fault
     ELSE /\ IF used >= ThresholdOf(h["threshold"])
             THEN Goto(t, "rs_lock")
             ELSE th' = [th EXCEPT ![t].pc = "store", ![t].tmp = used]
          /\ UNCHANGED <<table, client, fault>>

\* if(list_empty(&h->table[n].list)), and the load of h->_used_buckets++
InsCount(t) ==
  /\ At(t, "count")
  /\ IF Gone("table", th[t].slot)
     THEN Fault
     ELSE /\ IF chain[h["table"]][th[t].slot] = <<>>
             THEN th' = [th EXCEPT ![t].pc = "store", ![t].tmp = used]
             ELSE Goto(t, "link")
          /\ UNCHANGED <<table, client, fault>>

\* Mutant: the counter goes down.
InsStoreDown(t) ==
  /\ At(t, "store")
  /\ used' = th[t].tmp - 1
  /\ Goto(t, "link")
  /\ UNCHANGED <<chain, h, resize, holds, client, fault>>

InsStore(t) ==
  /\ At(t, "store")
  /\ used' = th[t].tmp + 1
  /\ Goto(t, "link")
  /\ UNCHANGED <<chain, h, resize, holds, client, fault>>

\* list_add(&(e->list), &(h->table[n].list))
InsLink(t) ==
  /\ At(t, "link")
  /\ IF Gone("table", th[t].slot)
     THEN Fault
     ELSE /\ Put(h["table"], th[t].slot, th[t].ent)
          /\ Goto(t, "unlock")
          /\ UNCHANGED <<fields, resize, holds, client, fault>>

\* Mutant: every entry taken out is counted down, not only a bucket's last.
DelUnlinkDown(t) ==
  LET n == Code(h["buckets"], th[t].arg)
      q == chain[h["table"]][n]
      i == FirstHit(q, th[t].arg)
  IN  /\ At(t, "unlink")
      /\ IF Gone("table", n)
         THEN Fault
         ELSE /\ Goto(t, "unlock")
              /\ found' = [found EXCEPT ![t] = <<th[t].arg, IF i = 0 THEN NoEntry ELSE q[i]>>]
              /\ IF i = 0
                 THEN UNCHANGED <<chain, used, out>>
                 ELSE Cut(h["table"], n, i) /\ used' = used - 1 /\ out' = out \cup {q[i]}
              /\ UNCHANGED <<h, resize, holds, key, fault>>

\* hash_table_lookup_key computes the bucket anew; list_del_init(&(e->list)).
DelUnlink(t) ==
  LET n == Code(h["buckets"], th[t].arg)
      q == chain[h["table"]][n]
      i == FirstHit(q, th[t].arg)
  IN  /\ At(t, "unlink")
      /\ IF Gone("table", n)
         THEN Fault
         ELSE /\ Goto(t, "unlock")
              /\ IF i = 0
                 THEN /\ found' = [found EXCEPT ![t] = <<th[t].arg, NoEntry>>]
                      /\ UNCHANGED <<chain, out>>
                 ELSE /\ found' = [found EXCEPT ![t] = <<th[t].arg, q[i]>>]
                      /\ Cut(h["table"], n, i)
                      /\ out' = out \cup {q[i]}
              /\ UNCHANGED <<fields, resize, holds, key, fault>>

\* The walk of hash_table_lookup_key_safe.
LkFind(t) ==
  LET q == chain[h["table"]][th[t].slot]
      i == FirstIn(q, {e \in Entries : MatchesSafe(e, th[t].arg)})
  IN  /\ At(t, "find")
      /\ IF Gone("table", th[t].slot)
         THEN Fault
         ELSE /\ Goto(t, "unlock")
              /\ found' = [found EXCEPT ![t] = <<th[t].arg, IF i = 0 THEN NoEntry ELSE q[i]>>]
              /\ UNCHANGED <<table, key, out, fault>>

\* Mutant: a lookup that has found its key returns with the bucket locked.
BucketUnlockMissed(t) ==
  /\ At(t, "unlock")
  /\ IF th[t].op = "lookup" /\ found[t][2] # NoEntry
     THEN UNCHANGED holds
     ELSE holds' = [holds EXCEPT ![t] = NoBucket]
  /\ Return(t)
  /\ UNCHANGED <<chain, fields, resize, client, fault>>

\* Whoever has the mutex loses it.
Release(b) == holds' = [u \in Threads |-> IF holds[u] = b THEN NoBucket ELSE holds[u]]

\* hash_table_bucket_unlock reads h->bucket_locks again: if it finds another
\* array there, the mutex this call has locked stays locked.
BucketUnlock(t) ==
  /\ At(t, "unlock")
  /\ IF Gone("locks", th[t].slot)
     THEN Fault
     ELSE /\ Release(<<h["locks"], th[t].slot>>)
          /\ Return(t)
          /\ UNCHANGED <<chain, fields, resize, client, fault>>

----------------------------------------------------------------------------
(* hash_table_resize *)

RsLock(t) ==
  /\ At(t, "rs_lock") /\ lock = NoThread
  /\ lock' = t
  /\ Goto(t, "rs_init")
  /\ UNCHANGED <<chain, fields, holds, dead, aux, cur, client, fault>>

\* Mutant: hash_table_for_each, which does not save the next entry.
AtBucketUnsaved(n) ==
  LET p == Following(chain[h["table"]][n], NoEntry)
  IN  [hti |-> n, pos |-> p, nxt |-> p, want |-> AnyKey, got |-> NoEntry]

\* Iterating from the first entry of bucket n of h->table.
AtBucket(n) ==
  LET q == chain[h["table"]][n]
      p == Following(q, NoEntry)
  IN  [hti |-> n, pos |-> p, nxt |-> Following(q, p), want |-> AnyKey, got |-> NoEntry]

\* Mutant: a failed hash_table_init leaves h->lock locked.
RsInitKeepsLock(t) ==
  /\ At(t, "rs_init")
  /\ \/ /\ h["threshold"] < MaxGens
        /\ aux' = h["threshold"] + 1
        /\ cur' = AtBucket(0)
        /\ Goto(t, "rs_walk")
     \/ /\ Goto(t, "bucket")
        /\ UNCHANGED <<aux, cur>>
  /\ UNCHANGED <<chain, fields, lock, holds, dead, client, fault>>

\* hash_table_init of the new arrays; an allocation may fail.  There are no
\* generations beyond the last one: there the initialisation always fails.
RsInit(t) ==
  /\ At(t, "rs_init")
  /\ \/ /\ h["threshold"] < MaxGens
        /\ aux' = h["threshold"] + 1
        /\ cur' = AtBucket(0)
        /\ Goto(t, "rs_walk")
        /\ UNCHANGED lock
     \/ /\ lock' = NoThread
        /\ Goto(t, "bucket")
        /\ UNCHANGED <<aux, cur>>
  /\ UNCHANGED <<chain, fields, holds, dead, client, fault>>

\* The conditions of hash_table_for_each_safe.  An entry at hand is deleted by
\* its key, which is an argument of the call and read only here.
RsWalk(t) ==
  LET q == chain[h["table"]][cur.hti] IN
  /\ At(t, "rs_walk")
  /\ \/ /\ cur.pos = NoEntry
        /\ IF cur.hti + 1 \in Indexes(h["buckets"])
           THEN cur' = AtBucket(cur.hti + 1) /\ UNCHANGED th
           ELSE Goto(t, "rs_free") /\ UNCHANGED cur
        /\ UNCHANGED <<chain, fields, lock, holds, dead, aux, client, fault>>
     \/ /\ cur.pos # NoEntry
        /\ IF FirstIn(q, {cur.pos}) = 0
           THEN Fault
           ELSE /\ cur' = [cur EXCEPT !.want = key[cur.pos]]
                /\ Goto(t, "rs_bucket")
                /\ UNCHANGED <<chain, fields, lock, holds, dead, aux, client, fault>>

\* hash_table_del_hash_entry_safe locks the bucket of the key.  Nobody
\* else replaces h->bucket_locks: this call has h->lock.
RsBucket(t) ==
  LET n == Code(h["buckets"], cur.want)
      b == <<h["locks"], n>>
  IN  /\ At(t, "rs_bucket")
      /\ \A u \in Threads : holds[u] # b
      /\ holds' = [holds EXCEPT ![t] = b]
      /\ th' = [th EXCEPT ![t].pc = "rs_unlink", ![t].slot = n]
      /\ UNCHANGED <<chain, fields, resize, client, fault>>

\* It finds the first entry with that key, which need not be the one at hand.
RsUnlink(t) ==
  LET n == Code(h["buckets"], cur.want)
      q == chain[h["table"]][n]
      i == FirstHit(q, cur.want)
  IN  /\ At(t, "rs_unlink")
      /\ Goto(t, "rs_add")
      /\ IF i = 0
         THEN UNCHANGED <<chain, cur>>
         ELSE /\ Cut(h["table"], n, i)
              /\ cur' = [cur EXCEPT !.got = q[i]]
      /\ UNCHANGED <<fields, lock, holds, dead, aux, client, fault>>

\* The bucket is unlocked, hash_table_insert puts the entry into the new
\* arrays, and pos = n, n = pos->next, without a lock.
RsAdd(t) ==
  LET q == chain[h["table"]][cur.hti] IN
  /\ At(t, "rs_add")
  /\ IF cur.nxt # NoEntry /\ FirstIn(q, {cur.nxt}) = 0
     THEN Fault
     ELSE /\ Release(<<h["locks"], th[t].slot>>)
          /\ IF cur.got = NoEntry
             THEN UNCHANGED chain
             ELSE Put(aux, Code(aux, key[cur.got]), cur.got)
          /\ cur' = [cur EXCEPT !.got = NoEntry, !.want = AnyKey, !.pos = cur.nxt,
                                !.nxt = Following(q, cur.nxt)]
          /\ Goto(t, "rs_walk")
          /\ UNCHANGED <<fields, lock, dead, aux, client, fault>>

\* free(h->table), pthread_mutex_destroy and free(h->bucket_locks): what was
\* still linked in the old chains is gone.
RsFree(t) ==
  LET g == h["table"] IN
  /\ At(t, "rs_free")
  /\ dead' = dead \cup {g}
  /\ chain' = [chain EXCEPT ![g] = [n \in Indexes(g) |-> <<>>]]
  /\ cur' = NoCursor
  /\ Goto(t, "rs_install")
  /\ UNCHANGED <<fields, lock, holds, aux, client, fault>>

\* Plain stores to the fields of h, in the order the compiler likes.  The new
\* _used_buckets is 0: hash_table_insert did not count the moved entries.
RsInstall(t) ==
  /\ At(t, "rs_install")
  /\ \E f \in Fields :
       /\ h[f] # aux
       /\ h' = [h EXCEPT ![f] = aux]
       /\ used' = IF f = "used" THEN 0 ELSE used
  /\ UNCHANGED <<chain, resize, holds, client, th, fault>>

RsUnlock(t) ==
  /\ At(t, "rs_install") /\ \A f \in Fields : h[f] = aux
  /\ lock' = NoThread
  /\ Goto(t, "rehash")
  /\ UNCHANGED <<chain, fields, holds, dead, aux, cur, client, fault>>

----------------------------------------------------------------------------
(* The operations that are not thread-safe: a client that uses them keeps  *)
(* every other call out, so each is one step.  _used_buckets is left alone. *)

Alone == Unsafe /\ \A t \in Threads : At(t, "idle")

PlainInsert(t, e, k) ==
  /\ Alone /\ e \in out
  /\ \E l \in KeyLeft(e, k) : /\ key' = [key EXCEPT ![e] = l]
                             /\ Put(h["table"], Code(h["buckets"], l), e)
  /\ out' = out \ {e}
  /\ UNCHANGED <<fields, resize, holds, found, th, fault>>

PlainLookup(t, k) ==
  LET q == chain[h["table"]][Code(h["buckets"], k)]
      i == FirstHit(q, k)
  IN  /\ Alone
      /\ found' = [found EXCEPT ![t] = <<k, IF i = 0 THEN NoEntry ELSE q[i]>>]
      /\ UNCHANGED <<table, key, out, th, fault>>

PlainDelete(t, k) ==
  LET n == Code(h["buckets"], k)
      q == chain[h["table"]][n]
      i == FirstHit(q, k)
  IN  /\ Alone /\ k \notin LongKeys
      /\ IF i = 0
         THEN /\ found' = [found EXCEPT ![t] = <<k, NoEntry>>]
              /\ UNCHANGED <<chain, out>>
         ELSE /\ found' = [found EXCEPT ![t] = <<k, q[i]>>]
              /\ Cut(h["table"], n, i)
              /\ out' = out \cup {q[i]}
      /\ UNCHANGED <<fields, resize, holds, key, th, fault>>

----------------------------------------------------------------------------
Begin(t) ==
  \E k \in Keys :
    \/ \E e \in Entries : BeginInsert(t, e, k) \/ PlainInsert(t, e, k)
    \/ TooLong(t, k) \/ BeginLookup(t, k) \/ BeginDelete(t, k)
    \/ PlainLookup(t, k) \/ PlainDelete(t, k)

Continue(t) ==
  \/ HashCodeSafe(t) \/ InsCheck(t) \/ BucketRead(t) \/ BucketLock(t)
  \/ InsCount(t) \/ InsStore(t) \/ InsLink(t) \/ DelUnlink(t) \/ LkFind(t)
  \/ BucketUnlock(t)
  \/ RsLock(t) \/ RsInit(t) \/ RsWalk(t) \/ RsBucket(t) \/ RsUnlink(t) \/ RsAdd(t)
  \/ RsFree(t) \/ RsInstall(t) \/ RsUnlock(t)

Next == ~fault /\ \E t \in Threads : Begin(t) \/ Continue(t)

Spec == Init /\ [][Next]_vars

\* A thread inside a call keeps running; nobody is obliged to make a call.
Running(t) == ~fault /\ Continue(t)
FairSpec == Spec /\ \A t \in Threads : WF_vars(Running(t))
----------------------------------------------------------------------------
(* Conditions on the schedule, none of which the code sees to *)

\* No call runs beside a resize, from its first allocation to its last store.
Moving == {"rs_walk", "rs_bucket", "rs_unlink", "rs_add", "rs_free", "rs_install"}
ResizesAlone ==
  \A t \in Threads : th[t].pc \in Moving => \A u \in Threads \ {t} : At(u, "idle")

\* Entries may move while other calls run, but when a resize frees and replaces
\* the arrays no call has a bucket locked or its mutex in hand ...
InBucket == {"lock", "count", "store", "link", "unlink", "find", "unlock"}
ReplacedAlone ==
  \A t \in Threads : th[t].pc \in {"rs_free", "rs_install"} =>
    \A u \in Threads \ {t} : th[u].pc \notin InBucket
\* ... or has computed one and is about to lock it.
SlotsKept ==
  \A t \in Threads : th[t].pc \in {"rs_free", "rs_install"} =>
    \A u \in Threads \ {t} : ~At(u, "bucket")

\* No two insertions are between the load and the store of _used_buckets++.
StoresApart == \A t, u \in Threads : At(t, "store") /\ At(u, "store") => t = u

OrderlySpec == Init /\ [][Next /\ (ReplacedAlone /\ SlotsKept /\ StoresApart)']_vars

----------------------------------------------------------------------------
(* Correctness *)

Cursors == [hti : Nat, pos : Entries \cup {NoEntry}, nxt : Entries \cup {NoEntry},
            want : Keys, got : Entries \cup {NoEntry}]

\* Chains hold entries and _used_buckets, a size_t, never goes below zero
\* however its unprotected increments race (hashtbl.c:69).
TypeOK ==
  /\ \A g \in Gens : \A n \in Indexes(g) : chain[g][n] \in Seq(Entries)
  /\ h \in [Fields -> Gens] /\ used \in Nat
  /\ lock \in Threads \cup {NoThread}
  /\ holds \in [Threads -> {NoBucket} \cup (Gens \X Nat)]
  /\ dead \subseteq Gens /\ aux \in Gens /\ cur \in Cursors
  /\ key \in [Entries -> Keys \ LongKeys] /\ out \subseteq Entries
  /\ th \in [Threads -> [pc : PCs, op : Ops, arg : Keys,
                          ent : Entries \cup {NoEntry}, slot : Nat, arr : Gens, tmp : Nat]]
  /\ found \in [Threads -> Keys \X (Entries \cup {NoEntry})]
  /\ fault \in BOOLEAN

Linked(g) == UNION {ToSet(chain[g][n]) : n \in Indexes(g)}

\* The entries the table is answerable for: in a chain, or between the old and
\* the new chain in hash_table_resize.
Tracked == (UNION {Linked(g) : g \in Gens}) \cup ({cur.got} \ {NoEntry})

\* Entries of insertions that have not linked them yet.
Unlinked == {t \in Threads : th[t].op = "insert" /\ th[t].pc \notin {"idle", "unlock"}}
Arriving == {th[t].ent : t \in Unlinked}

\* Every entry is with exactly one party: a client, an insertion on its way, or
\* one place of one chain.  hash_table_resize (hashtbl.c:270-278) moves the
\* entries one by one while they stay owned by the table, and free(h->table)
\* at line 281 must not find one left.
EachEntryOnce ==
  /\ out \cup Arriving \cup Tracked = Entries
  /\ out \cap Arriving = {} /\ out \cap Tracked = {} /\ Arriving \cap Tracked = {}
  /\ \A t, u \in Unlinked : th[t].ent = th[u].ent => t = u
  /\ \A g \in Gens : \A n \in Indexes(g) :
       /\ IsInjective(chain[g][n])
       /\ \A f \in Gens : \A m \in Indexes(f) :
            ToSet(chain[g][n]) \cap ToSet(chain[f][m]) # {} => <<g, n>> = <<f, m>>
  /\ cur.got # NoEntry => \A g \in Gens : cur.got \notin Linked(g)

\* Whatever array h points to, an entry is in the bucket where lookups search
\* for it: both hash functions of hashtbl.h:106-122 use the same h->buckets and
\* the bucket computed before a resize is not used after it (hashtbl.c:63-66).
Placement ==
  \A g \in {h["table"], aux} : \A n \in Indexes(g) :
    \A i \in 1..Len(chain[g][n]) : n = Code(g, key[chain[g][n][i]])

\* A lookup or deletion that returns an entry returns one with the key it was
\* asked for, not one the comparison takes for it (hashtbl.c:94 and 138).
AnswersItsKey ==
  [][\A t \in Threads : found'[t] # found[t] /\ found'[t][2] # NoEntry =>
       key[found'[t][2]] = found'[t][1]]_vars

\* Outside a resize's free(h->table), a bucket of the current array is changed
\* only by the thread that holds its lock, although deletions compute the bucket
\* once to lock it and once more to search it (hashtbl.c:217 and 104).
ChangesUnderLock == [][\A t \in Threads, n \in Indexes(h["table"]) :
  (th'[t] # th[t] /\ dead' = dead /\ chain'[h["table"]][n] # chain[h["table"]][n])
    => holds[t] = <<h["locks"], n>>]_vars

\* No freed array or unlinked entry is touched, a resize that moves the entries
\* it iterates over included (hashtbl.c:270).
NoFault == ~fault

\* Only as long as no resize has reset it: every bucket that has become
\* occupied was counted, so the table never fills unnoticed (hashtbl.c:68).
\* Deletions do not count down, so _used_buckets may only be too high.
Occupied == {n \in Indexes(h["table"]) : chain[h["table"]][n] # <<>>}
CountCoversOccupied ==
  (h = [f \in Fields |-> 1]) => Cardinality(Occupied) <= used

\* What a call waits for: a thread that has h->lock, or the mutex of a bucket.
WaitsFor(t, u) ==
  \/ th[t].pc \in {"hash", "rehash", "rs_lock"} /\ lock = u
  \/ At(t, "lock") /\ holds[u] = <<th[t].arr, th[t].slot>>
  \/ At(t, "rs_bucket") /\ holds[u] = <<h["locks"], Code(h["buckets"], cur.want)>>

\* No deadlock: a call is never left with a mutex that a resize has destroyed,
\* whom it waits for is inside a call, and that one waits, if at all, for one
\* that does not wait.  The code takes h->lock and the bucket locks in different
\* orders (hashtbl.c:55, 67, 151, 219, 258 and 272).
WaitsEnd ==
  \A t \in Threads :
    /\ At(t, "lock") => th[t].arr \notin dead
    /\ \A u \in Threads : WaitsFor(t, u) =>
         ~At(u, "idle") /\ \A v, w \in Threads : ~(WaitsFor(u, v) /\ WaitsFor(v, w))

\* When all threads are inside the table, some call returns: h->lock and the
\* bucket locks never block everyone, and iterations end.  A single call may
\* wait for ever on a mutex others keep taking, as POSIX mutexes are not fair.
SomeCallReturns ==
  (\A t \in Threads : ~At(t, "idle")) ~> (\E t \in Threads : At(t, "idle"))

(***************************************************************************)
(* An entry is tracked from list_add to list_del_init and a lookup or      *)
(* deletion takes effect under the bucket lock; a resize changes nothing.  *)
(***************************************************************************)
Abstract == INSTANCE EntryTable WITH tracked <- Tracked

\* The concurrent operations act like atomic ones on a set of keyed entries
\* ("thread-safe", hashtbl.c:47 and hashtbl.h:254).
ImplementsEntryTable == Abstract!Init /\ [][Abstract!Next]_<<Tracked, key, found>>
=============================================================================
