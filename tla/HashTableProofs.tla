-------------------------- MODULE HashTableProofs --------------------------
(***************************************************************************)
(* Proofs about HashTable, for any number of threads, entries and keys,    *)
(* any hash function and any sizes, and however calls and resizes          *)
(* interleave: type correctness, that at most one thread resizes, that     *)
(* calls return no entry with a key they were not asked for, and that they *)
(* do not deadlock while no call is in a bucket when a resize replaces the *)
(* arrays.                                                                 *)
(* HashTableAtomic goes on from here.                                      *)
(***************************************************************************)
EXTENDS HashTable, SequenceLemmas, FiniteSetTheorems

----------------------------------------------------------------------------
(* Sizes, hashes and chains *)

\* Subsets of a set of n elements are counted by a number.
LEMMA PowerNat == ASSUME NEW n \in Nat PROVE 2^n \in Nat
<1>1. IsFiniteSet(1..n) /\ Cardinality(1..n) = n
  BY FS_Interval
<1>2. IsFiniteSet(SUBSET (1..n)) /\ Cardinality(SUBSET (1..n)) = 2^n
  BY <1>1, FS_SUBSET
<1> QED BY <1>2, FS_CardinalityType

\* list_for_each stops at the first entry looked for, or not at all.
LEMMA FirstInFacts ==
  ASSUME NEW T, NEW q \in Seq(T), NEW S
  PROVE  /\ FirstIn(q, S) \in 0..Len(q) /\ Len(q) \in Nat
         /\ FirstIn(q, S) = 0 => \A i \in 1..Len(q) : q[i] \notin S
         /\ FirstIn(q, S) # 0 => /\ FirstIn(q, S) \in 1..Len(q)
                                 /\ q[FirstIn(q, S)] \in S \cap T
                                 /\ \A i \in 1..Len(q) : i < FirstIn(q, S) => q[i] \notin S
<1> DEFINE I == {i \in 1..Len(q) : q[i] \in S}
<1>1. FirstIn(q, S) = IF I # {} THEN Min(I) ELSE 0
  BY DEF FirstIn, SelectInSeq
<1>2. CASE I = {}
  BY <1>1, <1>2
<1>3. CASE I # {}
  <2>1. I \in SUBSET Nat /\ Len(q) \in Nat
    OBVIOUS
  <2>2. Min(I) \in I /\ \A m \in I : Min(I) <= m
    BY <1>3, <2>1, LeastOf
  <2>3. FirstIn(q, S) = Min(I)
    BY <1>1, <1>3
  <2>4. FirstIn(q, S) \in 1..Len(q) /\ q[FirstIn(q, S)] \in S
    BY <2>2, <2>3
  <2>5. ASSUME NEW i \in 1..Len(q), i < FirstIn(q, S), q[i] \in S
        PROVE  FALSE
    <3>1. i \in I
      BY <2>5
    <3>2. FirstIn(q, S) <= i
      BY <2>2, <2>3, <3>1
    <3> QED BY <3>2, <2>5, <2>4, <2>1
  <2> QED BY <2>1, <2>4, <2>5
<1> QED BY <1>2, <1>3

\* hash_table_init never makes an array of no buckets.
LEMMA SizeForType ==
  ASSUME NEW b \in Nat
  PROVE  SizeFor(b) \in Nat \ {0}
<1> DEFINE size == (8 * b + 3) \div 6
           I == {i \in 1..Len(Sizes) : size <= Sizes[i]}
<1>1. size \in Nat
  OBVIOUS
<1>2. SizeFor(b) = IF I = {} THEN size ELSE Sizes[Min(I)]
  <2>1. Len(Sizes) \in Nat /\ I \in SUBSET Nat
    BY TableAssumption
  <2>2. I # {} => Min(I) \in I
    BY <2>1, LeastOf
  <2>3. SizeFor(b) = LET i == SelectInSeq(Sizes, LAMBDA p : size <= p)
                     IN  IF i = 0 THEN size ELSE Sizes[i]
    BY DEF SizeFor
  <2>4. SizeFor(b) = LET i == IF I # {} THEN Min(I) ELSE 0
                     IN  IF i = 0 THEN size ELSE Sizes[i]
    BY <2>3 DEF SelectInSeq
  <2> QED BY <2>1, <2>2, <2>4
<1> HIDE DEF size
<1>3. CASE I = {}
  <2>1. 1 \in 1..Len(Sizes) /\ Sizes[1] \in Nat \ {0}
    BY TableAssumption
  <2>2. ~(size <= Sizes[1])
    BY <1>3, <2>1
  <2> QED BY <1>1, <1>2, <1>3, <2>1, <2>2
<1>4. CASE I # {}
  <2>1. I \in SUBSET Nat
    BY TableAssumption
  <2>2. Min(I) \in I
    BY <1>4, <2>1, LeastOf
  <2> QED BY <1>2, <1>4, <2>2, TableAssumption
<1> QED BY <1>3, <1>4

LEMMA BucketsType ==
  ASSUME NEW g \in Gens
  PROVE  Buckets[g] \in Nat \ {0} /\ 0 \in Indexes(g)
<1>1. g - 1 \in Nat
  BY TableAssumption DEF Gens
<1>2. ThresholdOf(g) \in Nat
  <2>1. 2^(g - 1) \in Nat
    BY <1>1, PowerNat
  <2>2. \A a \in Nat, m \in Nat \ {0} : a % m \in Nat
    OBVIOUS
  <2>3. Threshold * 2^(g - 1) \in Nat
    BY <2>1, TableAssumption
  <2> QED BY <2>2, <2>3, TableAssumption DEF ThresholdOf
<1>3. Buckets[g] \in Nat \ {0}
  BY <1>2, SizeForType DEF Buckets
<1> QED BY <1>3 DEF Indexes

\* The bucket of a key exists.
LEMMA CodeType ==
  ASSUME NEW g \in Gens, NEW k \in Keys
  PROVE  Code(g, k) \in Indexes(g) /\ Code(g, k) \in Nat
<1>1. Hash[k] \in Nat /\ Buckets[g] \in Nat \ {0}
  BY BucketsType, TableAssumption
<1>2. ASSUME NEW a \in Nat, NEW m \in Nat \ {0} PROVE a % m \in 0..m - 1
  OBVIOUS
<1>3. Code(g, k) \in 0..Buckets[g] - 1
  BY <1>1, <1>2 DEF Code
<1> QED BY <1>3, <1>1 DEF Indexes

LEMMA FollowingType ==
  ASSUME NEW q \in Seq(Entries), NEW e \in Entries \cup {NoEntry}
  PROVE  Following(q, e) \in Entries \cup {NoEntry}
<1> DEFINE i == IF e = NoEntry THEN 0 ELSE FirstIn(q, {e})
<1>1. i \in 0..Len(q) /\ Len(q) \in Nat
  BY FirstInFacts
<1>2. Following(q, e) = IF i < Len(q) THEN q[i + 1] ELSE NoEntry
  BY DEF Following
<1> HIDE DEF i
<1>3. i < Len(q) => i + 1 \in 1..Len(q)
  BY <1>1
<1> QED BY <1>2, <1>3

----------------------------------------------------------------------------
(* Type correctness, and what hash_table_resize finds when it runs *)

InResize == {"rs_init"} \cup Moving
Walking == Moving \ {"rs_install"}

ChainType ==
  /\ chain = [g \in Gens |-> chain[g]]
  /\ \A g \in Gens : chain[g] \in [Indexes(g) -> Seq(Entries)]

\* A thread at a line of hash_table_insert_safe inserts an entry.
CallInv ==
  \A t \in Threads :
    /\ th[t].op = "insert" => th[t].ent \in Entries
    /\ th[t].pc \in InResize \cup {"check", "rs_lock", "rehash", "count", "store", "link"}
         => th[t].op = "insert"
    /\ th[t].pc = "unlink" => th[t].op = "delete"
    /\ th[t].pc = "find" => th[t].op = "lookup"

\* h->lock is held over a resize and over nothing else that is seen.
LockInv == \A t \in Threads : lock = t <=> th[t].pc \in InResize

\* All fields of h belong to one generation and the arrays before it are freed,
\* except while they are assigned.
Settled == dead = 1..(h["table"] - 1) /\ \A f \in Fields : h[f] = h["table"]

GenInv ==
  /\ (\A t \in Threads : th[t].pc # "rs_install") => Settled
  /\ \A t \in Threads :
       /\ th[t].pc \in Walking => aux = h["table"] + 1 /\ cur.hti \in Indexes(h["table"])
       /\ th[t].pc \in {"rs_bucket", "rs_unlink"} => cur.pos \in Entries
       /\ th[t].pc = "rs_install" =>
            aux - 1 \in Gens /\ dead = 1..(aux - 1) /\ \A f \in Fields : h[f] \in {aux - 1, aux}

TInv == TypeOK /\ ChainType /\ CallInv /\ LockInv /\ GenInv
Calls == [pc : PCs, op : Ops, arg : Keys, ent : Entries \cup {NoEntry},
          slot : Nat, arr : Gens, tmp : Nat]

LEMMA AnyKeyType == AnyKey \in Keys
BY TableAssumption DEF AnyKey

\* hash_entry_init leaves no key it refuses.
LEMMA KeyLeftType ==
  ASSUME key \in [Entries -> Keys \ LongKeys], NEW e \in Entries, NEW k \in Keys
  PROVE  KeyLeft(e, k) \subseteq Keys \ LongKeys
BY TableAssumption DEF KeyLeft

LEMMA InitTInv == Init => TInv
<1> SUFFICES ASSUME Init PROVE TInv
  OBVIOUS
<1>1. 1 \in Gens /\ 1..(1 - 1) = {}
  BY TableAssumption DEF Gens
<1>2. ChainType /\ \A g \in Gens : \A n \in Indexes(g) : chain[g][n] \in Seq(Entries)
  BY DEF Init, ChainType
<1>3. Idle \in Calls /\ NoCursor \in Cursors
  BY <1>1, AnyKeyType DEF Idle, Calls, NoCursor, Cursors, PCs, Ops
<1>4. TypeOK
  BY <1>1, <1>2, <1>3, AnyKeyType DEF Init, TypeOK, Calls
<1>5. \A t \in Threads : th[t].pc = "idle" /\ th[t].op = "lookup"
  BY DEF Init, Idle
<1>6. CallInv /\ LockInv
  BY <1>5, TableAssumption DEF Init, CallInv, LockInv, InResize, Moving
<1>7. Settled
  BY <1>1 DEF Init, Settled, Fields
<1>8. GenInv
  BY <1>5, <1>7 DEF GenInv, Walking, Moving
<1> QED BY <1>2, <1>4, <1>6, <1>8 DEF TInv

\* list_add to a bucket, list_del_init from one.
LEMMA PutChain ==
  ASSUME ChainType, NEW g \in Gens, NEW n \in Indexes(g), NEW e \in Entries, Put(g, n, e)
  PROVE  /\ ChainType'
         /\ \A f \in Gens : \A m \in Indexes(f) :
              chain'[f][m] = IF f = g /\ m = n THEN <<e>> \o chain[g][n] ELSE chain[f][m]
<1>1. <<e>> \o chain[g][n] \in Seq(Entries)
  BY PrependContents DEF ChainType
<1> QED BY <1>1 DEF Put, ChainType

LEMMA CutChain ==
  ASSUME ChainType, NEW g \in Gens, NEW n \in Indexes(g), NEW i \in 1..Len(chain[g][n]),
         Cut(g, n, i)
  PROVE  /\ ChainType'
         /\ \A f \in Gens : \A m \in Indexes(f) :
              chain'[f][m] = IF f = g /\ m = n THEN RemoveAt(chain[g][n], i) ELSE chain[f][m]
<1>1. RemoveAt(chain[g][n], i) \in Seq(Entries)
  BY RemoveFacts DEF ChainType
<1> QED BY <1>1 DEF Cut, ChainType

LEMMA ChainElement ==
  ASSUME ChainType, NEW g \in Gens, NEW n \in Indexes(g)
  PROVE  /\ chain[g][n] \in Seq(Entries) /\ Len(chain[g][n]) \in Nat
         /\ \A i \in 1..Len(chain[g][n]) : chain[g][n][i] \in Entries
<1>1. chain[g][n] \in Seq(Entries)
  BY DEF ChainType
<1> QED BY <1>1

\* A call is at a line of its own operation.
GoodCall(c) ==
  /\ c \in Calls
  /\ c.op = "insert" => c.ent \in Entries
  /\ c.pc \in InResize \cup {"check", "rs_lock", "rehash", "count", "store", "link"}
       => c.op = "insert"
  /\ c.pc = "unlink" => c.op = "delete"
  /\ c.pc = "find" => c.op = "lookup"

DataType ==
  /\ ChainType /\ used \in Nat /\ holds \in [Threads -> {NoBucket} \cup (Gens \X Nat)]
  /\ key \in [Entries -> Keys \ LongKeys] /\ out \subseteq Entries
  /\ found \in [Threads -> Keys \X (Entries \cup {NoEntry})] /\ fault \in BOOLEAN

\* A step outside hash_table_resize.
LEMMA OutsideResize ==
  ASSUME TInv, NEW t \in Threads, NEW c, GoodCall(c), DataType',
         th' = [th EXCEPT ![t] = c], th[t].pc \notin InResize, c.pc \notin InResize,
         UNCHANGED <<h, lock, dead, aux, cur>>
  PROVE  TInv'
<1>1. /\ th' \in [Threads -> Calls] /\ \A u \in Threads : th'[u] = IF u = t THEN c ELSE th[u]
  BY DEF TInv, TypeOK, Calls, GoodCall
<1>2. LockInv'
  BY <1>1 DEF TInv, LockInv
<1>3. \A u \in Threads : th'[u].pc \in InResize => th[u].pc = th'[u].pc
  BY <1>1
<1>4. (\A u \in Threads : th'[u].pc # "rs_install") => \A u \in Threads : th[u].pc # "rs_install"
  BY <1>1 DEF InResize, Moving
<1>5. (Settled <=> Settled') /\ Fields' = Fields
  BY DEF Settled
<1>6. Walking \subseteq InResize /\ {"rs_bucket", "rs_unlink", "rs_install"} \subseteq InResize
  BY DEF InResize, Walking, Moving
<1>7. GenInv'
  BY <1>3, <1>4, <1>5, <1>6 DEF TInv, GenInv
<1>8. CallInv'
  BY <1>1 DEF TInv, CallInv, GoodCall
<1>9. TypeOK'
  BY <1>1 DEF TInv, TypeOK, DataType, ChainType, Calls
<1> QED BY <1>2, <1>7, <1>8, <1>9 DEF TInv, DataType

\* Nothing happens to the table when the code has no defined behaviour left.
LEMMA FaultTInv == TInv /\ Fault => TInv'
<1> SUFFICES ASSUME TInv, Fault PROVE TInv'
  OBVIOUS
<1>1. UNCHANGED <<chain, h, used, holds, lock, dead, aux, cur, key, out, found, th>> /\ fault' = TRUE
  BY DEF Fault, table, fields, resize, client
<1>2. TypeOK'
  BY <1>1 DEF TInv, TypeOK
<1>3. ChainType' /\ CallInv' /\ LockInv'
  BY <1>1 DEF TInv, ChainType, CallInv, LockInv
<1>4. GenInv'
  BY <1>1 DEF TInv, GenInv, Settled
<1> QED BY <1>2, <1>3, <1>4 DEF TInv

\* The calls of hash_table_insert_safe, hash_table_del_key_safe and
\* hash_table_lookup_key_safe keep the types.
LEMMA CallsTInv ==
  ASSUME TInv, NEW t \in Threads, ~fault,
         Begin(t) \/ HashCodeSafe(t) \/ InsCheck(t) \/ BucketRead(t) \/ BucketLock(t)
           \/ InsCount(t) \/ InsStore(t) \/ InsLink(t) \/ DelUnlink(t) \/ LkFind(t)
           \/ BucketUnlock(t)
  PROVE  TInv'
<1>0. /\ th \in [Threads -> Calls] /\ GoodCall(th[t]) /\ DataType
      /\ h \in [Fields -> Gens] /\ {"table", "buckets", "locks"} \subseteq Fields
  BY DEF TInv, TypeOK, CallInv, GoodCall, Calls, Fields, DataType
<1>1. ASSUME NEW e \in Entries, NEW k \in Keys, BeginInsert(t, e, k)
      PROVE  TInv'
  <2>1. PICK l \in KeyLeft(e, k) :
          /\ key' = [key EXCEPT ![e] = l]
          /\ th' = [th EXCEPT ![t].op = "insert", ![t].arg = l, ![t].ent = e,
                             ![t].pc = "hash"]
    BY <1>1 DEF BeginInsert
  <2>2. l \in Keys \ LongKeys
    BY <1>0, KeyLeftType DEF DataType
  <2> DEFINE c == [th[t] EXCEPT !.op = "insert", !.arg = l, !.ent = e, !.pc = "hash"]
  <2>3. /\ GoodCall(c) /\ th' = [th EXCEPT ![t] = c]
        /\ c.pc \notin InResize /\ th[t].pc \notin InResize
    BY <1>0, <1>1, <2>1, <2>2 DEF BeginInsert, At, GoodCall, Calls, PCs, Ops, InResize, Moving
  <2>4. DataType' /\ UNCHANGED <<h, lock, dead, aux, cur>>
    BY <1>0, <1>1, <2>1, <2>2 DEF BeginInsert, DataType, ChainType, table, fields, resize
  <2> HIDE DEF c
  <2> QED BY <2>3, <2>4, OutsideResize
<1>2. ASSUME NEW k \in Keys, BeginLookup(t, k)
      PROVE  TInv'
  <2> DEFINE c == [th[t] EXCEPT !.op = "lookup", !.arg = k, !.pc = "hash"]
  <2>1. /\ GoodCall(c) /\ th' = [th EXCEPT ![t] = c]
        /\ c.pc \notin InResize /\ th[t].pc \notin InResize
    BY <1>0, <1>2 DEF BeginLookup, At, GoodCall, Calls, PCs, Ops, InResize, Moving
  <2>2. DataType' /\ UNCHANGED <<h, lock, dead, aux, cur>>
    BY <1>0, <1>2 DEF BeginLookup, DataType, ChainType, table, client, fields, resize
  <2> HIDE DEF c
  <2> QED BY <2>1, <2>2, OutsideResize
<1>3. ASSUME NEW k \in Keys, BeginDelete(t, k)
      PROVE  TInv'
  <2> DEFINE c == [th[t] EXCEPT !.op = "delete", !.arg = k, !.pc = "bucket",
                               !.slot = Code(h["buckets"], k)]
  <2>1. /\ GoodCall(c) /\ th' = [th EXCEPT ![t] = c]
        /\ c.pc \notin InResize /\ th[t].pc \notin InResize
    BY <1>0, <1>3, CodeType DEF BeginDelete, At, GoodCall, Calls, PCs, Ops, InResize, Moving
  <2>2. DataType' /\ UNCHANGED <<h, lock, dead, aux, cur>>
    BY <1>0, <1>3 DEF BeginDelete, DataType, ChainType, table, client, fields, resize
  <2> HIDE DEF c
  <2> QED BY <2>1, <2>2, OutsideResize
<1>4. ASSUME HashCodeSafe(t)
      PROVE  TInv'
  <2> DEFINE c == [th[t] EXCEPT
                     !.slot = Code(h["buckets"], th[t].arg),
                     !.pc = IF @ = "hash" /\ th[t].op = "insert" THEN "check" ELSE "bucket"]
  <2>1. /\ GoodCall(c) /\ th' = [th EXCEPT ![t] = c]
        /\ c.pc \notin InResize /\ th[t].pc \notin InResize
    BY <1>0, <1>4, CodeType DEF HashCodeSafe, At, GoodCall, Calls, PCs, Ops, InResize, Moving
  <2>2. DataType' /\ UNCHANGED <<h, lock, dead, aux, cur>>
    BY <1>0, <1>4 DEF HashCodeSafe, DataType, ChainType, table, client, fields, resize
  <2> HIDE DEF c
  <2> QED BY <2>1, <2>2, OutsideResize
<1>5. ASSUME InsCheck(t)
      PROVE  TInv'
  <2> DEFINE c == [th[t] EXCEPT !.pc = IF used >= ThresholdOf(h["threshold"]) THEN "rs_lock"
                                     ELSE "bucket"]
  <2>1. /\ GoodCall(c) /\ th' = [th EXCEPT ![t] = c]
        /\ c.pc \notin InResize /\ th[t].pc \notin InResize
    BY <1>0, <1>5 DEF InsCheck, At, GoodCall, Calls, PCs, Ops, InResize, Moving, Goto
  <2>2. DataType' /\ UNCHANGED <<h, lock, dead, aux, cur>>
    BY <1>0, <1>5 DEF InsCheck, DataType, ChainType, table, client, fields, resize
  <2> HIDE DEF c
  <2> QED BY <2>1, <2>2, OutsideResize
<1>6. ASSUME InsStore(t)
      PROVE  TInv'
  <2> DEFINE c == [th[t] EXCEPT !.pc = "link"]
  <2>1. /\ GoodCall(c) /\ th' = [th EXCEPT ![t] = c]
        /\ c.pc \notin InResize /\ th[t].pc \notin InResize
    BY <1>0, <1>6 DEF InsStore, At, GoodCall, Calls, PCs, Ops, InResize, Moving, Goto
  <2>2. DataType' /\ UNCHANGED <<h, lock, dead, aux, cur>>
    BY <1>0, <1>6 DEF InsStore, DataType, ChainType, GoodCall, Calls, client, resize
  <2> HIDE DEF c
  <2> QED BY <2>1, <2>2, OutsideResize
<1>7. ASSUME LkFind(t), ~Fault
      PROVE  TInv'
  <2> DEFINE q == chain[h["table"]][th[t].slot]
             i == FirstIn(q, {e \in Entries : MatchesSafe(e, th[t].arg)})
             c == [th[t] EXCEPT !.pc = "unlock"]
  <2>1. /\ GoodCall(c) /\ th' = [th EXCEPT ![t] = c]
        /\ c.pc \notin InResize /\ th[t].pc \notin InResize
    BY <1>0, <1>7 DEF LkFind, At, Goto, GoodCall, Calls, PCs, Ops, InResize, Moving
  <2>2. q \in Seq(Entries)
    BY <1>0, <1>7 DEF LkFind, Gone, DataType, ChainType
  <2>3. (IF i = 0 THEN NoEntry ELSE q[i]) \in Entries \cup {NoEntry}
    BY <2>2, FirstInFacts
  <2>4. /\ found' = [found EXCEPT ![t] = <<th[t].arg, IF i = 0 THEN NoEntry ELSE q[i]>>]
        /\ UNCHANGED <<table, key, out, fault>>
    BY <1>7 DEF LkFind
  <2> HIDE DEF q, i, c
  <2>5. DataType' /\ UNCHANGED <<h, lock, dead, aux, cur>>
    BY <1>0, <2>3, <2>4 DEF DataType, ChainType, table, fields, resize, GoodCall, Calls
  <2> QED BY <2>1, <2>5, OutsideResize
<1>8. ASSUME BucketUnlock(t), ~Fault
      PROVE  TInv'
  <2>1. /\ GoodCall(Idle) /\ th' = [th EXCEPT ![t] = Idle]
        /\ Idle.pc \notin InResize /\ th[t].pc \notin InResize
    <3>1. 1 \in Gens
      BY TableAssumption DEF Gens
    <3>2. GoodCall(Idle) /\ Idle.pc \notin InResize
      BY <3>1, AnyKeyType DEF Idle, GoodCall, Calls, PCs, Ops, InResize, Moving
    <3> QED BY <1>8, <3>2 DEF BucketUnlock, Return, At, InResize, Moving
  <2>2. holds' \in [Threads -> {NoBucket} \cup (Gens \X Nat)]
    BY <1>0, <1>8 DEF BucketUnlock, Release, DataType
  <2>3. DataType' /\ UNCHANGED <<h, lock, dead, aux, cur>>
    BY <1>0, <1>8, <2>2 DEF BucketUnlock, DataType, ChainType, client, fields, resize
  <2> QED BY <2>1, <2>3, OutsideResize
<1>9. ASSUME BucketLock(t), ~Fault
      PROVE  TInv'
  <2> DEFINE l == CASE th[t].op = "insert" -> "count"
                    [] th[t].op = "delete" -> "unlink"
                    [] th[t].op = "lookup" -> "find"
             c == [th[t] EXCEPT !.pc = l]
             b == <<th[t].arr, th[t].slot>>
  <2>1. th[t].op \in Ops /\ th[t].slot \in Nat /\ th[t].arr \in Gens
    BY <1>0 DEF GoodCall, Calls
  <2>2. /\ th[t].op = "insert" => l = "count"
        /\ th[t].op = "delete" => l = "unlink"
        /\ th[t].op = "lookup" => l = "find"
    OBVIOUS
  <2>3. /\ th' = [th EXCEPT ![t] = c] /\ holds' = [holds EXCEPT ![t] = b]
        /\ th[t].pc = "lock" /\ UNCHANGED <<chain, fields, resize, client, fault>>
    BY <1>9 DEF BucketLock, At, Goto
  <2> HIDE DEF l
  <2>4. GoodCall(c) /\ c.pc \notin InResize /\ th[t].pc \notin InResize
    BY <1>0, <2>1, <2>2, <2>3 DEF GoodCall, Calls, PCs, Ops, InResize, Moving
  <2> HIDE DEF c
  <2>5. DataType' /\ UNCHANGED <<h, lock, dead, aux, cur>>
    BY <1>0, <2>1, <2>3 DEF DataType, ChainType, client, fields, resize
  <2> QED BY <2>3, <2>4, <2>5, OutsideResize
<1>10. ASSUME InsCount(t), ~Fault
       PROVE  TInv'
  <2> DEFINE c == IF chain[h["table"]][th[t].slot] = <<>>
                  THEN [th[t] EXCEPT !.pc = "store", !.tmp = used]
                  ELSE [th[t] EXCEPT !.pc = "link"]
  <2>1. /\ GoodCall(c) /\ th' = [th EXCEPT ![t] = c]
        /\ c.pc \notin InResize /\ th[t].pc \notin InResize
    BY <1>0, <1>10
       DEF InsCount, At, Goto, GoodCall, DataType, Calls, PCs, Ops, InResize, Moving
  <2>2. DataType' /\ UNCHANGED <<h, lock, dead, aux, cur>>
    BY <1>0, <1>10 DEF InsCount, DataType, ChainType, table, client, fields, resize
  <2> HIDE DEF c
  <2> QED BY <2>1, <2>2, OutsideResize
<1>11. ASSUME InsLink(t), ~Fault
       PROVE  TInv'
  <2> DEFINE c == [th[t] EXCEPT !.pc = "unlock"]
  <2>1. /\ GoodCall(c) /\ th' = [th EXCEPT ![t] = c]
        /\ c.pc \notin InResize /\ th[t].pc \notin InResize
    BY <1>0, <1>11 DEF InsLink, At, Goto, GoodCall, Calls, PCs, Ops, InResize, Moving
  <2>2. th[t].ent \in Entries /\ h["table"] \in Gens /\ th[t].slot \in Indexes(h["table"])
    BY <1>0, <1>11 DEF InsLink, At, GoodCall, Gone
  <2>3. /\ Put(h["table"], th[t].slot, th[t].ent)
        /\ UNCHANGED <<fields, resize, holds, client, fault>>
    BY <1>11 DEF InsLink
  <2>4. ChainType'
    BY <1>0, <2>2, <2>3, PutChain DEF DataType
  <2>5. DataType' /\ UNCHANGED <<h, lock, dead, aux, cur>>
    BY <1>0, <2>3, <2>4 DEF DataType, client, fields, resize
  <2> HIDE DEF c
  <2> QED BY <2>1, <2>5, OutsideResize
<1>12. ASSUME DelUnlink(t), ~Fault
       PROVE  TInv'
  <2> DEFINE c == [th[t] EXCEPT !.pc = "unlock"]
             k == th[t].arg
             n == Code(h["buckets"], k)
             q == chain[h["table"]][n]
             i == FirstHit(q, k)
  <2>1. /\ GoodCall(c) /\ th' = [th EXCEPT ![t] = c] /\ k \in Keys
        /\ c.pc \notin InResize /\ th[t].pc \notin InResize
    BY <1>0, <1>12 DEF DelUnlink, At, Goto, GoodCall, Calls, PCs, Ops, InResize, Moving
  <2>2. h["table"] \in Gens /\ n \in Indexes(h["table"]) /\ q \in Seq(Entries)
    BY <1>0, <1>12 DEF DelUnlink, Gone, DataType, ChainType
  <2>3. i # 0 => i \in 1..Len(q) /\ q[i] \in Entries
    BY <2>2, FirstInFacts DEF FirstHit
  <2>4. /\ \/ /\ i = 0 /\ found' = [found EXCEPT ![t] = <<k, NoEntry>>]
              /\ UNCHANGED <<chain, out>>
           \/ /\ i # 0 /\ found' = [found EXCEPT ![t] = <<k, q[i]>>]
              /\ Cut(h["table"], n, i) /\ out' = out \cup {q[i]}
        /\ UNCHANGED <<fields, resize, holds, key, fault>>
    BY <1>12 DEF DelUnlink
  <2>5. ChainType'
    <3>1. CASE i = 0
      BY <1>0, <2>4, <3>1 DEF DataType, ChainType
    <3>2. CASE i # 0
      BY <1>0, <2>2, <2>3, <2>4, <3>2, CutChain DEF DataType
    <3> QED BY <3>1, <3>2
  <2> HIDE DEF c, n, q, i, k
  <2>6. DataType' /\ UNCHANGED <<h, lock, dead, aux, cur>>
    BY <1>0, <2>1, <2>3, <2>4, <2>5 DEF DataType, fields, resize
  <2> QED BY <2>1, <2>6, OutsideResize
<1>13. ASSUME NEW e \in Entries, NEW k \in Keys, PlainInsert(t, e, k)
       PROVE  TInv'
  <2>0. PICK l \in KeyLeft(e, k) : /\ key' = [key EXCEPT ![e] = l]
                                  /\ Put(h["table"], Code(h["buckets"], l), e)
    BY <1>13 DEF PlainInsert
  <2>1. h["table"] \in Gens /\ l \in Keys \ LongKeys
    BY <1>0, KeyLeftType DEF DataType
  <2>2. Settled
    BY <1>13 DEF TInv, GenInv, PlainInsert, Alone, At
  <2>3. Code(h["buckets"], l) \in Indexes(h["table"])
    BY <1>0, <2>1, <2>2, CodeType DEF Settled
  <2>4. out' = out \ {e} /\ UNCHANGED <<fields, resize, holds, found, th, fault>>
    BY <1>13 DEF PlainInsert
  <2>5. ChainType'
    BY <1>0, <2>0, <2>1, <2>3, PutChain DEF DataType
  <2>6. DataType' /\ UNCHANGED <<h, lock, dead, aux, cur>>
    BY <1>0, <2>0, <2>1, <2>4, <2>5 DEF DataType, fields, resize
  <2>7. th' = [th EXCEPT ![t] = th[t]] /\ th[t].pc \notin InResize
    BY <1>0, <1>13 DEF PlainInsert, Alone, At, InResize, Moving
  <2> QED BY <1>0, <2>6, <2>7, OutsideResize
<1>14. ASSUME NEW k \in Keys, PlainLookup(t, k)
       PROVE  TInv'
  <2> DEFINE q == chain[h["table"]][Code(h["buckets"], k)]
             i == FirstHit(q, k)
  <2>1. Settled
    BY <1>14 DEF TInv, GenInv, PlainLookup, Alone, At
  <2>2. h["table"] \in Gens /\ Code(h["buckets"], k) \in Indexes(h["table"])
    BY <1>0, <2>1, CodeType DEF Settled
  <2>3. q \in Seq(Entries)
    BY <1>0, <2>2 DEF DataType, ChainType
  <2>4. (IF i = 0 THEN NoEntry ELSE q[i]) \in Entries \cup {NoEntry}
    BY <2>3, FirstInFacts DEF FirstHit
  <2>5. /\ found' = [found EXCEPT ![t] = <<k, IF i = 0 THEN NoEntry ELSE q[i]>>]
        /\ UNCHANGED <<table, key, out, th, fault>>
    BY <1>14 DEF PlainLookup
  <2>6. th' = [th EXCEPT ![t] = th[t]] /\ th[t].pc \notin InResize
    BY <1>0, <1>14, <2>5 DEF PlainLookup, Alone, At, InResize, Moving
  <2> HIDE DEF q, i
  <2>7. DataType' /\ UNCHANGED <<h, lock, dead, aux, cur>>
    BY <1>0, <2>4, <2>5 DEF DataType, ChainType, table, fields, resize
  <2> QED BY <1>0, <2>6, <2>7, OutsideResize
<1>15. ASSUME NEW k \in Keys, PlainDelete(t, k)
       PROVE  TInv'
  <2> DEFINE n == Code(h["buckets"], k)
             q == chain[h["table"]][n]
             i == FirstHit(q, k)
  <2>1. Settled
    BY <1>15 DEF TInv, GenInv, PlainDelete, Alone, At
  <2>2. h["table"] \in Gens /\ n \in Indexes(h["table"]) /\ q \in Seq(Entries)
    BY <1>0, <2>1, CodeType DEF Settled, DataType, ChainType
  <2>3. i # 0 => i \in 1..Len(q) /\ q[i] \in Entries
    BY <2>2, FirstInFacts DEF FirstHit
  <2>4. /\ \/ /\ i = 0 /\ found' = [found EXCEPT ![t] = <<k, NoEntry>>]
              /\ UNCHANGED <<chain, out>>
           \/ /\ i # 0 /\ found' = [found EXCEPT ![t] = <<k, q[i]>>]
              /\ Cut(h["table"], n, i) /\ out' = out \cup {q[i]}
        /\ UNCHANGED <<fields, resize, holds, key, th, fault>>
    BY <1>15 DEF PlainDelete
  <2>5. ChainType'
    <3>1. CASE i = 0
      BY <1>0, <2>4, <3>1 DEF DataType, ChainType
    <3>2. CASE i # 0
      BY <1>0, <2>2, <2>3, <2>4, <3>2, CutChain DEF DataType
    <3> QED BY <3>1, <3>2
  <2>6. th' = [th EXCEPT ![t] = th[t]] /\ th[t].pc \notin InResize
    BY <1>0, <1>15, <2>4 DEF PlainDelete, Alone, At, InResize, Moving
  <2> HIDE DEF n, q, i
  <2>7. DataType' /\ UNCHANGED <<h, lock, dead, aux, cur>>
    BY <1>0, <2>3, <2>4, <2>5 DEF DataType, fields, resize
  <2> QED BY <1>0, <2>6, <2>7, OutsideResize
<1>16. ASSUME NEW k \in Keys, TooLong(t, k)
       PROVE  TInv'
  <2>1. found' = [found EXCEPT ![t] = <<k, NoEntry>>] /\ UNCHANGED <<table, key, out, th, fault>>
    BY <1>16 DEF TooLong
  <2>2. th' = [th EXCEPT ![t] = th[t]] /\ th[t].pc \notin InResize
    BY <1>0, <1>16, <2>1 DEF TooLong, At, InResize, Moving
  <2>3. DataType' /\ UNCHANGED <<h, lock, dead, aux, cur>>
    BY <1>0, <2>1 DEF DataType, ChainType, table, fields, resize
  <2> QED BY <1>0, <2>2, <2>3, OutsideResize
<1>17. ASSUME BucketRead(t)
       PROVE  TInv'
  <2> DEFINE c == [th[t] EXCEPT !.pc = "lock", !.arr = h["locks"]]
  <2>1. /\ GoodCall(c) /\ th' = [th EXCEPT ![t] = c]
        /\ c.pc \notin InResize /\ th[t].pc \notin InResize
    BY <1>0, <1>17 DEF BucketRead, At, GoodCall, Calls, PCs, Ops, InResize, Moving
  <2>2. DataType' /\ UNCHANGED <<h, lock, dead, aux, cur>>
    BY <1>0, <1>17 DEF BucketRead, DataType, ChainType, table, client, fields, resize
  <2> HIDE DEF c
  <2> QED BY <2>1, <2>2, OutsideResize
<1> QED
  BY <1>1, <1>2, <1>3, <1>4, <1>5, <1>6, <1>7, <1>8, <1>9, <1>10, <1>11, <1>12, <1>13,
     <1>14, <1>15, <1>16, <1>17, FaultTInv DEF Begin

\* A step of the one thread that resizes.
LEMMA InsideResize ==
  ASSUME TInv, NEW t \in Threads, NEW l \in PCs \ {"unlink", "find"},
         Goto(t, l) \/ \E n \in Nat : th' = [th EXCEPT ![t].pc = l, ![t].slot = n],
         th[t].op = "insert", \A u \in Threads \ {t} : th[u].pc \notin InResize,
         DataType', h' \in [Fields -> Gens], dead' \subseteq Gens, aux' \in Gens, cur' \in Cursors,
         lock' = IF l \in InResize THEN t ELSE NoThread,
         l # "rs_install" => Settled',
         l \in Walking => aux' = h'["table"] + 1 /\ cur'.hti \in Indexes(h'["table"]),
         l \in {"rs_bucket", "rs_unlink"} => cur'.pos \in Entries,
         l = "rs_install" => /\ aux' - 1 \in Gens /\ dead' = 1..(aux' - 1)
                             /\ \A f \in Fields : h'[f] \in {aux' - 1, aux'}
  PROVE  TInv'
<1>1. PICK s \in Nat : th' = [th EXCEPT ![t] = [th[t] EXCEPT !.pc = l, !.slot = s]]
  <2>1. th \in [Threads -> Calls] /\ th[t] \in Calls
    BY DEF TInv, TypeOK, Calls
  <2>2. CASE Goto(t, l)
    <3>1. th[t].slot \in Nat
      BY <2>1 DEF Calls
    <3>2. [th[t] EXCEPT !.pc = l] = [th[t] EXCEPT !.pc = l, !.slot = th[t].slot]
      BY <2>1 DEF Calls
    <3>3. th' = [th EXCEPT ![t] = [th[t] EXCEPT !.pc = l]]
      BY <2>2, <2>1 DEF Goto
    <3> QED BY <3>1, <3>2, <3>3
  <2>3. CASE \E s \in Nat : th' = [th EXCEPT ![t].pc = l, ![t].slot = s]
    <3>1. PICK s \in Nat : th' = [th EXCEPT ![t].pc = l, ![t].slot = s]
      BY <2>3
    <3> QED BY <3>1, <2>1
  <2> QED BY <2>2, <2>3
<1>2. th \in [Threads -> Calls] /\ th[t] \in Calls
  BY DEF TInv, TypeOK, Calls
<1>3. /\ th' \in [Threads -> Calls] /\ \A u \in Threads \ {t} : th'[u] = th[u]
      /\ th'[t].pc = l /\ th'[t].op = "insert" /\ th'[t].ent = th[t].ent
  <2> DEFINE c == [th[t] EXCEPT !.pc = l, !.slot = s]
  <2>1. c \in Calls /\ c.pc = l /\ c.op = th[t].op /\ c.ent = th[t].ent
    BY <1>2 DEF Calls
  <2> HIDE DEF c
  <2>2. th' = [th EXCEPT ![t] = c]
    BY <1>1 DEF c
  <2> QED BY <1>2, <2>1, <2>2
<1>4. CallInv'
  BY <1>3 DEF TInv, CallInv
<1>5. LockInv'
  BY <1>3, TableAssumption DEF LockInv
<1>6. \A u \in Threads : th'[u].pc \in InResize => u = t
  BY <1>3
<1>7. Walking \subseteq InResize /\ {"rs_bucket", "rs_unlink", "rs_install"} \subseteq InResize
  BY DEF InResize, Walking, Moving
<1>8. GenInv'
  <2>1. (\A u \in Threads : th'[u].pc # "rs_install") => Settled'
    BY <1>3
  <2>2. ASSUME NEW u \in Threads
        PROVE  /\ th'[u].pc \in Walking => aux' = h'["table"] + 1 /\ cur'.hti \in Indexes(h'["table"])
               /\ th'[u].pc \in {"rs_bucket", "rs_unlink"} => cur'.pos \in Entries
               /\ th'[u].pc = "rs_install" =>
                    /\ aux' - 1 \in Gens /\ dead' = 1..(aux' - 1)
                    /\ \A f \in Fields : h'[f] \in {aux' - 1, aux'}
    BY <1>3, <1>6, <1>7
  <2> QED BY <2>1, <2>2 DEF GenInv
<1>9. TypeOK'
  <2>1. \A g \in Gens : \A n \in Indexes(g) : chain'[g][n] \in Seq(Entries)
    BY DEF DataType, ChainType
  <2>2. lock' \in Threads \cup {NoThread}
    OBVIOUS
  <2> QED BY <1>3, <2>1, <2>2 DEF TypeOK, DataType, Calls
<1> QED BY <1>4, <1>5, <1>8, <1>9 DEF TInv, DataType

\* An iteration starts at the first entry of a bucket, if there is one.
LEMMA AtBucketType ==
  ASSUME DataType, h["table"] \in Gens, NEW n \in Indexes(h["table"])
  PROVE  AtBucket(n) \in Cursors /\ AtBucket(n).hti = n
<1> DEFINE q == chain[h["table"]][n]
           p == Following(q, NoEntry)
<1>1. q \in Seq(Entries) /\ n \in Nat
  <2>1. Buckets[h["table"]] \in Nat
    BY BucketsType
  <2> QED BY <2>1 DEF DataType, ChainType, Indexes
<1>2. p \in Entries \cup {NoEntry} /\ Following(q, p) \in Entries \cup {NoEntry}
  BY <1>1, FollowingType
<1>3. AtBucket(n) = [hti |-> n, pos |-> p, nxt |-> Following(q, p), got |-> NoEntry,
                     want |-> AnyKey]
  BY DEF AtBucket
<1> HIDE DEF q, p
<1> QED BY <1>1, <1>2, <1>3, AnyKeyType DEF Cursors

\* hash_table_resize keeps the types, and its thread is alone in it.
LEMMA ResizeTInv ==
  ASSUME TInv, NEW t \in Threads, ~fault,
         RsLock(t) \/ RsInit(t) \/ RsWalk(t) \/ RsBucket(t) \/ RsUnlink(t) \/ RsAdd(t)
           \/ RsFree(t) \/ RsInstall(t) \/ RsUnlock(t)
  PROVE  TInv'
<1>0. /\ th[t] \in Calls /\ DataType /\ cur \in Cursors /\ aux \in Gens /\ dead \subseteq Gens
      /\ h \in [Fields -> Gens] /\ {"table", "buckets", "locks", "threshold"} \subseteq Fields
      /\ Gens \subseteq Nat \ {0}
  BY DEF TInv, TypeOK, Calls, Fields, DataType, Gens
<1>1. th[t].pc \in InResize => \A u \in Threads \ {t} : th[u].pc \notin InResize
  BY DEF TInv, LockInv
<1>2. /\ th[t].pc \in InResize \cup {"rs_lock"} => th[t].op = "insert"
      /\ th[t].pc \in InResize \ {"rs_install"} => Settled
  BY <1>1 DEF TInv, CallInv, GenInv, InResize, Moving
<1>3. ASSUME RsLock(t) PROVE TInv'
  <2>1. \A u \in Threads : th[u].pc \notin InResize
    BY <1>3, TableAssumption DEF TInv, LockInv, RsLock
  <2>2. Settled
    BY <2>1 DEF TInv, GenInv, InResize, Moving
  <2>3. /\ Goto(t, "rs_init") /\ lock' = t /\ th[t].op = "insert"
        /\ "rs_init" \in InResize /\ "rs_init" \notin Walking /\ "rs_init" \in PCs
    BY <1>2, <1>3 DEF RsLock, At, InResize, Walking, Moving, PCs
  <2>4. UNCHANGED <<chain, fields, holds, dead, aux, cur, client, fault>>
    BY <1>3 DEF RsLock
  <2>5. DataType' /\ Settled' /\ UNCHANGED <<h, dead, aux, cur>>
    BY <1>0, <2>2, <2>4 DEF DataType, ChainType, Settled, fields, client
  <2> QED BY <1>0, <2>1, <2>3, <2>5, InsideResize
<1>4. ASSUME RsInit(t) PROVE TInv'
  <2>1. th[t].pc = "rs_init" /\ th[t].pc \in InResize /\ Settled
    BY <1>2, <1>4 DEF RsInit, At, InResize
  <2>2. UNCHANGED <<chain, fields, holds, dead, client, fault>>
    BY <1>4 DEF RsInit
  <2>3. DataType' /\ Settled' /\ UNCHANGED <<h, dead>>
    BY <1>0, <2>1, <2>2 DEF DataType, ChainType, Settled, fields, client
  <2>4. CASE /\ h["threshold"] < MaxGens /\ aux' = h["threshold"] + 1 /\ cur' = AtBucket(0)
             /\ Goto(t, "rs_walk") /\ UNCHANGED lock
    <3>1. h["threshold"] = h["table"] /\ h["table"] \in Gens /\ h["table"] + 1 \in Gens
      BY <1>0, <2>1, <2>4, TableAssumption DEF Settled, Gens
    <3>2. cur' \in Cursors /\ cur'.hti \in Indexes(h'["table"])
      BY <1>0, <2>3, <2>4, <3>1, BucketsType, AtBucketType
    <3>3. lock = t /\ "rs_walk" \in InResize /\ "rs_walk" \in PCs
      BY <2>1 DEF TInv, LockInv, InResize, Moving, PCs
    <3> QED BY <1>0, <1>1, <1>2, <2>1, <2>3, <2>4, <3>1, <3>2, <3>3, InsideResize
  <2>5. CASE lock' = NoThread /\ Goto(t, "bucket") /\ UNCHANGED <<aux, cur>>
    <3>1. "bucket" \notin InResize /\ "bucket" \notin Walking /\ "bucket" \in PCs
      BY DEF InResize, Walking, Moving, PCs
    <3> QED BY <1>0, <1>1, <1>2, <2>1, <2>3, <2>5, <3>1, InsideResize
  <2> QED BY <1>4, <2>4, <2>5 DEF RsInit
<1>5. ASSUME RsWalk(t), ~Fault PROVE TInv'
  <2>1. th[t].pc = "rs_walk" /\ th[t].pc \in InResize /\ th[t].pc \in Walking /\ Settled
    BY <1>2, <1>5 DEF RsWalk, At, InResize, Walking, Moving
  <2>2. /\ aux = h["table"] + 1 /\ cur.hti \in Indexes(h["table"]) /\ lock = t
        /\ cur.pos \in Entries \cup {NoEntry} /\ h["table"] \in Gens
    BY <1>0, <2>1 DEF TInv, GenInv, LockInv, Cursors
  <2>3. {"rs_walk", "rs_free", "rs_bucket"} \subseteq InResize \cap PCs
    BY DEF InResize, Moving, PCs
  <2>4. CASE /\ cur.pos = NoEntry
             /\ IF cur.hti + 1 \in Indexes(h["buckets"])
                THEN cur' = AtBucket(cur.hti + 1) /\ UNCHANGED th
                ELSE Goto(t, "rs_free") /\ UNCHANGED cur
             /\ UNCHANGED <<chain, fields, lock, holds, dead, aux, client, fault>>
    <3>1. DataType' /\ Settled' /\ UNCHANGED <<h, dead, aux, lock>>
      BY <1>0, <2>1, <2>4 DEF DataType, ChainType, Settled, fields, client
    <3>2. CASE cur.hti + 1 \in Indexes(h["buckets"])
      <4>1. cur.hti + 1 \in Indexes(h["table"])
        BY <1>0, <2>1, <3>2 DEF Settled
      <4>2. cur' \in Cursors /\ cur'.hti \in Indexes(h["table"])
        BY <1>0, <2>2, <2>4, <3>2, <4>1, AtBucketType
      <4>3. Goto(t, "rs_walk")
        BY <2>1, <2>4, <3>2 DEF Goto, TInv, TypeOK
      <4> QED BY <1>0, <1>1, <1>2, <2>1, <2>2, <2>3, <3>1, <4>2, <4>3, InsideResize
    <3>3. CASE cur.hti + 1 \notin Indexes(h["buckets"])
      <4>1. Goto(t, "rs_free") /\ UNCHANGED cur
        BY <2>4, <3>3
      <4> QED BY <1>0, <1>1, <1>2, <2>1, <2>2, <2>3, <3>1, <4>1, InsideResize
    <3> QED BY <3>2, <3>3
  <2>5. CASE /\ cur.pos # NoEntry /\ cur' = [cur EXCEPT !.want = key[cur.pos]]
             /\ Goto(t, "rs_bucket")
             /\ UNCHANGED <<chain, fields, lock, holds, dead, aux, client, fault>>
    <3>1. DataType' /\ Settled' /\ UNCHANGED <<h, dead, aux, lock>>
      BY <1>0, <2>1, <2>5 DEF DataType, ChainType, Settled, fields, client
    <3>2. key[cur.pos] \in Keys
      BY <1>0, <2>2, <2>5 DEF DataType
    <3>3. cur' \in Cursors /\ cur'.hti = cur.hti /\ cur'.pos = cur.pos
      BY <1>0, <2>5, <3>2 DEF Cursors
    <3> QED BY <1>0, <1>1, <1>2, <2>1, <2>2, <2>3, <2>5, <3>1, <3>3, InsideResize
  <2> QED BY <1>5, <2>4, <2>5 DEF RsWalk
<1>6. ASSUME RsBucket(t) PROVE TInv'
  <2>1. th[t].pc = "rs_bucket" /\ th[t].pc \in InResize /\ th[t].pc \in Walking /\ Settled
    BY <1>2, <1>6 DEF RsBucket, At, InResize, Walking, Moving
  <2>2. /\ aux = h["table"] + 1 /\ cur.hti \in Indexes(h["table"]) /\ lock = t
        /\ cur.pos \in Entries
    BY <2>1 DEF TInv, GenInv, LockInv
  <2>3. "rs_unlink" \in InResize /\ "rs_unlink" \in PCs
    BY DEF InResize, Moving, PCs
  <2>4. /\ holds' = [holds EXCEPT ![t] = <<h["locks"], Code(h["buckets"], cur.want)>>]
        /\ th' = [th EXCEPT ![t].pc = "rs_unlink", ![t].slot = Code(h["buckets"], cur.want)]
        /\ UNCHANGED <<chain, fields, resize, client, fault>>
    BY <1>6 DEF RsBucket
  <2>5. /\ <<h["locks"], Code(h["buckets"], cur.want)>> \in Gens \X Nat
        /\ Code(h["buckets"], cur.want) \in Nat
    BY <1>0, <2>2, CodeType DEF Cursors
  <2>6. DataType' /\ Settled' /\ UNCHANGED <<h, dead, aux, lock, cur>>
    BY <1>0, <2>1, <2>4, <2>5 DEF DataType, ChainType, Settled, fields, resize, client
  <2> QED BY <1>0, <1>1, <1>2, <2>1, <2>2, <2>3, <2>4, <2>5, <2>6, InsideResize
<1>7. ASSUME RsUnlink(t) PROVE TInv'
  <2> DEFINE n == Code(h["buckets"], cur.want)
             q == chain[h["table"]][n]
             i == FirstHit(q, cur.want)
  <2>1. th[t].pc = "rs_unlink" /\ th[t].pc \in InResize /\ th[t].pc \in Walking /\ Settled
    BY <1>2, <1>7 DEF RsUnlink, At, InResize, Walking, Moving
  <2>2. /\ aux = h["table"] + 1 /\ cur.hti \in Indexes(h["table"]) /\ lock = t
        /\ cur.pos \in Entries
    BY <2>1 DEF TInv, GenInv, LockInv
  <2>3. "rs_add" \in InResize /\ "rs_add" \in PCs
    BY DEF InResize, Moving, PCs
  <2>4. h["table"] \in Gens /\ n \in Indexes(h["table"]) /\ q \in Seq(Entries)
    BY <1>0, <2>1, <2>2, CodeType DEF Settled, Cursors, DataType, ChainType
  <2>5. i # 0 => i \in 1..Len(q) /\ q[i] \in Entries
    BY <2>4, FirstInFacts DEF FirstHit
  <2>6. /\ IF i = 0 THEN UNCHANGED <<chain, cur>>
                    ELSE Cut(h["table"], n, i) /\ cur' = [cur EXCEPT !.got = q[i]]
        /\ Goto(t, "rs_add") /\ UNCHANGED <<fields, lock, holds, dead, aux, client, fault>>
    BY ONLY <1>7 DEF RsUnlink
  <2>7. ChainType'
    <3>1. CASE i = 0
      BY <1>0, <2>6, <3>1 DEF DataType, ChainType
    <3>2. CASE i # 0
      BY <1>0, <2>4, <2>5, <2>6, <3>2, CutChain DEF DataType
    <3> QED BY <3>1, <3>2
  <2> HIDE DEF n, q, i
  <2>8. cur' \in Cursors /\ cur'.hti = cur.hti
    BY <1>0, <2>5, <2>6 DEF Cursors
  <2>9. DataType' /\ Settled' /\ UNCHANGED <<h, dead, aux, lock>>
    BY <1>0, <2>1, <2>6, <2>7 DEF DataType, Settled, fields, client
  <2> QED BY <1>0, <1>1, <1>2, <2>1, <2>2, <2>3, <2>6, <2>8, <2>9, InsideResize
<1>8. ASSUME RsAdd(t), ~Fault PROVE TInv'
  <2> DEFINE q == chain[h["table"]][cur.hti]
  <2>1. th[t].pc = "rs_add" /\ th[t].pc \in InResize /\ th[t].pc \in Walking /\ Settled
    BY <1>2, <1>8 DEF RsAdd, At, InResize, Walking, Moving
  <2>2. /\ aux = h["table"] + 1 /\ cur.hti \in Indexes(h["table"]) /\ lock = t
    BY <2>1 DEF TInv, GenInv, LockInv
  <2>3. "rs_walk" \in InResize /\ "rs_walk" \in PCs
    BY DEF InResize, Moving, PCs
  <2>4. q \in Seq(Entries)
    BY <1>0, <2>2 DEF DataType, ChainType
  <2>5. /\ Release(<<h["locks"], th[t].slot>>)
        /\ IF cur.got = NoEntry THEN UNCHANGED chain
                                ELSE Put(aux, Code(aux, key[cur.got]), cur.got)
        /\ cur' = [cur EXCEPT !.got = NoEntry, !.want = AnyKey, !.pos = cur.nxt,
                              !.nxt = Following(q, cur.nxt)]
        /\ Goto(t, "rs_walk") /\ UNCHANGED <<fields, lock, dead, aux, client, fault>>
    BY <1>8 DEF RsAdd
  <2>6. Following(q, cur.nxt) \in Entries \cup {NoEntry}
    BY <1>0, <2>4, FollowingType DEF Cursors
  <2>7. ChainType'
    <3>1. CASE cur.got = NoEntry
      BY <1>0, <2>5, <3>1 DEF DataType, ChainType
    <3>2. CASE cur.got # NoEntry
      <4>1. cur.got \in Entries /\ Code(aux, key[cur.got]) \in Indexes(aux)
        BY <1>0, <3>2, CodeType DEF Cursors, DataType
      <4> QED BY <1>0, <2>5, <3>2, <4>1, PutChain DEF DataType
    <3> QED BY <3>1, <3>2
  <2> HIDE DEF q
  <2>8. cur' \in Cursors /\ cur'.hti = cur.hti
    BY <1>0, <2>5, <2>6, AnyKeyType DEF Cursors
  <2>9. DataType' /\ Settled' /\ UNCHANGED <<h, dead, aux, lock>>
    <3>1. holds' \in [Threads -> {NoBucket} \cup (Gens \X Nat)]
      BY <1>0, <2>5 DEF Release, DataType
    <3> QED BY <1>0, <2>1, <2>5, <2>7, <3>1 DEF DataType, Settled, fields, client
  <2> QED BY <1>0, <1>1, <1>2, <2>1, <2>2, <2>3, <2>5, <2>8, <2>9, InsideResize
<1>9. ASSUME RsFree(t) PROVE TInv'
  <2>1. th[t].pc = "rs_free" /\ th[t].pc \in InResize /\ th[t].pc \in Walking /\ Settled
    BY <1>2, <1>9 DEF RsFree, At, InResize, Walking, Moving
  <2>2. aux = h["table"] + 1 /\ lock = t /\ h["table"] \in Nat \ {0} /\ h["table"] \in Gens
    BY <1>0, <2>1 DEF TInv, GenInv, LockInv
  <2>3. "rs_install" \in InResize /\ "rs_install" \in PCs
    BY DEF InResize, Moving, PCs
  <2>4. /\ dead' = dead \cup {h["table"]} /\ cur' = NoCursor /\ Goto(t, "rs_install")
        /\ chain' = [chain EXCEPT ![h["table"]] = [n \in Indexes(h["table"]) |-> <<>>]]
        /\ UNCHANGED <<fields, lock, holds, aux, client, fault>>
    BY <1>9 DEF RsFree
  <2>5. /\ aux' - 1 \in Gens /\ dead' = 1..(aux' - 1)
        /\ \A f \in Fields : h'[f] \in {aux' - 1, aux'}
    <3>1. 1..(h["table"] - 1) \cup {h["table"]} = 1..h["table"] /\ aux' - 1 = h["table"]
      BY <2>2, <2>4
    <3> QED BY <2>1, <2>2, <2>4, <3>1 DEF Settled, fields
  <2>6. ChainType'
    <3>1. [n \in Indexes(h["table"]) |-> <<>>] \in [Indexes(h["table"]) -> Seq(Entries)]
      OBVIOUS
    <3> DEFINE empty == [n \in Indexes(h["table"]) |-> <<>>]
    <3> HIDE DEF empty
    <3>2. chain' = [chain EXCEPT ![h["table"]] = empty]
      BY <2>4 DEF empty
    <3> QED BY <1>0, <2>2, <3>1, <3>2 DEF DataType, ChainType, empty
  <2>7. NoCursor \in Cursors
    BY AnyKeyType DEF NoCursor, Cursors
  <2>8. DataType' /\ UNCHANGED <<h, aux, lock>> /\ dead' \subseteq Gens
    BY <1>0, <2>2, <2>4, <2>6 DEF DataType, fields, client
  <2> QED BY <1>0, <1>1, <1>2, <2>1, <2>2, <2>3, <2>4, <2>5, <2>7, <2>8, InsideResize DEF Walking
<1>10. ASSUME RsInstall(t) PROVE TInv'
  <2>1. th[t].pc = "rs_install" /\ th[t].pc \in InResize /\ "rs_install" \in PCs
    BY <1>10 DEF RsInstall, At, InResize, Moving, PCs
  <2>2. lock = t /\ aux - 1 \in Gens /\ dead = 1..(aux - 1) /\ \A f \in Fields : h[f] \in {aux - 1, aux}
    BY <2>1 DEF TInv, GenInv, LockInv
  <2>3. PICK f \in Fields : h' = [h EXCEPT ![f] = aux] /\ used' = IF f = "used" THEN 0 ELSE used
    BY <1>10 DEF RsInstall
  <2>4. UNCHANGED <<chain, resize, holds, client, th, fault>>
    BY <1>10 DEF RsInstall
  <2>5. h' \in [Fields -> Gens] /\ \A x \in Fields : h'[x] \in {aux - 1, aux}
    BY <1>0, <2>2, <2>3
  <2>6. DataType' /\ UNCHANGED <<dead, aux, cur, lock>>
    BY <1>0, <2>3, <2>4 DEF DataType, ChainType, resize, client
  <2>7. Goto(t, "rs_install")
    BY <2>1, <2>4 DEF Goto, TInv, TypeOK
  <2> QED BY <1>0, <1>1, <1>2, <2>1, <2>2, <2>5, <2>6, <2>7, InsideResize DEF Walking
<1>11. ASSUME RsUnlock(t) PROVE TInv'
  <2>1. /\ th[t].pc = "rs_install" /\ th[t].pc \in InResize /\ "rehash" \in PCs
        /\ "rehash" \notin InResize /\ "rehash" \notin Walking
    BY <1>11 DEF RsUnlock, At, InResize, Walking, Moving, PCs
  <2>2. dead = 1..(aux - 1)
    BY <2>1 DEF TInv, GenInv
  <2>3. /\ \A f \in Fields : h[f] = aux
        /\ lock' = NoThread /\ Goto(t, "rehash")
        /\ UNCHANGED <<chain, fields, holds, dead, aux, cur, client, fault>>
    BY <1>11 DEF RsUnlock
  <2>4. DataType' /\ Settled' /\ UNCHANGED <<h, dead, aux, cur>>
    BY <1>0, <2>2, <2>3 DEF DataType, ChainType, Settled, fields, client
  <2> QED BY <1>0, <1>1, <1>2, <2>1, <2>3, <2>4, InsideResize
<1> QED
  BY <1>3, <1>4, <1>5, <1>6, <1>7, <1>8, <1>9, <1>10, <1>11, FaultTInv

LEMMA NextTInv == TInv /\ [Next]_vars => TInv'
<1>1. ASSUME TInv, Next PROVE TInv'
  BY <1>1, CallsTInv, ResizeTInv DEF Next, Continue
<1>2. ASSUME TInv, UNCHANGED vars PROVE TInv'
  <2>1. UNCHANGED <<chain, h, used, holds, lock, dead, aux, cur, key, out, found, th, fault>>
    BY <1>2 DEF vars, table, fields, resize, client
  <2>2. TypeOK'
    BY <1>2, <2>1 DEF TInv, TypeOK
  <2>3. ChainType' /\ CallInv' /\ LockInv' /\ GenInv'
    BY <1>2, <2>1 DEF TInv, ChainType, CallInv, LockInv, GenInv, Settled
  <2> QED BY <2>2, <2>3 DEF TInv
<1> QED BY <1>1, <1>2

\* However calls and resizes interleave, and although tables, locks and sizes
\* are replaced while they run (hashtbl.c:226 to 302), what the fields say
\* stays well-typed, and at most one thread resizes.
THEOREM TypeCorrect == Spec => []TypeOK
<1>1. TInv => TypeOK
  BY DEF TInv
<1> QED BY <1>1, InitTInv, NextTInv, PTL DEF Spec

----------------------------------------------------------------------------
(* The answers, whatever runs beside them *)

\* The comparison takes no key for another: the safe lookup, which leaves out
\* the length, would take a key for one whose content it begins.
KeysTold == \A k, l \in Keys : KeyCmp(k, l) => k = l

LEMMA HitHasKey ==
  ASSUME TInv, KeysTold, NEW q \in Seq(Entries), NEW k \in Keys
  PROVE  /\ FirstHit(q, k) # 0 => key[q[FirstHit(q, k)]] = k
         /\ FirstIn(q, {e \in Entries : MatchesSafe(e, k)}) # 0 =>
              key[q[FirstIn(q, {e \in Entries : MatchesSafe(e, k)})]] = k
<1>1. \A e \in Entries : Matches(e, k) \/ MatchesSafe(e, k) => key[e] = k
  BY DEF TInv, TypeOK, KeysTold, Matches, MatchesSafe
<1> DEFINE S == {e \in Entries : Matches(e, k)}
           T == {e \in Entries : MatchesSafe(e, k)}
<1>2. FirstIn(q, S) # 0 => q[FirstIn(q, S)] \in S
  BY FirstInFacts
<1>3. FirstIn(q, T) # 0 => q[FirstIn(q, T)] \in T
  BY FirstInFacts
<1> QED BY <1>1, <1>2, <1>3 DEF FirstHit

\* Whatever resizes and calls run beside it, a call returns no entry with a key
\* it was not asked for, provided the comparison tells keys apart.
THEOREM AnswersRight == ASSUME KeysTold PROVE Spec => AnswersItsKey
<1> DEFINE Right == \A t \in Threads : found'[t] # found[t] /\ found'[t][2] # NoEntry =>
                      key[found'[t][2]] = found'[t][1]
<1>1. ASSUME TInv, NEW t \in Threads, NEW a, NEW e, found' = [found EXCEPT ![t] = <<a, e>>],
             e # NoEntry => key[e] = a
      PROVE  Right
  BY <1>1 DEF TInv, TypeOK
<1>2. ASSUME TInv, NEW t \in Threads, DelUnlink(t) PROVE Right
  <2>1. CASE Fault
    BY <2>1 DEF Fault, client
  <2>2. CASE ~Fault
    <3>1. /\ h["table"] \in Gens /\ Code(h["buckets"], th[t].arg) \in Indexes(h["table"])
          /\ th[t].arg \in Keys
      BY <1>2, <2>2 DEF DelUnlink, Gone, TInv, TypeOK, Fields
    <3> DEFINE i == FirstHit(chain[h["table"]][Code(h["buckets"], th[t].arg)], th[t].arg)
               e == chain[h["table"]][Code(h["buckets"], th[t].arg)][i]
    <3>2. i # 0 => key[e] = th[t].arg
      <4>1. chain[h["table"]][Code(h["buckets"], th[t].arg)] \in Seq(Entries)
        BY <1>2, <3>1, ChainElement DEF TInv
      <4> QED BY <1>2, <3>1, <4>1, HitHasKey
    <3>3. found' = [found EXCEPT ![t] = <<th[t].arg, IF i = 0 THEN NoEntry ELSE e>>]
      BY <1>2, <2>2 DEF DelUnlink
    <3> DEFINE r == IF i = 0 THEN NoEntry ELSE e
    <3>4. r # NoEntry => key[r] = th[t].arg
      BY <3>2
    <3> HIDE DEF r
    <3>5. found' = [found EXCEPT ![t] = <<th[t].arg, r>>]
      BY <3>3 DEF r
    <3> HIDE DEF i, e
    <3> QED BY <1>1, <1>2, <3>4, <3>5
  <2> QED BY <2>1, <2>2
<1>3. ASSUME TInv, NEW t \in Threads, LkFind(t) PROVE Right
  <2>1. CASE Fault
    BY <2>1 DEF Fault, client
  <2>2. CASE ~Fault
    <3>1. h["table"] \in Gens /\ th[t].slot \in Indexes(h["table"]) /\ th[t].arg \in Keys
      BY <1>3, <2>2 DEF LkFind, Gone, TInv, TypeOK, Fields
    <3> DEFINE i == FirstIn(chain[h["table"]][th[t].slot],
                            {e \in Entries : MatchesSafe(e, th[t].arg)})
               e == chain[h["table"]][th[t].slot][i]
    <3>2. i # 0 => key[e] = th[t].arg
      <4>1. chain[h["table"]][th[t].slot] \in Seq(Entries)
        BY <1>3, <3>1, ChainElement DEF TInv
      <4> QED BY <1>3, <3>1, <4>1, HitHasKey
    <3>3. found' = [found EXCEPT ![t] = <<th[t].arg, IF i = 0 THEN NoEntry ELSE e>>]
      BY <1>3, <2>2 DEF LkFind
    <3> DEFINE r == IF i = 0 THEN NoEntry ELSE e
    <3>4. r # NoEntry => key[r] = th[t].arg
      BY <3>2
    <3> HIDE DEF r
    <3>5. found' = [found EXCEPT ![t] = <<th[t].arg, r>>]
      BY <3>3 DEF r
    <3> HIDE DEF i, e
    <3> QED BY <1>1, <1>3, <3>4, <3>5
  <2> QED BY <2>1, <2>2
<1>4. ASSUME TInv, NEW t \in Threads, NEW k \in Keys, PlainLookup(t, k) \/ PlainDelete(t, k)
      PROVE  Right
  <2>1. Settled
    BY <1>4 DEF TInv, GenInv, PlainLookup, PlainDelete, Alone, At
  <2>2. h["table"] \in Gens /\ Code(h["buckets"], k) \in Indexes(h["table"])
    BY <1>4, <2>1, CodeType DEF Settled, TInv, TypeOK, Fields
  <2> DEFINE i == FirstHit(chain[h["table"]][Code(h["buckets"], k)], k)
             e == chain[h["table"]][Code(h["buckets"], k)][i]
  <2>3. i # 0 => key[e] = k
    <3>1. chain[h["table"]][Code(h["buckets"], k)] \in Seq(Entries)
      BY <1>4, <2>2, ChainElement DEF TInv
    <3> QED BY <1>4, <3>1, HitHasKey
  <2>4. found' = [found EXCEPT ![t] = <<k, IF i = 0 THEN NoEntry ELSE e>>]
    BY <1>4 DEF PlainLookup, PlainDelete
  <2> DEFINE r == IF i = 0 THEN NoEntry ELSE e
  <2>5. r # NoEntry => key[r] = k
    BY <2>3
  <2> HIDE DEF r
  <2>6. found' = [found EXCEPT ![t] = <<k, r>>]
    BY <2>4 DEF r
  <2> HIDE DEF i, e
  <2> QED BY <1>1, <1>4, <2>5, <2>6
<1>5. ASSUME NEW t \in Threads, UNCHANGED found PROVE Right
  BY <1>5
<1>6. ASSUME TInv, Next PROVE Right
  <2>1. PICK t \in Threads : Begin(t) \/ Continue(t)
    BY <1>6 DEF Next
  <2>2. CASE Begin(t)
    <3>1. ASSUME NEW k \in Keys, NEW e \in Entries, BeginInsert(t, e, k) \/ PlainInsert(t, e, k)
          PROVE  UNCHANGED found
      BY <3>1 DEF BeginInsert, PlainInsert
    <3>2. ASSUME NEW k \in Keys, BeginLookup(t, k) \/ BeginDelete(t, k)
          PROVE  UNCHANGED found
      BY <3>2 DEF BeginLookup, BeginDelete, client
    <3>3. ASSUME NEW k \in Keys, TooLong(t, k)
          PROVE  Right
      BY <1>1, <1>6, <3>3 DEF TooLong
    <3> QED BY <1>4, <1>5, <1>6, <2>2, <3>1, <3>2, <3>3 DEF Begin
  <2>3. CASE Continue(t) /\ ~DelUnlink(t) /\ ~LkFind(t)
    <3>1. UNCHANGED found
      BY <2>3 DEF Continue, HashCodeSafe, InsCheck, BucketRead, BucketLock, InsCount, InsStore, InsLink,
                  BucketUnlock, RsLock, RsInit, RsWalk, RsBucket, RsUnlink, RsAdd, RsFree,
                  RsInstall, RsUnlock, Fault, client
    <3> QED BY <3>1, <1>5
  <2> QED BY <1>2, <1>3, <1>6, <2>1, <2>2, <2>3
<1>7. TInv /\ [Next]_vars => [Right]_vars
  BY <1>6
<1> HIDE DEF Right
<1>8. Spec => [][Right]_vars
  BY <1>7, InitTInv, NextTInv, PTL DEF Spec
<1> QED BY <1>8 DEF AnswersItsKey, Right

----------------------------------------------------------------------------
(* The mutexes of the buckets *)

\* What a step does to them: it leaves them alone, locks a free one, or unlocks
\* one, of whichever thread.
LEMMA HoldsChange ==
  ASSUME TInv, NEW t \in Threads, Begin(t) \/ Continue(t)
  PROVE  \/ UNCHANGED holds
         \/ \E b : (\A u \in Threads : holds[u] # b) /\ holds' = [holds EXCEPT ![t] = b]
         \/ \E b : Release(b)
<1>1. CASE Begin(t)
  <2>1. ASSUME NEW k \in Keys, NEW e \in Entries, BeginInsert(t, e, k) \/ PlainInsert(t, e, k)
        PROVE  UNCHANGED holds
    BY <2>1 DEF BeginInsert, PlainInsert, table
  <2>2. ASSUME NEW k \in Keys, \/ TooLong(t, k) \/ BeginLookup(t, k) \/ BeginDelete(t, k)
                               \/ PlainLookup(t, k) \/ PlainDelete(t, k)
        PROVE  UNCHANGED holds
    BY <2>2 DEF TooLong, BeginLookup, BeginDelete, PlainLookup, PlainDelete, table
  <2> QED BY <1>1, <2>1, <2>2 DEF Begin
<1>2. CASE Fault
  BY <1>2 DEF Fault, table
<1>3. CASE BucketLock(t) /\ ~Fault
  BY <1>3 DEF BucketLock
<1>4. CASE RsBucket(t)
  BY <1>4 DEF RsBucket
<1>5. CASE BucketUnlock(t) /\ ~Fault
  BY <1>5 DEF BucketUnlock
<1>6. CASE RsAdd(t) /\ ~Fault
  BY <1>6 DEF RsAdd
<1>7. CASE /\ Continue(t) /\ ~BucketLock(t) /\ ~BucketUnlock(t) /\ ~RsBucket(t) /\ ~RsAdd(t)
           /\ ~Fault
  BY <1>7 DEF Continue, HashCodeSafe, InsCheck, BucketRead, InsCount, InsStore, InsLink, DelUnlink,
              LkFind, RsLock, RsInit, RsWalk, RsUnlink, RsFree, RsInstall, RsUnlock, table, resize
<1> QED BY <1>1, <1>2, <1>3, <1>4, <1>5, <1>6, <1>7

\* A mutex has one owner, however resizes race.
HoldsApart == \A t, u \in Threads : holds[t] # NoBucket /\ holds[t] = holds[u] => t = u

LEMMA HoldsApartNext == TInv /\ HoldsApart /\ [Next]_vars => HoldsApart'
<1> SUFFICES ASSUME TInv, HoldsApart, [Next]_vars PROVE HoldsApart'
  OBVIOUS
<1>0. holds = [u \in Threads |-> holds[u]]
  BY DEF TInv, TypeOK
<1>1. CASE UNCHANGED holds
  BY <1>1 DEF HoldsApart
<1>2. ASSUME NEW t \in Threads, NEW b, \A u \in Threads : holds[u] # b,
             holds' = [holds EXCEPT ![t] = b]
      PROVE  HoldsApart'
  <2>1. \A u \in Threads : holds'[u] = IF u = t THEN b ELSE holds[u]
    BY <1>0, <1>2
  <2> QED BY <1>2, <2>1 DEF HoldsApart
<1>3. ASSUME NEW b, Release(b)
      PROVE  HoldsApart'
  <2>1. \A u \in Threads : holds'[u] = IF holds[u] = b THEN NoBucket ELSE holds[u]
    BY <1>3 DEF Release
  <2> QED BY <2>1 DEF HoldsApart
<1>4. CASE Next
  <2>1. PICK t \in Threads : Begin(t) \/ Continue(t)
    BY <1>4 DEF Next
  <2> QED BY <1>1, <1>2, <1>3, <2>1, HoldsChange
<1>5. CASE UNCHANGED vars
  BY <1>1, <1>5 DEF vars, table
<1> QED BY <1>4, <1>5

----------------------------------------------------------------------------
(* No deadlock *)

\* The steps of a call between locking and unlocking its bucket.
Holding == {"count", "store", "link", "unlink", "find", "unlock", "rs_unlink", "rs_add"}

\* A call there holds the mutex of its bucket in the current array, a call that
\* is about to lock one has read the current array, and nobody else holds any.
MutexInv ==
  /\ HoldsApart
  /\ \A t \in Threads :
       /\ holds[t] # NoBucket => th[t].pc \in Holding
       /\ th[t].pc \in Holding => holds[t] = <<h["locks"], th[t].slot>>
       /\ th[t].pc = "lock" => th[t].arr = h["locks"] /\ h["locks"] \notin dead

\* What one step of thread t has to show.
LEMMA MutexStep ==
  ASSUME TInv, MutexInv, HoldsApart', NEW t \in Threads, NEW c \in Calls, th' = [th EXCEPT ![t] = c],
         UNCHANGED h, dead' = dead,
         \A u \in Threads \ {t} : holds'[u] = holds[u],
         holds'[t] # NoBucket => c.pc \in Holding,
         c.pc \in Holding => holds'[t] = <<h["locks"], c.slot>>,
         c.pc = "lock" => c.arr = h["locks"] /\ h["locks"] \notin dead
  PROVE  MutexInv'
<1>1. th \in [Threads -> Calls]
  BY DEF TInv, TypeOK, Calls
<1>2. \A u \in Threads : th'[u] = IF u = t THEN c ELSE th[u]
  BY <1>1
<1> QED BY <1>2 DEF MutexInv

\* The step moves thread t from one place to another and leaves the mutexes alone.
LEMMA MutexGoto ==
  ASSUME TInv, MutexInv, HoldsApart', NEW t \in Threads, NEW l \in PCs \ {"lock"}, Goto(t, l),
         UNCHANGED <<h, dead, holds>>, th[t].pc \in Holding <=> l \in Holding
  PROVE  MutexInv'
<1> DEFINE c == [th[t] EXCEPT !.pc = l]
<1>1. th \in [Threads -> Calls] /\ th[t] \in Calls
  BY DEF TInv, TypeOK, Calls
<1>2. c \in Calls /\ c.pc = l /\ c.slot = th[t].slot /\ th' = [th EXCEPT ![t] = c]
  BY <1>1 DEF Calls, Goto
<1> HIDE DEF c
<1> QED BY <1>2, MutexStep DEF MutexInv

\* Where nobody replaces the arrays the fields of h are of one generation.
LEMMA ArraysHere ==
  ASSUME TInv, \A t \in Threads : th[t].pc # "rs_install"
  PROVE  h["locks"] \notin dead
<1>1. Settled /\ h \in [Fields -> Gens] /\ {"locks", "table"} \subseteq Fields
  BY DEF TInv, GenInv, TypeOK, Fields
<1>2. h["table"] \in Nat /\ h["locks"] = h["table"] /\ dead = 1..(h["table"] - 1)
  BY <1>1, TableAssumption DEF Settled, Gens
<1> QED BY <1>2

LEMMA MutexNext ==
  TInv /\ TInv' /\ ReplacedAlone /\ ReplacedAlone' /\ MutexInv /\ [Next]_vars => MutexInv'
<1> SUFFICES ASSUME TInv, TInv', ReplacedAlone, ReplacedAlone', MutexInv, [Next]_vars
             PROVE  MutexInv'
  OBVIOUS
<1>0. /\ HoldsApart' /\ th \in [Threads -> Calls] /\ holds = [u \in Threads |-> holds[u]]
      /\ h \in [Fields -> Gens] /\ "locks" \in Fields
  BY HoldsApartNext DEF MutexInv, TInv, TypeOK, Calls, Fields
<1>1. CASE UNCHANGED <<holds, th, h, dead>>
  BY <1>0, <1>1 DEF MutexInv
<1>2. ASSUME NEW t \in Threads, Begin(t)
      PROVE  MutexInv'
  <2>1. PICK k \in Keys :
          \/ \E e \in Entries : BeginInsert(t, e, k) \/ PlainInsert(t, e, k)
          \/ TooLong(t, k) \/ BeginLookup(t, k) \/ BeginDelete(t, k)
          \/ PlainLookup(t, k) \/ PlainDelete(t, k)
    BY <1>2 DEF Begin
  <2>2. CASE \/ (\E e \in Entries : PlainInsert(t, e, k)) \/ PlainLookup(t, k) \/ PlainDelete(t, k)
             \/ TooLong(t, k)
    <3>1. UNCHANGED <<holds, th, h, dead>>
      BY ONLY <2>2 DEF PlainInsert, PlainLookup, PlainDelete, TooLong, table, fields, resize
    <3> QED BY <3>1, <1>1
  <2>3. CASE (\E e \in Entries : BeginInsert(t, e, k)) \/ BeginLookup(t, k) \/ BeginDelete(t, k)
    <3>1. UNCHANGED <<holds, h, dead>> /\ th[t].pc = "idle"
      BY ONLY <2>3 DEF BeginInsert, BeginLookup, BeginDelete, table, fields, resize, At
    <3>2. PICK c : th' = [th EXCEPT ![t] = c] /\ c.pc \in {"hash", "bucket"}
      <4>1. CASE BeginLookup(t, k)
        <5> DEFINE d == [th[t] EXCEPT !.op = "lookup", !.arg = k, !.pc = "hash"]
        <5>1. th' = [th EXCEPT ![t] = d] /\ d.pc = "hash"
          BY <1>0, <4>1 DEF BeginLookup, Calls
        <5> HIDE DEF d
        <5> QED BY <5>1
      <4>2. CASE BeginDelete(t, k)
        <5> DEFINE d == [th[t] EXCEPT !.op = "delete", !.arg = k, !.pc = "bucket",
                                     !.slot = Code(h["buckets"], k)]
        <5>1. th' = [th EXCEPT ![t] = d] /\ d.pc = "bucket"
          BY <1>0, <4>2 DEF BeginDelete, Calls
        <5> HIDE DEF d
        <5> QED BY <5>1
      <4>3. ASSUME NEW e \in Entries, BeginInsert(t, e, k)
            PROVE  \E c : th' = [th EXCEPT ![t] = c] /\ c.pc \in {"hash", "bucket"}
        <5>1. PICK l \in KeyLeft(e, k) :
                th' = [th EXCEPT ![t].op = "insert", ![t].arg = l, ![t].ent = e,
                                 ![t].pc = "hash"]
          BY <4>3 DEF BeginInsert
        <5> DEFINE d == [th[t] EXCEPT !.op = "insert", !.arg = l, !.ent = e,
                                     !.pc = "hash"]
        <5>2. th' = [th EXCEPT ![t] = d] /\ d.pc = "hash"
          BY <1>0, <5>1 DEF Calls
        <5> HIDE DEF d
        <5> QED BY <5>2
      <4> QED BY <2>3, <4>1, <4>2, <4>3
    <3>3. th'[t] = c /\ c \in Calls
      <4>1. th'[t] = c
        BY <1>0, <3>2
      <4> QED BY <4>1 DEF TInv, TypeOK, Calls
    <3>4. holds[t] = NoBucket
      BY <3>1 DEF MutexInv, Holding
    <3> QED BY <1>0, <3>1, <3>2, <3>3, <3>4, MutexStep DEF Holding
  <2> QED BY <2>1, <2>2, <2>3
<1>3. ASSUME NEW t \in Threads, Continue(t), ~Fault
      PROVE  MutexInv'
  <2>0. th[t] \in Calls /\ th'[t] \in Calls
    BY <1>0 DEF TInv, TypeOK, Calls
  <2>1. CASE HashCodeSafe(t)
    <3> DEFINE c == [th[t] EXCEPT
                       !.slot = Code(h["buckets"], th[t].arg),
                       !.pc = IF @ = "hash" /\ th[t].op = "insert" THEN "check" ELSE "bucket"]
    <3>1. /\ UNCHANGED <<holds, h, dead>> /\ th[t].pc \in {"hash", "rehash"}
          /\ th' = [th EXCEPT ![t] = c]
      BY <1>0, <2>1 DEF HashCodeSafe, table, fields, resize
    <3>2. c.pc \in {"check", "bucket"}
      BY <2>0 DEF Calls
    <3> HIDE DEF c
    <3>3. c \in Calls /\ holds[t] = NoBucket
      BY <1>0, <2>0, <3>1 DEF MutexInv, Holding
    <3> QED BY <1>0, <3>1, <3>2, <3>3, MutexStep DEF Holding
  <2>2. CASE InsCount(t)
    <3>1. /\ UNCHANGED <<holds, h, dead>> /\ th[t].pc = "count"
          /\ th' = [th EXCEPT ![t].pc = "store", ![t].tmp = used] \/ Goto(t, "link")
      BY ONLY <1>3, <2>2 DEF InsCount, table, fields, resize, At
    <3>2. CASE Goto(t, "link")
      BY <1>0, <3>1, <3>2, MutexGoto DEF Holding, PCs
    <3>3. CASE th' = [th EXCEPT ![t].pc = "store", ![t].tmp = used]
      <4> DEFINE c == [th[t] EXCEPT !.pc = "store", !.tmp = used]
      <4>1. th' = [th EXCEPT ![t] = c]
        BY <1>0, <3>3
      <4>2. c.pc = "store" /\ c.slot = th[t].slot
        BY ONLY <2>0 DEF Calls
      <4> HIDE DEF c
      <4>3. c \in Calls
        BY <1>0, <2>0, <4>1
      <4> QED BY <1>0, <3>1, <4>1, <4>2, <4>3, MutexStep DEF MutexInv, Holding
    <3> QED BY <3>1, <3>2, <3>3
  <2>3. CASE BucketRead(t)
    <3> DEFINE c == [th[t] EXCEPT !.pc = "lock", !.arr = h["locks"]]
    <3>1. UNCHANGED <<holds, h, dead>> /\ th[t].pc = "bucket" /\ th' = [th EXCEPT ![t] = c]
      BY <1>0, <2>3 DEF BucketRead, table, fields, resize, At
    <3>2. c \in Calls /\ c.pc = "lock" /\ c.arr = h["locks"]
      BY <1>0, <2>0 DEF Calls, PCs
    <3> HIDE DEF c
    <3>3. holds[t] = NoBucket
      BY <3>1 DEF MutexInv, Holding
    <3>4. \A u \in Threads : th[u].pc # "rs_install"
      <4>1. \A u \in Threads : th'[u] = IF u = t THEN c ELSE th[u]
        BY <1>0, <3>1
      <4>2. th'[t].pc \in InBucket
        BY <3>2, <4>1 DEF InBucket
      <4> QED BY <3>1, <4>1, <4>2 DEF ReplacedAlone
    <3>5. h["locks"] \notin dead
      BY <3>4, ArraysHere
    <3> QED BY <1>0, <3>1, <3>2, <3>3, <3>5, MutexStep DEF Holding
  <2>4. CASE BucketLock(t)
    <3>1. /\ holds' = [holds EXCEPT ![t] = <<th[t].arr, th[t].slot>>] /\ th[t].pc = "lock"
          /\ Goto(t, CASE th[t].op = "insert" -> "count"
                       [] th[t].op = "delete" -> "unlink"
                       [] th[t].op = "lookup" -> "find")
          /\ UNCHANGED <<h, dead>>
      BY ONLY <1>3, <2>4 DEF BucketLock, At, fields, resize
    <3>2. th[t].op \in {"insert", "delete", "lookup"}
      BY <2>0 DEF Calls, Ops
    <3>3. PICK l \in {"count", "unlink", "find"} : Goto(t, l)
      BY ONLY <3>1, <3>2
    <3> DEFINE c == [th[t] EXCEPT !.pc = l]
    <3>4. c.pc = l /\ c.slot = th[t].slot /\ th' = [th EXCEPT ![t] = c] /\ c \in Calls
      BY <1>0, <2>0, <3>3 DEF Calls, PCs, Goto
    <3> HIDE DEF c
    <3>5. th[t].arr = h["locks"]
      BY <3>1 DEF MutexInv
    <3>6. /\ holds'[t] = <<h["locks"], c.slot>>
          /\ \A u \in Threads \ {t} : holds'[u] = holds[u]
      BY <1>0, <3>1, <3>4, <3>5
    <3> QED BY <1>0, <3>1, <3>4, <3>6, MutexStep DEF Holding
  <2>5. ASSUME Release(<<h["locks"], th[t].slot>>), th[t].pc \in Holding
        PROVE  holds'[t] = NoBucket /\ \A u \in Threads \ {t} : holds'[u] = holds[u]
    <3>1. \A u \in Threads : holds'[u] = IF holds[u] = holds[t] THEN NoBucket ELSE holds[u]
      BY <2>5 DEF Release, MutexInv
    <3> QED BY <3>1 DEF MutexInv, HoldsApart
  <2>6. CASE BucketUnlock(t)
    <3>1. /\ Release(<<h["locks"], th[t].slot>>) /\ th' = [th EXCEPT ![t] = Idle]
          /\ th[t].pc = "unlock" /\ UNCHANGED <<h, dead>>
      BY ONLY <1>3, <2>6 DEF BucketUnlock, Return, At, fields, resize
    <3>2. Idle \in Calls /\ Idle.pc = "idle"
      <4>1. th'[t] = Idle
        BY <1>0, <3>1
      <4> QED BY <2>0, <4>1 DEF Idle
    <3>3. holds'[t] = NoBucket /\ \A u \in Threads \ {t} : holds'[u] = holds[u]
      BY <2>5, <3>1 DEF Holding
    <3> QED BY <1>0, <3>1, <3>2, <3>3, MutexStep DEF Holding
  <2>7. CASE RsBucket(t)
    <3> DEFINE n == Code(h["buckets"], cur.want)
               c == [th[t] EXCEPT !.pc = "rs_unlink", !.slot = n]
    <3>1. /\ holds' = [holds EXCEPT ![t] = <<h["locks"], n>>] /\ UNCHANGED <<h, dead>>
          /\ th' = [th EXCEPT ![t] = c]
      BY <1>0, <2>7 DEF RsBucket, fields, resize
    <3> HIDE DEF n
    <3>2. c.pc = "rs_unlink" /\ c.slot = n
      BY <2>0 DEF Calls
    <3> HIDE DEF c
    <3>3. /\ c \in Calls /\ holds'[t] = <<h["locks"], c.slot>>
          /\ \A u \in Threads \ {t} : holds'[u] = holds[u]
      BY <1>0, <2>0, <3>1, <3>2
    <3> QED BY <1>0, <3>1, <3>2, <3>3, MutexStep DEF Holding
  <2>8. CASE RsAdd(t)
    <3>1. /\ Release(<<h["locks"], th[t].slot>>) /\ Goto(t, "rs_walk")
          /\ th[t].pc = "rs_add" /\ UNCHANGED <<h, dead>>
      BY ONLY <1>3, <2>8 DEF RsAdd, At, fields
    <3> DEFINE c == [th[t] EXCEPT !.pc = "rs_walk"]
    <3>2. c.pc = "rs_walk" /\ th' = [th EXCEPT ![t] = c] /\ c \in Calls
      BY <1>0, <2>0, <3>1 DEF Calls, PCs, Goto
    <3> HIDE DEF c
    <3>3. holds'[t] = NoBucket /\ \A u \in Threads \ {t} : holds'[u] = holds[u]
      BY <2>5, <3>1 DEF Holding
    <3> QED BY <1>0, <3>1, <3>2, <3>3, MutexStep DEF Holding
  <2>9. CASE InsStore(t) \/ InsLink(t) \/ DelUnlink(t) \/ LkFind(t) \/ RsUnlink(t)
    <3>1. /\ UNCHANGED <<holds, h, dead>> /\ th[t].pc \in Holding
          /\ \E l \in {"link", "unlock", "rs_add"} : Goto(t, l)
      BY ONLY <1>3, <2>9
         DEF InsStore, InsLink, DelUnlink, LkFind, RsUnlink, table, fields, resize, At, Holding
    <3> QED BY <1>0, <3>1, MutexGoto DEF Holding, PCs
  <2>10. CASE InsCheck(t) \/ RsLock(t) \/ RsInit(t) \/ RsWalk(t) \/ RsUnlock(t)
    <3>1. /\ UNCHANGED <<holds, h, dead>> /\ th[t].pc \notin Holding
          /\ th' = th \/ \E l \in PCs \ (Holding \cup {"lock"}) : Goto(t, l)
      BY ONLY <1>3, <2>10
         DEF InsCheck, RsLock, RsInit, RsWalk, RsUnlock, table, fields, resize, At, Holding, PCs
    <3> QED BY <1>0, <1>1, <3>1, MutexGoto
  <2>11. CASE RsFree(t) \/ RsInstall(t)
    <3>1. /\ UNCHANGED holds /\ th[t].pc \in {"rs_free", "rs_install"}
          /\ th' = th \/ Goto(t, "rs_install")
      BY ONLY <2>11 DEF RsFree, RsInstall, At
    <3>2. \A u \in Threads : th[u].pc \notin Holding \cup {"lock"}
      <4>1. ASSUME NEW u \in Threads \ {t}
            PROVE  th[u].pc \notin Holding \cup {"lock"}
        <5>1. th[u].pc \notin InBucket
          BY <3>1 DEF ReplacedAlone
        <5>2. th[u].pc \notin InResize
          BY <3>1 DEF TInv, LockInv, InResize, Moving
        <5> QED BY <5>1, <5>2 DEF InBucket, InResize, Moving, Holding
      <4> QED BY <3>1, <4>1 DEF Holding
    <3>3. \A u \in Threads : th'[u].pc = th[u].pc \/ th'[u].pc = "rs_install"
      BY <1>0, <2>0, <3>1 DEF Goto, Calls
    <3> QED BY <1>0, <3>1, <3>2, <3>3 DEF MutexInv, Holding
  <2> QED
    BY <1>3, <2>1, <2>2, <2>3, <2>4, <2>6, <2>7, <2>8, <2>9, <2>10, <2>11 DEF Continue
<1>4. CASE Fault
  BY <1>1, <1>4 DEF Fault, table, fields, resize
<1>5. CASE UNCHANGED vars
  BY <1>1, <1>5 DEF vars, table, fields, resize
<1> QED BY <1>2, <1>3, <1>4, <1>5 DEF Next

\* Who has a mutex that others wait for is inside a call: with a bucket's mutex
\* it waits for nothing, and with h->lock for the mutex of a bucket at most.
LEMMA WaitsEndHere ==
  ASSUME TInv, MutexInv
  PROVE  WaitsEnd
<1>1. /\ NoBucket \notin Nat \X Nat /\ h["locks"] \in Nat /\ h["buckets"] \in Gens
      /\ \A t \in Threads : th[t] \in Calls /\ th[t].arr \in Nat
  <2>1. /\ h \in [Fields -> Gens] /\ "locks" \in Fields /\ "buckets" \in Fields
        /\ th \in [Threads -> Calls]
    BY DEF TInv, TypeOK, Fields, Calls
  <2>2. \A g \in Gens : g \in Nat
    BY TableAssumption DEF Gens
  <2>3. NoBucket \notin Nat \X Nat
    BY TableAssumption
  <2> QED BY <2>1, <2>2, <2>3 DEF Calls
<1>2. ASSUME NEW t \in Threads, NEW u \in Threads, WaitsFor(t, u)
      PROVE  th[t].pc \in {"hash", "rehash", "rs_lock", "lock", "rs_bucket"}
  BY <1>2 DEF WaitsFor, At
<1>3. ASSUME NEW t \in Threads, NEW u \in Threads, WaitsFor(t, u), th[t].pc \in {"lock", "rs_bucket"}
      PROVE  th[u].pc \in Holding
  <2>1. PICK g \in Nat, n \in Nat : holds[u] = <<g, n>>
    <3>1. CASE th[t].pc = "lock"
      BY <1>1, <1>3, <3>1 DEF WaitsFor, At, Calls
    <3>2. CASE th[t].pc = "rs_bucket"
      <4>1. cur.want \in Keys
        BY DEF TInv, TypeOK, Cursors
      <4>2. Code(h["buckets"], cur.want) \in Nat
        BY <1>1, <4>1, CodeType
      <4> QED BY <1>1, <1>3, <3>2, <4>2 DEF WaitsFor, At
    <3> QED BY <1>3, <3>1, <3>2
  <2>2. holds[u] # NoBucket
    BY <1>1, <2>1
  <2> QED BY <2>2 DEF MutexInv
<1>4. ASSUME NEW t \in Threads, NEW u \in Threads, WaitsFor(t, u), th[t].pc \in {"hash", "rehash", "rs_lock"}
      PROVE  th[u].pc \in InResize
  BY <1>4 DEF WaitsFor, At, TInv, LockInv
<1>5. \A t, u \in Threads : WaitsFor(t, u) => th[t].pc \notin Holding
  BY <1>2 DEF Holding
<1>6. ASSUME NEW t \in Threads, NEW u \in Threads, WaitsFor(t, u)
      PROVE  /\ ~At(u, "idle")
             /\ \A v, w \in Threads : ~(WaitsFor(u, v) /\ WaitsFor(v, w))
  <2>1. CASE th[t].pc \in {"lock", "rs_bucket"}
    BY <1>3, <1>5, <1>6, <2>1 DEF At, Holding
  <2>2. CASE th[t].pc \in {"hash", "rehash", "rs_lock"}
    <3>1. th[u].pc \in InResize
      BY <1>4, <1>6, <2>2
    <3>2. ASSUME NEW v \in Threads, WaitsFor(u, v)
          PROVE  th[v].pc \in Holding
      <4>1. th[u].pc = "rs_bucket"
        BY <1>2, <3>1, <3>2 DEF InResize, Moving
      <4> QED BY <1>3, <3>2, <4>1
    <3> QED BY <1>5, <3>1, <3>2 DEF At, InResize, Moving
  <2> QED BY <1>2, <1>6, <2>1, <2>2
<1>7. \A t \in Threads : At(t, "lock") => th[t].arr \notin dead
  BY DEF MutexInv, At
<1> QED BY <1>6, <1>7 DEF WaitsEnd

\* As long as no call has a bucket locked, or its mutex in hand, when a resize
\* replaces the arrays (hashtbl.c:281 to 293), calls of any number of threads
\* never wait for each other in a circle, none waits for a mutex that has been
\* destroyed, and none that has returned has left one locked.  Resizes may move
\* entries beside other calls.
THEOREM NoDeadlock == Spec /\ []ReplacedAlone => []WaitsEnd
<1>1. Init => MutexInv
  BY DEF Init, Idle, MutexInv, HoldsApart, Holding
<1>2. TInv /\ TInv' /\ ReplacedAlone /\ ReplacedAlone' /\ MutexInv /\ [Next]_vars => MutexInv'
  BY MutexNext
<1>3. TInv /\ MutexInv => WaitsEnd
  BY WaitsEndHere
<1> QED BY <1>1, <1>2, <1>3, InitTInv, NextTInv, PTL DEF Spec
=============================================================================
