--------------------------- MODULE PoolBankProofs ---------------------------
(***************************************************************************)
(* Proofs about PoolBank for any number of threads, pools and objects and  *)
(* any width of the counter.                                               *)
(*                                                                         *)
(* The invariant is BInv: Types is what each variable holds, Counting how  *)
(* the counter, the array and the stages of a bank's life go together,     *)
(* Loops where the loops of bank_get_ptr and bank_put_ptr can be, Queues   *)
(* what the queue of one pool holds, AtMostOne and AtLeastOne the two      *)
(* halves of ObjectsInOnePlace, and Looked what a search that no put has   *)
(* overtaken knows of the pools behind it.  AtMostOne holds even of a bank *)
(* whose counter has wrapped: it may forget its objects, but it never      *)
(* hands one out twice.                                                    *)
(***************************************************************************)
EXTENDS PoolBank, SequenceLemmas

Free(o) == o \in ToSet(freeq[o[1]])
Carries(t, o) == pc[t] = "put" /\ obj[t] = o

Types ==
  /\ state \in {"none", "filling", "open"} /\ n \in NPools \cup {0} /\ max \in NPools \cup {0}
  /\ count \in 0..(CountMod - 1) /\ bank \in 0..MaxBanks /\ lost \subseteq 1..bank
  /\ pools \in Seq(BOOLEAN) /\ freeq \in Seq(Seq(Nat \X Nat)) /\ Len(freeq) = Len(pools)
  /\ pc \in [Threads -> {"idle", "get", "put"}] /\ i \in [Threads -> Nat \ {0}]
  /\ obj \in [Threads -> AllObjects \cup {Foreign}]
  /\ ret \in [Threads -> {"none", "object", "null", "taken", "refused"}]
  /\ held \subseteq AllObjects /\ overlap \subseteq Threads

Counting ==
  /\ count <= Len(pools)
  /\ state = "none" => pools = <<>>
  /\ state = "filling" => Alone /\ Counted /\ Len(pools) < n
  /\ state # "none" => bank # 0

Loops == \A t \in Threads : i[t] <= count + 1 /\ (pc[t] = "idle" => i[t] = 1)

Queues == \A k \in DOMAIN freeq :
  /\ ToSet(freeq[k]) \subseteq Objects(k)
  /\ IsInjective(freeq[k])
  /\ freeq[k] # <<>> => pools[k]

AtMostOne == \A o \in AllObjects :
  /\ Free(o) => o \notin held
  /\ \A t \in Threads : Carries(t, o) =>
       ~Free(o) /\ o \notin held /\ \A u \in Threads : Carries(u, o) => u = t

AtLeastOne == Counted => \A o \in AllObjects :
  /\ Free(o) \/ o \in held \/ \E t \in Threads : Carries(t, o)
  /\ \A t \in Threads : Carries(t, o) => i[t] <= o[1]

Looked == \A t \in Threads : pc[t] = "get" /\ t \notin overlap =>
  \A k \in DOMAIN freeq : k < i[t] => freeq[k] = <<>>

BInv == /\ Types /\ Counting /\ Loops /\ Queues /\ AtMostOne /\ AtLeastOne
        /\ PutAnswersRight /\ Looked /\ BlocksAccounted

----------------------------------------------------------------------------
\* Where objects come from, and that a foreign pointer is none of them.
LEMMA ObjectFacts ==
  ASSUME NEW k \in Nat, NEW o \in Objects(k)
  PROVE  o \in Nat \X Nat /\ o[1] = k /\ o # Foreign
BY BankAssumption DEF Objects

\* An object of the bank is an object of one of its pools that is not NULL.
LEMMA ArrayFacts ==
  ASSUME Types
  PROVE  /\ Len(pools) \in Nat /\ DOMAIN pools = 1..Len(pools) /\ DOMAIN freeq = 1..Len(pools)
         /\ \A k \in 1..Len(pools) : pools[k] \in BOOLEAN /\ freeq[k] \in Seq(Nat \X Nat)
         /\ \A o : o \in AllObjects <=> \E k \in 1..Len(pools) : pools[k] /\ o \in Objects(k)
         /\ \A o \in AllObjects : o \in Nat \X Nat /\ o[1] \in 1..Len(pools) /\ pools[o[1]]
                                  /\ o \in Objects(o[1]) /\ o # Foreign
<1>1. /\ Len(pools) \in Nat /\ DOMAIN pools = 1..Len(pools) /\ DOMAIN freeq = 1..Len(pools)
      /\ \A k \in 1..Len(pools) : pools[k] \in BOOLEAN /\ freeq[k] \in Seq(Nat \X Nat)
  BY DEF Types
<1>2. \A o : o \in AllObjects <=> \E k \in 1..Len(pools) : pools[k] /\ o \in Objects(k)
  BY <1>1 DEF AllObjects
<1>3. ASSUME NEW o \in AllObjects
      PROVE  o \in Nat \X Nat /\ o[1] \in 1..Len(pools) /\ pools[o[1]]
             /\ o \in Objects(o[1]) /\ o # Foreign
  <2>1. PICK k \in 1..Len(pools) : pools[k] /\ o \in Objects(k)
    BY <1>2
  <2>2. k \in Nat
    BY <1>1
  <2>3. o \in Nat \X Nat /\ o[1] = k /\ o # Foreign
    BY <2>1, <2>2, ObjectFacts
  <2> QED BY <2>1, <2>3
<1> QED BY <1>1, <1>2, <1>3

\* A sequence of no elements is the empty one.
LEMMA NothingIn ==
  ASSUME NEW S, NEW q \in Seq(S), Len(q) = 0
  PROVE  q = <<>>
OBVIOUS

\* A new pool has all its objects in its queue, each of them once.
LEMMA NewQueue ==
  ASSUME NEW k \in Nat, NEW q, q = [j \in 1..PoolSz |-> <<k, j>>]
  PROVE  q \in Seq(Nat \X Nat) /\ ToSet(q) = Objects(k) /\ IsInjective(q)
<1>1. PoolSz \in Nat /\ DOMAIN q = 1..PoolSz /\ \A j \in 1..PoolSz : q[j] = <<k, j>>
  BY BankAssumption
<1>2. q \in Seq(Nat \X Nat)
  BY <1>1
<1> QED BY <1>1, <1>2 DEF ToSet, Objects, IsInjective

\* The counter counts one more pool, or starts at 0 again.
LEMMA NextCount ==
  ASSUME NEW c \in 0..(CountMod - 1)
  PROVE  /\ (c + 1) % CountMod \in 0..(CountMod - 1) /\ (c + 1) % CountMod <= c + 1
         /\ c + 1 < CountMod => (c + 1) % CountMod = c + 1
<1>1. CountMod \in Nat \ {0}
  BY BankAssumption
<1> QED BY <1>1, Z3

----------------------------------------------------------------------------
(* The life of a bank: while no call is in progress. *)

\* When a pool is entered every object of the bank is still in one place: the
\* new ones are in the new queue and nobody has them yet.
LEMMA EnterKeeps ==
  ASSUME Types, Counting, Counted, Loops, Queues, AtMostOne, AtLeastOne, Alone, Forget,
         NEW ok \in BOOLEAN, Enter(ok), UNCHANGED held
  PROVE  /\ pools' \in Seq(BOOLEAN) /\ freeq' \in Seq(Seq(Nat \X Nat))
         /\ Len(freeq') = Len(pools') /\ Len(pools') = Len(pools) + 1
         /\ count' \in 0..(CountMod - 1) /\ count' <= Len(pools')
         /\ held' \subseteq AllObjects' /\ obj' \in [Threads -> (AllObjects \cup {Foreign})']
         /\ Loops' /\ Queues' /\ AtMostOne' /\ AtLeastOne' /\ PutAnswersRight' /\ Looked'
         /\ Alone' /\ \A k \in DOMAIN pools' :
              pools'[k] = IF k \in DOMAIN pools THEN pools[k] ELSE ok
<1> DEFINE k == Len(pools) + 1
           q == [j \in 1..PoolSz |-> <<k, j>>]
           p == IF ok THEN q ELSE <<>>
<1>1. /\ Len(pools) \in Nat /\ DOMAIN pools = 1..Len(pools) /\ DOMAIN freeq = 1..Len(pools)
      /\ \A l \in 1..Len(pools) : pools[l] \in BOOLEAN /\ freeq[l] \in Seq(Nat \X Nat)
  BY ArrayFacts
<1>2. \A o : o \in AllObjects <=> \E l \in 1..Len(pools) : pools[l] /\ o \in Objects(l)
  BY ArrayFacts
<1>3. \A o \in AllObjects : o \in Nat \X Nat /\ o[1] \in 1..Len(pools) /\ pools[o[1]]
                            /\ o \in Objects(o[1]) /\ o # Foreign
  BY ArrayFacts
<1>4. k \in Nat
  BY <1>1
<1>5. q \in Seq(Nat \X Nat) /\ ToSet(q) = Objects(k) /\ IsInjective(q)
  BY <1>4, NewQueue
<1>6. ToSet(<<>>) = {} /\ IsInjective(<<>>) /\ <<>> \in Seq(Nat \X Nat)
  BY DEF ToSet, IsInjective
<1>7. p \in Seq(Nat \X Nat) /\ ToSet(p) \subseteq Objects(k) /\ IsInjective(p)
      /\ (ok => ToSet(p) = Objects(k)) /\ (~ok => p = <<>>)
  BY <1>5, <1>6
<1>8. pools' = Append(pools, ok) /\ freeq' = Append(freeq, p) /\ count' = (count + 1) % CountMod
  BY DEF Enter
<1> HIDE DEF q, p
<1>9. /\ pools' \in Seq(BOOLEAN) /\ Len(pools') = k /\ DOMAIN pools' = 1..k
      /\ pools'[k] = ok /\ \A l \in 1..Len(pools) : pools'[l] = pools[l]
  BY <1>8, <1>1 DEF Types
<1>10. /\ freeq' \in Seq(Seq(Nat \X Nat)) /\ Len(freeq') = k /\ DOMAIN freeq' = 1..k
       /\ freeq'[k] = p /\ \A l \in 1..Len(pools) : freeq'[l] = freeq[l]
  BY <1>8, <1>1, <1>7 DEF Types
<1>11. k \notin 1..Len(pools) /\ 1..k = (1..Len(pools)) \cup {k}
  BY <1>1
<1> HIDE DEF k
<1>12. \A o : o \in AllObjects' <=> o \in AllObjects \/ (ok /\ o \in Objects(k))
  <2>1. AllObjects' = UNION {Objects(l) : l \in {j \in 1..k : pools'[j]}}
    BY <1>9 DEF AllObjects, Objects
  <2>2. \A o : o \in AllObjects' <=> \E l \in 1..k : pools'[l] /\ o \in Objects(l)
    BY <2>1
  <2> QED BY <2>2, <1>2, <1>9, <1>11
<1>13. \A o \in Objects(k) : o \in Nat \X Nat /\ o[1] = k /\ o # Foreign
  BY <1>4, ObjectFacts
<1>14. count \in 0..(CountMod - 1) /\ count = Len(pools)
  BY DEF Types, Counted
<1>15. count' \in 0..(CountMod - 1) /\ count' <= k
  <2>1. (count + 1) % CountMod \in 0..(CountMod - 1) /\ (count + 1) % CountMod <= count + 1
    BY <1>14, NextCount
  <2> QED BY <2>1, <1>8, <1>14 DEF k
<1>16. /\ pc' = pc /\ i' = i /\ overlap' = {} /\ held' = held
       /\ \A t \in Threads : pc[t] = "idle" /\ i[t] = 1 /\ obj'[t] = Foreign /\ ret'[t] = "none"
       /\ obj' \in [Threads -> {Foreign}]
  BY DEF Forget, Alone, Loops
<1>17. Loops'
  BY <1>15, <1>16 DEF Loops
<1>18. Queues'
  <2> SUFFICES ASSUME NEW l \in 1..k
               PROVE  /\ ToSet(freeq'[l]) \subseteq Objects(l) /\ IsInjective(freeq'[l])
                      /\ freeq'[l] # <<>> => pools'[l]
    BY <1>10 DEF Queues, Objects
  <2>1. CASE l = k
    BY <2>1, <1>7, <1>9, <1>10
  <2>2. CASE l \in 1..Len(pools)
    BY <2>2, <1>1, <1>9, <1>10 DEF Queues
  <2> QED BY <2>1, <2>2, <1>11
<1>19. \A t \in Threads : \A o : ~Carries(t, o)'
  BY <1>16 DEF Carries
<1>20. AtMostOne'
  <2> SUFFICES ASSUME NEW o \in AllObjects', Free(o)', o \in held'
               PROVE  FALSE
    BY <1>19 DEF AtMostOne
  <2>1. o \in AllObjects
    BY <1>16 DEF Types
  <2>2. Free(o)
    BY <2>1, <1>3, <1>10 DEF Free
  <2> QED BY <2>1, <2>2, <1>16 DEF AtMostOne
<1>21. AtLeastOne'
  <2> SUFFICES ASSUME NEW o \in AllObjects'
               PROVE  Free(o)' \/ o \in held'
    BY <1>19 DEF AtLeastOne
  <2>1. CASE o \in AllObjects
    <3>1. \A t \in Threads : ~Carries(t, o)
      BY <1>16 DEF Carries
    <3>2. Free(o) \/ o \in held
      BY <3>1, <2>1 DEF AtLeastOne
    <3>3. Free(o) => Free(o)'
      BY <2>1, <1>3, <1>10 DEF Free
    <3> QED BY <3>2, <3>3, <1>16
  <2>2. CASE ok /\ o \in Objects(k)
    BY <2>2, <1>7, <1>10, <1>13 DEF Free
  <2> QED BY <2>1, <2>2, <1>12
<1>22. PutAnswersRight'
  BY <1>16 DEF PutAnswersRight
<1>23. Looked' /\ Alone'
  BY <1>16 DEF Looked, Alone
<1>24. held' \subseteq AllObjects' /\ obj' \in [Threads -> (AllObjects \cup {Foreign})']
  BY <1>12, <1>16 DEF Types
<1> QED
  BY <1>9, <1>10, <1>11, <1>15, <1>17, <1>18, <1>20, <1>21, <1>22, <1>23, <1>24, <1>1 DEF k

\* Without pools there is nothing to account for.
LEMMA NoPoolsKeeps ==
  ASSUME Types, Loops, Alone, Forget, pools' = <<>>, freeq' = <<>>, count' = 0, held' = {}
  PROVE  /\ pools' \in Seq(BOOLEAN) /\ freeq' \in Seq(Seq(Nat \X Nat))
         /\ Len(freeq') = Len(pools') /\ count' \in 0..(CountMod - 1) /\ count' = Len(pools')
         /\ held' \subseteq AllObjects' /\ obj' \in [Threads -> (AllObjects \cup {Foreign})']
         /\ Loops' /\ Queues' /\ AtMostOne' /\ AtLeastOne' /\ PutAnswersRight' /\ Looked'
         /\ Alone'
<1>1. /\ pools' \in Seq(BOOLEAN) /\ freeq' \in Seq(Seq(Nat \X Nat)) /\ Len(freeq') = Len(pools')
      /\ count' = Len(pools') /\ DOMAIN pools' = {} /\ DOMAIN freeq' = {} /\ Len(pools') = 0
  OBVIOUS
<1>2. count' \in 0..(CountMod - 1)
  BY BankAssumption
<1>3. AllObjects' = {}
  BY <1>1 DEF AllObjects
<1>4. /\ pc' = pc /\ i' = i /\ overlap' = {}
      /\ \A t \in Threads : pc[t] = "idle" /\ i[t] = 1 /\ obj'[t] = Foreign /\ ret'[t] = "none"
      /\ obj' \in [Threads -> {Foreign}]
  BY DEF Forget, Alone, Loops
<1>5. Loops' /\ Alone' /\ PutAnswersRight'
  BY <1>4 DEF Loops, Alone, PutAnswersRight
<1>6. Queues' /\ Looked'
  BY <1>1 DEF Queues, Looked
<1>7. AtMostOne' /\ AtLeastOne'
  BY <1>3 DEF AtMostOne, AtLeastOne
<1>8. held' \subseteq AllObjects' /\ obj' \in [Threads -> (AllObjects \cup {Foreign})']
  BY <1>4
<1> QED BY <1>1, <1>2, <1>5, <1>6, <1>7, <1>8

\* create_pool takes three blocks or none.
LEMMA CreatePoolFacts ==
  ASSUME NEW h, NEW k, h \cap PoolBlocks(k) = {}, NEW r \in create_pool(h, k)
  PROVE  r[1] \in BOOLEAN /\ r[2] = IF r[1] THEN h \cup PoolBlocks(k) ELSE h
<1> DEFINE p == <<bank, "pool", k>>
           m == <<bank, "mem", k>>
           e == <<bank, "entries", k>>
<1>1. PoolBlocks(k) = {p, m, e}
  BY DEF PoolBlocks
<1>2. p \notin h /\ m \notin h /\ e \notin h
  BY <1>1
<1>3. p # m
  OBVIOUS
<1>4. r \in {<<TRUE, ((h \cup {p}) \cup {m}) \cup {e}>>, <<FALSE, h>>, <<FALSE, (h \cup {p}) \ {p}>>,
             <<FALSE, ((h \cup {p}) \cup {m}) \ {m, p}>>}
  BY DEF create_pool
<1> HIDE DEF p, m, e
<1>5. (h \cup {p}) \ {p} = h /\ ((h \cup {p}) \cup {m}) \ {m, p} = h
  BY <1>2
<1>6. r = <<TRUE, h \cup {p, m, e}>> \/ r = <<FALSE, h>>
  BY <1>4, <1>5
<1> DEFINE s == h \cup {p, m, e}
<1>7. s = h \cup PoolBlocks(k) /\ (r = <<TRUE, s>> \/ r = <<FALSE, h>>)
  BY <1>1, <1>6
<1> HIDE DEF s
<1>8. CASE r = <<TRUE, s>>
  BY <1>7, <1>8
<1>9. CASE r = <<FALSE, h>>
  BY <1>9
<1> QED BY <1>7, <1>8, <1>9

\* The blocks of the bank carry its tag, and a pool that is not there has none.
LEMMA BlockFacts ==
  ASSUME Types
  PROVE  /\ Struct[1] = bank /\ \A k : \A b \in Array(k) \cup PoolBlocks(k) : b[1] = bank
         /\ \A k, l : Array(k) \cap PoolBlocks(l) = {} /\ Struct \notin Array(k) \cup PoolBlocks(l)
         /\ \A k, l : k # l => PoolBlocks(k) \cap PoolBlocks(l) = {} /\ Array(k) \cap Array(l) = {}
         /\ \A b \in Owned : b[1] = bank
         /\ Owned \cap PoolBlocks(Len(pools) + 1) = {}
<1>1. /\ Struct[1] = bank /\ \A k : \A b \in Array(k) \cup PoolBlocks(k) : b[1] = bank
      /\ \A k, l : Array(k) \cap PoolBlocks(l) = {} /\ Struct \notin Array(k) \cup PoolBlocks(l)
      /\ \A k, l : k # l => PoolBlocks(k) \cap PoolBlocks(l) = {} /\ Array(k) \cap Array(l) = {}
  BY DEF Struct, Array, PoolBlocks
<1>2. \A b \in Owned : b[1] = bank
  BY <1>1 DEF Owned
<1>3. \A k \in DOMAIN pools : k # Len(pools) + 1
  BY ArrayFacts
<1>4. Owned \cap PoolBlocks(Len(pools) + 1) = {}
  BY <1>1, <1>3 DEF Owned
<1> QED BY <1>1, <1>2, <1>4

\* create_bank starts with an empty array, or fails and leaves nothing allocated.
LEMMA CreateBankKeeps ==
  ASSUME BInv, CreateBank
  PROVE  BInv' /\ lost' = lost
<1> USE DEF BInv
<1>1. PICK np \in NPools, growing \in BOOLEAN :
        /\ state = "none" /\ Alone /\ bank < MaxBanks
        /\ bank' = bank + 1 /\ n' = np /\ max' = IF growing THEN 0 ELSE np
        /\ \/ UNCHANGED <<state, heap>>
           \/ /\ state' = IF np = 0 THEN "open" ELSE "filling"
              /\ heap' = heap \cup {<<bank', "bank", 0>>} \cup
                   IF np = 0 THEN {} ELSE {<<bank', "array", np>>}
        /\ Forget
        /\ UNCHANGED <<count, pools, freeq, lost, held>>
  BY DEF CreateBank
<1>2. pools = <<>> /\ freeq = <<>> /\ count = 0 /\ held = {}
  <2>1. pools = <<>> /\ Len(pools) = 0
    BY <1>1 DEF Counting
  <2>2. freeq = <<>> /\ count = 0
    BY <2>1 DEF Types, Counting
  <2>3. AllObjects = {}
    BY <2>1 DEF AllObjects
  <2> QED BY <2>1, <2>2, <2>3 DEF Types
<1>3. pools' = <<>> /\ freeq' = <<>> /\ count' = 0 /\ held' = {} /\ Len(pools') = 0
  BY <1>1, <1>2
<1>4. /\ pools' \in Seq(BOOLEAN) /\ freeq' \in Seq(Seq(Nat \X Nat))
      /\ Len(freeq') = Len(pools') /\ count' \in 0..(CountMod - 1) /\ count' = Len(pools')
      /\ held' \subseteq AllObjects' /\ obj' \in [Threads -> (AllObjects \cup {Foreign})']
      /\ Loops' /\ Queues' /\ AtMostOne' /\ AtLeastOne' /\ PutAnswersRight' /\ Looked'
      /\ Alone'
  BY <1>1, <1>3, NoPoolsKeeps
<1>5. np \in Nat /\ bank \in Nat /\ bank' \in 0..MaxBanks /\ bank' # 0 /\ lost' \subseteq 1..bank'
  BY <1>1, BankAssumption DEF Types
<1>6. state' \in {"none", "filling", "open"} /\ n' \in NPools \cup {0} /\ max' \in NPools \cup {0}
  BY <1>1 DEF Types
<1>7. pc' = pc /\ i' = i /\ ret' = [t \in Threads |-> "none"] /\ overlap' = {}
  BY <1>1 DEF Forget
<1>8. Types'
  BY <1>4, <1>5, <1>6, <1>7 DEF Types
<1>9. state' = "filling" => Len(pools') < n'
  BY <1>1, <1>3, <1>5
<1>10. Counting'
  BY <1>3, <1>4, <1>5, <1>9 DEF Counting, Counted
<1>11. BlocksAccounted'
  <2>1. \A b \in heap : b[1] \in lost /\ b[1] # bank'
    BY <1>1, <1>5 DEF BlocksAccounted, Types
  <2>2. CASE UNCHANGED <<state, heap>>
    BY <2>1, <2>2, <1>1 DEF BlocksAccounted
  <2>3. CASE /\ state' = IF np = 0 THEN "open" ELSE "filling"
             /\ heap' = heap \cup {<<bank', "bank", 0>>} \cup
                  IF np = 0 THEN {} ELSE {<<bank', "array", np>>}
    <3> DEFINE new == {<<bank', "bank", 0>>} \cup IF np = 0 THEN {} ELSE {<<bank', "array", np>>}
    <3>1. heap' = heap \cup new /\ \A b \in new : b[1] = bank'
      BY <2>3
    <3>2. {b \in heap' : b[1] = bank'} = new
      BY <3>1, <2>1
    <3>3. DOMAIN pools' = {}
      BY <1>3
    <3>4. Owned' = {<<bank', "bank", 0>>} \cup
                     {<<bank', "array", j>> : j \in {IF state' = "filling" THEN n' ELSE Len(pools')} \ {0}}
      BY <3>3 DEF Owned, Struct, Array, PoolBlocks
    <3>5. (IF state' = "filling" THEN n' ELSE Len(pools')) = np
      BY <2>3, <1>1, <1>3
    <3>6. Owned' = new
      BY <3>4, <3>5
    <3> HIDE DEF new
    <3>7. \A b \in heap' : b[1] \in lost' \/ (state' # "none" /\ b[1] = bank')
      BY <3>1, <2>1, <2>3, <1>1
    <3> QED BY <3>2, <3>6, <3>7 DEF BlocksAccounted
  <2> QED BY <2>2, <2>3, <1>1
<1> QED BY <1>1, <1>4, <1>8, <1>10, <1>11

\* A bank that goes takes its pools with it; what it leaves allocated is lost.
LEMMA GoneKeeps ==
  ASSUME BInv, state # "none", Alone, Forget, NEW h \in SUBSET heap, Gone(h),
         UNCHANGED <<n, max, bank>>
  PROVE  BInv'
<1> USE DEF BInv
<1>1. /\ state' = "none" /\ pools' = <<>> /\ freeq' = <<>> /\ count' = 0 /\ heap' = h /\ held' = {}
      /\ lost' = IF \E b \in h : b[1] = bank THEN lost \cup {bank} ELSE lost
  BY DEF Gone
<1>2. /\ pools' \in Seq(BOOLEAN) /\ freeq' \in Seq(Seq(Nat \X Nat))
      /\ Len(freeq') = Len(pools') /\ count' \in 0..(CountMod - 1) /\ count' = Len(pools')
      /\ held' \subseteq AllObjects' /\ obj' \in [Threads -> (AllObjects \cup {Foreign})']
      /\ Loops' /\ Queues' /\ AtMostOne' /\ AtLeastOne' /\ PutAnswersRight' /\ Looked'
      /\ Alone'
  BY <1>1, NoPoolsKeeps
<1>3. pc' = pc /\ i' = i /\ ret' = [t \in Threads |-> "none"] /\ overlap' = {}
  BY DEF Forget
<1>4. bank \in 1..bank /\ lost' \subseteq 1..bank'
  <2>1. bank \in Nat /\ bank # 0
    BY BankAssumption DEF Types, Counting
  <2> QED BY <2>1, <1>1 DEF Types
<1>5. Types'
  BY <1>1, <1>2, <1>3, <1>4 DEF Types
<1>6. Counting'
  BY <1>1, <1>2 DEF Counting
<1>7. BlocksAccounted'
  BY <1>1 DEF BlocksAccounted
<1> QED BY <1>2, <1>5, <1>6, <1>7

\* A round of create_bank's loop, or its failure.
LEMMA FillBankKeeps ==
  ASSUME BInv, FillBank
  PROVE  BInv' /\ (lost' # lost => state = "filling" /\ Len(pools) > 0)
<1> USE DEF BInv
<1> DEFINE k == Len(pools) + 1
<1>1. state = "filling" /\ Forget /\ UNCHANGED <<n, max, bank>>
  BY DEF FillBank
<1>2. Alone /\ Counted /\ Len(pools) < n /\ bank # 0 /\ Len(pools) \in Nat
  BY <1>1, ArrayFacts DEF Counting
<1>3. n \in Nat /\ n <= CountMod - 1 /\ CountMod \in Nat
  <2>1. n \in NPools
    BY <1>2, BankAssumption DEF Types
  <2> QED BY <2>1, BankAssumption
<1>4. {b \in heap : b[1] = bank} = Owned
  BY <1>1 DEF BlocksAccounted
<1>5. heap \cap PoolBlocks(k) = {}
  BY <1>4, BlockFacts
<1>6. PICK r \in create_pool(heap, k) :
        IF r[1] \/ pools = <<>>
        THEN /\ Enter(r[1])
             /\ heap' = r[2]
             /\ state' = IF Len(pools) + 1 = n THEN "open" ELSE "filling"
             /\ UNCHANGED <<lost, held>>
        ELSE Gone(r[2] \ {Struct})
  BY DEF FillBank
<1>7. r[1] \in BOOLEAN /\ r[2] = IF r[1] THEN heap \cup PoolBlocks(k) ELSE heap
  BY <1>5, CreatePoolFacts
<1>8. CASE r[1] \/ pools = <<>>
  <2>1. /\ Enter(r[1]) /\ heap' = r[2] /\ lost' = lost /\ held' = held
        /\ state' = IF k = n THEN "open" ELSE "filling"
    BY <1>8, <1>6
  <2>2. /\ pools' \in Seq(BOOLEAN) /\ freeq' \in Seq(Seq(Nat \X Nat))
        /\ Len(freeq') = Len(pools') /\ Len(pools') = k
        /\ count' \in 0..(CountMod - 1) /\ count' <= Len(pools')
        /\ held' \subseteq AllObjects' /\ obj' \in [Threads -> (AllObjects \cup {Foreign})']
        /\ Loops' /\ Queues' /\ AtMostOne' /\ AtLeastOne' /\ PutAnswersRight' /\ Looked'
        /\ Alone' /\ \A l \in DOMAIN pools' :
             pools'[l] = IF l \in DOMAIN pools THEN pools[l] ELSE r[1]
    BY <1>1, <1>2, <1>7, <2>1, EnterKeeps
  <2>3. pc' = pc /\ i' = i /\ ret' = [t \in Threads |-> "none"] /\ overlap' = {}
    BY <1>1 DEF Forget
  <2>4. Types'
    BY <1>1, <2>1, <2>2, <2>3 DEF Types
  <2>5. count' = k
    <3>1. count \in 0..(CountMod - 1) /\ count = Len(pools) /\ count + 1 < CountMod
      BY <1>2, <1>3 DEF Types, Counted
    <3>2. (count + 1) % CountMod = count + 1
      BY <3>1, NextCount
    <3> QED BY <2>1, <3>1, <3>2 DEF Enter
  <2>6. Counting'
    <3>1. state' = "filling" => Len(pools') < n'
      BY <1>1, <1>2, <1>3, <2>1, <2>2
    <3>2. state' # "none" /\ Counted' /\ bank' # 0
      BY <1>1, <1>2, <2>1, <2>2, <2>5 DEF Counted
    <3> QED BY <2>2, <3>1, <3>2 DEF Counting
  <2>7. BlocksAccounted'
    <3>1. /\ DOMAIN pools = 1..Len(pools) /\ DOMAIN pools' = 1..k /\ k \notin DOMAIN pools
          /\ DOMAIN pools' = DOMAIN pools \cup {k}
      BY <1>2, <2>2, ArrayFacts
    <3>2. {l \in DOMAIN pools' : pools'[l]} =
             {l \in DOMAIN pools : pools[l]} \cup IF r[1] THEN {k} ELSE {}
      BY <3>1, <2>2, <1>7
    <3>3. Owned = {Struct} \cup Array(n) \cup
                    UNION {PoolBlocks(l) : l \in {j \in DOMAIN pools : pools[j]}}
      BY <1>1 DEF Owned
    <3>4. (IF state' = "filling" THEN n' ELSE Len(pools')) = n
      BY <1>1, <2>1, <2>2
    <3>5. Owned' = {Struct} \cup Array(n) \cup
                    UNION {PoolBlocks(l) : l \in {j \in DOMAIN pools' : pools'[j]}}
      BY <3>4, <1>1 DEF Owned, Struct, Array, PoolBlocks
    <3>6. Owned' = Owned \cup IF r[1] THEN PoolBlocks(k) ELSE {}
      BY <3>2, <3>3, <3>5
    <3>7. \A b \in PoolBlocks(k) : b[1] = bank
      BY BlockFacts
    <3>8. Owned' = {b \in heap' : b[1] = bank'}
      BY <3>6, <3>7, <1>1, <1>4, <1>7, <2>1
    <3>9. \A b \in heap' : b[1] \in lost' \/ (state' # "none" /\ b[1] = bank')
      BY <3>7, <1>1, <1>7, <2>1 DEF BlocksAccounted
    <3> QED BY <3>8, <3>9 DEF BlocksAccounted
  <2> QED BY <2>1, <2>2, <2>4, <2>6, <2>7
<1>9. CASE ~(r[1] \/ pools = <<>>)
  <2>1. Gone(heap \ {Struct})
    BY <1>9, <1>6, <1>7
  <2>2. BInv'
    BY <1>1, <1>2, <2>1, GoneKeeps
  <2>3. Len(pools) > 0
    BY <1>9, <1>2 DEF Types
  <2> QED BY <1>1, <2>2, <2>3
<1> QED BY <1>8, <1>9

\* add_pool: a longer array takes the place of the old one, or nothing changes.
LEMMA AddPoolKeeps ==
  ASSUME BInv, AddPool
  PROVE  BInv' /\ lost' = lost
<1> USE DEF BInv
<1> DEFINE k == Len(pools) + 1
           g == heap \cup Array(k)
<1>1. /\ state = "open" /\ Alone /\ Counted /\ Len(pools) = count
      /\ Forget /\ UNCHANGED <<state, n, max, bank, lost, held>>
  BY DEF AddPool, Counted
<1>2. bank # 0 /\ Len(pools) \in Nat /\ k \in Nat /\ k # Len(pools)
  BY <1>1, ArrayFacts DEF Counting
<1>3. {b \in heap : b[1] = bank} = Owned
  BY <1>1 DEF BlocksAccounted
<1>4. Owned = {Struct} \cup Array(Len(pools)) \cup
                UNION {PoolBlocks(l) : l \in {j \in DOMAIN pools : pools[j]}}
  BY <1>1 DEF Owned
<1>5. \A b \in Array(k) \cup Array(Len(pools)) \cup PoolBlocks(k) : b[1] = bank
  BY BlockFacts
<1>6. heap \cap Array(k) = {} /\ heap \cap PoolBlocks(k) = {} /\ g \cap PoolBlocks(k) = {}
  <2>1. Owned \cap PoolBlocks(k) = {} /\ Owned \cap Array(k) = {} /\ Array(k) \cap PoolBlocks(k) = {}
    BY <1>2, <1>4, BlockFacts
  <2> QED BY <2>1, <1>3, <1>5
<1>7. PICK r \in create_pool(g, k) :
        IF r[1] THEN Enter(TRUE) /\ heap' = r[2] \ Array(count)
                ELSE heap' = r[2] \ Array(count + 1) /\ UNCHANGED <<pools, freeq, count>>
  BY <1>1 DEF AddPool
<1> HIDE DEF g
<1>8. r[1] \in BOOLEAN /\ r[2] = IF r[1] THEN g \cup PoolBlocks(k) ELSE g
  BY <1>6, CreatePoolFacts
<1>9. /\ pc' = pc /\ i' = i /\ ret' = [t \in Threads |-> "none"] /\ overlap' = {}
      /\ obj' = [t \in Threads |-> Foreign]
  BY <1>1 DEF Forget
<1>10. CASE r[1]
  <2>1. Enter(TRUE) /\ heap' = (g \cup PoolBlocks(k)) \ Array(Len(pools))
    BY <1>10, <1>1, <1>7, <1>8
  <2>2. /\ pools' \in Seq(BOOLEAN) /\ freeq' \in Seq(Seq(Nat \X Nat))
        /\ Len(freeq') = Len(pools') /\ Len(pools') = k
        /\ count' \in 0..(CountMod - 1) /\ count' <= Len(pools')
        /\ held' \subseteq AllObjects' /\ obj' \in [Threads -> (AllObjects \cup {Foreign})']
        /\ Loops' /\ Queues' /\ AtMostOne' /\ AtLeastOne' /\ PutAnswersRight' /\ Looked'
        /\ Alone' /\ \A l \in DOMAIN pools' :
             pools'[l] = IF l \in DOMAIN pools THEN pools[l] ELSE TRUE
    BY <1>1, <2>1, EnterKeeps
  <2>3. Types'
    BY <1>1, <2>2, <1>9 DEF Types
  <2>4. Counting'
    BY <1>1, <1>2, <2>2 DEF Counting
  <2>5. BlocksAccounted'
    <3>0. DOMAIN pools = 1..Len(pools)
      BY ArrayFacts
    <3>1. k \notin DOMAIN pools /\ DOMAIN pools' = DOMAIN pools \cup {k}
      <4>1. pools' \in Seq(BOOLEAN) /\ Len(pools') = Len(pools) + 1
        BY <2>2
      <4>2. DOMAIN pools' = 1..(Len(pools) + 1)
        BY <4>1
      <4>3. 1..(Len(pools) + 1) = (1..Len(pools)) \cup {Len(pools) + 1}
            /\ Len(pools) + 1 \notin 1..Len(pools)
        BY <1>2
      <4> QED BY <4>2, <4>3, <3>0
    <3>2. {l \in DOMAIN pools' : pools'[l]} = {l \in DOMAIN pools : pools[l]} \cup {k}
      BY <3>1, <2>2
    <3>3. Owned' = {Struct} \cup Array(k) \cup
                     UNION {PoolBlocks(l) : l \in {j \in DOMAIN pools' : pools'[j]}}
      <4>1. state' = "open" /\ bank' = bank /\ Len(pools') = k
        BY <1>1, <2>2
      <4> HIDE DEF k
      <4> QED BY <4>1 DEF Owned, Struct, Array, PoolBlocks
    <3> DEFINE old == UNION {PoolBlocks(l) : l \in {j \in DOMAIN pools : pools[j]}}
    <3>4. Owned' = {Struct} \cup Array(k) \cup old \cup PoolBlocks(k)
      BY <3>2, <3>3
    <3>5. Array(Len(pools)) \cap ({Struct} \cup Array(k) \cup old \cup PoolBlocks(k)) = {}
      <4>1. \A l : Array(Len(pools)) \cap PoolBlocks(l) = {}
        BY BlockFacts
      <4>2. Struct \notin Array(Len(pools)) /\ Array(Len(pools)) \cap Array(k) = {}
        BY <1>2, BlockFacts
      <4> QED BY <4>1, <4>2
    <3>6. Owned = {Struct} \cup Array(Len(pools)) \cup old
      BY <1>4
    <3> HIDE DEF old
    <3>7. Owned' = {b \in heap' : b[1] = bank'}
      BY <3>4, <3>5, <3>6, <2>1, <1>1, <1>3, <1>5 DEF g
    <3>8. \A b \in heap' : b[1] \in lost' \/ (state' # "none" /\ b[1] = bank')
      BY <2>1, <1>1, <1>5 DEF BlocksAccounted, g
    <3> QED BY <3>7, <3>8 DEF BlocksAccounted
  <2> QED BY <1>1, <2>2, <2>3, <2>4, <2>5
<1>11. CASE ~r[1]
  <2>1. heap' = heap /\ UNCHANGED <<pools, freeq, count>>
    BY <1>11, <1>1, <1>6, <1>7, <1>8 DEF g
  <2>2. AllObjects' = AllObjects
    BY <2>1 DEF AllObjects, Objects
  <2>3. Types' /\ Counting' /\ Alone'
    BY <1>1, <1>9, <2>1, <2>2 DEF Types, Counting, Counted, Alone
  <2>4. Loops' /\ Queues' /\ PutAnswersRight' /\ Looked'
    BY <1>1, <1>9, <2>1 DEF Loops, Queues, PutAnswersRight, Looked, Alone, Objects
  <2>5. AtMostOne' /\ AtLeastOne'
    BY <1>1, <1>9, <2>1, <2>2
       DEF AtMostOne, AtLeastOne, Free, Carries, Counted, Alone
  <2>6. BlocksAccounted'
    BY <1>1, <2>1 DEF BlocksAccounted, Owned, Struct, Array, PoolBlocks
  <2> QED BY <1>1, <2>3, <2>4, <2>5, <2>6
<1> QED BY <1>10, <1>11

\* destroy_bank: nothing stays behind if every pool is counted.
LEMMA DestroyBankKeeps ==
  ASSUME BInv, DestroyBank
  PROVE  BInv' /\ (Counted => lost' = lost)
<1> USE DEF BInv
<1> DEFINE h == heap \ ({Struct} \cup Array(Len(pools)) \cup
                        UNION {PoolBlocks(k) : k \in {j \in 1..count : pools[j]}})
<1>1. state = "open" /\ Alone /\ Gone(h) /\ Forget /\ UNCHANGED <<n, max, bank>>
  BY DEF DestroyBank
<1>2. h \in SUBSET heap
  OBVIOUS
<1>3. ASSUME Counted
      PROVE  \A b \in h : b[1] # bank
  <2>1. DOMAIN pools = 1..count
    BY <1>3, ArrayFacts DEF Counted
  <2>2. Owned = {Struct} \cup Array(Len(pools)) \cup
                  UNION {PoolBlocks(l) : l \in {j \in 1..count : pools[j]}}
    BY <1>1, <2>1 DEF Owned
  <2>3. Owned = {b \in heap : b[1] = bank}
    BY <1>1 DEF BlocksAccounted
  <2> QED BY <2>2, <2>3
<1> HIDE DEF h
<1>4. BInv'
  BY <1>1, <1>2, GoneKeeps
<1> QED BY <1>1, <1>3, <1>4 DEF Gone

----------------------------------------------------------------------------
(* The calls of the threads: the bank itself stays as it is. *)

\* What depends only on the bank stays as it is during a call.
LEMMA SameLife ==
  ASSUME BInv, UNCHANGED life, state # "filling"
  PROVE  /\ AllObjects' = AllObjects /\ Counted' = Counted /\ Counting' /\ BlocksAccounted'
         /\ \A k : Objects(k)' = Objects(k)
<1> USE DEF BInv
<1>1. /\ state' = state /\ n' = n /\ max' = max /\ count' = count /\ pools' = pools
      /\ heap' = heap /\ bank' = bank /\ lost' = lost
  BY DEF life
<1>2. AllObjects' = AllObjects /\ \A k : Objects(k)' = Objects(k)
  BY <1>1 DEF AllObjects, Objects
<1>3. BlocksAccounted'
  BY <1>1 DEF BlocksAccounted, Owned, Struct, Array, PoolBlocks
<1>4. Counted' = Counted /\ Counting'
  BY <1>1 DEF Counting, Counted
<1> QED BY <1>2, <1>3, <1>4

\* A get starts with the first pool.
LEMMA GetBeginKeeps ==
  ASSUME BInv, NEW t \in Threads, GetBegin(t)
  PROVE  BInv'
<1> USE DEF BInv
<1>1. /\ pc[t] = "idle" /\ state # "filling" /\ UNCHANGED <<life, freeq, i, held>>
      /\ pc' = [pc EXCEPT ![t] = "get"] /\ obj' = [obj EXCEPT ![t] = Foreign]
      /\ ret' = [ret EXCEPT ![t] = "none"] /\ overlap' = overlap \ {t}
  BY DEF GetBegin, Begin
<1>2. /\ AllObjects' = AllObjects /\ Counted' = Counted /\ Counting' /\ BlocksAccounted'
      /\ \A k : Objects(k)' = Objects(k)
  BY <1>1, SameLife
<1>3. /\ state' = state /\ n' = n /\ max' = max /\ count' = count /\ pools' = pools
      /\ bank' = bank /\ lost' = lost /\ freeq' = freeq /\ i' = i /\ held' = held
  BY <1>1 DEF life
<1>4. Types'
  BY <1>1, <1>2, <1>3 DEF Types
<1>5. i[t] = 1 /\ Loops'
  BY <1>1, <1>3 DEF Loops, Types
<1>6. Queues'
  BY <1>2, <1>3 DEF Queues
<1>7. \A u \in Threads : \A o : Carries(u, o)' <=> Carries(u, o)
  BY <1>1 DEF Carries, Types
<1>8. AtMostOne' /\ AtLeastOne'
  BY <1>2, <1>3, <1>7 DEF AtMostOne, AtLeastOne, Free
<1>9. PutAnswersRight'
  BY <1>1, <1>2, <1>3 DEF PutAnswersRight, Types
<1>10. Looked'
  <2> SUFFICES ASSUME NEW u \in Threads, pc'[u] = "get", u \notin overlap',
                      NEW k \in DOMAIN freeq, k < i[u]
               PROVE  freeq[k] = <<>>
    BY <1>3 DEF Looked
  <2>1. CASE u = t
    BY <2>1, <1>5, ArrayFacts
  <2>2. CASE u # t
    BY <2>2, <1>1 DEF Looked, Types
  <2> QED BY <2>1, <2>2
<1> QED BY <1>2, <1>4, <1>5, <1>6, <1>8, <1>9, <1>10

\* The object leaves its queue for the client.
LEMMA GetHitKeeps ==
  ASSUME BInv, NEW t \in Threads, GetHit(t)
  PROVE  BInv'
<1> USE DEF BInv
<1> DEFINE k == i[t]
           e == Head(freeq[k])
<1>1. /\ pc[t] = "get" /\ k <= count /\ freeq[k] # <<>>
      /\ freeq' = [freeq EXCEPT ![k] = Tail(@)] /\ held' = held \cup {e}
      /\ pc' = [pc EXCEPT ![t] = "idle"] /\ i' = [i EXCEPT ![t] = 1]
      /\ ret' = [ret EXCEPT ![t] = "object"] /\ UNCHANGED <<life, obj, overlap>>
  BY DEF GetHit, Return
<1>2. state # "filling"
  BY <1>1 DEF Counting, Alone
<1>3. /\ AllObjects' = AllObjects /\ Counted' = Counted /\ Counting' /\ BlocksAccounted'
      /\ \A l : Objects(l)' = Objects(l)
  BY <1>1, <1>2, SameLife
<1>4. /\ state' = state /\ n' = n /\ max' = max /\ count' = count /\ pools' = pools
      /\ bank' = bank /\ lost' = lost /\ obj' = obj /\ overlap' = overlap
  BY <1>1 DEF life
<1>5. /\ Len(pools) \in Nat /\ DOMAIN pools = 1..Len(pools) /\ DOMAIN freeq = 1..Len(pools)
      /\ \A l \in 1..Len(pools) : pools[l] \in BOOLEAN /\ freeq[l] \in Seq(Nat \X Nat)
  BY ArrayFacts
<1>6. k \in 1..Len(pools)
  BY <1>1, <1>5 DEF Types, Counting
<1>7. freeq[k] \in Seq(Nat \X Nat) /\ freeq[k] # <<>> /\ IsInjective(freeq[k]) /\ pools[k]
      /\ ToSet(freeq[k]) \subseteq Objects(k)
  BY <1>1, <1>5, <1>6 DEF Queues
<1>8. /\ e \in Nat \X Nat /\ e \in ToSet(freeq[k]) /\ Tail(freeq[k]) \in Seq(Nat \X Nat)
      /\ IsInjective(Tail(freeq[k])) /\ ToSet(Tail(freeq[k])) = ToSet(freeq[k]) \ {e}
  BY <1>7, TailContents
<1>9. /\ freeq' \in Seq(Seq(Nat \X Nat)) /\ Len(freeq') = Len(freeq) /\ DOMAIN freeq' = DOMAIN freeq
      /\ freeq'[k] = Tail(freeq[k]) /\ \A l \in 1..Len(pools) : l # k => freeq'[l] = freeq[l]
  <2>1. freeq \in Seq(Seq(Nat \X Nat)) /\ k \in 1..Len(freeq)
    BY <1>5, <1>6 DEF Types
  <2> HIDE DEF k, e
  <2> QED BY <2>1, <1>1, <1>5, <1>6, <1>8
<1> HIDE DEF e
<1>10. e \in Objects(k) /\ e[1] = k /\ e \in AllObjects /\ Free(e)
  <2>1. e \in Objects(k) /\ k \in Nat
    BY <1>7, <1>8, <1>6, <1>5
  <2>2. e[1] = k
    BY <2>1, ObjectFacts
  <2>3. e \in AllObjects
    BY <2>1, <1>5, <1>6, <1>7 DEF AllObjects
  <2> QED BY <2>1, <2>2, <2>3, <1>8 DEF Free
<1>11. \A o \in AllObjects : Free(o)' <=> Free(o) /\ o # e
  <2> SUFFICES ASSUME NEW o \in AllObjects
               PROVE  Free(o)' <=> Free(o) /\ o # e
    OBVIOUS
  <2>1. o[1] \in 1..Len(pools)
    BY ArrayFacts
  <2>2. CASE o[1] = k
    BY <2>2, <1>8, <1>9 DEF Free
  <2>3. CASE o[1] # k
    BY <2>1, <2>3, <1>9, <1>10 DEF Free
  <2> QED BY <2>2, <2>3
<1>12. \A u \in Threads : \A o : Carries(u, o)' <=> Carries(u, o)
  BY <1>1 DEF Carries, Types
<1>13. AtMostOne'
  BY <1>1, <1>3, <1>10, <1>11, <1>12 DEF AtMostOne
<1>14. AtLeastOne'
  <2>1. \A u \in Threads : \A o : Carries(u, o) => i'[u] = i[u]
    BY <1>1 DEF Carries, Types
  <2> QED BY <2>1, <1>1, <1>3, <1>10, <1>11, <1>12 DEF AtLeastOne
<1>15. Types'
  <2>1. i' \in [Threads -> Nat \ {0}] /\ pc' \in [Threads -> {"idle", "get", "put"}]
        /\ ret' \in [Threads -> {"none", "object", "null", "taken", "refused"}]
    BY <1>1 DEF Types
  <2>2. held' \subseteq AllObjects
    BY <1>1, <1>10 DEF Types
  <2> QED BY <2>1, <2>2, <1>3, <1>4, <1>9 DEF Types
<1>16. Loops'
  BY <1>1, <1>4 DEF Loops, Types
<1>17. Queues'
  <2> SUFFICES ASSUME NEW l \in 1..Len(pools)
               PROVE  /\ ToSet(freeq'[l]) \subseteq Objects(l) /\ IsInjective(freeq'[l])
                      /\ freeq'[l] # <<>> => pools[l]
    BY <1>3, <1>4, <1>5, <1>9 DEF Queues
  <2>1. CASE l = k
    BY <2>1, <1>7, <1>8, <1>9
  <2>2. CASE l # k
    BY <2>2, <1>5, <1>9 DEF Queues
  <2> QED BY <2>1, <2>2
<1>18. PutAnswersRight'
  BY <1>1, <1>3, <1>4 DEF PutAnswersRight, Types
<1>19. Looked'
  <2> SUFFICES ASSUME NEW u \in Threads, pc'[u] = "get", u \notin overlap,
                      NEW l \in 1..Len(pools), l < i'[u]
               PROVE  freeq'[l] = <<>>
    BY <1>4, <1>5, <1>9 DEF Looked
  <2>1. u # t /\ pc[u] = "get" /\ l < i[u]
    BY <1>1 DEF Types
  <2>2. freeq[l] = <<>>
    BY <2>1, <1>5 DEF Looked
  <2>3. l # k
    BY <2>2, <1>1
  <2> QED BY <2>2, <2>3, <1>9
<1> QED BY <1>3, <1>13, <1>14, <1>15, <1>16, <1>17, <1>18, <1>19

\* One more pool has been searched in vain, by a get or by a put.
LEMMA NextPoolKeeps ==
  ASSUME BInv, NEW t \in Threads, pc[t] # "idle", i[t] <= count, NextPool(t),
         pc[t] = "get" => freeq[i[t]] = <<>>,
         pc[t] = "put" => ~InPool(obj[t], i[t])
  PROVE  BInv'
<1> USE DEF BInv
<1>1. /\ i' = [i EXCEPT ![t] = @ + 1]
      /\ UNCHANGED <<life, freeq, pc, obj, ret, overlap, held>>
  BY DEF NextPool
<1>2. state # "filling"
  BY DEF Counting, Alone
<1>3. /\ AllObjects' = AllObjects /\ Counted' = Counted /\ Counting' /\ BlocksAccounted'
      /\ \A l : Objects(l)' = Objects(l)
  BY <1>1, <1>2, SameLife
<1>4. /\ state' = state /\ n' = n /\ max' = max /\ count' = count /\ pools' = pools
      /\ bank' = bank /\ lost' = lost /\ obj' = obj /\ overlap' = overlap
      /\ freeq' = freeq /\ pc' = pc /\ ret' = ret /\ held' = held
  BY <1>1 DEF life
<1>5. i[t] \in Nat \ {0} /\ i'[t] = i[t] + 1 /\ \A u \in Threads : u # t => i'[u] = i[u]
  BY <1>1 DEF Types
<1>6. count \in Nat
  BY BankAssumption DEF Types
<1>7. Types'
  BY <1>1, <1>3, <1>4 DEF Types
<1>8. Loops'
  BY <1>4, <1>5, <1>6 DEF Loops
<1>9. Queues' /\ AtMostOne' /\ PutAnswersRight'
  BY <1>3, <1>4 DEF Queues, AtMostOne, Free, Carries, PutAnswersRight
<1>10. AtLeastOne'
  <2> SUFFICES ASSUME Counted, NEW o \in AllObjects, Carries(t, o)
               PROVE  i[t] + 1 <= o[1]
    BY <1>3, <1>4, <1>5 DEF AtLeastOne, Free, Carries
  <2>1. i[t] <= o[1]
    BY DEF AtLeastOne
  <2>2. o[1] \in Nat /\ pools[o[1]] /\ o \in Objects(o[1])
    BY ArrayFacts
  <2>3. o[1] # i[t]
    BY <2>2 DEF Carries, InPool
  <2> QED BY <2>1, <2>2, <2>3, <1>5
<1>11. Looked'
  <2> SUFFICES ASSUME NEW u \in Threads, pc[u] = "get", u \notin overlap,
                      NEW k \in DOMAIN freeq, k < i'[u]
               PROVE  freeq[k] = <<>>
    BY <1>4 DEF Looked
  <2>1. CASE u # t
    BY <2>1, <1>5 DEF Looked
  <2>2. CASE u = t
    <3>1. k \in Nat
      BY ArrayFacts
    <3>2. k < i[t] \/ k = i[t]
      BY <2>2, <3>1, <1>5
    <3> QED BY <2>2, <3>2 DEF Looked
  <2> QED BY <2>1, <2>2
<1> QED BY <1>3, <1>7, <1>8, <1>9, <1>10, <1>11

\* The object leaves the client for the call, which starts with the first pool.
LEMMA PutBeginKeeps ==
  ASSUME BInv, NEW t \in Threads, PutBegin(t)
  PROVE  BInv'
<1> USE DEF BInv
<1>1. PICK o \in held \cup {Foreign} :
        /\ pc[t] = "idle" /\ state # "filling" /\ UNCHANGED <<life, freeq, i>>
        /\ pc' = [pc EXCEPT ![t] = "put"] /\ obj' = [obj EXCEPT ![t] = o]
        /\ ret' = [ret EXCEPT ![t] = "none"] /\ overlap' = overlap \ {t} /\ held' = held \ {o}
  BY DEF PutBegin, Begin
<1>2. /\ AllObjects' = AllObjects /\ Counted' = Counted /\ Counting' /\ BlocksAccounted'
      /\ \A l : Objects(l)' = Objects(l)
  BY <1>1, SameLife
<1>3. /\ state' = state /\ n' = n /\ max' = max /\ count' = count /\ pools' = pools
      /\ bank' = bank /\ lost' = lost /\ freeq' = freeq /\ i' = i
  BY <1>1 DEF life
<1>4. Types'
  BY <1>1, <1>2, <1>3 DEF Types
<1>5. i[t] = 1 /\ Loops'
  BY <1>1, <1>3 DEF Loops, Types
<1>6. Queues'
  BY <1>2, <1>3 DEF Queues
<1>7. \A x \in AllObjects : x \in Nat \X Nat /\ x[1] \in 1..Len(pools) /\ x # Foreign
  BY ArrayFacts
<1>8. \A u \in Threads : \A x : Carries(u, x)' <=> IF u = t THEN x = o ELSE Carries(u, x)
  BY <1>1 DEF Carries, Types
<1>9. \A x : ~Carries(t, x)
  BY <1>1 DEF Carries
<1>10. AtMostOne'
  <2> SUFFICES ASSUME NEW x \in AllObjects
               PROVE  /\ Free(x) => x \notin held'
                      /\ \A u \in Threads : Carries(u, x)' =>
                           ~Free(x) /\ x \notin held' /\ \A v \in Threads : Carries(v, x)' => v = u
    BY <1>2, <1>3 DEF AtMostOne, Free
  <2>1. Free(x) => x \notin held'
    BY <1>1 DEF AtMostOne
  <2>2. x = o => x \in held /\ ~Free(x) /\ x \notin held' /\ \A u \in Threads : ~Carries(u, x)
    BY <1>1, <1>7 DEF AtMostOne
  <2>3. ASSUME NEW u \in Threads, Carries(u, x)'
        PROVE  ~Free(x) /\ x \notin held' /\ \A v \in Threads : Carries(v, x)' => v = u
    <3>1. CASE u = t
      BY <3>1, <2>2, <2>3, <1>8
    <3>2. CASE u # t
      BY <3>2, <2>2, <2>3, <1>1, <1>8 DEF AtMostOne
    <3> QED BY <3>1, <3>2
  <2> QED BY <2>1, <2>3
<1>11. AtLeastOne'
  <2> SUFFICES ASSUME Counted, NEW x \in AllObjects
               PROVE  /\ Free(x) \/ x \in held' \/ \E u \in Threads : Carries(u, x)'
                      /\ \A u \in Threads : Carries(u, x)' => i[u] <= x[1]
    BY <1>2, <1>3 DEF AtLeastOne, Free
  <2>1. /\ Free(x) \/ x \in held \/ \E u \in Threads : Carries(u, x)
        /\ \A u \in Threads : Carries(u, x) => i[u] <= x[1]
    BY DEF AtLeastOne
  <2>2. 1 <= x[1]
    BY <1>7
  <2> QED BY <2>1, <2>2, <1>1, <1>5, <1>8, <1>9
<1>12. PutAnswersRight'
  BY <1>1, <1>2, <1>3 DEF PutAnswersRight, Types
<1>13. Looked'
  BY <1>1, <1>3 DEF Looked, Types
<1> QED BY <1>2, <1>4, <1>5, <1>6, <1>10, <1>11, <1>12, <1>13

\* The object comes back to the queue it was made for.
LEMMA PutHitKeeps ==
  ASSUME BInv, NEW t \in Threads, PutHit(t)
  PROVE  BInv'
<1> USE DEF BInv
<1> DEFINE k == i[t]
           e == obj[t]
<1>1. /\ pc[t] = "put" /\ k <= count /\ pools[k] /\ e \in Objects(k)
      /\ freeq' = [freeq EXCEPT ![k] = Append(@, e)]
      /\ overlap' = overlap \cup {u \in Threads : pc[u] = "get"} /\ held' = held
      /\ pc' = [pc EXCEPT ![t] = "idle"] /\ i' = [i EXCEPT ![t] = 1]
      /\ ret' = [ret EXCEPT ![t] = "taken"] /\ UNCHANGED <<life, obj>>
  BY DEF PutHit, Return, InPool
<1>2. state # "filling"
  BY <1>1 DEF Counting, Alone
<1>3. /\ AllObjects' = AllObjects /\ Counted' = Counted /\ Counting' /\ BlocksAccounted'
      /\ \A l : Objects(l)' = Objects(l)
  BY <1>1, <1>2, SameLife
<1>4. /\ state' = state /\ n' = n /\ max' = max /\ count' = count /\ pools' = pools
      /\ bank' = bank /\ lost' = lost /\ obj' = obj
  BY <1>1 DEF life
<1>5. /\ Len(pools) \in Nat /\ DOMAIN pools = 1..Len(pools) /\ DOMAIN freeq = 1..Len(pools)
      /\ \A l \in 1..Len(pools) : pools[l] \in BOOLEAN /\ freeq[l] \in Seq(Nat \X Nat)
  BY ArrayFacts
<1>6. k \in 1..Len(pools) /\ k \in Nat
  BY <1>1, <1>5 DEF Types, Counting
<1>7. e \in Nat \X Nat /\ e[1] = k /\ e # Foreign
  BY <1>1, <1>6, ObjectFacts
<1>8. e \in AllObjects /\ Carries(t, e)
  BY <1>1, <1>5, <1>6 DEF AllObjects, Carries
<1>9. ~Free(e) /\ e \notin held /\ \A u \in Threads : Carries(u, e) => u = t
  BY <1>8 DEF AtMostOne
<1>10. freeq[k] \in Seq(Nat \X Nat) /\ IsInjective(freeq[k]) /\ ToSet(freeq[k]) \subseteq Objects(k)
       /\ e \notin ToSet(freeq[k])
  BY <1>5, <1>6, <1>7, <1>9 DEF Queues, Free
<1> DEFINE q == Append(freeq[k], e)
<1>11. q \in Seq(Nat \X Nat) /\ ToSet(q) = ToSet(freeq[k]) \cup {e} /\ IsInjective(q)
  BY <1>7, <1>10, AppendContents
<1>12. freeq' = [freeq EXCEPT ![k] = q]
  BY <1>1
<1> HIDE DEF q
<1>13. /\ freeq' \in Seq(Seq(Nat \X Nat)) /\ Len(freeq') = Len(freeq) /\ DOMAIN freeq' = DOMAIN freeq
       /\ freeq'[k] = q /\ \A l \in 1..Len(pools) : l # k => freeq'[l] = freeq[l]
  <2>1. freeq \in Seq(Seq(Nat \X Nat)) /\ k \in 1..Len(freeq)
    BY <1>5, <1>6 DEF Types
  <2> HIDE DEF k, e
  <2> QED BY <2>1, <1>12, <1>5, <1>6, <1>11
<1>14. \A o \in AllObjects : Free(o)' <=> Free(o) \/ o = e
  <2> SUFFICES ASSUME NEW o \in AllObjects
               PROVE  Free(o)' <=> Free(o) \/ o = e
    OBVIOUS
  <2>1. o[1] \in 1..Len(pools)
    BY ArrayFacts
  <2>2. CASE o[1] = k
    BY <2>2, <1>11, <1>13 DEF Free
  <2>3. CASE o[1] # k
    BY <2>1, <2>3, <1>7, <1>13 DEF Free
  <2> QED BY <2>2, <2>3
<1>15. \A u \in Threads : \A o : Carries(u, o)' <=> Carries(u, o) /\ u # t
  BY <1>1 DEF Carries, Types
<1>16. \A o : Carries(t, o) => o = e
  BY DEF Carries
<1> HIDE DEF e
<1>17. AtMostOne'
  <2> SUFFICES ASSUME NEW o \in AllObjects
               PROVE  /\ Free(o)' => o \notin held
                      /\ \A u \in Threads : Carries(u, o)' =>
                           ~Free(o)' /\ o \notin held /\ \A v \in Threads : Carries(v, o)' => v = u
    BY <1>1, <1>3 DEF AtMostOne
  <2> QED BY <1>9, <1>14, <1>15 DEF AtMostOne
<1>18. AtLeastOne'
  <2> SUFFICES ASSUME Counted, NEW o \in AllObjects
               PROVE  /\ Free(o)' \/ o \in held \/ \E u \in Threads : Carries(u, o)'
                      /\ \A u \in Threads : Carries(u, o)' => i'[u] <= o[1]
    BY <1>1, <1>3 DEF AtLeastOne
  <2>1. \A u \in Threads : u # t => i'[u] = i[u]
    BY <1>1 DEF Types
  <2>2. Free(o) \/ o \in held \/ \E u \in Threads : Carries(u, o)
    BY DEF AtLeastOne
  <2>3. Free(o)' \/ o \in held \/ \E u \in Threads : Carries(u, o)'
    <3>1. \A u \in Threads : Carries(u, o) => u # t \/ o = e
      BY <1>16
    <3> QED BY <2>2, <3>1, <1>14, <1>15
  <2>4. ASSUME NEW u \in Threads, Carries(u, o)' PROVE i'[u] <= o[1]
    BY <2>1, <2>4, <1>15 DEF AtLeastOne
  <2> QED BY <2>3, <2>4
<1>19. Types'
  <2>1. i' \in [Threads -> Nat \ {0}] /\ pc' \in [Threads -> {"idle", "get", "put"}]
        /\ ret' \in [Threads -> {"none", "object", "null", "taken", "refused"}]
    BY <1>1 DEF Types
  <2>2. overlap' \subseteq Threads
    BY <1>1 DEF Types
  <2> QED BY <2>1, <2>2, <1>1, <1>3, <1>4, <1>13 DEF Types
<1>20. Loops'
  BY <1>1, <1>4 DEF Loops, Types
<1>21. Queues'
  <2> SUFFICES ASSUME NEW l \in 1..Len(pools)
               PROVE  /\ ToSet(freeq'[l]) \subseteq Objects(l) /\ IsInjective(freeq'[l])
                      /\ freeq'[l] # <<>> => pools[l]
    BY <1>3, <1>4, <1>5, <1>13 DEF Queues
  <2>1. CASE l = k
    BY <2>1, <1>1, <1>10, <1>11, <1>13 DEF e
  <2>2. CASE l # k
    BY <2>2, <1>5, <1>13 DEF Queues
  <2> QED BY <2>1, <2>2
<1>22. PutAnswersRight'
  <2>1. \A u \in Threads : u # t => ret'[u] = ret[u]
    BY <1>1 DEF Types
  <2>2. ret'[t] = "taken" /\ obj[t] # Foreign
    BY <1>1, <1>7 DEF Types, e
  <2> QED BY <2>1, <2>2, <1>3, <1>4 DEF PutAnswersRight
<1>23. Looked'
  BY <1>1 DEF Looked, Types
<1> QED BY <1>3, <1>17, <1>18, <1>19, <1>20, <1>21, <1>22, <1>23

\* The loop is over: a get finds nothing, a put is refused.
LEMMA EndKeeps ==
  ASSUME BInv, NEW t \in Threads, pc[t] # "idle", i[t] > count,
         NEW r \in {"null", "taken", "refused"}, Return(t, r), UNCHANGED <<freeq, overlap, held>>,
         pc[t] = "get" => r = "null",
         pc[t] = "put" => r = IF state = "open" /\ count = 0 THEN "taken" ELSE "refused"
  PROVE  BInv' /\ \A o \in AllObjects : Counted => ~Carries(t, o)
<1> USE DEF BInv
<1>1. /\ freeq' = freeq /\ overlap' = overlap /\ held' = held
      /\ pc' = [pc EXCEPT ![t] = "idle"] /\ i' = [i EXCEPT ![t] = 1]
      /\ ret' = [ret EXCEPT ![t] = r] /\ UNCHANGED <<life, obj>>
  BY DEF Return
<1>2. state # "filling"
  BY DEF Counting, Alone
<1>3. /\ AllObjects' = AllObjects /\ Counted' = Counted /\ Counting' /\ BlocksAccounted'
      /\ \A l : Objects(l)' = Objects(l)
  BY <1>1, <1>2, SameLife
<1>4. /\ state' = state /\ n' = n /\ max' = max /\ count' = count /\ pools' = pools
      /\ bank' = bank /\ lost' = lost /\ obj' = obj
  BY <1>1 DEF life
<1>5. ASSUME Counted, NEW o \in AllObjects, Carries(t, o)
      PROVE  FALSE
  <2>1. i[t] <= o[1]
    BY <1>5 DEF AtLeastOne
  <2>2. o[1] \in 1..Len(pools) /\ Len(pools) \in Nat
    BY ArrayFacts
  <2> QED BY <2>1, <2>2, <1>5 DEF Counted, Types
<1>6. Types'
  BY <1>1, <1>3, <1>4 DEF Types
<1>7. Loops' /\ Queues' /\ Looked'
  BY <1>1, <1>3, <1>4 DEF Loops, Queues, Looked, Types
<1>8. \A u \in Threads : \A o : Carries(u, o)' <=> Carries(u, o) /\ u # t
  BY <1>1 DEF Carries, Types
<1>9. AtMostOne'
  BY <1>1, <1>3, <1>8 DEF AtMostOne, Free
<1>10. AtLeastOne'
  <2>1. \A u \in Threads : u # t => i'[u] = i[u]
    BY <1>1 DEF Types
  <2> QED BY <2>1, <1>1, <1>3, <1>5, <1>8 DEF AtLeastOne, Free
<1>11. PutAnswersRight'
  <2> SUFFICES ASSUME Counted
               PROVE  /\ r = "refused" => obj[t] = Foreign
                      /\ r = "taken" /\ obj[t] = Foreign => pools = <<>>
    BY <1>1, <1>3, <1>4 DEF PutAnswersRight, Types
  <2>1. ASSUME pc[t] = "put" PROVE obj[t] = Foreign
    BY <2>1, <1>5 DEF Types, Carries
  <2>2. count = 0 => pools = <<>>
    <3>1. pools \in Seq(BOOLEAN) /\ count = Len(pools)
      BY DEF Types, Counted
    <3> QED BY <3>1, NothingIn
  <2>3. pc[t] = "get" \/ pc[t] = "put"
    BY DEF Types
  <2> QED BY <2>1, <2>2, <2>3
<1> QED BY <1>3, <1>5, <1>6, <1>7, <1>9, <1>10, <1>11

----------------------------------------------------------------------------
\* Without a bank there is nothing to keep.
LEMMA InitBInv == Init => BInv
<1> SUFFICES ASSUME Init PROVE BInv
  OBVIOUS
<1>1. pools = <<>> /\ freeq = <<>> /\ DOMAIN pools = {} /\ DOMAIN freeq = {} /\ Len(pools) = 0
  BY DEF Init
<1>2. pools \in Seq(BOOLEAN) /\ freeq \in Seq(Seq(Nat \X Nat)) /\ Len(freeq) = Len(pools)
  BY <1>1
<1>3. AllObjects = {}
  BY <1>1 DEF AllObjects
<1>4. Types
  BY <1>2, <1>3, BankAssumption DEF Init, Types
<1>5. Counting
  BY <1>1 DEF Init, Counting
<1>6. Loops /\ Queues /\ AtMostOne /\ AtLeastOne
  BY <1>1, <1>3 DEF Init, Loops, Queues, AtMostOne, AtLeastOne
<1>7. PutAnswersRight /\ Looked /\ BlocksAccounted
  BY <1>1 DEF Init, PutAnswersRight, Looked, BlocksAccounted
<1> QED BY <1>4, <1>5, <1>6, <1>7 DEF BInv

\* What a thread does in its call keeps the invariant, and the lost banks.
LEMMA CallKeeps ==
  ASSUME BInv, NEW t \in Threads,
         \/ GetBegin(t) \/ GetHit(t) \/ GetMiss(t) \/ GetNull(t)
         \/ PutBegin(t) \/ PutHit(t) \/ PutMiss(t) \/ PutEnd(t)
  PROVE  BInv' /\ lost' = lost
<1>1. CASE GetBegin(t)
  BY <1>1, GetBeginKeeps DEF GetBegin, Begin, life
<1>2. CASE GetHit(t)
  BY <1>2, GetHitKeeps DEF GetHit, Return, life
<1>3. CASE GetMiss(t)
  <2>1. pc[t] # "idle" /\ pc[t] # "put" /\ i[t] <= count /\ freeq[i[t]] = <<>> /\ NextPool(t)
    BY <1>3 DEF GetMiss
  <2>2. BInv'
    BY <2>1, NextPoolKeeps
  <2> QED BY <2>1, <2>2 DEF NextPool, life
<1>4. CASE GetNull(t)
  <2>1. /\ pc[t] # "idle" /\ pc[t] # "put" /\ i[t] > count /\ Return(t, "null")
        /\ UNCHANGED <<freeq, overlap, held>>
    BY <1>4 DEF GetNull
  <2>2. BInv'
    BY <2>1, EndKeeps
  <2> QED BY <2>1, <2>2 DEF Return, life
<1>5. CASE PutBegin(t)
  BY <1>5, PutBeginKeeps DEF PutBegin, Begin, life
<1>6. CASE PutHit(t)
  BY <1>6, PutHitKeeps DEF PutHit, Return, life
<1>7. CASE PutMiss(t)
  <2>1. pc[t] # "idle" /\ pc[t] # "get" /\ i[t] <= count /\ ~InPool(obj[t], i[t]) /\ NextPool(t)
    BY <1>7 DEF PutMiss
  <2>2. BInv'
    BY <2>1, NextPoolKeeps
  <2> QED BY <2>1, <2>2 DEF NextPool, life
<1>8. CASE PutEnd(t)
  <2> DEFINE r == IF state = "open" /\ count = 0 THEN "taken" ELSE "refused"
  <2>1. /\ pc[t] # "idle" /\ pc[t] # "get" /\ i[t] > count /\ Return(t, r)
        /\ UNCHANGED <<freeq, overlap, held>>
    BY <1>8 DEF PutEnd
  <2>2. r \in {"null", "taken", "refused"}
    OBVIOUS
  <2>3. BInv'
    BY <2>1, <2>2, EndKeeps
  <2> QED BY <2>1, <2>3 DEF Return, life
<1> QED BY <1>1, <1>2, <1>3, <1>4, <1>5, <1>6, <1>7, <1>8

\* Every step keeps the invariant.
LEMMA NextBInv == BInv /\ [Next]_vars => BInv'
<1> SUFFICES ASSUME BInv, [Next]_vars PROVE BInv'
  OBVIOUS
<1>1. CASE CreateBank
  BY <1>1, CreateBankKeeps
<1>2. CASE FillBank
  BY <1>2, FillBankKeeps
<1>3. CASE AddPool
  BY <1>3, AddPoolKeeps
<1>4. CASE DestroyBank
  BY <1>4, DestroyBankKeeps
<1>5. CASE \E t \in Threads :
             \/ GetBegin(t) \/ GetHit(t) \/ GetMiss(t) \/ GetNull(t)
             \/ PutBegin(t) \/ PutHit(t) \/ PutMiss(t) \/ PutEnd(t)
  BY <1>5, CallKeeps
<1>6. CASE UNCHANGED vars
  <2>1. /\ state' = state /\ n' = n /\ max' = max /\ count' = count /\ pools' = pools
        /\ heap' = heap /\ bank' = bank /\ lost' = lost /\ freeq' = freeq /\ pc' = pc /\ i' = i
        /\ obj' = obj /\ ret' = ret /\ overlap' = overlap /\ held' = held
    BY <1>6 DEF vars, life
  <2>2. AllObjects' = AllObjects
    BY <2>1 DEF AllObjects, Objects
  <2>3. Types' /\ Counting' /\ Loops' /\ Queues'
    BY <2>1, <2>2 DEF BInv, Types, Counting, Counted, Alone, Loops, Queues, Objects
  <2>4. AtMostOne' /\ AtLeastOne' /\ PutAnswersRight' /\ Looked'
    BY <2>1, <2>2
       DEF BInv, AtMostOne, AtLeastOne, Free, Carries, Counted, PutAnswersRight, Looked
  <2>5. BlocksAccounted'
    BY <2>1 DEF BInv, BlocksAccounted, Owned, Struct, Array, PoolBlocks
  <2> QED BY <2>3, <2>4, <2>5 DEF BInv
<1> QED BY <1>1, <1>2, <1>3, <1>4, <1>5, <1>6 DEF Next

\* The invariant holds in every state.
LEMMA BankInvariant == Spec => []BInv
BY InitBInv, NextBInv, PTL DEF Spec

----------------------------------------------------------------------------
\* Every variable keeps to its type: the counter stays in its 16 bits and no
\* loop index passes the array, whatever calls overlap.
THEOREM TypeCorrect == Spec => []TypeOK
<1>1. ASSUME BInv PROVE TypeOK
  <2>1. Types /\ Loops /\ count <= Len(pools) /\ Len(pools) \in Nat /\ count \in Nat
    BY <1>1, ArrayFacts, BankAssumption DEF BInv, Counting, Types
  <2>2. bank \in Nat /\ MaxBanks \in Nat /\ bank <= MaxBanks
    BY <2>1, BankAssumption DEF Types
  <2>3. lost \subseteq 1..MaxBanks
    BY <2>1, <2>2 DEF Types
  <2>4. \A t \in Threads : i[t] \in 1..(Len(pools) + 1)
    BY <2>1 DEF Types, Loops
  <2> QED BY <2>1, <2>3, <2>4 DEF Types, TypeOK
<1> QED BY <1>1, BankInvariant, PTL

\* However gets, puts and new pools interleave, no object of a bank is handed
\* out twice, and none disappears: it is in the queue of its pool, with a
\* client, or with a put that has not passed its pool yet.
THEOREM OneForEachObject == Spec => []ObjectsInOnePlace
<1>1. ASSUME BInv PROVE ObjectsInOnePlace
  <2> SUFFICES ASSUME Counted
               PROVE  LET Carriers(o) == {t \in Threads : pc[t] = "put" /\ obj[t] = o}
                      IN  /\ \A k \in DOMAIN freeq :
                               ToSet(freeq[k]) \subseteq Objects(k) /\ IsInjective(freeq[k])
                          /\ \A o \in AllObjects :
                               /\ (o \in ToSet(freeq[o[1]])) # (o \in held \/ Carriers(o) # {})
                               /\ Carriers(o) # {} =>
                                    o \notin held /\ \A t, u \in Carriers(o) : t = u
                               /\ \A t \in Carriers(o) : i[t] <= o[1]
    BY DEF ObjectsInOnePlace
  <2> DEFINE Carriers(o) == {t \in Threads : pc[t] = "put" /\ obj[t] = o}
  <2>1. \A k \in DOMAIN freeq : ToSet(freeq[k]) \subseteq Objects(k) /\ IsInjective(freeq[k])
    BY <1>1 DEF BInv, Queues
  <2>2. ASSUME NEW o \in AllObjects
        PROVE  /\ (o \in ToSet(freeq[o[1]])) # (o \in held \/ Carriers(o) # {})
               /\ Carriers(o) # {} => o \notin held /\ \A t, u \in Carriers(o) : t = u
               /\ \A t \in Carriers(o) : i[t] <= o[1]
    <3>1. /\ Free(o) \/ o \in held \/ \E t \in Threads : Carries(t, o)
          /\ \A t \in Threads : Carries(t, o) => i[t] <= o[1]
      BY <1>1, <2>2 DEF BInv, AtLeastOne
    <3>2. /\ Free(o) => o \notin held
          /\ \A t \in Threads : Carries(t, o) =>
               ~Free(o) /\ o \notin held /\ \A u \in Threads : Carries(u, o) => u = t
      BY <1>1, <2>2 DEF BInv, AtMostOne
    <3>3. \A t : t \in Carriers(o) <=> t \in Threads /\ Carries(t, o)
      BY DEF Carries
    <3>4. Free(o) <=> o \in ToSet(freeq[o[1]])
      BY DEF Free
    <3> HIDE DEF Carriers
    <3>5. Free(o) <=> ~(o \in held \/ Carriers(o) # {})
      BY <3>1, <3>2, <3>3
    <3> QED BY <3>1, <3>2, <3>3, <3>4, <3>5
  <2> QED BY <2>1, <2>2
<1> QED BY <1>1, BankInvariant, PTL

\* bank_put_ptr refuses no object of the bank and, unless the bank has no pool,
\* takes nothing else.
THEOREM PutAnswers == Spec => []PutAnswersRight
<1>1. BInv => PutAnswersRight
  BY DEF BInv
<1> QED BY <1>1, BankInvariant, PTL

\* Whichever allocation fails, what a bank uses is allocated and what is
\* allocated belongs to the bank or to one that is listed as lost.
THEOREM NoBlockAstray == Spec => []BlocksAccounted
<1>1. BInv => BlocksAccounted
  BY DEF BInv
<1> QED BY <1>1, BankInvariant, PTL

\* If no put overtook the search, NULL means that every pool is empty now.
THEOREM NullIsEmpty == Spec => NullMeansEmpty
<1>1. ASSUME BInv, [Next]_vars
      PROVE  [\A t \in Threads :
                pc[t] = "get" /\ pc'[t] = "idle" /\ ret'[t] = "null" /\ t \notin overlap /\ Counted
                  => \A k \in DOMAIN freeq : freeq[k] = <<>>]_vars
  <2> USE <1>1
  <2> SUFFICES ASSUME Next, NEW t \in Threads, pc[t] = "get", pc'[t] = "idle", ret'[t] = "null",
                      t \notin overlap, Counted, NEW k \in DOMAIN freeq
               PROVE  freeq[k] = <<>>
    OBVIOUS
  <2>1. Types /\ Looked
    BY DEF BInv
  <2>2. ~Alone
    BY DEF Alone
  <2>3. state # "filling"
    BY <2>2 DEF BInv, Counting
  <2>4. PICK u \in Threads :
          \/ GetBegin(u) \/ GetHit(u) \/ GetMiss(u) \/ GetNull(u)
          \/ PutBegin(u) \/ PutHit(u) \/ PutMiss(u) \/ PutEnd(u)
    BY <2>2, <2>3 DEF Next, CreateBank, FillBank, AddPool, DestroyBank
  <2>5. i[t] > count
    <3>1. CASE GetBegin(u) \/ PutBegin(u)
      BY <3>1, <2>1 DEF GetBegin, PutBegin, Begin, Types
    <3>2. CASE GetHit(u)
      BY <3>2, <2>1 DEF GetHit, Return, Types
    <3>3. CASE GetMiss(u) \/ PutMiss(u)
      BY <3>3 DEF GetMiss, PutMiss, NextPool
    <3>4. CASE GetNull(u)
      BY <3>4, <2>1 DEF GetNull, Return, Types
    <3>5. CASE PutHit(u) \/ PutEnd(u)
      BY <3>5, <2>1 DEF PutHit, PutEnd, Return, Types
    <3> QED BY <2>4, <3>1, <3>2, <3>3, <3>4, <3>5
  <2>6. k \in 1..Len(pools) /\ Len(pools) \in Nat
    BY <2>1, ArrayFacts
  <2>7. k < i[t]
    BY <2>1, <2>5, <2>6 DEF Counted, Types
  <2> QED BY <2>1, <2>7 DEF Looked
<1> QED BY <1>1, BankInvariant, PTL DEF Spec, NullMeansEmpty

\* Blocks are lost only where create_bank gives up after its first pool: no
\* other failed allocation leaks, and destroy_bank frees all there is.
THEOREM LeaksOnlyWhenLate == Spec => OnlyLateFailureLeaks
<1>1. ASSUME BInv, [Next]_vars
      PROVE  [lost' # lost /\ Counted => state = "filling" /\ Len(pools) > 0]_vars
  <2> SUFFICES ASSUME Next, lost' # lost, Counted
               PROVE  state = "filling" /\ Len(pools) > 0
    BY <1>1
  <2>1. ~CreateBank /\ ~AddPool /\ ~DestroyBank
    BY <1>1, CreateBankKeeps, AddPoolKeeps, DestroyBankKeeps
  <2>2. ASSUME NEW t \in Threads,
               \/ GetBegin(t) \/ GetHit(t) \/ GetMiss(t) \/ GetNull(t)
               \/ PutBegin(t) \/ PutHit(t) \/ PutMiss(t) \/ PutEnd(t)
        PROVE  FALSE
    BY <1>1, <2>2, CallKeeps
  <2>3. FillBank
    BY <2>1, <2>2 DEF Next
  <2> QED BY <1>1, <2>3, FillBankKeeps
<1> QED BY <1>1, BankInvariant, PTL DEF Spec, OnlyLateFailureLeaks

=============================================================================
