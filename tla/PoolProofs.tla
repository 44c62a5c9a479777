----------------------------- MODULE PoolProofs -----------------------------
(***************************************************************************)
(* Proofs about Pool: type correctness, and for any number of threads,     *)
(* objects and foreign addresses, that no object is lent twice or lost and *)
(* that the pool is a queue; and what the counter counts without races.    *)
(***************************************************************************)
EXTENDS Pool, TLAPS, FiniteSetTheorems

USE SizeAssumption, ForeignAssumption

----------------------------------------------------------------------------
(* Queues as sequences *)

\* put_fifo: the entry joins the queue and stays unique if it was not in it.
LEMMA AppendFacts ==
  ASSUME NEW S, NEW q \in Seq(S), NEW e \in S
  PROVE  /\ Append(q, e) \in Seq(S)
         /\ Len(Append(q, e)) = Len(q) + 1
         /\ Queued(Append(q, e)) = Queued(q) \cup {e}
         /\ Distinct(q) /\ e \notin Queued(q) => Distinct(Append(q, e))
<1>1. Append(q, e) \in Seq(S) /\ Len(Append(q, e)) = Len(q) + 1
  OBVIOUS
<1>2. Append(q, e)[Len(q) + 1] = e /\ \A i \in 1..Len(q) : Append(q, e)[i] = q[i]
  OBVIOUS
<1>3. Len(q) \in Nat
  OBVIOUS
<1>4. 1..(Len(q) + 1) = (1..Len(q)) \cup {Len(q) + 1}
  BY <1>3
<1>5. Queued(Append(q, e)) = Queued(q) \cup {e}
  BY <1>1, <1>2, <1>4 DEF Queued
<1>6. ASSUME Distinct(q), e \notin Queued(q)
      PROVE  Distinct(Append(q, e))
  BY <1>1, <1>2, <1>4, <1>6 DEF Distinct, Queued
<1> QED BY <1>1, <1>5, <1>6

\* get_fifo: the first entry leaves the queue and nothing else does.
LEMMA TailFacts ==
  ASSUME NEW S, NEW q \in Seq(S), q # <<>>
  PROVE  /\ Head(q) \in S /\ Head(q) \in Queued(q)
         /\ Tail(q) \in Seq(S)
         /\ Len(q) \in Nat /\ Len(Tail(q)) = Len(q) - 1
         /\ Distinct(q) => /\ Distinct(Tail(q))
                           /\ Queued(Tail(q)) = Queued(q) \ {Head(q)}
<1>1. Len(q) \in Nat \ {0} /\ Head(q) = q[1]
  OBVIOUS
<1>2. Tail(q) \in Seq(S) /\ Len(Tail(q)) = Len(q) - 1
  BY <1>1
<1>3. \A i \in 1..(Len(q) - 1) : Tail(q)[i] = q[i + 1]
  BY <1>1
<1>4. Head(q) \in S /\ Head(q) \in Queued(q)
  BY <1>1 DEF Queued
<1>5. ASSUME Distinct(q)
      PROVE  Distinct(Tail(q)) /\ Queued(Tail(q)) = Queued(q) \ {Head(q)}
  <2>1. Distinct(Tail(q))
    <3> SUFFICES ASSUME NEW i \in 1..(Len(q) - 1), NEW j \in 1..(Len(q) - 1),
                        q[i + 1] = q[j + 1]
                 PROVE  i = j
      BY <1>2, <1>3 DEF Distinct
    <3>1. i + 1 \in 1..Len(q) /\ j + 1 \in 1..Len(q)
      BY <1>1
    <3> QED BY <1>1, <1>5, <3>1 DEF Distinct
  <2>2. Queued(Tail(q)) = {q[i + 1] : i \in 1..(Len(q) - 1)}
    BY <1>2, <1>3 DEF Queued
  <2>3. ASSUME NEW i \in 1..(Len(q) - 1)
        PROVE  q[i + 1] \in Queued(q) \ {q[1]}
    <3>1. i + 1 \in 1..Len(q) /\ 1 \in 1..Len(q) /\ i + 1 # 1
      BY <1>1
    <3> QED BY <3>1, <1>5 DEF Queued, Distinct
  <2>4. ASSUME NEW k \in 1..Len(q), q[k] # q[1]
        PROVE  q[k] \in {q[i + 1] : i \in 1..(Len(q) - 1)}
    <3>1. k - 1 \in 1..(Len(q) - 1) /\ (k - 1) + 1 = k
      BY <1>1, <2>4
    <3> QED BY <3>1
  <2> QED BY <1>1, <2>1, <2>2, <2>3, <2>4 DEF Queued
<1> QED BY <1>1, <1>2, <1>4, <1>5

----------------------------------------------------------------------------
(* Type correctness *)

\* create_pool leaves a well-typed pool.
LEMMA InitTypeOK == Init => TypeOK
BY DEF Init, TypeOK, PCs, Results, Entries, Objs

\* What a return does to the locals.
LEMMA ReturnTyped ==
  ASSUME TypeOK, NEW t \in Threads, NEW r \in Results, Return(t, r)
  PROVE  /\ pc' \in [Threads -> PCs] /\ ret' \in [Threads -> Results]
         /\ ent' \in [Threads -> Entries] /\ obj' \in [Threads -> Objs]
         /\ tmp' \in [Threads -> 0..CountMod - 1]
<1>1. 1 \in Entries /\ Start \in Objs /\ 0 \in 0..(CountMod - 1) /\ "idle" \in PCs
  BY DEF Entries, Objs, PCs
<1>2. pc' \in [Threads -> PCs] /\ ret' \in [Threads -> Results]
  BY <1>1 DEF TypeOK, Return, Goto
<1>3. ent' \in [Threads -> Entries] /\ obj' \in [Threads -> Objs]
  BY <1>1 DEF TypeOK, Return
<1>4. tmp' \in [Threads -> 0..CountMod - 1]
  BY <1>1 DEF TypeOK, Return
<1> QED BY <1>2, <1>3, <1>4

\* No step of a get or put changes a type; Dec and Inc stay within the counter.
LEMMA NextTypeOK == TypeOK /\ [Next]_vars => TypeOK'
<1> SUFFICES ASSUME TypeOK, [Next]_vars PROVE TypeOK'
  OBVIOUS
<1>0. \A t \in Threads, r \in Results : Return(t, r) =>
        /\ pc' \in [Threads -> PCs] /\ ret' \in [Threads -> Results]
        /\ ent' \in [Threads -> Entries] /\ obj' \in [Threads -> Objs]
        /\ tmp' \in [Threads -> 0..CountMod - 1]
  BY ReturnTyped
<1>00. {"null", "object", "ok", "rejected", "weird"} \subseteq Results
  BY DEF Results
<1> USE DEF TypeOK, PCs, Goto
<1>1. ASSUME NEW t \in Threads, GetTake(t) PROVE TypeOK'
  <2>1. CASE pool_q = <<>>
    <3>1. Return(t, "null") /\ UNCHANGED <<pool_q, avail_q, ptr, n_q, held>>
      BY <1>1, <2>1 DEF GetTake
    <3> QED BY <1>0, <1>00, <3>1
  <2>2. CASE pool_q # <<>>
    <3>1. Head(pool_q) \in Entries /\ Tail(pool_q) \in Seq(Entries)
      BY <2>2, TailFacts
    <3>2. /\ ent' = [ent EXCEPT ![t] = Head(pool_q)] /\ pool_q' = Tail(pool_q)
          /\ pc' = [pc EXCEPT ![t] = "get_got"]
          /\ UNCHANGED <<obj, tmp, ret, avail_q, ptr, n_q, held>>
      BY ONLY <1>1, <2>2 DEF GetTake, Goto
    <3> QED BY <3>1, <3>2
  <2> QED BY <2>1, <2>2
<1>2. ASSUME NEW t \in Threads, GetPtr(t) PROVE TypeOK'
  <2>1. avail_q' \in Seq(Entries)
    BY <1>2, AppendFacts DEF GetPtr
  <2> QED BY <1>2, <2>1 DEF GetPtr
<1>3. ASSUME NEW t \in Threads, GetLoad(t) PROVE TypeOK'
  BY <1>3 DEF GetLoad
<1>4. ASSUME NEW t \in Threads, GetStore(t) PROVE TypeOK'
  <2>1. Dec(tmp[t]) \in 0..(CountMod - 1)
    BY DEF Dec
  <2>2. Return(t, "object")
    BY <1>4 DEF GetStore
  <2> QED BY <1>0, <1>00, <1>4, <2>1, <2>2 DEF GetStore
<1>5. ASSUME NEW t \in Threads, NEW a \in held \cup Foreign, Put(t, a) PROVE TypeOK'
  <2>1. CASE ~InPool(a)
    <3>1. Return(t, "rejected") /\ UNCHANGED <<pool_q, avail_q, ptr, n_q, held>>
      BY <1>5, <2>1 DEF Put
    <3> QED BY <1>0, <1>00, <3>1
  <2>2. CASE InPool(a)
    <3>1. a \in Objs
      BY <2>2 DEF InPool, EndAddr, Objs
    <3>2. /\ obj' = [obj EXCEPT ![t] = a] /\ held' = held \ {a}
          /\ pc' = [pc EXCEPT ![t] = "put_take"]
          /\ UNCHANGED <<ent, tmp, ret, pool_q, avail_q, ptr, n_q>>
      BY ONLY <1>5, <2>2 DEF Put, Goto
    <3> QED BY <3>1, <3>2
  <2> QED BY <2>1, <2>2
<1>6. ASSUME NEW t \in Threads, PutTake(t) PROVE TypeOK'
  <2>1. CASE avail_q = <<>>
    <3>1. Return(t, "weird") /\ UNCHANGED <<pool_q, avail_q, ptr, n_q, held>>
      BY <1>6, <2>1 DEF PutTake
    <3> QED BY <1>0, <1>00, <3>1
  <2>2. CASE avail_q # <<>>
    <3>1. Head(avail_q) \in Entries /\ Tail(avail_q) \in Seq(Entries)
      BY <2>2, TailFacts
    <3> QED BY <1>6, <2>2, <3>1 DEF PutTake
  <2> QED BY <2>1, <2>2
<1>7. ASSUME NEW t \in Threads, PutPtr(t) PROVE TypeOK'
  <2>1. pool_q' \in Seq(Entries)
    BY <1>7, AppendFacts DEF PutPtr
  <2> QED BY <1>7, <2>1 DEF PutPtr
<1>8. ASSUME NEW t \in Threads, PutLoad(t) PROVE TypeOK'
  BY <1>8 DEF PutLoad
<1>9. ASSUME NEW t \in Threads, PutStore(t) PROVE TypeOK'
  <2>1. Inc(tmp[t]) \in 0..(CountMod - 1)
    BY DEF Inc
  <2>2. Return(t, "ok")
    BY <1>9 DEF PutStore
  <2> QED BY <1>0, <1>00, <1>9, <2>1, <2>2 DEF PutStore
<1>10. CASE UNCHANGED vars
  BY <1>10 DEF vars
<1> QED BY <1>1, <1>2, <1>3, <1>4, <1>5, <1>6, <1>7, <1>8, <1>9, <1>10
        DEF Next, Step

\* Every variable keeps its type: in particular the counter stays a uint16_t
\* and every ptr field is the address of an object of this pool (pool.c:8).
THEOREM TypeCorrect == Spec => []TypeOK
BY InitTypeOK, NextTypeOK, PTL DEF Spec

----------------------------------------------------------------------------
(* Each entry is in one place *)

\* A step that touches neither queue nor takes an entry in hand.
LEMMA EntriesApartStable ==
  ASSUME EntriesApart, UNCHANGED <<pool_q, avail_q>>,
         \A u \in Threads : InHand(u)' => InHand(u) /\ ent'[u] = ent[u]
  PROVE  EntriesApart'
<1>1. /\ Queued(pool_q') = Queued(pool_q) /\ Queued(avail_q') = Queued(avail_q)
      /\ Distinct(pool_q') /\ Distinct(avail_q')
  BY DEF EntriesApart
<1> QED BY <1>1 DEF EntriesApart

\* A call takes its entry out of a queue and is the only one to queue it again.
LEMMA NextEntriesApart == TypeOK /\ EntriesApart /\ [Next]_vars => EntriesApart'
<1> SUFFICES ASSUME TypeOK, EntriesApart, [Next]_vars PROVE EntriesApart'
  OBVIOUS
<1>a. /\ Distinct(pool_q) /\ Distinct(avail_q)
      /\ pool_q \in Seq(Entries) /\ avail_q \in Seq(Entries)
      /\ pc \in [Threads -> PCs] /\ ent \in [Threads -> Entries]
  BY DEF EntriesApart, TypeOK
<1>b. pc \in [Threads -> PCs] /\ ent \in [Threads -> Entries]
  BY DEF TypeOK
<1> USE DEF Goto, Return, PCs
<1>1. ASSUME NEW t \in Threads, GetTake(t) PROVE EntriesApart'
  <2>1. CASE pool_q = <<>>
    <3>1. Return(t, "null") /\ UNCHANGED <<pool_q, avail_q>>
      BY <1>1, <2>1 DEF GetTake
    <3> QED BY <1>a, <3>1, EntriesApartStable DEF InHand
  <2>2. CASE pool_q # <<>>
    <3>1. /\ Head(pool_q) \in Queued(pool_q)
          /\ Queued(pool_q') = Queued(pool_q) \ {Head(pool_q)}
          /\ Distinct(pool_q')
      <4>1. pool_q' = Tail(pool_q)
        BY <1>1, <2>2 DEF GetTake
      <4> QED BY <1>a, <2>2, <4>1, TailFacts
    <3>2. avail_q' = avail_q
      BY <1>1 DEF GetTake
    <3>3. /\ ent' = [ent EXCEPT ![t] = Head(pool_q)]
          /\ pc' = [pc EXCEPT ![t] = "get_got"]
      BY <1>1, <2>2 DEF GetTake
    <3>4. ent'[t] = Head(pool_q)
      BY <1>b, <3>3
    <3>5. \A u \in Threads : InHand(u)' =>
            u = t \/ (InHand(u) /\ ent'[u] = ent[u])
      BY <1>b, <3>3 DEF InHand
    <3>6. Queued(pool_q') \subseteq Queued(pool_q) /\ Queued(avail_q') \subseteq Queued(avail_q)
      BY <3>1, <3>2
    <3>7. ent'[t] \notin Queued(pool_q') \cup Queued(avail_q')
      BY <3>1, <3>2, <3>4 DEF EntriesApart
    <3>8. \A u \in Threads : u # t /\ InHand(u)' => ent'[u] # ent'[t]
      BY <3>1, <3>4, <3>5 DEF EntriesApart
    <3> QED BY <3>1, <3>2, <3>5, <3>6, <3>7, <3>8 DEF EntriesApart
  <2> QED BY <2>1, <2>2
<1>2. ASSUME NEW t \in Threads, GetPtr(t) PROVE EntriesApart'
  <2>1. ent[t] \notin Queued(avail_q)
    BY <1>2 DEF GetPtr, EntriesApart, InHand
  <2>2. Queued(avail_q') = Queued(avail_q) \cup {ent[t]} /\ Distinct(avail_q')
    BY <1>2, <1>a, <2>1, AppendFacts DEF GetPtr
  <2>3. pool_q' = pool_q
    BY <1>2 DEF GetPtr
  <2> QED BY <1>2, <1>a, <2>2, <2>3 DEF GetPtr, EntriesApart, InHand
<1>3. ASSUME NEW t \in Threads, GetLoad(t) PROVE EntriesApart'
  BY <1>3, <1>a, EntriesApartStable DEF GetLoad, InHand
<1>4. ASSUME NEW t \in Threads, GetStore(t) PROVE EntriesApart'
  BY <1>4, <1>a, EntriesApartStable DEF GetStore, InHand
<1>5. ASSUME NEW t \in Threads, NEW a \in held \cup Foreign, Put(t, a)
      PROVE  EntriesApart'
  <2>1. CASE ~InPool(a)
    <3>1. Return(t, "rejected") /\ UNCHANGED <<pool_q, avail_q>>
      BY <1>5, <2>1 DEF Put
    <3> QED BY <1>a, <3>1, EntriesApartStable DEF InHand
  <2>2. CASE InPool(a)
    BY <1>5, <1>a, <2>2, EntriesApartStable DEF Put, InHand
  <2> QED BY <2>1, <2>2
<1>6. ASSUME NEW t \in Threads, PutTake(t) PROVE EntriesApart'
  <2>1. CASE avail_q = <<>>
    <3>1. Return(t, "weird") /\ UNCHANGED <<pool_q, avail_q>>
      BY <1>6, <2>1 DEF PutTake
    <3> QED BY <1>a, <3>1, EntriesApartStable DEF InHand
  <2>2. CASE avail_q # <<>>
    <3>1. /\ Head(avail_q) \in Queued(avail_q)
          /\ Queued(avail_q') = Queued(avail_q) \ {Head(avail_q)}
          /\ Distinct(avail_q')
      <4>1. avail_q' = Tail(avail_q)
        BY <1>6, <2>2 DEF PutTake
      <4> QED BY <1>a, <2>2, <4>1, TailFacts
    <3>2. pool_q' = pool_q
      BY <1>6 DEF PutTake
    <3>3. /\ ent' = [ent EXCEPT ![t] = Head(avail_q)]
          /\ pc' = [pc EXCEPT ![t] = "put_got"]
      BY <1>6, <2>2 DEF PutTake
    <3>4. ent'[t] = Head(avail_q)
      BY <1>b, <3>3
    <3>5. \A u \in Threads : InHand(u)' =>
            u = t \/ (InHand(u) /\ ent'[u] = ent[u])
      BY <1>b, <3>3 DEF InHand
    <3>6. Queued(pool_q') \subseteq Queued(pool_q) /\ Queued(avail_q') \subseteq Queued(avail_q)
      BY <3>1, <3>2
    <3>7. ent'[t] \notin Queued(pool_q') \cup Queued(avail_q')
      BY <3>1, <3>2, <3>4 DEF EntriesApart
    <3>8. \A u \in Threads : u # t /\ InHand(u)' => ent'[u] # ent'[t]
      BY <3>1, <3>4, <3>5 DEF EntriesApart
    <3> QED BY <3>1, <3>2, <3>5, <3>6, <3>7, <3>8 DEF EntriesApart
  <2> QED BY <2>1, <2>2
<1>7. ASSUME NEW t \in Threads, PutPtr(t) PROVE EntriesApart'
  <2>1. ent[t] \notin Queued(pool_q)
    BY <1>7 DEF PutPtr, EntriesApart, InHand
  <2>2. Queued(pool_q') = Queued(pool_q) \cup {ent[t]} /\ Distinct(pool_q')
    BY <1>7, <1>a, <2>1, AppendFacts DEF PutPtr
  <2>3. avail_q' = avail_q
    BY <1>7 DEF PutPtr
  <2> QED BY <1>7, <1>a, <2>2, <2>3 DEF PutPtr, EntriesApart, InHand
<1>8. ASSUME NEW t \in Threads, PutLoad(t) PROVE EntriesApart'
  BY <1>8, <1>a, EntriesApartStable DEF PutLoad, InHand
<1>9. ASSUME NEW t \in Threads, PutStore(t) PROVE EntriesApart'
  BY <1>9, <1>a, EntriesApartStable DEF PutStore, InHand
<1>10. CASE UNCHANGED vars
  BY <1>10, EntriesApartStable DEF vars, InHand
<1> QED BY <1>1, <1>2, <1>3, <1>4, <1>5, <1>6, <1>7, <1>8, <1>9, <1>10
        DEF Next, Step

----------------------------------------------------------------------------
(* No object is in two places *)

\* How the steps that move an entry change the set of loaded entries.
LEMMA LoadedGetTake ==
  ASSUME TypeOK, EntriesApart, NEW t \in Threads, GetTake(t)
  PROVE  Loaded' = Loaded
<1>a. /\ pc \in [Threads -> PCs] /\ ent \in [Threads -> Entries]
      /\ pc[t] = "idle"
  BY DEF TypeOK, GetTake
<1>1. CASE pool_q = <<>>
  <2>1. pool_q' = pool_q /\ pc' = pc /\ ent' = [ent EXCEPT ![t] = 1]
    <3>1. Return(t, "null") /\ pool_q' = pool_q
      BY <1>1 DEF GetTake
    <3>2. pc' = [pc EXCEPT ![t] = "idle"] /\ ent' = [ent EXCEPT ![t] = 1]
      BY <3>1 DEF Return, Goto
    <3> QED BY <1>a, <3>1, <3>2
  <2>2. Queued(pool_q') = Queued(pool_q)
    BY <2>1
  <2>3. \A u \in Threads : pc[u] = "get_got" => ent'[u] = ent[u]
    BY <1>a, <2>1
  <2> QED BY <2>1, <2>2, <2>3 DEF Loaded
<1>2. CASE pool_q # <<>>
  <2>1. /\ pool_q' = Tail(pool_q)
        /\ ent' = [ent EXCEPT ![t] = Head(pool_q)]
        /\ pc' = [pc EXCEPT ![t] = "get_got"]
    BY <1>2 DEF GetTake, Goto
  <2>2. Head(pool_q) \in Queued(pool_q)
    BY <1>2, TailFacts DEF TypeOK
  <2>3. Queued(pool_q') = Queued(pool_q) \ {Head(pool_q)}
    BY <1>2, <2>1, TailFacts DEF TypeOK, EntriesApart
  <2>4. {ent'[v] : v \in {u \in Threads : pc'[u] = "get_got"}}
          = {Head(pool_q)} \cup {ent[v] : v \in {u \in Threads : pc[u] = "get_got"}}
    BY <1>a, <2>1
  <2> QED BY <2>2, <2>3, <2>4 DEF Loaded
<1> QED BY <1>1, <1>2

\* Queueing the entry in avail_q takes its object out of the loaded ones.
LEMMA LoadedGetPtr ==
  ASSUME TypeOK, EntriesApart, NEW t \in Threads, GetPtr(t)
  PROVE  ent[t] \in Loaded /\ Loaded' = Loaded \ {ent[t]}
<1>1. /\ pc \in [Threads -> PCs] /\ pc[t] = "get_got"
      /\ pool_q' = pool_q /\ ent' = ent /\ pc' = [pc EXCEPT ![t] = "get_load"]
  BY DEF TypeOK, GetPtr, Goto
<1>2. \A u \in Threads : pc[u] = "get_got" /\ ent[u] = ent[t] => u = t
  BY <1>1 DEF EntriesApart, InHand
<1>3. ent[t] \notin Queued(pool_q)
  BY <1>1 DEF EntriesApart, InHand
<1>4. Queued(pool_q') = Queued(pool_q)
  BY <1>1
<1> QED BY <1>1, <1>2, <1>3, <1>4 DEF Loaded

\* Queueing the entry in pool_q makes its new object a loaded one.
LEMMA LoadedPutPtr ==
  ASSUME TypeOK, EntriesApart, NEW t \in Threads, PutPtr(t)
  PROVE  ent[t] \notin Loaded /\ Loaded' = Loaded \cup {ent[t]}
<1>1. /\ pc \in [Threads -> PCs] /\ pc[t] = "put_got" /\ ent \in [Threads -> Entries]
      /\ pool_q' = Append(pool_q, ent[t]) /\ ent' = ent
      /\ pc' = [pc EXCEPT ![t] = "put_load"]
  BY DEF TypeOK, PutPtr, Goto
<1>2. \A u \in Threads : pc[u] = "get_got" => ent[u] # ent[t]
  BY <1>1 DEF EntriesApart, InHand
<1>3. ent[t] \notin Queued(pool_q)
  BY <1>1 DEF EntriesApart, InHand
<1>4. Queued(pool_q') = Queued(pool_q) \cup {ent[t]}
  BY <1>1, AppendFacts DEF TypeOK
<1> QED BY <1>1, <1>2, <1>3, <1>4 DEF Loaded

\* The other steps leave the loaded entries alone.
LEMMA LoadedStable ==
  ASSUME pool_q' = pool_q,
         \A u \in Threads : /\ pc'[u] = "get_got" <=> pc[u] = "get_got"
                            /\ pc[u] = "get_got" => ent'[u] = ent[u]
  PROVE  Loaded' = Loaded
<1>1. Queued(pool_q') = Queued(pool_q)
  OBVIOUS
<1> QED BY <1>1 DEF Loaded

\* What passes the range check is an object the client holds.
LEMMA OnlyHeldInPool ==
  ASSUME NEW a \in held \cup Foreign, InPool(a) PROVE a \in held
<1>1. SUFFICES a \notin Foreign
  OBVIOUS
<1>2. ASSUME a \in Nat PROVE a \in Start..(Start + PSz - 1)
  BY <1>2 DEF InPool, EndAddr
<1> QED BY <1>2

\* A step that brings no object into a new place.
LEMMA LendStable ==
  ASSUME NoDoubleLending, ptr' = ptr, Loaded' \subseteq Loaded, held' \subseteq held,
         \A u \in Threads : Carries(u)' => Carries(u) /\ obj'[u] = obj[u]
  PROVE  NoDoubleLending'
BY DEF NoDoubleLending

\* No step puts an object in a second place.
LEMMA NextNoDoubleLending ==
  TypeOK /\ EntriesApart /\ NoDoubleLending /\ [Next]_vars => NoDoubleLending'
<1> SUFFICES ASSUME TypeOK, EntriesApart, NoDoubleLending, [Next]_vars
             PROVE  NoDoubleLending'
  OBVIOUS
<1> USE DEF Goto, Return
<1>a. /\ pc \in [Threads -> PCs] /\ ent \in [Threads -> Entries]
      /\ obj \in [Threads -> Objs] /\ ptr \in [Entries -> Objs]
  BY DEF TypeOK
<1>1. ASSUME NEW t \in Threads, GetTake(t) PROVE NoDoubleLending'
  <2>1. \A u \in Threads : Carries(u)' => Carries(u) /\ obj'[u] = obj[u]
    BY <1>1, <1>a DEF GetTake, Carries
  <2>2. ptr' = ptr /\ held' = held
    BY <1>1 DEF GetTake
  <2> QED BY <1>1, <2>1, <2>2, LoadedGetTake, LendStable
<1>2. ASSUME NEW t \in Threads, GetPtr(t) PROVE NoDoubleLending'
  <2>1. ent[t] \in Loaded /\ Loaded' = Loaded \ {ent[t]}
    BY <1>2, LoadedGetPtr
  <2>2. /\ ptr' = ptr /\ held' = held /\ obj'[t] = ptr[ent[t]]
        /\ \A u \in Threads \ {t} : obj'[u] = obj[u] /\ (Carries(u)' <=> Carries(u))
    BY <1>2, <1>a DEF GetPtr, Carries
  <2> QED BY <2>1, <2>2 DEF NoDoubleLending
<1>3. ASSUME NEW t \in Threads, GetLoad(t) PROVE NoDoubleLending'
  <2>1. Loaded' = Loaded
    BY <1>3, <1>a, LoadedStable DEF GetLoad
  <2> QED BY <1>3, <1>a, <2>1, LendStable DEF GetLoad, Carries
<1>4. ASSUME NEW t \in Threads, GetStore(t) PROVE NoDoubleLending'
  <2>1. Loaded' = Loaded
    BY <1>4, <1>a, LoadedStable DEF GetStore
  <2>2. /\ Carries(t) /\ ~Carries(t)' /\ ptr' = ptr /\ held' = held \cup {obj[t]}
        /\ \A u \in Threads \ {t} : obj'[u] = obj[u] /\ (Carries(u)' <=> Carries(u))
    BY <1>4, <1>a DEF GetStore, Carries
  <2> QED BY <2>1, <2>2 DEF NoDoubleLending
<1>5. ASSUME NEW t \in Threads, NEW a \in held \cup Foreign, Put(t, a)
      PROVE  NoDoubleLending'
  <2>1. Loaded' = Loaded
    BY <1>5, <1>a, LoadedStable DEF Put
  <2>2. CASE ~InPool(a)
    BY <1>5, <1>a, <2>1, <2>2, LendStable DEF Put, Carries
  <2>3. CASE InPool(a)
    <3>1. a \in held
      BY <2>3, OnlyHeldInPool
    <3>2. /\ ptr' = ptr /\ held' = held \ {a} /\ obj'[t] = a
          /\ \A u \in Threads \ {t} : obj'[u] = obj[u] /\ (Carries(u)' <=> Carries(u))
      BY <1>5, <1>a, <2>3 DEF Put, Carries
    <3> QED BY <2>1, <3>1, <3>2 DEF NoDoubleLending
  <2> QED BY <2>2, <2>3
<1>6. ASSUME NEW t \in Threads, PutTake(t) PROVE NoDoubleLending'
  <2>1. Loaded' = Loaded
    BY <1>6, <1>a, LoadedStable DEF PutTake
  <2> QED BY <1>6, <1>a, <2>1, LendStable DEF PutTake, Carries
<1>7. ASSUME NEW t \in Threads, PutPtr(t) PROVE NoDoubleLending'
  <2>1. ent[t] \notin Loaded /\ Loaded' = Loaded \cup {ent[t]}
    BY <1>7, LoadedPutPtr
  <2>2. /\ Carries(t) /\ ~Carries(t)' /\ obj' = obj /\ held' = held
        /\ ptr'[ent[t]] = obj[t] /\ \A e \in Entries \ {ent[t]} : ptr'[e] = ptr[e]
        /\ \A u \in Threads \ {t} : Carries(u)' <=> Carries(u)
    BY <1>7, <1>a DEF PutPtr, Carries
  <2>3. Loaded \subseteq Entries
    BY DEF Loaded, Queued, TypeOK
  <2> QED BY <2>1, <2>2, <2>3 DEF NoDoubleLending
<1>8. ASSUME NEW t \in Threads, PutLoad(t) PROVE NoDoubleLending'
  <2>1. Loaded' = Loaded
    BY <1>8, <1>a, LoadedStable DEF PutLoad
  <2> QED BY <1>8, <1>a, <2>1, LendStable DEF PutLoad, Carries
<1>9. ASSUME NEW t \in Threads, PutStore(t) PROVE NoDoubleLending'
  <2>1. Loaded' = Loaded
    BY <1>9, <1>a, LoadedStable DEF PutStore
  <2> QED BY <1>9, <1>a, <2>1, LendStable DEF PutStore, Carries
<1>10. CASE UNCHANGED vars
  <2>1. Loaded' = Loaded
    BY <1>10, LoadedStable DEF vars
  <2> QED BY <1>10, <2>1, LendStable DEF vars, Carries
<1> QED BY <1>1, <1>2, <1>3, <1>4, <1>5, <1>6, <1>7, <1>8, <1>9, <1>10
        DEF Next, Step

----------------------------------------------------------------------------
(* An entry without an object waits in avail_q for every object outside *)

\* As many objects are out as a number can tell.
LEMMA OutFinite == TypeOK => IsFiniteSet(Out) /\ Cardinality(Out) \in Nat
<1> SUFFICES ASSUME TypeOK PROVE IsFiniteSet(Out)
  BY FS_CardinalityType
<1>1. Out \subseteq Objs
  BY DEF Out, TypeOK
<1>2. IsFiniteSet(Objs)
  BY FS_Interval DEF Objs
<1> QED BY <1>1, <1>2, FS_Subset

\* The steps that neither move an object in or out nor an entry in avail_q.
LEMMA OutStable ==
  ASSUME held' = held,
         \A u \in Threads :
           /\ pc'[u] \in {"get_load", "get_store", "put_take"} <=>
                pc[u] \in {"get_load", "get_store", "put_take"}
           /\ pc[u] \in {"get_load", "get_store", "put_take"} => obj'[u] = obj[u]
  PROVE  Out' = Out
BY DEF Out

\* A put in progress is itself an object outside, so avail_q is not empty.
LEMMA EntryForEveryPut ==
  ASSUME TypeOK, Balance, NEW t \in Threads, pc[t] = "put_take"
  PROVE  avail_q # <<>>
<1>1. obj[t] \in Out
  BY DEF Out
<1>2. Len(<<>>) = 0
  OBVIOUS
<1> QED BY <1>1, <1>2, OutFinite, FS_EmptySet DEF Balance

\* avail_q grows and shrinks by one entry together with the objects that are out.
LEMMA NextBalance ==
  TypeOK /\ NoDoubleLending /\ Balance /\ [Next]_vars => Balance'
<1> SUFFICES ASSUME TypeOK, NoDoubleLending, Balance, [Next]_vars
             PROVE  Balance'
  OBVIOUS
<1> USE DEF Goto, Return
<1>a. /\ pc \in [Threads -> PCs] /\ ent \in [Threads -> Entries]
      /\ obj \in [Threads -> Objs] /\ ptr \in [Entries -> Objs]
  BY DEF TypeOK
<1>b. Out' = Out /\ avail_q' = avail_q => Balance'
  BY DEF Balance
<1>1. ASSUME NEW t \in Threads, GetTake(t) PROVE Balance'
  BY <1>1, <1>a, <1>b, OutStable DEF GetTake
<1>2. ASSUME NEW t \in Threads, GetPtr(t) PROVE Balance'
  <2>1. ptr[ent[t]] \notin Out
    BY <1>2 DEF GetPtr, NoDoubleLending, Loaded, Out, Carries
  <2>2. Out' = Out \cup {ptr[ent[t]]}
    BY <1>2, <1>a DEF GetPtr, Out
  <2>3. Cardinality(Out') = Cardinality(Out) + 1
    BY <2>1, <2>2, OutFinite, FS_AddElement
  <2>4. Len(avail_q') = Len(avail_q) + 1
    BY <1>2, AppendFacts DEF GetPtr, TypeOK
  <2> QED BY <2>3, <2>4 DEF Balance
<1>3. ASSUME NEW t \in Threads, GetLoad(t) PROVE Balance'
  BY <1>3, <1>a, <1>b, OutStable DEF GetLoad
<1>4. ASSUME NEW t \in Threads, GetStore(t) PROVE Balance'
  <2>1. Out' = Out
    BY <1>4, <1>a DEF GetStore, Out
  <2> QED BY <1>4, <1>b, <2>1 DEF GetStore
<1>5. ASSUME NEW t \in Threads, NEW a \in held \cup Foreign, Put(t, a)
      PROVE  Balance'
  <2>1. CASE ~InPool(a)
    BY <1>5, <1>a, <1>b, <2>1, OutStable DEF Put
  <2>2. CASE InPool(a)
    <3>1. a \in held
      BY <2>2, OnlyHeldInPool
    <3>2. Out' = Out
      BY <1>5, <1>a, <2>2, <3>1 DEF Put, Out
    <3> QED BY <1>5, <1>b, <3>2 DEF Put
  <2> QED BY <2>1, <2>2
<1>6. ASSUME NEW t \in Threads, PutTake(t) PROVE Balance'
  <2>1. avail_q # <<>>
    BY <1>6, EntryForEveryPut DEF PutTake
  <2>2. obj[t] \in Out
    BY <1>6 DEF PutTake, Out
  <2>3. Out' = Out \ {obj[t]}
    BY <1>6, <1>a, <2>1 DEF PutTake, Out, NoDoubleLending, Carries
  <2>4. Cardinality(Out') = Cardinality(Out) - 1
    BY <2>2, <2>3, OutFinite, FS_RemoveElement
  <2>5. avail_q' = Tail(avail_q)
    BY <1>6, <2>1 DEF PutTake
  <2>6. Len(avail_q') = Len(avail_q) - 1
    BY <2>1, <2>5, TailFacts DEF TypeOK
  <2> QED BY <2>4, <2>6 DEF Balance
<1>7. ASSUME NEW t \in Threads, PutPtr(t) PROVE Balance'
  BY <1>7, <1>a, <1>b, OutStable DEF PutPtr
<1>8. ASSUME NEW t \in Threads, PutLoad(t) PROVE Balance'
  BY <1>8, <1>a, <1>b, OutStable DEF PutLoad
<1>9. ASSUME NEW t \in Threads, PutStore(t) PROVE Balance'
  BY <1>9, <1>a, <1>b, OutStable DEF PutStore
<1>10. CASE UNCHANGED vars
  BY <1>10, <1>b, OutStable DEF vars
<1> QED BY <1>1, <1>2, <1>3, <1>4, <1>5, <1>6, <1>7, <1>8, <1>9, <1>10
        DEF Next, Step

\* A put that carries an object finds an entry, for its object is one of those out.
LEMMA NextPutNeverWeird ==
  TypeOK /\ Balance /\ PutNeverWeird /\ [Next]_vars => PutNeverWeird'
<1> SUFFICES ASSUME TypeOK, Balance, PutNeverWeird, [Next]_vars
             PROVE  PutNeverWeird'
  OBVIOUS
<1> USE DEF Goto, Return
<1>a. ret \in [Threads -> Results]
  BY DEF TypeOK
<1>1. ASSUME NEW t \in Threads, PutTake(t) PROVE PutNeverWeird'
  <2>1. avail_q # <<>>
    BY <1>1, EntryForEveryPut DEF PutTake
  <2> QED BY <1>1, <2>1 DEF PutTake, PutNeverWeird
<1>2. ASSUME NEW t \in Threads, NEW r \in Results \ {"weird"},
             ret' = ret \/ ret' = [ret EXCEPT ![t] = r]
      PROVE  PutNeverWeird'
  BY <1>a, <1>2 DEF PutNeverWeird
<1>3. CASE UNCHANGED vars
  BY <1>3 DEF vars, PutNeverWeird
<1> QED BY <1>1, <1>2, <1>3
        DEF Next, Step, GetTake, GetPtr, GetLoad, GetStore, Put, PutPtr,
            PutLoad, PutStore, Results

----------------------------------------------------------------------------
(* The inductive invariant *)

\* The invariant holds when create_pool returns.
LEMMA InitIInv == Init => IInv
<1> SUFFICES ASSUME Init PROVE IInv
  OBVIOUS
<1>1. TypeOK
  BY InitTypeOK
<1>2. /\ Len(pool_q) = PSz /\ avail_q = <<>> /\ Len(avail_q) = 0
      /\ \A i \in 1..PSz : pool_q[i] = i
  BY DEF Init
<1>3. Queued(avail_q) = {} /\ Queued(pool_q) = Entries
  BY <1>2 DEF Queued, Entries
<1>4. EntriesApart
  BY <1>2, <1>3 DEF Init, EntriesApart, Distinct, InHand
<1>5. NoDoubleLending
  <2>1. Loaded = Entries /\ held = {} /\ \A t \in Threads : ~Carries(t)
    BY <1>3 DEF Init, Loaded, Carries
  <2>2. \A e \in Entries : ptr[e] = Start + e - 1 /\ e \in Nat
    BY DEF Init, Entries
  <2>3. \A e, f \in Entries : e # f => ptr[e] # ptr[f]
    BY <2>2
  <2> QED BY <2>1, <2>3 DEF NoDoubleLending
<1>6. Balance
  <2>1. Out = {}
    BY DEF Init, Out
  <2> QED BY <1>2, <2>1, FS_EmptySet DEF Balance
<1> QED BY <1>1, <1>4, <1>5, <1>6 DEF IInv, PutNeverWeird, Init

\* Every step preserves the invariant.
LEMMA NextIInv == IInv /\ [Next]_vars => IInv'
BY NextTypeOK, NextEntriesApart, NextNoDoubleLending, NextBalance, NextPutNeverWeird
   DEF IInv

\* The inductive invariant behind the results below.
THEOREM Invariant == Spec => []IInv
BY InitIInv, NextIInv, PTL DEF Spec

\* No interleaving of any number of pool_get_ptr and pool_put_ptr calls puts
\* one object in two places: two entries, two calls or two clients (pool.c:65).
THEOREM LentOnce == Spec => []NoDoubleLending
<1>1. IInv => NoDoubleLending
  BY DEF IInv
<1> QED BY <1>1, Invariant, PTL

\* The "weird" branch of pool_put_ptr (pool.c:101) is dead code while clients
\* put back what they got.
THEOREM WeirdIsDead == Spec => []PutNeverWeird
<1>1. IInv => PutNeverWeird
  BY DEF IInv
<1> QED BY <1>1, Invariant, PTL

----------------------------------------------------------------------------
(* No object is lost *)

\* The objects of the pool's own entries, of clients and of calls.
LEMMA InitNoLeak == Init => NoLeak
<1> SUFFICES ASSUME Init PROVE NoLeak
  OBVIOUS
<1>1. Queued(pool_q) = Entries
  BY DEF Init, Queued, Entries
<1>2. Loaded = Entries
  BY <1>1 DEF Init, Loaded
<1>3. Objs = {ptr[e] : e \in Entries}
  <2>1. ASSUME NEW a \in Objs
        PROVE  a - Start + 1 \in Entries /\ ptr[a - Start + 1] = a
    BY DEF Init, Objs, Entries
  <2>2. \A e \in Entries : ptr[e] \in Objs
    BY DEF Init, Objs, Entries
  <2> QED BY <2>1, <2>2
<1> QED BY <1>2, <1>3 DEF Init, NoLeak, Carries

\* No step drops an object.
LEMMA NextNoLeak == IInv /\ NoLeak /\ [Next]_vars => NoLeak'
<1> SUFFICES ASSUME IInv, NoLeak, [Next]_vars PROVE NoLeak'
  OBVIOUS
<1> USE DEF Goto, Return
<1>a. /\ pc \in [Threads -> PCs] /\ ent \in [Threads -> Entries]
      /\ obj \in [Threads -> Objs] /\ ptr \in [Entries -> Objs]
      /\ TypeOK /\ EntriesApart
  BY DEF IInv, TypeOK
<1>b. ASSUME ptr' = ptr, held' = held, Loaded' = Loaded,
             \A u \in Threads : /\ Carries(u)' <=> Carries(u)
                                /\ Carries(u) => obj'[u] = obj[u]
      PROVE  NoLeak'
  BY <1>b DEF NoLeak
<1>1. ASSUME NEW t \in Threads, GetTake(t) PROVE NoLeak'
  <2>1. Loaded' = Loaded
    BY <1>1, <1>a, LoadedGetTake
  <2> QED BY <1>1, <1>a, <1>b, <2>1 DEF GetTake, Carries
<1>2. ASSUME NEW t \in Threads, GetPtr(t) PROVE NoLeak'
  <2>1. ent[t] \in Loaded /\ Loaded' = Loaded \ {ent[t]}
    BY <1>2, <1>a, LoadedGetPtr
  <2>2. /\ ptr' = ptr /\ held' = held /\ obj'[t] = ptr[ent[t]]
        /\ Carries(t)' /\ ~Carries(t)
        /\ \A u \in Threads \ {t} : obj'[u] = obj[u] /\ (Carries(u)' <=> Carries(u))
    BY <1>2, <1>a DEF GetPtr, Carries
  <2>3. {ptr'[e] : e \in Loaded'} \cup {obj'[t]} = {ptr[e] : e \in Loaded}
    BY <2>1, <2>2
  <2>4. {obj'[u] : u \in {v \in Threads : Carries(v)'}}
          = {obj'[t]} \cup {obj[u] : u \in {v \in Threads : Carries(v)}}
    BY <2>2
  <2> QED BY <2>2, <2>3, <2>4 DEF NoLeak
<1>3. ASSUME NEW t \in Threads, GetLoad(t) PROVE NoLeak'
  <2>1. Loaded' = Loaded
    BY <1>3, <1>a, LoadedStable DEF GetLoad
  <2> QED BY <1>3, <1>a, <1>b, <2>1 DEF GetLoad, Carries
<1>4. ASSUME NEW t \in Threads, GetStore(t) PROVE NoLeak'
  <2>1. Loaded' = Loaded
    BY <1>4, <1>a, LoadedStable DEF GetStore
  <2>2. /\ Carries(t) /\ ~Carries(t)' /\ ptr' = ptr /\ held' = held \cup {obj[t]}
        /\ \A u \in Threads \ {t} : obj'[u] = obj[u] /\ (Carries(u)' <=> Carries(u))
    BY <1>4, <1>a DEF GetStore, Carries
  <2> QED BY <2>1, <2>2 DEF NoLeak
<1>5. ASSUME NEW t \in Threads, NEW a \in held \cup Foreign, Put(t, a)
      PROVE  NoLeak'
  <2>1. Loaded' = Loaded
    BY <1>5, <1>a, LoadedStable DEF Put
  <2>2. CASE ~InPool(a)
    BY <1>5, <1>a, <1>b, <2>1, <2>2 DEF Put, Carries
  <2>3. CASE InPool(a)
    <3>1. a \in held
      BY <2>3, OnlyHeldInPool
    <3>2. /\ ptr' = ptr /\ held' = held \ {a} /\ obj'[t] = a
          /\ Carries(t)' /\ ~Carries(t)
          /\ \A u \in Threads \ {t} : obj'[u] = obj[u] /\ (Carries(u)' <=> Carries(u))
      BY <1>5, <1>a, <2>3 DEF Put, Carries
    <3> QED BY <2>1, <3>1, <3>2 DEF NoLeak
  <2> QED BY <2>2, <2>3
<1>6. ASSUME NEW t \in Threads, PutTake(t) PROVE NoLeak'
  <2>1. Loaded' = Loaded
    BY <1>6, <1>a, LoadedStable DEF PutTake
  <2>2. avail_q # <<>>
    BY <1>6, EntryForEveryPut DEF IInv, PutTake
  <2> QED BY <1>6, <1>a, <1>b, <2>1, <2>2 DEF PutTake, Carries
<1>7. ASSUME NEW t \in Threads, PutPtr(t) PROVE NoLeak'
  <2>1. ent[t] \notin Loaded /\ Loaded' = Loaded \cup {ent[t]}
    BY <1>7, <1>a, LoadedPutPtr
  <2>2. /\ Carries(t) /\ ~Carries(t)' /\ obj' = obj /\ held' = held
        /\ ptr'[ent[t]] = obj[t] /\ \A e \in Entries \ {ent[t]} : ptr'[e] = ptr[e]
        /\ \A u \in Threads \ {t} : Carries(u)' <=> Carries(u)
    BY <1>7, <1>a DEF PutPtr, Carries
  <2>3. Loaded \subseteq Entries
    BY DEF Loaded, Queued, IInv, TypeOK
  <2>4. {ptr'[e] : e \in Loaded'} = {obj[t]} \cup {ptr[e] : e \in Loaded}
    BY <2>1, <2>2, <2>3
  <2>5. {obj[t]} \cup {obj'[u] : u \in {v \in Threads : Carries(v)'}}
          = {obj[u] : u \in {v \in Threads : Carries(v)}}
    BY <2>2
  <2> QED BY <2>2, <2>4, <2>5 DEF NoLeak
<1>8. ASSUME NEW t \in Threads, PutLoad(t) PROVE NoLeak'
  <2>1. Loaded' = Loaded
    BY <1>8, <1>a, LoadedStable DEF PutLoad
  <2> QED BY <1>8, <1>a, <1>b, <2>1 DEF PutLoad, Carries
<1>9. ASSUME NEW t \in Threads, PutStore(t) PROVE NoLeak'
  <2>1. Loaded' = Loaded
    BY <1>9, <1>a, LoadedStable DEF PutStore
  <2> QED BY <1>9, <1>a, <1>b, <2>1 DEF PutStore, Carries
<1>10. CASE UNCHANGED vars
  <2>1. Loaded' = Loaded
    BY <1>10, LoadedStable DEF vars
  <2> QED BY <1>10, <1>b, <2>1 DEF vars, Carries
<1> QED BY <1>1, <1>2, <1>3, <1>4, <1>5, <1>6, <1>7, <1>8, <1>9, <1>10
        DEF Next, Step

\* No interleaving loses an object: each is waiting, travelling through a call
\* or with a client (pool.c:73-79, 100-108).
THEOREM NothingLeaks == Spec => []NoLeak
BY InitNoLeak, NextNoLeak, Invariant, PTL DEF Spec

----------------------------------------------------------------------------
(* Every step is a step of the abstract pool, or none *)

\* A fresh pool is a full queue with nothing lent.
LEMMA InitRefines == Init => Abstract!Init
<1> SUFFICES ASSUME Init PROVE Abstract!Init
  OBVIOUS
<1>1. FreeQueue = [i \in 1..PSz |-> Start + i - 1]
  <2>1. Len(pool_q) = PSz /\ \A i \in 1..PSz : pool_q[i] = i
    BY DEF Init
  <2>2. \A i \in 1..PSz : ptr[i] = Start + i - 1
    BY DEF Init, Entries
  <2> QED BY <2>1, <2>2 DEF FreeQueue
<1>2. Lent = {}
  BY DEF Init, Lent, Out
<1> QED BY <1>1, <1>2 DEF Abstract!Init

\* The steps between the moment an object leaves pool_q and its return.
LEMMA StutterLent ==
  ASSUME held' = held, ptr' = ptr, pool_q' = pool_q,
         \A u \in Threads :
           /\ pc'[u] = "get_got" <=> pc[u] = "get_got"
           /\ pc[u] = "get_got" => ent'[u] = ent[u]
           /\ Carries(u)' <=> Carries(u)
           /\ Carries(u) => obj'[u] = obj[u]
  PROVE  FreeQueue' = FreeQueue /\ Lent' = Lent
<1>1. FreeQueue' = FreeQueue
  BY DEF FreeQueue
<1>2. Lent = held \cup {ptr[ent[t]] : t \in {u \in Threads : pc[u] = "get_got"}}
                  \cup {obj[t] : t \in {u \in Threads : Carries(u)}}
  BY DEF Lent, Out, Carries
<1>3. Lent' = held' \cup {ptr'[ent'[t]] : t \in {u \in Threads : pc'[u] = "get_got"}}
                    \cup {obj'[t] : t \in {u \in Threads : Carries(u)'}}
  BY DEF Lent, Out, Carries
<1> QED BY <1>1, <1>2, <1>3

\* Taking an entry is Take, queueing it in pool_q is Give, all else stutters.
LEMMA NextRefines == IInv /\ [Next]_vars => [Abstract!Next]_(Abstract!vars)
<1> SUFFICES ASSUME IInv, [Next]_vars
             PROVE  [Abstract!Next]_(Abstract!vars)
  OBVIOUS
<1> USE DEF Goto, Return
<1>a. /\ pc \in [Threads -> PCs] /\ ent \in [Threads -> Entries]
      /\ obj \in [Threads -> Objs] /\ ptr \in [Entries -> Objs]
      /\ pool_q \in Seq(Entries)
  BY DEF IInv, TypeOK
<1>b. FreeQueue' = FreeQueue /\ Lent' = Lent => UNCHANGED Abstract!vars
  BY DEF Abstract!vars
<1>c. \A t \in Threads : Carries(t) => obj[t] \in Lent
  BY DEF Carries, Lent, Out
<1>1. ASSUME NEW t \in Threads, GetTake(t) PROVE [Abstract!Next]_(Abstract!vars)
  <2>1. CASE pool_q = <<>>
    BY <1>1, <1>a, <1>b, <2>1, StutterLent DEF GetTake, Carries
  <2>2. CASE pool_q # <<>>
    <3>1. /\ ptr' = ptr /\ held' = held /\ obj' = obj /\ pool_q' = Tail(pool_q)
          /\ ent' = [ent EXCEPT ![t] = Head(pool_q)]
          /\ pc[t] = "idle" /\ pc' = [pc EXCEPT ![t] = "get_got"]
      BY <1>1, <2>2 DEF GetTake
    <3>2. Len(pool_q) \in Nat \ {0} /\ Head(pool_q) = pool_q[1]
      BY <1>a, <2>2
    <3>3. FreeQueue # <<>> /\ Head(FreeQueue) = ptr[Head(pool_q)]
      BY <3>2 DEF FreeQueue
    <3>4. FreeQueue' = Tail(FreeQueue)
      <4>1. Len(FreeQueue) = Len(pool_q)
        BY <3>2 DEF FreeQueue
      <4>2. Tail(FreeQueue) = [i \in 1..(Len(pool_q) - 1) |-> ptr[pool_q[i + 1]]]
        BY <3>2, <4>1 DEF FreeQueue
      <4>3. FreeQueue' = [i \in 1..(Len(pool_q) - 1) |-> ptr[pool_q[i + 1]]]
        BY <1>a, <3>1, <3>2 DEF FreeQueue
      <4> QED BY <4>2, <4>3
    <3>5. Lent' = Lent \cup {ptr[Head(pool_q)]}
      BY <1>a, <3>1 DEF Lent, Out
    <3> QED BY <3>3, <3>4, <3>5 DEF Abstract!Next, Abstract!Take
  <2> QED BY <2>1, <2>2
<1>2. ASSUME NEW t \in Threads, GetPtr(t) PROVE [Abstract!Next]_(Abstract!vars)
  <2>1. FreeQueue' = FreeQueue
    BY <1>2 DEF GetPtr, FreeQueue
  <2>2. Lent' = Lent
    BY <1>2, <1>a DEF GetPtr, Lent, Out
  <2> QED BY <1>b, <2>1, <2>2
<1>3. ASSUME NEW t \in Threads, GetLoad(t) PROVE [Abstract!Next]_(Abstract!vars)
  BY <1>3, <1>a, <1>b, StutterLent DEF GetLoad, Carries
<1>4. ASSUME NEW t \in Threads, GetStore(t) PROVE [Abstract!Next]_(Abstract!vars)
  <2>1. FreeQueue' = FreeQueue
    BY <1>4 DEF GetStore, FreeQueue
  <2>2. Lent' = Lent
    BY <1>4, <1>a DEF GetStore, Lent, Out
  <2> QED BY <1>b, <2>1, <2>2
<1>5. ASSUME NEW t \in Threads, NEW a \in held \cup Foreign, Put(t, a)
      PROVE  [Abstract!Next]_(Abstract!vars)
  <2>1. CASE ~InPool(a)
    BY <1>5, <1>a, <1>b, <2>1, StutterLent DEF Put, Carries
  <2>2. CASE InPool(a)
    <3>1. a \in held
      BY <2>2, OnlyHeldInPool
    <3>2. FreeQueue' = FreeQueue
      BY <1>5 DEF Put, FreeQueue
    <3>3. Lent' = Lent
      BY <1>5, <1>a, <2>2, <3>1 DEF Put, Lent, Out
    <3> QED BY <1>b, <3>2, <3>3
  <2> QED BY <2>1, <2>2
<1>6. ASSUME NEW t \in Threads, PutTake(t) PROVE [Abstract!Next]_(Abstract!vars)
  <2>1. avail_q # <<>>
    BY <1>6, EntryForEveryPut DEF IInv, PutTake
  <2> QED BY <1>6, <1>a, <1>b, <2>1, StutterLent DEF PutTake, Carries
<1>7. ASSUME NEW t \in Threads, PutPtr(t) PROVE [Abstract!Next]_(Abstract!vars)
  <2>1. /\ pc[t] = "put_got" /\ pc' = [pc EXCEPT ![t] = "put_load"]
        /\ ptr' = [ptr EXCEPT ![ent[t]] = obj[t]]
        /\ pool_q' = Append(pool_q, ent[t])
        /\ held' = held /\ obj' = obj /\ ent' = ent
    BY <1>7 DEF PutPtr
  <2>2. ent[t] \notin Loaded /\ Loaded \subseteq Entries
    BY <1>7, LoadedPutPtr DEF IInv, TypeOK, Loaded, Queued
  <2>3. \A e \in Loaded : ptr'[e] = ptr[e]
    BY <1>a, <2>1, <2>2
  <2>4. FreeQueue' = Append(FreeQueue, obj[t])
    <3>1. Len(pool_q) \in Nat /\ Len(pool_q') = Len(pool_q) + 1
      BY <1>a, <2>1
    <3>2. \A i \in 1..Len(pool_q) : pool_q'[i] = pool_q[i] /\ ptr'[pool_q[i]] = ptr[pool_q[i]]
      BY <1>a, <2>1, <2>3 DEF Loaded, Queued
    <3>3. pool_q'[Len(pool_q) + 1] = ent[t] /\ ptr'[ent[t]] = obj[t]
      BY <1>a, <2>1
    <3>4. Len(FreeQueue) = Len(pool_q)
      BY <3>1 DEF FreeQueue
    <3> QED BY <3>1, <3>2, <3>3, <3>4 DEF FreeQueue
  <2>5. Lent' = Lent \ {obj[t]}
    <3>1. /\ obj[t] \notin held
          /\ \A e \in Loaded : ptr[e] # obj[t]
          /\ \A u \in Threads : Carries(u) /\ obj[u] = obj[t] => u = t
      BY <2>1 DEF IInv, NoDoubleLending, Carries
    <3>2. \A u \in Threads : pc[u] = "get_got" =>
             ent[u] \in Loaded /\ ptr'[ent[u]] = ptr[ent[u]]
      BY <2>3 DEF Loaded
    <3> QED BY <1>a, <2>1, <3>1, <3>2 DEF Lent, Out, Carries
  <2>6. obj[t] \in Lent
    BY <1>c, <2>1 DEF Carries
  <2> QED BY <2>4, <2>5, <2>6 DEF Abstract!Next, Abstract!Give
<1>8. ASSUME NEW t \in Threads, PutLoad(t) PROVE [Abstract!Next]_(Abstract!vars)
  BY <1>8, <1>a, <1>b, StutterLent DEF PutLoad, Carries
<1>9. ASSUME NEW t \in Threads, PutStore(t) PROVE [Abstract!Next]_(Abstract!vars)
  BY <1>9, <1>a, <1>b, StutterLent DEF PutStore, Carries
<1>10. CASE UNCHANGED vars
  BY <1>10, <1>b, StutterLent DEF vars, Carries
<1> QED BY <1>1, <1>2, <1>3, <1>4, <1>5, <1>6, <1>7, <1>8, <1>9, <1>10
        DEF Next, Step

\* For any number of threads and objects, pool.c behaves like one FIFO of
\* objects with atomic operations (pool.c:65-112, queue.h:23-47).
THEOREM Refinement == Spec => ImplementsObjectPool
BY InitRefines, NextRefines, Invariant, PTL
   DEF Spec, ImplementsObjectPool, Abstract!Spec
----------------------------------------------------------------------------
(* The counter *)

\* Division with remainder.
LEMMA DivMod ==
  ASSUME NEW M \in Nat \ {0}, NEW a \in Nat
  PROVE  /\ a % M \in 0..M - 1 /\ a \div M \in Int
         /\ a = (a \div M) * M + (a % M)
BY SMT

\* The quotient and the remainder are the only ones there are.
LEMMA ModUnique ==
  ASSUME NEW M \in Nat \ {0}, NEW a \in Nat, NEW q \in Int, NEW r \in 0..M - 1, a = q * M + r
  PROVE  a % M = r
<1>1. /\ a % M \in 0..M - 1 /\ a \div M \in Int
      /\ a = (a \div M) * M + (a % M)
  BY DivMod
<1> DEFINE d == (a \div M) - q
<1>2. d \in Int /\ d * M = r - (a % M)
  BY <1>1, SMT
<1> HIDE DEF d
<1>3. ~(d >= 1)
  <2> SUFFICES ASSUME d >= 1 PROVE FALSE
    OBVIOUS
  <2>1. d * M >= M
    BY <1>2, SMT
  <2> QED BY <2>1, <1>1, <1>2
<1>4. ~(d <= -1)
  <2> SUFFICES ASSUME d <= -1 PROVE FALSE
    OBVIOUS
  <2>1. d * M <= -M
    BY <1>2, SMT
  <2> QED BY <2>1, <1>1, <1>2
<1>5. d = 0
  BY <1>2, <1>3, <1>4
<1> QED BY <1>1, <1>2, <1>5

\* The remainder is off by full turns.
LEMMA RemainderTurns ==
  ASSUME NEW M \in Nat \ {0}, NEW a \in Nat
  PROVE  a % M \in 0..M - 1 /\ \E q \in Int : a % M = a + q * M
<1> DEFINE d == a \div M
           r == a % M
<1>1. d \in Int /\ r \in 0..M - 1 /\ a = d * M + r
  BY DivMod
<1> HIDE DEF d
<1>2. -d \in Int /\ r = a + (-d) * M
  BY <1>1, SMT
<1> QED BY <1>1, <1>2

\* The counter goes down by one, up to one turn of its width.
LEMMA DecStep ==
  ASSUME NEW n \in 0..CountMod - 1
  PROVE  Dec(n) = n - 1 \/ Dec(n) = n - 1 + CountMod
<1>1. CASE n = 0
  <2>1. n + CountMod - 1 = 0 * CountMod + (CountMod - 1) /\ CountMod - 1 \in 0..CountMod - 1
    BY <1>1
  <2> QED BY <1>1, <2>1, ModUnique DEF Dec
<1>2. CASE n # 0
  <2>1. n + CountMod - 1 = 1 * CountMod + (n - 1) /\ n - 1 \in 0..CountMod - 1
    BY <1>2
  <2> QED BY <2>1, ModUnique DEF Dec
<1> QED BY <1>1, <1>2

\* It goes up by one likewise.
LEMMA IncStep ==
  ASSUME NEW n \in 0..CountMod - 1
  PROVE  Inc(n) = n + 1 \/ Inc(n) = n + 1 - CountMod
<1>1. CASE n + 1 = CountMod
  <2>1. n + 1 = 1 * CountMod + 0 /\ 0 \in 0..CountMod - 1
    BY <1>1
  <2> QED BY <1>1, <2>1, ModUnique DEF Inc
<1>2. CASE n + 1 # CountMod
  <2>1. n + 1 = 0 * CountMod + (n + 1) /\ n + 1 \in 0..CountMod - 1
    BY <1>2
  <2> QED BY <2>1, ModUnique DEF Inc
<1> QED BY <1>1, <1>2

(***************************************************************************)
(* With a put on its way the object has left held and _n_q has not been    *)
(* counted up yet.  Between load and store the loaded value is current as  *)
(* long as no other thread stores, which nothing in pool.c prevents:       *)
(* UpdatesApart says of a schedule that it never lets two threads be there *)
(* at once.                                                                *)
(***************************************************************************)
Updating(t) == pc[t] \in {"get_store", "put_store"}
UpdatesApart == \A t, u \in Threads : Updating(t) /\ Updating(u) => t = u

Returning(t) == pc[t] \in {"put_take", "put_got", "put_load", "put_store"}
Returners == {t \in Threads : Returning(t)}

Counted == n_q + Cardinality(held) + Cardinality(Returners)

CountInv ==
  /\ IsFiniteSet(Returners)
  /\ \E q \in Int : Counted = ObjSz + q * CountMod
  /\ \A t \in Threads : Updating(t) => tmp[t] = n_q

\* A step that changes the sum by full turns of the counter keeps CountInv.
LEMMA CountTurn ==
  ASSUME NEW d \in {-1, 0, 1}, CountInv,
         Counted \in Int, Counted' = Counted + d * CountMod, IsFiniteSet(Returners)',
         \A t \in Threads : Updating(t)' => tmp'[t] = n_q'
  PROVE  CountInv'
<1>1. PICK q \in Int : Counted = ObjSz + q * CountMod
  BY DEF CountInv
<1>2. q + d \in Int /\ Counted' = ObjSz + (q + d) * CountMod
  BY <1>1, SMT
<1> QED BY <1>2 DEF CountInv

\* The held objects can be counted.
LEMMA HeldFinite == TypeOK => IsFiniteSet(held) /\ Cardinality(held) \in Nat
<1> SUFFICES ASSUME TypeOK PROVE IsFiniteSet(held)
  BY FS_CardinalityType
<1>1. IsFiniteSet(Objs)
  BY FS_Interval DEF Objs
<1> QED BY <1>1, FS_Subset DEF TypeOK

\* What a step of thread t does to the threads on their way through a put.
LEMMA ReturnersChange ==
  ASSUME NEW t \in Threads, IsFiniteSet(Returners), \A u \in Threads \ {t} : pc'[u] = pc[u]
  PROVE  /\ Cardinality(Returners) \in Nat /\ IsFiniteSet(Returners)'
         /\ (Returning(t)' <=> Returning(t)) => Returners' = Returners
         /\ Returning(t)' /\ ~Returning(t) => Cardinality(Returners)' = Cardinality(Returners) + 1
         /\ ~Returning(t)' /\ Returning(t) => Cardinality(Returners)' = Cardinality(Returners) - 1
<1>1. Cardinality(Returners) \in Nat
  BY FS_CardinalityType
<1>2. CASE Returning(t)' <=> Returning(t)
  <2>1. Returners' = Returners
    BY <1>2 DEF Returners, Returning
  <2> QED BY <1>1, <1>2, <2>1
<1>3. CASE Returning(t)' /\ ~Returning(t)
  <2>1. Returners' = Returners \cup {t} /\ t \notin Returners
    BY <1>3 DEF Returners, Returning
  <2>2. IsFiniteSet(Returners \cup {t}) /\ Cardinality(Returners \cup {t}) = Cardinality(Returners) + 1
    BY <2>1, FS_AddElement
  <2> QED BY <1>1, <1>3, <2>1, <2>2
<1>4. CASE ~Returning(t)' /\ Returning(t)
  <2>1. Returners' = Returners \ {t} /\ t \in Returners
    BY <1>4 DEF Returners, Returning
  <2>2. IsFiniteSet(Returners \ {t}) /\ Cardinality(Returners \ {t}) = Cardinality(Returners) - 1
    BY <2>1, FS_RemoveElement
  <2> QED BY <1>1, <1>4, <2>1, <2>2
<1> QED BY <1>2, <1>3, <1>4 DEF Returning

\* Every step keeps the sum, unless it stores what another has overtaken.
LEMMA NextCountInv == IInv /\ UpdatesApart /\ CountInv /\ [Next]_vars => CountInv'
<1> SUFFICES ASSUME IInv, UpdatesApart, CountInv, [Next]_vars PROVE CountInv'
  OBVIOUS
<1>1. TypeOK /\ TypeOK'
  BY NextTypeOK DEF IInv
<1>2. IsFiniteSet(held) /\ Cardinality(held) \in Nat /\ n_q \in 0..CountMod - 1
  BY <1>1, HeldFinite DEF TypeOK
<1>3. IsFiniteSet(Returners) /\ Cardinality(Returners) \in Nat /\ Counted \in Int
  BY <1>2, FS_CardinalityType DEF CountInv, Counted
<1>4. \A t \in Threads : Updating(t) => tmp[t] = n_q
  BY DEF CountInv
<1>5. CASE UNCHANGED vars
  BY <1>5 DEF vars, CountInv, Counted, Returners, Returning, Updating
<1>6. ASSUME NEW t \in Threads, GetTake(t) \/ GetPtr(t) \/ PutPtr(t) PROVE CountInv'
  <2>1. /\ n_q' = n_q /\ held' = held /\ (Returning(t)' <=> Returning(t)) /\ ~Updating(t)'
        /\ \A u \in Threads \ {t} : pc'[u] = pc[u] /\ tmp'[u] = tmp[u]
    BY <1>1, <1>6 DEF GetTake, GetPtr, PutPtr, Goto, Return, Returning, Updating, TypeOK
  <2>2. Returners' = Returners
    BY <2>1, <1>3, ReturnersChange
  <2>3. Counted' = Counted + 0 * CountMod
    BY <2>1, <2>2, <1>3 DEF Counted
  <2>4. \A u \in Threads : Updating(u)' => tmp'[u] = n_q'
    BY <2>1, <1>4 DEF Updating
  <2> QED BY <2>2, <2>3, <2>4, <1>3, CountTurn
<1>7. ASSUME NEW t \in Threads, GetLoad(t) \/ PutLoad(t) PROVE CountInv'
  <2>1. /\ n_q' = n_q /\ held' = held /\ (Returning(t)' <=> Returning(t)) /\ tmp'[t] = n_q
        /\ \A u \in Threads \ {t} : pc'[u] = pc[u] /\ tmp'[u] = tmp[u]
    BY <1>1, <1>7 DEF GetLoad, PutLoad, Goto, Returning, TypeOK
  <2>2. Returners' = Returners
    BY <2>1, <1>3, ReturnersChange
  <2>3. Counted' = Counted + 0 * CountMod
    BY <2>1, <2>2, <1>3 DEF Counted
  <2>4. \A u \in Threads : Updating(u)' => tmp'[u] = n_q'
    BY <2>1, <1>4 DEF Updating
  <2> QED BY <2>2, <2>3, <2>4, <1>3, CountTurn
<1>8. ASSUME NEW t \in Threads, GetStore(t) PROVE CountInv'
  <2>1. /\ ~Returning(t) /\ ~Returning(t)' /\ ~Updating(t)' /\ Updating(t)
        /\ held' = held \cup {obj[t]} /\ n_q' = Dec(tmp[t])
        /\ \A u \in Threads \ {t} : pc'[u] = pc[u] /\ tmp'[u] = tmp[u]
    BY <1>1, <1>8 DEF GetStore, Return, Goto, Returning, Updating, TypeOK
  <2>2. obj[t] \notin held
    BY <1>1, <1>8 DEF IInv, NoDoubleLending, Carries, GetStore
  <2>3. Cardinality(held') = Cardinality(held) + 1
    BY <2>1, <2>2, <1>2, FS_AddElement
  <2>4. n_q' = n_q - 1 \/ n_q' = n_q - 1 + CountMod
    BY <2>1, <1>2, <1>4, DecStep
  <2>5. Returners' = Returners
    BY <2>1, <1>3, ReturnersChange
  <2>6. Counted' = Counted + 0 * CountMod \/ Counted' = Counted + 1 * CountMod
    BY <2>3, <2>4, <2>5, <1>2, <1>3 DEF Counted
  <2>7. \A u \in Threads : ~Updating(u)'
    BY <2>1 DEF UpdatesApart, Updating
  <2> QED BY <2>5, <2>6, <2>7, <1>3, CountTurn
<1>9. ASSUME NEW t \in Threads, NEW a \in held \cup Foreign, Put(t, a) PROVE CountInv'
  <2>1. pc[t] = "idle" /\ ~Returning(t) /\ n_q' = n_q
    BY <1>9 DEF Put, Returning
  <2>2. /\ ~Updating(t)'
        /\ \A u \in Threads \ {t} : pc'[u] = pc[u] /\ tmp'[u] = tmp[u]
    BY <1>1, <1>9 DEF Put, Goto, Return, Updating, TypeOK
  <2>3. \A u \in Threads : Updating(u)' => tmp'[u] = n_q'
    BY <2>1, <2>2, <1>4 DEF Updating
  <2>4. CASE ~InPool(a)
    <3>1. held' = held /\ ~Returning(t)'
      BY <1>1, <1>9, <2>4 DEF Put, Return, Goto, Returning, TypeOK
    <3>2. Returners' = Returners
      BY <2>1, <2>2, <3>1, <1>3, ReturnersChange
    <3>3. Counted' = Counted + 0 * CountMod
      BY <2>1, <3>1, <3>2, <1>3 DEF Counted
    <3> QED BY <2>3, <3>2, <3>3, <1>3, CountTurn
  <2>5. CASE InPool(a)
    <3>1. held' = held \ {a} /\ Returning(t)'
      BY <1>1, <1>9, <2>5 DEF Put, Goto, Returning, TypeOK
    <3>2. a \in held
      BY <2>5, OnlyHeldInPool
    <3>3. Cardinality(held') = Cardinality(held) - 1
      BY <3>1, <3>2, <1>2, FS_RemoveElement
    <3>4. IsFiniteSet(Returners)' /\ Cardinality(Returners)' = Cardinality(Returners) + 1
      BY <2>1, <2>2, <3>1, <1>3, ReturnersChange
    <3>5. Counted' = Counted + 0 * CountMod
      BY <2>1, <3>3, <3>4, <1>2, <1>3 DEF Counted
    <3> QED BY <2>3, <3>4, <3>5, <1>3, CountTurn
  <2> QED BY <2>4, <2>5
<1>10. ASSUME NEW t \in Threads, PutTake(t) PROVE CountInv'
  <2>1. avail_q # <<>>
    BY <1>1, <1>10, EntryForEveryPut DEF IInv, PutTake
  <2>2. /\ n_q' = n_q /\ held' = held /\ Returning(t)' /\ Returning(t) /\ ~Updating(t)'
        /\ \A u \in Threads \ {t} : pc'[u] = pc[u] /\ tmp'[u] = tmp[u]
    BY <1>1, <1>10, <2>1 DEF PutTake, Goto, Returning, Updating, TypeOK
  <2>3. Returners' = Returners
    BY <2>2, <1>3, ReturnersChange
  <2>4. Counted' = Counted + 0 * CountMod
    BY <2>2, <2>3, <1>3 DEF Counted
  <2>5. \A u \in Threads : Updating(u)' => tmp'[u] = n_q'
    BY <2>2, <1>4 DEF Updating
  <2> QED BY <2>3, <2>4, <2>5, <1>3, CountTurn
<1>11. ASSUME NEW t \in Threads, PutStore(t) PROVE CountInv'
  <2>1. /\ Returning(t) /\ ~Returning(t)' /\ ~Updating(t)' /\ Updating(t)
        /\ held' = held /\ n_q' = Inc(tmp[t])
        /\ \A u \in Threads \ {t} : pc'[u] = pc[u] /\ tmp'[u] = tmp[u]
    BY <1>1, <1>11 DEF PutStore, Return, Goto, Returning, Updating, TypeOK
  <2>2. n_q' = n_q + 1 \/ n_q' = n_q + 1 - CountMod
    BY <2>1, <1>2, <1>4, IncStep
  <2>3. IsFiniteSet(Returners)' /\ Cardinality(Returners)' = Cardinality(Returners) - 1
    BY <2>1, <1>3, ReturnersChange
  <2>4. Counted' = Counted + 0 * CountMod \/ Counted' = Counted + (-1) * CountMod
    BY <2>1, <2>2, <2>3, <1>2, <1>3 DEF Counted
  <2>5. \A u \in Threads : ~Updating(u)'
    BY <2>1 DEF UpdatesApart, Updating
  <2> QED BY <2>3, <2>4, <2>5, <1>3, CountTurn
<1> QED
  BY <1>5, <1>6, <1>7, <1>8, <1>9, <1>10, <1>11 DEF Next, Step

\* create_pool starts the counter at the object's size, reduced to its width.
LEMMA InitCountInv == Init => CountInv
<1> SUFFICES ASSUME Init PROVE CountInv
  OBVIOUS
<1>1. n_q = ObjSz % CountMod /\ held = {} /\ \A t \in Threads : pc[t] = "idle"
  BY DEF Init
<1>2. Returners = {}
  BY <1>1 DEF Returners, Returning
<1>3. IsFiniteSet(Returners) /\ Cardinality(held) = 0 /\ Cardinality(Returners) = 0
  BY <1>1, <1>2, FS_EmptySet
<1>4. PICK q \in Int : ObjSz % CountMod = ObjSz + q * CountMod
  BY RemainderTurns
<1>5. ObjSz % CountMod \in 0..CountMod - 1
  BY RemainderTurns
<1>6. Counted = ObjSz + q * CountMod
  BY <1>1, <1>3, <1>4, <1>5 DEF Counted
<1> QED BY <1>1, <1>3, <1>6 DEF CountInv, Updating

\* CountInv is what CountFollowsHeld says while every thread is outside.
LEMMA CountInvFollows == IInv /\ CountInv => CountFollowsHeld
<1> SUFFICES ASSUME IInv, CountInv, \A t \in Threads : pc[t] = "idle"
             PROVE  (n_q + Cardinality(held)) % CountMod = ObjSz % CountMod
  BY DEF CountFollowsHeld
<1>1. Cardinality(held) \in Nat /\ n_q \in 0..CountMod - 1
  BY HeldFinite DEF IInv, TypeOK
<1>2. Cardinality(Returners) = 0
  <2>1. Returners = {}
    BY DEF Returners, Returning
  <2> QED BY <2>1, FS_EmptySet
<1>3. PICK q \in Int : n_q + Cardinality(held) = ObjSz + q * CountMod
  <2>1. Counted = n_q + Cardinality(held)
    BY <1>1, <1>2 DEF Counted
  <2>2. PICK q \in Int : Counted = ObjSz + q * CountMod
    BY DEF CountInv
  <2> QED BY <2>1, <2>2
<1> DEFINE d == ObjSz \div CountMod
           r == ObjSz % CountMod
<1>4. d \in Int /\ r \in 0..CountMod - 1 /\ ObjSz = d * CountMod + r
  BY DivMod
<1> HIDE DEF d, r
<1>5. q + d \in Int /\ n_q + Cardinality(held) = (q + d) * CountMod + r
  BY <1>3, <1>4, SMT
<1>6. n_q + Cardinality(held) \in Nat
  BY <1>1
<1> QED BY <1>4, <1>5, <1>6, ModUnique DEF r

\* However calls of any number of threads overlap, if no two of them are
\* between the load and the store of _n_q at once, it follows the objects that
\* are out for any sizes, and wraps when o_sz is smaller than p_sz (pool.c:44,
\* 80 and 109).
THEOREM CountWithoutRaces == Spec /\ []UpdatesApart => []CountFollowsHeld
<1>1. Init => CountInv
  BY InitCountInv
<1>2. IInv /\ UpdatesApart /\ CountInv /\ [Next]_vars => CountInv'
  BY NextCountInv
<1>3. IInv /\ CountInv => CountFollowsHeld
  BY CountInvFollows
<1> QED
  BY <1>1, <1>2, <1>3, Invariant, PTL DEF Spec

\* One thread does not race with itself.
THEOREM CountCorrect ==
  ASSUME NEW s, Threads = {s} PROVE Spec => []CountFollowsHeld
<1>1. UpdatesApart
  BY DEF UpdatesApart
<1> QED BY <1>1, CountWithoutRaces, PTL
=============================================================================
