-------------------------- MODULE HashTableAtomic --------------------------
(***************************************************************************)
(* Proofs about HashTable as long as a resize that moves entries runs      *)
(* while no other call does (ResizesAlone): nothing undefined is reached,  *)
(* no entry is lost, doubled or misplaced, buckets change under their      *)
(* locks, and the table is an atomic set of keyed entries (EntryTable).    *)
(* The condition is the clients' to keep; it always holds for one thread   *)
(* and for tables that never grow, and last comes what a single thread may *)
(* say of _used_buckets.                                                   *)
(***************************************************************************)
EXTENDS HashTableProofs

----------------------------------------------------------------------------
(* While every resize runs alone *)

\* Lines at which a thread relies on the bucket it has computed, or has locked.
Locked == {"count", "store", "link", "unlink", "find", "unlock"}
Computed == {"check", "rs_lock", "rs_init", "bucket", "lock"} \cup Locked

SlotInv ==
  \A t \in Threads :
    /\ th[t].pc \in Computed => th[t].slot = Code(h["table"], th[t].arg)
    /\ th[t].pc = "lock" => th[t].arr = h["table"]
    /\ th[t].pc \in Locked => holds[t] = <<h["table"], th[t].slot>>
    /\ th[t].pc = "rs_unlink" => holds[t] = <<h["table"], Code(h["table"], key[cur.pos])>>
    /\ t \in Unlinked => key[th[t].ent] = th[t].arg

\* An iteration that deletes what it iterates over is always at the head of a
\* bucket, and the key it deletes by is that of the entry there.
WalkInv ==
  /\ (\A t \in Threads : th[t].pc # "rs_add") => cur.got = NoEntry
  /\ \A t \in Threads :
       /\ th[t].pc \in {"rs_walk", "rs_bucket", "rs_unlink"} =>
            /\ cur.pos = Following(chain[h["table"]][cur.hti], NoEntry)
            /\ cur.nxt = Following(chain[h["table"]][cur.hti], cur.pos)
       /\ th[t].pc \in {"rs_bucket", "rs_unlink"} => cur.want = key[cur.pos]
       /\ th[t].pc = "rs_add" =>
            /\ cur.got \in Entries
            /\ cur.nxt = Following(chain[h["table"]][cur.hti], NoEntry)

\* Where entries may be: the buckets the iteration has passed are empty.
InUse(g, n) ==
  \/ /\ g = h["table"]
     /\ \A t \in Threads :
          /\ th[t].pc \notin {"rs_free", "rs_install"}
          /\ th[t].pc \in Moving => n >= cur.hti
  \/ g = aux /\ \E t \in Threads : th[t].pc \in Moving
EmptyInv == \A g \in Gens : \A n \in Indexes(g) : ~InUse(g, n) => chain[g][n] = <<>>

HashInv == \A g \in Gens : \A n \in Indexes(g) : \A e \in ToSet(chain[g][n]) : Code(g, key[e]) = n

AInv == SlotInv /\ WalkInv /\ EmptyInv /\ HashInv /\ EachEntryOnce /\ NoFault

InTable == UNION {Linked(g) : g \in Gens}

ChainsApart ==
  \A g \in Gens : \A n \in Indexes(g) :
    /\ IsInjective(chain[g][n])
    /\ \A f \in Gens : \A m \in Indexes(f) :
         ToSet(chain[g][n]) \cap ToSet(chain[f][m]) # {} => <<g, n>> = <<f, m>>

\* EachEntryOnce by places.
OnceByPlace ==
  /\ out \cup Arriving \cup InTable \cup ({cur.got} \ {NoEntry}) = Entries
  /\ out \cap Arriving = {} /\ out \cap InTable = {} /\ Arriving \cap InTable = {}
  /\ cur.got # NoEntry => cur.got \notin out \cup Arriving \cup InTable
  /\ \A t, u \in Unlinked : th[t].ent = th[u].ent => t = u
  /\ ChainsApart

LEMMA OnceParts == EachEntryOnce <=> OnceByPlace
<1>1. Tracked = InTable \cup ({cur.got} \ {NoEntry})
  BY DEF Tracked, InTable
<1>2. cur.got \in InTable <=> \E g \in Gens : cur.got \in Linked(g)
  BY DEF InTable
<1>3. /\ out \cup Arriving \cup Tracked = Entries
      /\ out \cap Arriving = {} /\ out \cap Tracked = {} /\ Arriving \cap Tracked = {}
      /\ cur.got # NoEntry => cur.got \notin InTable
      <=>
      /\ out \cup Arriving \cup InTable \cup ({cur.got} \ {NoEntry}) = Entries
      /\ out \cap Arriving = {} /\ out \cap InTable = {} /\ Arriving \cap InTable = {}
      /\ cur.got # NoEntry => cur.got \notin out \cup Arriving \cup InTable
  BY <1>1
<1>4. (cur.got # NoEntry => \A g \in Gens : cur.got \notin Linked(g))
        <=> (cur.got # NoEntry => cur.got \notin InTable)
  BY <1>2
<1> HIDE DEF InTable
<1> QED BY <1>3, <1>4, Zenon DEF EachEntryOnce, OnceByPlace, ChainsApart

LEMMA OncePartsNext == EachEntryOnce' <=> OnceByPlace'
BY OnceParts, PTL

LEMMA InTableAt ==
  \A e : e \in InTable <=> \E g \in Gens : \E n \in Indexes(g) : e \in ToSet(chain[g][n])
BY DEF InTable, Linked

\* list_add of an entry that is in no chain.
LEMMA PutEffect ==
  ASSUME ChainType, ChainsApart, NEW g \in Gens, NEW n \in Indexes(g), NEW e \in Entries,
         e \notin InTable, Put(g, n, e)
  PROVE  /\ ChainsApart' /\ InTable' = InTable \cup {e}
         /\ \A f \in Gens : \A m \in Indexes(f) :
              ToSet(chain'[f][m]) = IF f = g /\ m = n THEN ToSet(chain[g][n]) \cup {e}
                                                      ELSE ToSet(chain[f][m])
<1>1. \A f \in Gens : \A m \in Indexes(f) :
        chain'[f][m] = IF f = g /\ m = n THEN <<e>> \o chain[g][n] ELSE chain[f][m]
  BY PutChain
<1>2. /\ ToSet(<<e>> \o chain[g][n]) = ToSet(chain[g][n]) \cup {e}
      /\ IsInjective(<<e>> \o chain[g][n])
  <2>1. chain[g][n] \in Seq(Entries) /\ IsInjective(chain[g][n]) /\ e \notin ToSet(chain[g][n])
    BY InTableAt DEF ChainType, ChainsApart
  <2> QED BY <2>1, PrependContents
<1>3. \A f \in Gens : \A m \in Indexes(f) :
        /\ ToSet(chain'[f][m]) = IF f = g /\ m = n THEN ToSet(chain[g][n]) \cup {e}
                                                   ELSE ToSet(chain[f][m])
        /\ IsInjective(chain'[f][m])
  BY <1>1, <1>2 DEF ChainsApart
<1>4. \A f \in Gens : \A m \in Indexes(f) : e \notin ToSet(chain[f][m])
  BY InTableAt
<1>5. ChainsApart'
  <2> SUFFICES ASSUME NEW f \in Gens, NEW m \in Indexes(f), NEW f2 \in Gens, NEW m2 \in Indexes(f2),
                      NEW x \in ToSet(chain'[f][m]), x \in ToSet(chain'[f2][m2])
               PROVE  f = f2 /\ m = m2
    BY <1>3 DEF ChainsApart
  <2> QED BY <1>3, <1>4 DEF ChainsApart
<1>6. \A x : x \in InTable' <=> \E f \in Gens : \E m \in Indexes(f) : x \in ToSet(chain'[f][m])
  BY DEF InTable, Linked
<1>7. InTable' = InTable \cup {e}
  BY <1>3, <1>6, InTableAt
<1> QED BY <1>3, <1>5, <1>7

\* list_del_init of the entry at position i.
LEMMA CutEffect ==
  ASSUME ChainType, ChainsApart, NEW g \in Gens, NEW n \in Indexes(g),
         NEW i \in 1..Len(chain[g][n]), Cut(g, n, i)
  PROVE  /\ ChainsApart' /\ InTable' = InTable \ {chain[g][n][i]} /\ chain[g][n][i] \in InTable
         /\ \A f \in Gens : \A m \in Indexes(f) :
              ToSet(chain'[f][m]) = IF f = g /\ m = n THEN ToSet(chain[g][n]) \ {chain[g][n][i]}
                                                      ELSE ToSet(chain[f][m])
<1> DEFINE e == chain[g][n][i]
<1>1. \A f \in Gens : \A m \in Indexes(f) :
        chain'[f][m] = IF f = g /\ m = n THEN RemoveAt(chain[g][n], i) ELSE chain[f][m]
  BY CutChain
<1>2. /\ ToSet(RemoveAt(chain[g][n], i)) = ToSet(chain[g][n]) \ {e}
      /\ IsInjective(RemoveAt(chain[g][n], i)) /\ e \in ToSet(chain[g][n])
  <2>1. chain[g][n] \in Seq(Entries) /\ IsInjective(chain[g][n])
    BY DEF ChainType, ChainsApart
  <2> QED BY <2>1, RemoveContents
<1> HIDE DEF e
<1>3. \A f \in Gens : \A m \in Indexes(f) :
        /\ ToSet(chain'[f][m]) = IF f = g /\ m = n THEN ToSet(chain[g][n]) \ {e}
                                                   ELSE ToSet(chain[f][m])
        /\ IsInjective(chain'[f][m])
  BY <1>1, <1>2 DEF ChainsApart
<1>4. \A f \in Gens : \A m \in Indexes(f) : e \in ToSet(chain[f][m]) => f = g /\ m = n
  BY <1>2 DEF ChainsApart
<1>5. ChainsApart'
  <2> SUFFICES ASSUME NEW f \in Gens, NEW m \in Indexes(f), NEW f2 \in Gens, NEW m2 \in Indexes(f2),
                      NEW x \in ToSet(chain'[f][m]), x \in ToSet(chain'[f2][m2])
               PROVE  f = f2 /\ m = m2
    BY <1>3 DEF ChainsApart
  <2> QED BY <1>3 DEF ChainsApart
<1>6. \A x : x \in InTable' <=> \E f \in Gens : \E m \in Indexes(f) : x \in ToSet(chain'[f][m])
  BY DEF InTable, Linked
<1>7. InTable' = InTable \ {e} /\ e \in InTable
  BY <1>2, <1>3, <1>4, <1>6, InTableAt
<1> QED BY <1>3, <1>5, <1>7 DEF e

\* Steps of insertions that hand no entry over.
LEMMA ArrivingStay ==
  ASSUME \A u \in Threads : u \in Unlinked' <=> u \in Unlinked,
         \A u \in Unlinked : th'[u].ent = th[u].ent
  PROVE  Unlinked' = Unlinked /\ Arriving' = Arriving
<1>1. Unlinked' = Unlinked
  BY DEF Unlinked
<1> QED BY <1>1 DEF Arriving

LEMMA StillOnce ==
  ASSUME EachEntryOnce, Unlinked' = Unlinked, Arriving' = Arriving,
         \A u \in Unlinked : th'[u].ent = th[u].ent, UNCHANGED <<chain, out, cur>>
  PROVE  EachEntryOnce'
<1>1. Tracked' = Tracked /\ \A g \in Gens : Linked(g)' = Linked(g)
  BY DEF Tracked, Linked
<1> QED BY <1>1 DEF EachEntryOnce

\* No thread is moving entries.
Calm == \A u \in Threads : th[u].pc \notin Moving

LEMMA CalmFacts ==
  ASSUME TInv, AInv, Calm
  PROVE  /\ \A f \in Fields : h[f] = h["table"] /\ h[f] \notin dead
         /\ h["table"] \in Gens /\ cur.got = NoEntry /\ Tracked = InTable
         /\ \A g \in Gens : \A n \in Indexes(g) : g # h["table"] => chain[g][n] = <<>>
         /\ \A e : e \in InTable <=> \E n \in Indexes(h["table"]) : e \in ToSet(chain[h["table"]][n])
<1>1. h["table"] \in Gens /\ h["table"] \in Nat /\ Settled
  BY DEF TInv, TypeOK, GenInv, Calm, Moving, Fields, Gens
<1>2. \A f \in Fields : h[f] = h["table"] /\ h[f] \notin dead
  BY <1>1 DEF Settled
<1>3. cur.got = NoEntry
  BY DEF AInv, WalkInv, Calm, Moving
<1>4. \A g \in Gens : \A n \in Indexes(g) : g # h["table"] => chain[g][n] = <<>>
  BY DEF AInv, EmptyInv, InUse, Calm
<1>5. ToSet(<<>>) = {}
  BY DEF ToSet
<1>6. Tracked = InTable
  BY <1>3 DEF Tracked, InTable
<1> QED BY <1>1, <1>2, <1>3, <1>4, <1>5, <1>6, InTableAt

\* A step beside which no entries are moved, and what it may do to the keys,
\* the buckets and the array in use.
LEMMA CalmStep ==
  ASSUME TInv, AInv, Calm, NEW t \in Threads, NEW c, th' = [th EXCEPT ![t] = c],
         UNCHANGED <<h, cur>>, c.pc \notin Moving,
         c.pc \in Computed => c.slot = Code(h["table"], c.arg),
         c.pc = "lock" => c.arr = h["table"],
         c.pc \in Locked => holds'[t] = <<h["table"], c.slot>>,
         \A u \in Threads \ {t} : holds'[u] = holds[u],
         \A u \in Unlinked \ {t} : key'[th[u].ent] = key[th[u].ent],
         c.op = "insert" /\ c.pc \notin {"idle", "unlock"} => key'[c.ent] = c.arg,
         \A g \in Gens : \A n \in Indexes(g) : g # h["table"] => chain'[g][n] = chain[g][n]
  PROVE  Calm' /\ SlotInv' /\ WalkInv' /\ EmptyInv'
<1>1. th'[t] = c /\ \A u \in Threads \ {t} : th'[u] = th[u]
  BY DEF TInv, TypeOK
<1>2. Calm'
  BY <1>1 DEF Calm
<1>3. EmptyInv'
  <2>1. \A n : InUse(h["table"], n)'
    BY <1>2 DEF InUse, Calm, Moving
  <2>2. \A g \in Gens : \A n \in Indexes(g) : g # h["table"] => chain'[g][n] = <<>>
    BY CalmFacts
  <2> QED BY <2>1, <2>2 DEF EmptyInv
<1>4. WalkInv'
  BY <1>2, CalmFacts DEF WalkInv, Calm, Moving
<1>5. SlotInv'
  <2> SUFFICES ASSUME NEW u \in Threads
               PROVE  /\ th'[u].pc \in Computed => th'[u].slot = Code(h["table"], th'[u].arg)
                      /\ th'[u].pc = "lock" => th'[u].arr = h["table"]
                      /\ th'[u].pc \in Locked => holds'[u] = <<h["table"], th'[u].slot>>
                      /\ th'[u].pc # "rs_unlink"
                      /\ u \in Unlinked' => key'[th'[u].ent] = th'[u].arg
    BY DEF SlotInv, Code
  <2>1. th'[u].pc # "rs_unlink"
    BY <1>2 DEF Calm, Moving
  <2>2. CASE u = t
    BY <1>1, <2>1, <2>2 DEF Unlinked
  <2>3. CASE u # t
    <3>1. u \in Unlinked' => u \in Unlinked \ {t}
      BY <1>1, <2>3 DEF Unlinked
    <3> QED BY <1>1, <2>1, <2>3, <3>1 DEF AInv, SlotInv
  <2> QED BY <2>2, <2>3
<1> QED BY <1>2, <1>3, <1>4, <1>5

\* A step that moves no entry.
LEMMA StillStep ==
  ASSUME TInv, AInv, Calm, NEW t \in Threads, NEW c, th' = [th EXCEPT ![t] = c],
         UNCHANGED <<chain, h, key, out, cur, fault>>, c.pc \notin Moving,
         t \in Unlinked <=> c.op = "insert" /\ c.pc \notin {"idle", "unlock"},
         t \in Unlinked => c.ent = th[t].ent /\ c.arg = th[t].arg,
         c.pc \in Computed => c.slot = Code(h["table"], c.arg),
         c.pc = "lock" => c.arr = h["table"],
         c.pc \in Locked => holds'[t] = <<h["table"], c.slot>>,
         \A u \in Threads \ {t} : holds'[u] = holds[u]
  PROVE  AInv'
<1>1. th'[t] = c /\ \A u \in Threads \ {t} : th'[u] = th[u]
  BY DEF TInv, TypeOK
<1>2. /\ \A u \in Threads : u \in Unlinked' <=> u \in Unlinked
      /\ \A u \in Unlinked : th'[u].ent = th[u].ent
  BY <1>1 DEF Unlinked
<1>3. EachEntryOnce'
  BY <1>2, ArrivingStay, StillOnce DEF AInv
<1>4. HashInv'
  BY DEF AInv, HashInv, Code
<1>5. t \in Unlinked => key[c.ent] = c.arg
  BY DEF AInv, SlotInv
<1>6. SlotInv' /\ WalkInv' /\ EmptyInv'
  BY <1>5, CalmStep
<1> QED BY <1>3, <1>4, <1>6 DEF AInv, NoFault

\* Whoever is in a call or begins one keeps resizes from moving entries.
LEMMA CalmBy ==
  ASSUME TInv, NEW t \in Threads, NEW c, th' = [th EXCEPT ![t] = c], th[t].pc \notin Moving,
         \/ th[t].pc # "idle" /\ ResizesAlone
         \/ c.pc # "idle" /\ ResizesAlone'
  PROVE  Calm
<1>1. th'[t] = c /\ \A u \in Threads \ {t} : th'[u] = th[u]
  BY DEF TInv, TypeOK
<1> QED BY <1>1 DEF ResizesAlone, Calm, At

\* A bucket that has been computed is one of the array there is.
LEMMA ComputedFacts ==
  ASSUME TInv, AInv, Calm, NEW t \in Threads, th[t].pc \in Computed
  PROVE  /\ th[t].slot = Code(h["table"], th[t].arg) /\ th[t].slot \in Indexes(h["table"])
         /\ th[t].arg \in Keys /\ h["table"] \in Gens
         /\ ~Gone("table", th[t].slot) /\ ~Gone("locks", th[t].slot)
         /\ h["locks"] = h["table"] /\ (th[t].pc = "lock" => th[t].arr = h["table"])
         /\ th[t].pc \in Locked => holds[t] = <<h["locks"], th[t].slot>>
<1>1. /\ h["locks"] = h["table"] /\ h["table"] \notin dead /\ h["locks"] \notin dead
      /\ h["table"] \in Gens
  BY CalmFacts DEF Fields
<1>2. th[t].slot = Code(h["table"], th[t].arg) /\ th[t].arg \in Keys
  BY DEF AInv, SlotInv, TInv, TypeOK
<1>3. th[t].slot \in Indexes(h["table"])
  BY <1>1, <1>2, CodeType
<1>4. ~Gone("table", th[t].slot) /\ ~Gone("locks", th[t].slot)
  BY <1>1, <1>3 DEF Gone
<1>5. /\ th[t].pc \in Locked => holds[t] = <<h["locks"], th[t].slot>>
      /\ th[t].pc = "lock" => th[t].arr = h["table"]
  BY <1>1 DEF AInv, SlotInv
<1> QED BY <1>1, <1>2, <1>3, <1>4, <1>5

\* An answer that is given without touching the table.
LEMMA IdleStill ==
  ASSUME AInv, UNCHANGED <<chain, h, key, out, aux, cur, fault, holds, th>>
  PROVE  AInv'
<1>1. SlotInv' /\ HashInv' /\ NoFault'
  BY DEF AInv, SlotInv, HashInv, Code, Unlinked, NoFault
<1>3. WalkInv'
  BY DEF AInv, WalkInv
<1>4. EmptyInv'
  BY DEF AInv, EmptyInv, InUse
<1>2. EachEntryOnce'
  <2>1. Unlinked' = Unlinked /\ Arriving' = Arriving
    BY DEF Unlinked, Arriving
  <2> QED BY <2>1, StillOnce DEF AInv
<1> QED BY <1>1, <1>2, <1>3, <1>4 DEF AInv

\* The lines of a call that move no entry.
LEMMA CallsStill ==
  ASSUME TInv, AInv, HoldsApart, ResizesAlone, ResizesAlone', NEW t \in Threads,
         \/ \E k \in Keys : TooLong(t, k) \/ BeginLookup(t, k) \/ BeginDelete(t, k) \/ PlainLookup(t, k)
         \/ HashCodeSafe(t) \/ InsCheck(t) \/ BucketRead(t) \/ BucketLock(t) \/ InsCount(t)
         \/ InsStore(t) \/ LkFind(t) \/ BucketUnlock(t) \/ RsLock(t)
  PROVE  AInv'
<1>0. /\ th[t] \in Calls /\ holds \in [Threads -> {NoBucket} \cup (Gens \X Nat)]
      /\ th \in [Threads -> Calls] /\ GoodCall(th[t])
  BY DEF TInv, TypeOK, Calls, CallInv, GoodCall
<1>1. ASSUME NEW k \in Keys, BeginLookup(t, k) PROVE AInv'
  <2> DEFINE c == [th[t] EXCEPT !.op = "lookup", !.arg = k, !.pc = "hash"]
  <2>1. /\ th' = [th EXCEPT ![t] = c] /\ th[t].pc = "idle" /\ c.pc = "hash" /\ c.op = "lookup"
        /\ UNCHANGED <<chain, h, key, out, cur, fault, holds>>
    BY <1>0, <1>1 DEF BeginLookup, At, Calls, table, fields, resize, client
  <2> HIDE DEF c
  <2>2. Calm
    BY <2>1, CalmBy DEF Moving
  <2>3. c.pc \notin Moving /\ c.pc \notin Computed /\ c.pc \notin Locked /\ t \notin Unlinked
    BY <2>1 DEF Moving, Computed, Locked, Unlinked
  <2> QED BY <2>1, <2>2, <2>3, StillStep
<1>2. ASSUME NEW k \in Keys, BeginDelete(t, k) PROVE AInv'
  <2> DEFINE c == [th[t] EXCEPT !.op = "delete", !.arg = k, !.pc = "bucket",
                               !.slot = Code(h["buckets"], k)]
  <2>1. /\ th' = [th EXCEPT ![t] = c] /\ th[t].pc = "idle" /\ c.pc = "bucket" /\ c.op = "delete"
        /\ c.slot = Code(h["buckets"], k) /\ c.arg = k
        /\ UNCHANGED <<chain, h, key, out, cur, fault, holds>>
    BY <1>0, <1>2 DEF BeginDelete, At, Calls, table, fields, resize, client
  <2> HIDE DEF c
  <2>2. Calm
    BY <2>1, CalmBy DEF Moving
  <2>3. c.pc \notin Moving /\ c.pc \notin Locked /\ t \notin Unlinked
    BY <2>1 DEF Moving, Locked, Unlinked
  <2>4. c.slot = Code(h["table"], c.arg)
    BY <2>1, <2>2, CalmFacts DEF Fields
  <2> QED BY <2>1, <2>2, <2>3, <2>4, StillStep
<1>3. ASSUME NEW k \in Keys, PlainLookup(t, k) \/ TooLong(t, k) PROVE AInv'
  BY <1>3, IdleStill DEF PlainLookup, TooLong, table, fields, resize
<1>4. ASSUME HashCodeSafe(t) PROVE AInv'
  <2> DEFINE l == IF th[t].pc = "hash" /\ th[t].op = "insert" THEN "check" ELSE "bucket"
             c == [th[t] EXCEPT !.slot = Code(h["buckets"], th[t].arg), !.pc = l]
  <2>1. /\ th' = [th EXCEPT ![t] = c] /\ th[t].pc \in {"hash", "rehash"}
        /\ UNCHANGED <<chain, h, key, out, cur, fault, holds>>
    BY <1>0, <1>4 DEF HashCodeSafe, Calls, table, fields, resize, client
  <2>2. /\ c.pc \in {"check", "bucket"} /\ c.op = th[t].op /\ c.arg = th[t].arg
        /\ c.ent = th[t].ent /\ c.slot = Code(h["buckets"], th[t].arg)
    BY <1>0 DEF Calls
  <2> HIDE DEF l, c
  <2>3. Calm
    BY <2>1, CalmBy DEF Moving
  <2>4. /\ c.pc \notin Moving /\ c.pc \notin Locked
        /\ t \in Unlinked <=> c.op = "insert" /\ c.pc \notin {"idle", "unlock"}
    BY <2>1, <2>2 DEF Moving, Locked, Unlinked
  <2>5. c.slot = Code(h["table"], c.arg)
    BY <2>2, <2>3, CalmFacts DEF Fields
  <2> QED BY <2>1, <2>2, <2>3, <2>4, <2>5, StillStep
<1>5. ASSUME NEW l \in {"rs_lock", "bucket", "rs_init", "link"}, Goto(t, l),
             th[t].pc \in {"check", "rs_lock", "store", "rs_init"},
             l = "link" <=> th[t].pc = "store",
             UNCHANGED <<chain, h, key, out, cur, fault, holds>>
      PROVE  AInv'
  <2> DEFINE c == [th[t] EXCEPT !.pc = l]
  <2>1. /\ th' = [th EXCEPT ![t] = c] /\ c.pc = l /\ c.op = th[t].op /\ c.arg = th[t].arg
        /\ c.ent = th[t].ent /\ c.slot = th[t].slot
    BY <1>0, <1>5 DEF Goto, Calls
  <2> HIDE DEF c
  <2>2. Calm
    BY <1>5, <2>1, CalmBy DEF Moving
  <2>3. /\ c.pc \notin Moving
        /\ c.pc \in Locked => th[t].pc \in Locked
        /\ th[t].pc \in Computed
        /\ t \in Unlinked <=> c.op = "insert" /\ c.pc \notin {"idle", "unlock"}
    BY <1>5, <2>1 DEF Moving, Computed, Locked, Unlinked
  <2>4. /\ th[t].slot = Code(h["table"], th[t].arg)
        /\ th[t].pc \in Locked => holds[t] = <<h["table"], th[t].slot>>
    BY <2>3 DEF AInv, SlotInv
  <2> QED BY <1>5, <2>1, <2>2, <2>3, <2>4, StillStep
<1>6. ASSUME InsCheck(t) \/ InsStore(t) \/ RsLock(t) PROVE AInv'
  <2>1. InsCheck(t) => AInv'
    BY <1>5 DEF InsCheck, At, table, fields, resize, client
  <2>2. InsStore(t) => AInv'
    BY <1>5 DEF InsStore, At, resize, client
  <2>3. RsLock(t) => AInv'
    BY <1>5 DEF RsLock, At, fields, client
  <2> QED BY <1>6, <2>1, <2>2, <2>3
<1>7. ASSUME InsCount(t) PROVE AInv'
  <2> DEFINE c == IF chain[h["table"]][th[t].slot] = <<>>
                  THEN [th[t] EXCEPT !.pc = "store", !.tmp = used]
                  ELSE [th[t] EXCEPT !.pc = "link"]
  <2>1. th[t].pc = "count" /\ th[t].pc \in Computed /\ th[t].pc \in Locked
    BY <1>7 DEF InsCount, At, Computed, Locked
  <2>2. Calm
    BY <2>1 DEF ResizesAlone, Calm, At, Moving
  <2>3. ~Gone("table", th[t].slot)
    BY <2>1, <2>2, ComputedFacts
  <2>4. th' = [th EXCEPT ![t] = c] /\ UNCHANGED <<chain, h, key, out, cur, fault, holds>>
    BY <1>0, <1>7, <2>3 DEF InsCount, Goto, table, fields, resize, client
  <2>5. /\ c.pc \in {"store", "link"} /\ c.op = th[t].op /\ c.arg = th[t].arg
        /\ c.ent = th[t].ent /\ c.slot = th[t].slot
    BY <1>0 DEF Calls
  <2> HIDE DEF c
  <2>6. /\ c.pc \notin Moving
        /\ t \in Unlinked <=> c.op = "insert" /\ c.pc \notin {"idle", "unlock"}
    BY <2>1, <2>5 DEF Moving, Unlinked
  <2>7. th[t].slot = Code(h["table"], th[t].arg) /\ holds[t] = <<h["table"], th[t].slot>>
    BY <2>1 DEF AInv, SlotInv
  <2> QED BY <2>2, <2>4, <2>5, <2>6, <2>7, StillStep
<1>8. ASSUME BucketRead(t) PROVE AInv'
  <2> DEFINE c == [th[t] EXCEPT !.pc = "lock", !.arr = h["locks"]]
  <2>1. th[t].pc = "bucket" /\ th[t].pc \in Computed
    BY <1>8 DEF BucketRead, At, Computed
  <2>2. Calm
    BY <2>1 DEF ResizesAlone, Calm, At, Moving
  <2>3. h["locks"] = h["table"]
    BY <2>1, <2>2, ComputedFacts
  <2>4. /\ th' = [th EXCEPT ![t] = c] /\ UNCHANGED <<chain, h, key, out, cur, fault, holds>>
        /\ c.pc = "lock" /\ c.op = th[t].op /\ c.arg = th[t].arg /\ c.ent = th[t].ent
        /\ c.slot = th[t].slot /\ c.arr = h["locks"]
    BY <1>0, <1>8 DEF BucketRead, Calls, table, fields, resize, client
  <2> HIDE DEF c
  <2>5. /\ c.pc \notin Moving /\ c.pc \notin Locked
        /\ t \in Unlinked <=> c.op = "insert" /\ c.pc \notin {"idle", "unlock"}
    BY <2>1, <2>4 DEF Moving, Locked, Unlinked
  <2>6. c.slot = Code(h["table"], c.arg)
    BY <2>1, <2>4 DEF AInv, SlotInv
  <2> QED BY <2>2, <2>3, <2>4, <2>5, <2>6, StillStep
<1>9. ASSUME BucketLock(t) PROVE AInv'
  <2> DEFINE l == CASE th[t].op = "insert" -> "count"
                    [] th[t].op = "delete" -> "unlink"
                    [] th[t].op = "lookup" -> "find"
             c == [th[t] EXCEPT !.pc = l]
  <2>1. th[t].pc = "lock" /\ th[t].pc \in Computed
    BY <1>9 DEF BucketLock, At, Computed
  <2>2. Calm
    BY <2>1 DEF ResizesAlone, Calm, At, Moving
  <2>3. /\ th[t].arr = h["table"] /\ th[t].arr \notin dead /\ th[t].slot \in Indexes(th[t].arr)
    BY <2>1, <2>2, ComputedFacts, CalmFacts DEF Fields
  <2>4. /\ th' = [th EXCEPT ![t] = c] /\ holds' = [holds EXCEPT ![t] = <<h["table"], th[t].slot>>]
        /\ UNCHANGED <<chain, h, key, out, cur, fault>>
    BY <1>0, <1>9, <2>3 DEF BucketLock, Goto, fields, resize, client
  <2>5. l \in {"count", "unlink", "find"}
    BY <1>0 DEF Calls, Ops
  <2> HIDE DEF l
  <2>6. /\ c.pc \in {"count", "unlink", "find"} /\ c.op = th[t].op /\ c.arg = th[t].arg
        /\ c.ent = th[t].ent /\ c.slot = th[t].slot
    BY <1>0, <2>5 DEF Calls
  <2> HIDE DEF c
  <2>7. /\ c.pc \notin Moving /\ c.pc # "lock"
        /\ t \in Unlinked <=> c.op = "insert" /\ c.pc \notin {"idle", "unlock"}
    BY <2>1, <2>6 DEF Moving, Unlinked
  <2>8. c.slot = Code(h["table"], c.arg)
    BY <2>1, <2>6 DEF AInv, SlotInv
  <2>9. holds'[t] = <<h["table"], c.slot>> /\ \A u \in Threads \ {t} : holds'[u] = holds[u]
    BY <1>0, <2>4, <2>6
  <2> QED BY <2>2, <2>4, <2>6, <2>7, <2>8, <2>9, StillStep
<1>10. ASSUME LkFind(t) PROVE AInv'
  <2> DEFINE c == [th[t] EXCEPT !.pc = "unlock"]
  <2>1. th[t].pc = "find" /\ th[t].pc \in Computed /\ th[t].pc \in Locked /\ th[t].op = "lookup"
    BY <1>0, <1>10 DEF LkFind, At, Computed, Locked, GoodCall
  <2>2. Calm
    BY <2>1 DEF ResizesAlone, Calm, At, Moving
  <2>3. ~Gone("table", th[t].slot)
    BY <2>1, <2>2, ComputedFacts
  <2>4. /\ th' = [th EXCEPT ![t] = c] /\ c.pc = "unlock" /\ c.op = "lookup"
        /\ c.slot = th[t].slot /\ c.arg = th[t].arg
        /\ UNCHANGED <<chain, h, key, out, cur, fault, holds>>
    BY <1>0, <1>10, <2>1, <2>3 DEF LkFind, Goto, table, fields, resize, Calls
  <2> HIDE DEF c
  <2>5. c.pc \notin Moving /\ t \notin Unlinked
    BY <2>1, <2>4 DEF Moving, Unlinked
  <2>6. th[t].slot = Code(h["table"], th[t].arg) /\ holds[t] = <<h["table"], th[t].slot>>
    BY <2>1 DEF AInv, SlotInv
  <2> QED BY <2>2, <2>4, <2>5, <2>6, StillStep
<1>11. ASSUME BucketUnlock(t) PROVE AInv'
  <2>1. th[t].pc = "unlock" /\ th[t].pc \in Computed /\ th[t].pc \in Locked
    BY <1>11 DEF BucketUnlock, At, Computed, Locked
  <2>2. Calm
    BY <2>1 DEF ResizesAlone, Calm, At, Moving
  <2>3. ~Gone("locks", th[t].slot) /\ holds[t] = <<h["locks"], th[t].slot>>
    BY <2>1, <2>2, ComputedFacts
  <2>4. /\ th' = [th EXCEPT ![t] = Idle] /\ Release(<<h["locks"], th[t].slot>>)
        /\ UNCHANGED <<chain, h, key, out, cur, fault>>
    BY <1>11, <2>3 DEF BucketUnlock, Return, fields, resize, client
  <2>5. /\ Idle.pc \notin Moving /\ Idle.pc \notin Computed /\ Idle.pc \notin Locked
        /\ Idle.pc # "lock"
        /\ Idle.op # "insert" /\ t \notin Unlinked
    BY <2>1 DEF Idle, Moving, Computed, Locked, Unlinked
  <2>6. \A u \in Threads \ {t} : holds'[u] = holds[u]
    <3>1. <<h["locks"], th[t].slot>> # NoBucket
      <4>1. h["locks"] \in Nat /\ th[t].slot \in Nat
        BY <1>0 DEF TInv, TypeOK, Fields, Gens, Calls
      <4> QED BY <4>1, TableAssumption
    <3>2. ASSUME NEW u \in Threads \ {t} PROVE holds[u] # <<h["locks"], th[t].slot>>
      BY <2>3, <3>1 DEF HoldsApart
    <3> QED BY <2>4, <3>2 DEF Release
  <2> QED BY <2>2, <2>4, <2>5, <2>6, StillStep
<1> QED
  BY <1>1, <1>2, <1>3, <1>4, <1>6, <1>7, <1>8, <1>9, <1>10, <1>11

\* Insertions and deletions hand one entry over.
LEMMA BeginInsertAInv ==
  ASSUME TInv, AInv, ResizesAlone', NEW t \in Threads, NEW e \in Entries, NEW k \in Keys,
         BeginInsert(t, e, k)
  PROVE  AInv'
<1>l. PICK l \in KeyLeft(e, k) :
        /\ key' = [key EXCEPT ![e] = l]
        /\ th' = [th EXCEPT ![t].op = "insert", ![t].arg = l, ![t].ent = e,
                           ![t].pc = "hash"]
  BY DEF BeginInsert
<1> DEFINE c == [th[t] EXCEPT !.op = "insert", !.arg = l, !.ent = e, !.pc = "hash"]
<1>1. /\ th' = [th EXCEPT ![t] = c] /\ th[t].pc = "idle" /\ c.pc = "hash" /\ c.op = "insert"
      /\ c.ent = e /\ c.arg = l /\ e \in out /\ out' = out \ {e} /\ key' = [key EXCEPT ![e] = l]
      /\ UNCHANGED <<chain, h, cur, fault, holds>>
  <2>1. th \in [Threads -> Calls]
    BY DEF TInv, TypeOK, Calls
  <2>2. /\ th' = [th EXCEPT ![t] = c] /\ c.pc = "hash" /\ c.op = "insert" /\ c.ent = e /\ c.arg = l
    BY <1>l, <2>1 DEF Calls
  <2> HIDE DEF c
  <2> QED BY <1>l, <2>2 DEF BeginInsert, At, table, fields, resize
<1> HIDE DEF c
<1>2. Calm
  BY <1>1, CalmBy DEF Moving
<1>3. OnceByPlace
  BY OnceParts DEF AInv
<1>4. \A x \in Entries \ {e} : key'[x] = key[x]
  BY <1>1 DEF TInv, TypeOK
<1>5. key'[e] = l
  BY <1>1 DEF TInv, TypeOK
<1>6. th'[t] = c /\ \A u \in Threads \ {t} : th'[u] = th[u]
  BY <1>1 DEF TInv, TypeOK
<1>7. /\ Unlinked' = Unlinked \cup {t} /\ t \notin Unlinked
      /\ \A u \in Unlinked : u # t /\ th'[u].ent = th[u].ent
                             /\ th[u].ent \in Arriving /\ th[u].ent \in Entries \ {e}
  BY <1>1, <1>3, <1>6 DEF Unlinked, Arriving, OnceByPlace
<1>8. Arriving' = Arriving \cup {e}
  BY <1>1, <1>6, <1>7 DEF Arriving
<1>9. SlotInv' /\ WalkInv' /\ EmptyInv'
  <2>1. c.pc \notin Moving /\ c.pc \notin Computed /\ c.pc \notin Locked
    BY <1>1 DEF Moving, Computed, Locked
  <2>2. \A u \in Unlinked \ {t} : key'[th[u].ent] = key[th[u].ent]
    BY <1>4, <1>7
  <2> QED BY <1>1, <1>2, <1>5, <2>1, <2>2, CalmStep
<1>10. InTable' = InTable /\ (ChainsApart <=> ChainsApart')
  BY <1>1 DEF InTable, Linked, ChainsApart
<1>11. OnceByPlace'
  <2>1. \A u, v \in Unlinked' : th'[u].ent = th'[v].ent => u = v
    BY <1>1, <1>3, <1>6, <1>7 DEF OnceByPlace
  <2> QED BY <1>1, <1>3, <1>8, <1>10, <2>1 DEF OnceByPlace, TInv, TypeOK
<1>12. HashInv'
  <2>1. \A g \in Gens : \A n \in Indexes(g) : \A x \in ToSet(chain[g][n]) : x \in Entries \ {e}
    BY <1>1, <1>3, InTableAt DEF OnceByPlace
  <2> QED BY <1>1, <1>4, <2>1 DEF AInv, HashInv, Code
<1> QED BY <1>1, <1>9, <1>11, <1>12, OncePartsNext DEF AInv, NoFault

\* An entry comes into the bucket of its key, or leaves a bucket.
LEMMA PutHash ==
  ASSUME ChainType, ChainsApart, HashInv, NEW g \in Gens, NEW n \in Indexes(g), NEW e \in Entries,
         e \notin InTable, Put(g, n, e), n = Code(g, key'[e]),
         \A x \in InTable : key'[x] = key[x]
  PROVE  HashInv'
<1> SUFFICES ASSUME NEW f \in Gens, NEW m \in Indexes(f), NEW x \in ToSet(chain'[f][m])
             PROVE  Code(f, key'[x]) = m
  BY DEF HashInv, Code
<1>1. ToSet(chain'[f][m]) = IF f = g /\ m = n THEN ToSet(chain[g][n]) \cup {e}
                                              ELSE ToSet(chain[f][m])
  BY PutEffect
<1>2. CASE f = g /\ m = n /\ x = e
  BY <1>2
<1>3. CASE x \in ToSet(chain[f][m])
  <2>1. key'[x] = key[x]
    BY <1>3, InTableAt
  <2> QED BY <1>3, <2>1 DEF HashInv
<1> QED BY <1>1, <1>2, <1>3

LEMMA CutHash ==
  ASSUME ChainType, ChainsApart, HashInv, NEW g \in Gens, NEW n \in Indexes(g),
         NEW i \in 1..Len(chain[g][n]), Cut(g, n, i), UNCHANGED key
  PROVE  HashInv'
<1> SUFFICES ASSUME NEW f \in Gens, NEW m \in Indexes(f), NEW x \in ToSet(chain'[f][m])
             PROVE  Code(f, key[x]) = m
  BY DEF HashInv, Code
<1>1. x \in ToSet(chain[f][m])
  BY CutEffect
<1> QED BY <1>1 DEF HashInv

LEMMA InsLinkAInv ==
  ASSUME TInv, AInv, ResizesAlone, NEW t \in Threads, InsLink(t)
  PROVE  AInv'
<1> DEFINE c == [th[t] EXCEPT !.pc = "unlock"]
           e == th[t].ent
           g == h["table"]
           n == th[t].slot
<1>1. /\ th[t].pc = "link" /\ th[t].pc \in Computed /\ th[t].pc \in Locked
      /\ th[t].op = "insert" /\ th[t] \in Calls /\ e \in Entries
  BY DEF InsLink, At, Computed, Locked, TInv, TypeOK, CallInv, Calls
<1>2. Calm
  BY <1>1 DEF ResizesAlone, Calm, At, Moving
<1>3. /\ ~Gone("table", n) /\ n = Code(g, th[t].arg) /\ n \in Indexes(g) /\ g \in Gens
  BY <1>1, <1>2, ComputedFacts
<1>4. /\ th' = [th EXCEPT ![t] = c] /\ Put(g, n, e)
      /\ UNCHANGED <<h, key, out, cur, fault, holds>>
  BY <1>3 DEF InsLink, Goto, fields, resize, client
<1>5. c.pc = "unlock" /\ c.op = "insert" /\ c.slot = n /\ c.arg = th[t].arg /\ c.ent = e
  BY <1>1 DEF Calls
<1>6. th'[t] = c /\ \A u \in Threads \ {t} : th'[u] = th[u]
  BY <1>4 DEF TInv, TypeOK
<1> HIDE DEF c
<1>7. t \in Unlinked /\ holds[t] = <<g, n>> /\ key[e] = th[t].arg
  BY <1>1 DEF Unlinked, AInv, SlotInv
<1>8. OnceByPlace
  BY OnceParts DEF AInv
<1>9. e \in Arriving /\ e \notin InTable /\ e \notin out /\ cur.got = NoEntry
  BY <1>2, <1>7, <1>8, CalmFacts DEF Arriving, OnceByPlace
<1>10. Unlinked' = Unlinked \ {t} /\ \A u \in Unlinked \ {t} : th'[u].ent = th[u].ent /\ th[u].ent # e
  BY <1>1, <1>5, <1>6, <1>7, <1>8 DEF Unlinked, OnceByPlace
<1>11. Arriving' = Arriving \ {e}
  BY <1>10 DEF Arriving
<1>12. ChainsApart' /\ InTable' = InTable \cup {e}
  BY <1>1, <1>3, <1>4, <1>8, <1>9, PutEffect DEF OnceByPlace, TInv
<1>13. OnceByPlace'
  <2>1. \A u, v \in Unlinked' : th'[u].ent = th'[v].ent => u = v
    BY <1>8, <1>10 DEF OnceByPlace
  <2> QED BY <1>1, <1>4, <1>8, <1>9, <1>11, <1>12, <2>1 DEF OnceByPlace
<1>14. HashInv'
  BY <1>1, <1>3, <1>4, <1>7, <1>8, <1>9, PutHash DEF OnceByPlace, TInv, AInv
<1>15. SlotInv' /\ WalkInv' /\ EmptyInv'
  <2>1. \A f \in Gens : \A m \in Indexes(f) : f # g => chain'[f][m] = chain[f][m]
    <3>1. ChainType /\ e \in Entries /\ g \in Gens /\ n \in Indexes(g) /\ Put(g, n, e)
      BY <1>1, <1>3, <1>4 DEF TInv
    <3> HIDE DEF g, n, e
    <3>2. \A f \in Gens : \A m \in Indexes(f) :
            chain'[f][m] = IF f = g /\ m = n THEN <<e>> \o chain[g][n] ELSE chain[f][m]
      BY <3>1, PutChain
    <3> QED BY <3>2
  <2>2. c.pc \notin Moving /\ c.pc # "lock"
    BY <1>5 DEF Moving
  <2>3. c.slot = Code(h["table"], c.arg)
    BY <1>3, <1>5
  <2>4. holds'[t] = <<h["table"], c.slot>> /\ \A u \in Threads \ {t} : holds'[u] = holds[u]
    BY <1>4, <1>5, <1>7
  <2>5. \A u \in Unlinked \ {t} : key'[th[u].ent] = key[th[u].ent]
    BY <1>4
  <2>6. ~(c.op = "insert" /\ c.pc \notin {"idle", "unlock"})
    BY <1>5
  <2>7. th' = [th EXCEPT ![t] = c] /\ UNCHANGED <<h, cur>>
    BY <1>4
  <2> HIDE DEF n, e
  <2> QED BY <1>2, <2>1, <2>2, <2>3, <2>4, <2>5, <2>6, <2>7, CalmStep
<1> QED BY <1>4, <1>13, <1>14, <1>15, OncePartsNext DEF AInv, NoFault

LEMMA PlainInsertAInv ==
  ASSUME TInv, AInv, NEW t \in Threads, NEW e \in Entries, NEW k \in Keys, PlainInsert(t, e, k)
  PROVE  AInv'
<1>l. PICK l \in KeyLeft(e, k) : key' = [key EXCEPT ![e] = l] /\ Put(h["table"], Code(h["buckets"], l), e)
  BY DEF PlainInsert
<1> DEFINE g == h["table"]
           n == Code(g, l)
<1>1. Calm /\ \A u \in Threads : th[u].pc = "idle"
  BY DEF PlainInsert, Alone, At, Calm, Moving
<1>2. h["buckets"] = g /\ g \in Gens /\ cur.got = NoEntry
  BY <1>1, CalmFacts DEF Fields
<1>3. /\ Put(g, n, e) /\ key' = [key EXCEPT ![e] = l] /\ out' = out \ {e} /\ e \in out
      /\ UNCHANGED <<h, th, cur, fault, holds>>
  BY <1>l, <1>2 DEF PlainInsert, fields, resize
<1>4. n \in Indexes(g)
  BY <1>2, CodeType, KeyLeftType DEF TInv, TypeOK
<1>5. OnceByPlace
  BY OnceParts DEF AInv
<1>6. Unlinked = {} /\ Unlinked' = {} /\ Arriving = {} /\ Arriving' = {}
  BY <1>1, <1>3 DEF Unlinked, Arriving
<1>7. key'[e] = l /\ \A x \in Entries \ {e} : key'[x] = key[x]
  BY <1>3 DEF TInv, TypeOK
<1>8. e \notin InTable /\ InTable \subseteq Entries
  BY <1>3, <1>5 DEF OnceByPlace
<1> HIDE DEF n
<1>9. ChainsApart' /\ InTable' = InTable \cup {e}
  BY <1>2, <1>3, <1>4, <1>5, <1>8, PutEffect DEF OnceByPlace, TInv
<1>10. OnceByPlace'
  BY <1>2, <1>3, <1>5, <1>6, <1>8, <1>9 DEF OnceByPlace, TInv, TypeOK
<1>11. HashInv'
  BY <1>2, <1>3, <1>4, <1>5, <1>7, <1>8, PutHash DEF OnceByPlace, TInv, AInv, n
<1>12. SlotInv' /\ WalkInv' /\ EmptyInv'
  <2>1. \A f \in Gens : \A m \in Indexes(f) : f # g => chain'[f][m] = chain[f][m]
    <3>1. ChainType /\ g \in Gens /\ n \in Indexes(g) /\ Put(g, n, e)
      BY <1>2, <1>3, <1>4 DEF TInv
    <3> HIDE DEF g
    <3>2. \A f \in Gens : \A m \in Indexes(f) :
            chain'[f][m] = IF f = g /\ m = n THEN <<e>> \o chain[g][n] ELSE chain[f][m]
      BY <3>1, PutChain
    <3> QED BY <3>2
  <2>2. /\ th' = [th EXCEPT ![t] = th[t]] /\ th[t].pc \notin Moving /\ th[t].pc \notin Computed
        /\ th[t].pc \notin Locked
    BY <1>1, <1>3 DEF TInv, TypeOK, Moving, Computed, Locked
  <2>3. ~(th[t].op = "insert" /\ th[t].pc \notin {"idle", "unlock"})
    BY <1>1
  <2>4. /\ \A u \in Unlinked \ {t} : key'[th[u].ent] = key[th[u].ent]
        /\ \A u \in Threads \ {t} : holds'[u] = holds[u]
        /\ UNCHANGED <<h, cur>>
    BY <1>3, <1>6
  <2> QED BY <1>1, <2>1, <2>2, <2>3, <2>4, CalmStep
<1> QED BY <1>3, <1>10, <1>11, <1>12, OncePartsNext DEF AInv, NoFault

\* A deletion hands the entry over to its client.
LEMMA HandOverAInv ==
  ASSUME TInv, AInv, Calm, NEW t \in Threads, NEW c, th' = [th EXCEPT ![t] = c],
         c.pc \notin Moving, t \notin Unlinked, ~(c.op = "insert" /\ c.pc \notin {"idle", "unlock"}),
         UNCHANGED <<h, key, cur, fault, holds>>,
         c.pc \in Computed => c.slot = Code(h["table"], c.arg),
         c.pc = "lock" => c.arr = h["table"],
         c.pc \in Locked => holds[t] = <<h["table"], c.slot>>,
         NEW g, g = h["table"], NEW n \in Indexes(g), NEW i \in 1..Len(chain[g][n]),
         Cut(g, n, i), out' = out \cup {chain[g][n][i]}
  PROVE  AInv'
<1> DEFINE e == chain[g][n][i]
<1>1. g \in Gens /\ cur.got = NoEntry /\ ChainType
  BY CalmFacts DEF TInv
<1>2. th'[t] = c /\ \A u \in Threads \ {t} : th'[u] = th[u]
  BY DEF TInv, TypeOK
<1>3. /\ \A u \in Threads : u \in Unlinked' <=> u \in Unlinked
      /\ \A u \in Unlinked : th'[u].ent = th[u].ent
  BY <1>2 DEF Unlinked
<1>4. Unlinked' = Unlinked /\ Arriving' = Arriving
  BY <1>3, ArrivingStay
<1>5. OnceByPlace
  BY OnceParts DEF AInv
<1>6. ChainsApart' /\ InTable' = InTable \ {e} /\ e \in InTable
  BY <1>1, <1>5, CutEffect DEF OnceByPlace
<1>7. \A f \in Gens : \A m \in Indexes(f) : f # g => chain'[f][m] = chain[f][m]
  <2>1. \A f \in Gens : \A m \in Indexes(f) :
          chain'[f][m] = IF f = g /\ m = n THEN RemoveAt(chain[g][n], i) ELSE chain[f][m]
    BY <1>1, CutChain
  <2> QED BY <2>1
<1>8. OnceByPlace'
  <2>1. \A u, v \in Unlinked' : th'[u].ent = th'[v].ent => u = v
    BY <1>3, <1>4, <1>5 DEF OnceByPlace
  <2> HIDE DEF e
  <2>2. out' = out \cup {e} /\ cur' = cur
    BY DEF e
  <2>3. e \notin out /\ e \notin Arriving /\ e \in Entries
    BY <1>5, <1>6 DEF OnceByPlace
  <2> QED BY <1>1, <1>4, <1>5, <1>6, <2>1, <2>2, <2>3 DEF OnceByPlace
<1>9. HashInv'
  BY <1>1, <1>5, CutHash DEF OnceByPlace, AInv
<1>10. SlotInv' /\ WalkInv' /\ EmptyInv'
  <2>1. \A f \in Gens : \A m \in Indexes(f) : f # h["table"] => chain'[f][m] = chain[f][m]
    BY <1>7
  <2>2. /\ \A u \in Unlinked \ {t} : key'[th[u].ent] = key[th[u].ent]
        /\ holds'[t] = holds[t] /\ \A u \in Threads \ {t} : holds'[u] = holds[u]
        /\ UNCHANGED <<h, cur>>
    OBVIOUS
  <2> QED BY <2>1, <2>2, CalmStep
<1> QED BY <1>8, <1>9, <1>10, OncePartsNext DEF AInv, NoFault

LEMMA DelUnlinkAInv ==
  ASSUME TInv, AInv, ResizesAlone, NEW t \in Threads, DelUnlink(t)
  PROVE  AInv'
<1> DEFINE c == [th[t] EXCEPT !.pc = "unlock"]
           g == h["table"]
           n == th[t].slot
           q == chain[g][n]
           i == FirstHit(q, th[t].arg)
<1>1. /\ th[t].pc = "unlink" /\ th[t].pc \in Computed /\ th[t].pc \in Locked
      /\ th[t].op = "delete" /\ th[t] \in Calls
  BY DEF DelUnlink, At, Computed, Locked, TInv, TypeOK, CallInv, Calls
<1>2. Calm
  BY <1>1 DEF ResizesAlone, Calm, At, Moving
<1>3. /\ ~Gone("table", n) /\ n = Code(h["buckets"], th[t].arg) /\ n \in Indexes(g) /\ g \in Gens
      /\ holds[t] = <<g, n>> /\ n = Code(g, th[t].arg)
  <2>1. h["buckets"] = g
    BY <1>2, CalmFacts DEF Fields
  <2> QED BY <1>1, <1>2, <2>1, ComputedFacts DEF AInv, SlotInv
<1>4. /\ th' = [th EXCEPT ![t] = c] /\ UNCHANGED <<h, key, cur, fault, holds>>
      /\ IF i = 0 THEN UNCHANGED <<chain, out>>
                  ELSE Cut(g, n, i) /\ out' = out \cup {q[i]}
  BY <1>3 DEF DelUnlink, Goto, fields, resize
<1>5. c.pc = "unlock" /\ c.op = "delete" /\ c.slot = n /\ c.arg = th[t].arg
  BY <1>1 DEF Calls
<1> HIDE DEF c
<1>6. /\ c.pc \notin Moving /\ t \notin Unlinked /\ holds'[t] = holds[t]
      /\ \A u \in Threads \ {t} : holds'[u] = holds[u]
      /\ c.slot = Code(h["table"], c.arg) /\ holds[t] = <<h["table"], c.slot>>
  BY <1>1, <1>3, <1>4, <1>5 DEF Moving, Unlinked
<1>7. CASE i = 0
  BY <1>2, <1>4, <1>5, <1>6, <1>7, StillStep
<1>8. CASE i # 0
  <2>1. q \in Seq(Entries)
    BY <1>3, ChainElement DEF TInv
  <2>2. i \in 1..Len(q)
    BY <1>8, <2>1, FirstInFacts DEF FirstHit
  <2>3. Cut(g, n, i) /\ out' = out \cup {chain[g][n][i]} /\ i \in 1..Len(chain[g][n])
    BY <1>4, <1>8, <2>2
  <2> HIDE DEF i, n
  <2> QED BY <1>2, <1>3, <1>4, <1>5, <1>6, <2>3, HandOverAInv
<1> QED BY <1>7, <1>8

LEMMA PlainDeleteAInv ==
  ASSUME TInv, AInv, NEW t \in Threads, NEW k \in Keys, PlainDelete(t, k)
  PROVE  AInv'
<1> DEFINE g == h["table"]
           n == Code(g, k)
           q == chain[g][n]
           i == FirstHit(q, k)
<1>1. Calm /\ \A u \in Threads : th[u].pc = "idle"
  BY DEF PlainDelete, Alone, At, Calm, Moving
<1>2. h["buckets"] = g /\ g \in Gens /\ n \in Indexes(g)
  BY <1>1, CalmFacts, CodeType DEF Fields
<1>3. /\ th' = [th EXCEPT ![t] = th[t]] /\ UNCHANGED <<h, key, cur, fault, holds>>
      /\ IF i = 0 THEN UNCHANGED <<chain, out>>
                  ELSE Cut(g, n, i) /\ out' = out \cup {q[i]}
  BY <1>2 DEF PlainDelete, fields, resize, TInv, TypeOK
<1>4. /\ th[t].pc \notin Moving /\ th[t].pc \notin Computed /\ th[t].pc \notin Locked
      /\ t \notin Unlinked /\ th[t].pc = "idle"
  BY <1>1 DEF Moving, Computed, Locked, Unlinked
<1>5. CASE i = 0
  BY <1>1, <1>3, <1>4, <1>5, StillStep
<1>6. CASE i # 0
  <2>1. q \in Seq(Entries)
    BY <1>2, ChainElement DEF TInv
  <2>2. i \in 1..Len(q)
    BY <1>6, <2>1, FirstInFacts DEF FirstHit
  <2>3. Cut(g, n, i) /\ out' = out \cup {chain[g][n][i]} /\ i \in 1..Len(chain[g][n])
    BY <1>3, <1>6, <2>2
  <2> HIDE DEF i, n
  <2> QED BY <1>1, <1>2, <1>3, <1>4, <2>3, HandOverAInv
<1> QED BY <1>5, <1>6

----------------------------------------------------------------------------
(* The steps of a resize that runs alone *)

\* The buckets that may be occupied when the resizing thread is at line l.
Occupiable(l, g, n) ==
  \/ g = aux /\ l \in Moving
  \/ g = h["table"] /\ l \notin {"rs_free", "rs_install"} /\ (l \in Moving => n >= cur.hti)

LEMMA AloneFacts ==
  ASSUME TInv, AInv, ResizesAlone, NEW t \in Threads, th[t].pc \in Moving
  PROVE  /\ \A u \in Threads \ {t} : th[u].pc = "idle"
         /\ th[t].op = "insert" /\ h["table"] \in Gens /\ aux \in Gens /\ ChainType /\ OnceByPlace
         /\ \A g \in Gens : \A n \in Indexes(g) : chain[g][n] # <<>> => Occupiable(th[t].pc, g, n)
<1>1. \A u \in Threads \ {t} : th[u].pc = "idle"
  BY DEF ResizesAlone, At
<1>2. th[t].op = "insert" /\ h["table"] \in Gens /\ aux \in Gens /\ ChainType /\ OnceByPlace
  BY OnceParts DEF TInv, TypeOK, Fields, CallInv, InResize, AInv
<1>3. ASSUME NEW g \in Gens, NEW n \in Indexes(g), InUse(g, n)
      PROVE  Occupiable(th[t].pc, g, n)
  BY <1>3 DEF InUse, Occupiable
<1> QED BY <1>1, <1>2, <1>3 DEF AInv, EmptyInv

LEMMA SlotGoto ==
  ASSUME th \in [Threads -> Calls], NEW t \in Threads, NEW l, NEW n,
         th' = [th EXCEPT ![t].pc = l, ![t].slot = n]
  PROVE  /\ th'[t].pc = l /\ th'[t].op = th[t].op /\ th'[t].ent = th[t].ent
         /\ th'[t].arg = th[t].arg /\ \A u \in Threads \ {t} : th'[u] = th[u]
BY DEF Calls

LEMMA AloneStep ==
  ASSUME TInv, AInv, NEW t \in Threads, \A u \in Threads \ {t} : th[u].pc = "idle",
         th[t].op = "insert", th[t].pc \in InResize, NEW l \in Moving \cup {"rehash"},
         Goto(t, l) \/ \E n : th' = [th EXCEPT ![t].pc = l, ![t].slot = n],
         UNCHANGED <<key, out, fault>>,
         l = "rs_unlink" => holds'[t] = <<h'["table"], Code(h'["table"], key[cur'.pos])>>,
         l # "rs_add" => cur'.got = NoEntry,
         l \in {"rs_walk", "rs_bucket", "rs_unlink"} =>
           /\ cur'.pos = Following(chain'[h'["table"]][cur'.hti], NoEntry)
           /\ cur'.nxt = Following(chain'[h'["table"]][cur'.hti], cur'.pos),
         l \in {"rs_bucket", "rs_unlink"} => cur'.want = key[cur'.pos],
         l = "rs_add" => /\ cur'.got \in Entries
                         /\ cur'.nxt = Following(chain'[h'["table"]][cur'.hti], NoEntry),
         \A g \in Gens : \A n \in Indexes(g) : chain'[g][n] # <<>> => Occupiable(l, g, n)',
         HashInv', ChainsApart',
         InTable' \cup ({cur'.got} \ {NoEntry}) = Tracked,
         cur'.got # NoEntry => cur'.got \notin InTable'
  PROVE  AInv' /\ Tracked' = Tracked
<1>1. th \in [Threads -> Calls]
  BY DEF TInv, TypeOK, Calls
<1>2. ASSUME NEW n, th' = [th EXCEPT ![t].pc = l, ![t].slot = n]
      PROVE  /\ th'[t].pc = l /\ th'[t].op = "insert" /\ th'[t].ent = th[t].ent
             /\ th'[t].arg = th[t].arg /\ \A u \in Threads \ {t} : th'[u].pc = "idle"
  BY <1>1, <1>2, SlotGoto
<1>3. /\ th'[t].pc = l /\ th'[t].op = "insert" /\ th'[t].ent = th[t].ent
      /\ th'[t].arg = th[t].arg /\ \A u \in Threads \ {t} : th'[u].pc = "idle"
  <2>1. CASE Goto(t, l)
    BY <1>1, <2>1 DEF Calls, Goto
  <2>2. CASE \E n : th' = [th EXCEPT ![t].pc = l, ![t].slot = n]
    BY <1>2, <2>2
  <2> QED BY <2>1, <2>2
<1>4. t \in Unlinked /\ Unlinked = {t} /\ Unlinked' = {t}
  BY <1>3 DEF Unlinked, InResize, Moving
<1>5. Arriving = {th[t].ent} /\ Arriving' = {th[t].ent}
  BY <1>3, <1>4 DEF Arriving
<1>6. SlotInv'
  <2>1. key[th[t].ent] = th[t].arg
    BY <1>4 DEF AInv, SlotInv
  <2>2. /\ l \notin Computed /\ l \notin Locked /\ l # "lock"
        /\ "idle" \notin Computed /\ "idle" \notin Locked
    BY DEF Computed, Locked, Moving
  <2> SUFFICES ASSUME NEW u \in Threads
               PROVE  /\ th'[u].pc \notin Computed /\ th'[u].pc \notin Locked
                      /\ th'[u].pc # "lock"
                      /\ th'[u].pc = "rs_unlink" =>
                           holds'[u] = <<h'["table"], Code(h'["table"], key'[cur'.pos])>>
                      /\ u \in Unlinked' => key'[th'[u].ent] = th'[u].arg
    BY DEF SlotInv, Code
  <2> QED BY <1>3, <1>4, <2>1, <2>2
<1>7. WalkInv'
  <2>1. (\A u \in Threads : th'[u].pc # "rs_add") => cur'.got = NoEntry
    BY <1>3
  <2>2. ASSUME NEW u \in Threads
        PROVE  /\ th'[u].pc \in {"rs_walk", "rs_bucket", "rs_unlink"} =>
                    /\ cur'.pos = Following(chain'[h'["table"]][cur'.hti], NoEntry)
                    /\ cur'.nxt = Following(chain'[h'["table"]][cur'.hti], cur'.pos)
               /\ th'[u].pc \in {"rs_bucket", "rs_unlink"} => cur'.want = key'[cur'.pos]
               /\ th'[u].pc = "rs_add" =>
                    /\ cur'.got \in Entries
                    /\ cur'.nxt = Following(chain'[h'["table"]][cur'.hti], NoEntry)
    BY <1>3
  <2> QED BY <2>1, <2>2 DEF WalkInv
<1>8. EmptyInv'
  <2>1. ASSUME NEW g \in Gens, NEW n \in Indexes(g), Occupiable(l, g, n)'
        PROVE  InUse(g, n)'
    BY <1>3, <2>1 DEF Occupiable, InUse, Moving
  <2> QED BY <2>1 DEF EmptyInv
<1>9. EachEntryOnce'
  <2>1. Tracked = InTable \cup ({cur.got} \ {NoEntry}) /\ OnceByPlace
    BY OnceParts DEF Tracked, InTable, AInv
  <2>2. /\ out \cup Arriving \cup Tracked = Entries
        /\ out \cap Arriving = {} /\ out \cap Tracked = {} /\ Arriving \cap Tracked = {}
    BY DEF AInv, EachEntryOnce
  <2>3. /\ out' \cup Arriving' \cup InTable' \cup ({cur'.got} \ {NoEntry}) = Entries
        /\ out' \cap Arriving' = {} /\ out' \cap InTable' = {} /\ Arriving' \cap InTable' = {}
        /\ cur'.got # NoEntry => cur'.got \notin out' \cup Arriving' \cup InTable'
    <3>1. InTable' \subseteq Tracked /\ out' = out /\ Arriving' = Arriving
      BY <1>5
    <3>2. cur'.got # NoEntry => cur'.got \in Tracked
      OBVIOUS
    <3> HIDE DEF InTable, Tracked, Arriving
    <3> QED BY <2>2, <3>1, <3>2
  <2>4. \A u, v \in Unlinked' : th'[u].ent = th'[v].ent => u = v
    BY <1>4
  <2> QED BY <2>3, <2>4, OncePartsNext DEF OnceByPlace
<1>10. Tracked' = Tracked
  BY DEF Tracked, InTable
<1> QED BY <1>6, <1>7, <1>8, <1>9, <1>10 DEF AInv, NoFault

\* The first entry of a chain, and the one after it.
LEMMA HeadFacts ==
  ASSUME NEW q \in Seq(Entries)
  PROVE  /\ Following(q, NoEntry) = NoEntry => q = <<>>
         /\ Following(q, NoEntry) # NoEntry =>
              /\ 1 \in 1..Len(q) /\ Following(q, NoEntry) = q[1] /\ q[1] \in Entries
              /\ FirstIn(q, {Following(q, NoEntry)}) = 1
              /\ Following(q, Following(q, NoEntry)) = Following(RemoveAt(q, 1), NoEntry)
<1>1. Following(q, NoEntry) = IF 0 < Len(q) THEN q[1] ELSE NoEntry
  BY DEF Following
<1>2. Len(q) \in Nat /\ \A i \in 1..Len(q) : q[i] \in Entries
  OBVIOUS
<1>3. CASE Len(q) = 0
  BY <1>1, <1>3
<1>4. CASE Len(q) # 0
  <2>1. 1 \in 1..Len(q) /\ Following(q, NoEntry) = q[1] /\ q[1] \in Entries /\ q[1] # NoEntry
    BY <1>1, <1>2, <1>4, TableAssumption
  <2>2. FirstIn(q, {q[1]}) = 1
    <3>1. FirstIn(q, {q[1]}) # 0
      BY <2>1, FirstInFacts
    <3>2. FirstIn(q, {q[1]}) \in 1..Len(q) /\ ~(1 < FirstIn(q, {q[1]}))
      BY <2>1, <3>1, FirstInFacts
    <3> QED BY <1>2, <3>2
  <2>3. Following(q, q[1]) = IF 1 < Len(q) THEN q[2] ELSE NoEntry
    BY <2>1, <2>2 DEF Following
  <2>4. /\ Len(RemoveAt(q, 1)) = Len(q) - 1
        /\ 1 < Len(q) => RemoveAt(q, 1)[1] = q[2]
    BY <2>1, RemoveFacts
  <2>5. Following(RemoveAt(q, 1), NoEntry) = IF 0 < Len(q) - 1 THEN RemoveAt(q, 1)[1] ELSE NoEntry
    BY <2>4 DEF Following
  <2> QED BY <1>2, <2>1, <2>2, <2>3, <2>4, <2>5
<1> QED BY <1>2, <1>3, <1>4

\* A key is found where it is: keycmp finds a key equal to itself.
LEMMA MatchesItself ==
  ASSUME TInv, NEW e \in Entries
  PROVE  key[e] \in Keys /\ Matches(e, key[e]) /\ MatchesSafe(e, key[e])
<1>1. key[e] \in Keys
  BY DEF TInv, TypeOK
<1> DEFINE s == Content[key[e]]
<1>2. s \in Seq(Nat) /\ Len(s) \in Nat /\ SubSeq(s, 1, Len(s)) = s
  <2>1. s \in Seq(Nat)
    BY <1>1, TableAssumption
  <2> QED BY <2>1
<1>3. MemCmp(key[e], key[e])
  BY <1>2 DEF MemCmp
<1>4. Hash64Cmp(key[e], key[e])
  <2>1. Len(<<>>) = 0
    OBVIOUS
  <2>2. Len(s) = 2 => s # <<>>
    <3> HIDE DEF s
    <3> QED BY <2>1
  <2> QED BY <2>2 DEF Hash64Cmp
<1> QED BY <1>1, <1>3, <1>4 DEF Matches, MatchesSafe, KeyCmp

LEMMA RsInitAInv ==
  ASSUME TInv, AInv, ResizesAlone, ResizesAlone', NEW t \in Threads, RsInit(t)
  PROVE  AInv' /\ Tracked' = Tracked
<1>1. /\ th[t].pc = "rs_init" /\ th[t].pc \in InResize /\ th[t].pc \notin Moving
      /\ th[t].pc \in Computed /\ th[t].op = "insert" /\ th[t] \in Calls
      /\ UNCHANGED <<chain, h, key, out, fault, holds>>
  BY DEF RsInit, At, InResize, Moving, Computed, TInv, TypeOK, Calls, CallInv, fields, client
<1>2. CASE h["threshold"] < MaxGens /\ aux' = h["threshold"] + 1 /\ cur' = AtBucket(0)
           /\ Goto(t, "rs_walk")
  <2>1. th'[t].pc = "rs_walk" /\ \A u \in Threads \ {t} : th'[u] = th[u]
    BY <1>2 DEF Goto, TInv, TypeOK
  <2>2. \A u \in Threads \ {t} : th[u].pc = "idle"
    BY <2>1 DEF ResizesAlone, At, Moving
  <2>3. Calm
    BY <1>1, <2>2 DEF Calm, Moving
  <2>4. h["table"] \in Gens /\ 0 \in Indexes(h["table"]) /\ Tracked = InTable
    BY <2>3, CalmFacts, BucketsType
  <2>5. /\ cur'.got = NoEntry /\ cur'.hti = 0
        /\ cur'.pos = Following(chain[h["table"]][0], NoEntry)
        /\ cur'.nxt = Following(chain[h["table"]][0], cur'.pos)
    BY <1>2 DEF AtBucket
  <2>6. /\ cur'.pos = Following(chain'[h'["table"]][cur'.hti], NoEntry)
        /\ cur'.nxt = Following(chain'[h'["table"]][cur'.hti], cur'.pos)
    BY <1>1, <2>5
  <2>7. \A g \in Gens : \A n \in Indexes(g) : chain'[g][n] # <<>> => Occupiable("rs_walk", g, n)'
    <3>1. ASSUME NEW g \in Gens, NEW n \in Indexes(g), chain'[g][n] # <<>>
          PROVE  g = h'["table"] /\ n >= cur'.hti
      <4>1. g = h["table"]
        BY <1>1, <2>3, <3>1, CalmFacts
      <4>2. Buckets[g] \in Nat
        BY BucketsType
      <4> QED BY <1>1, <2>5, <4>1, <4>2 DEF Indexes
    <3> QED BY <3>1 DEF Occupiable
  <2>8. HashInv' /\ ChainsApart' /\ InTable' = InTable
    BY <1>1, OnceParts DEF AInv, HashInv, Code, OnceByPlace, ChainsApart, InTable, Linked
  <2>9. "rs_walk" \in Moving
    BY DEF Moving
  <2> QED BY <1>1, <1>2, <2>2, <2>4, <2>5, <2>6, <2>7, <2>8, <2>9, AloneStep
<1>3. CASE Goto(t, "bucket") /\ UNCHANGED cur
  <2> DEFINE c == [th[t] EXCEPT !.pc = "bucket"]
  <2>1. /\ th' = [th EXCEPT ![t] = c] /\ c.pc = "bucket" /\ c.op = th[t].op /\ c.arg = th[t].arg
        /\ c.ent = th[t].ent /\ c.slot = th[t].slot
    BY <1>1, <1>3 DEF Goto, Calls
  <2> HIDE DEF c
  <2>2. Calm
    BY <1>1, <2>1, CalmBy
  <2>3. /\ c.pc \notin Moving /\ c.pc \notin Locked
        /\ t \in Unlinked <=> c.op = "insert" /\ c.pc \notin {"idle", "unlock"}
    BY <1>1, <2>1 DEF Moving, Locked, Unlinked
  <2>4. c.slot = Code(h["table"], c.arg)
    BY <1>1, <2>1 DEF AInv, SlotInv
  <2>5. holds' = holds /\ UNCHANGED <<chain, h, key, out, cur, fault>>
    BY <1>1, <1>3
  <2>6. AInv'
    BY <2>1, <2>2, <2>3, <2>4, <2>5, StillStep
  <2>7. Tracked' = Tracked
    BY <2>5 DEF Tracked, Linked
  <2> QED BY <2>6, <2>7
<1> QED BY <1>2, <1>3 DEF RsInit

LEMMA RsWalkAInv ==
  ASSUME TInv, AInv, ResizesAlone, NEW t \in Threads, RsWalk(t)
  PROVE  AInv' /\ Tracked' = Tracked
<1> DEFINE g == h["table"]
           q == chain[g][cur.hti]
<1>1. th[t].pc = "rs_walk" /\ th[t].pc \in InResize /\ th[t].pc \in Moving /\ th[t].pc \in Walking
  BY DEF RsWalk, At, InResize, Moving, Walking
<1>2. /\ \A u \in Threads \ {t} : th[u].pc = "idle"
      /\ th[t].op = "insert" /\ g \in Gens /\ ChainType /\ OnceByPlace
      /\ \A f \in Gens : \A n \in Indexes(f) : chain[f][n] # <<>> => Occupiable("rs_walk", f, n)
  BY <1>1, AloneFacts
<1>3. cur.hti \in Indexes(g) /\ aux = g + 1 /\ h["buckets"] = g
  BY <1>1, <1>2 DEF TInv, GenInv, Settled, Walking, Fields
<1>4. Buckets[g] \in Nat /\ cur.hti \in Nat /\ g \in Nat
  BY <1>2, <1>3, BucketsType DEF Indexes, Gens
<1>5. q \in Seq(Entries) /\ cur.got = NoEntry
  BY <1>1, <1>2, <1>3 DEF ChainType, AInv, WalkInv, Moving
<1>6. cur.pos = Following(q, NoEntry) /\ cur.nxt = Following(q, cur.pos)
  BY <1>1 DEF AInv, WalkInv
<1>7. Tracked = InTable
  BY <1>5 DEF Tracked, InTable
<1>8. UNCHANGED <<chain, h, key, aux>> => HashInv' /\ ChainsApart' /\ InTable' = InTable
  BY <1>2 DEF AInv, HashInv, Code, OnceByPlace, ChainsApart, InTable, Linked
<1> HIDE DEF q
<1>9. CASE cur.pos = NoEntry
  <2>1. /\ IF cur.hti + 1 \in Indexes(g)
           THEN cur' = AtBucket(cur.hti + 1) /\ UNCHANGED th
           ELSE Goto(t, "rs_free") /\ UNCHANGED cur
        /\ UNCHANGED <<chain, h, key, out, fault, holds, aux>>
    BY <1>3, <1>9 DEF RsWalk, fields, client
  <2>2. chain[g][cur.hti] = <<>>
    BY <1>5, <1>6, <1>9, HeadFacts DEF q
  <2>3. \A f \in Gens : \A n \in Indexes(f) :
          chain[f][n] # <<>> => f = aux \/ (f = g /\ n >= cur.hti + 1)
    <3>1. ASSUME NEW f \in Gens, NEW n \in Indexes(f), chain[f][n] # <<>>, f # aux
          PROVE  f = g /\ n >= cur.hti + 1
      <4>1. f = g /\ n >= cur.hti /\ n # cur.hti
        BY <1>1, <1>2, <2>2, <3>1 DEF Occupiable
      <4>2. n \in Nat
        BY <1>4, <4>1 DEF Indexes
      <4> QED BY <1>4, <4>1, <4>2
    <3> QED BY <3>1
  <2>4. CASE cur.hti + 1 \in Indexes(g)
    <3>1. cur' = AtBucket(cur.hti + 1) /\ th' = th
      BY <2>1, <2>4
    <3>2. /\ cur'.got = NoEntry /\ cur'.hti = cur.hti + 1
          /\ cur'.pos = Following(chain[g][cur.hti + 1], NoEntry)
          /\ cur'.nxt = Following(chain[g][cur.hti + 1], cur'.pos)
      BY <3>1 DEF AtBucket
    <3>3. /\ cur'.pos = Following(chain'[h'["table"]][cur'.hti], NoEntry)
          /\ cur'.nxt = Following(chain'[h'["table"]][cur'.hti], cur'.pos)
      BY <2>1, <3>2
    <3>4. Goto(t, "rs_walk") /\ "rs_walk" \in Moving
      BY <1>1, <3>1 DEF Goto, TInv, TypeOK, Moving
    <3>5. \A f \in Gens : \A n \in Indexes(f) : chain'[f][n] # <<>> => Occupiable("rs_walk", f, n)'
      BY <2>1, <2>3, <3>2, <3>4 DEF Occupiable
    <3> QED BY <1>1, <1>2, <1>7, <1>8, <2>1, <3>2, <3>3, <3>4, <3>5, AloneStep
  <2>5. CASE cur.hti + 1 \notin Indexes(g)
    <3>1. Goto(t, "rs_free") /\ cur' = cur /\ "rs_free" \in Moving
      BY <2>1, <2>5 DEF Moving
    <3>2. ASSUME NEW f \in Gens, NEW n \in Indexes(f), chain[f][n] # <<>>
          PROVE  f = aux
      <4>1. ASSUME f = g, n >= cur.hti + 1 PROVE FALSE
        BY <1>4, <2>5, <4>1 DEF Indexes
      <4> QED BY <2>3, <3>2, <4>1
    <3>3. \A f \in Gens : \A n \in Indexes(f) : chain'[f][n] # <<>> => Occupiable("rs_free", f, n)'
      BY <2>1, <3>1, <3>2 DEF Occupiable
    <3> QED BY <1>1, <1>2, <1>5, <1>7, <1>8, <2>1, <3>1, <3>3, AloneStep
  <2> QED BY <2>4, <2>5
<1>10. CASE cur.pos # NoEntry
  <2>1. FirstIn(q, {cur.pos}) # 0
    BY <1>5, <1>6, <1>10, HeadFacts
  <2>2. /\ Goto(t, "rs_bucket") /\ UNCHANGED <<chain, h, key, out, fault, holds, aux>>
        /\ cur' = [cur EXCEPT !.want = key[cur.pos]]
    BY <1>10, <2>1 DEF RsWalk, q, fields, client
  <2>3. /\ cur'.hti = cur.hti /\ cur'.pos = cur.pos /\ cur'.nxt = cur.nxt
        /\ cur'.got = NoEntry /\ cur'.want = key[cur'.pos]
    BY <1>5, <2>2 DEF TInv, TypeOK, Cursors
  <2>4. /\ cur'.pos = Following(chain'[h'["table"]][cur'.hti], NoEntry)
        /\ cur'.nxt = Following(chain'[h'["table"]][cur'.hti], cur'.pos)
        /\ "rs_bucket" \in Moving
    BY <1>6, <2>2, <2>3 DEF q, Moving
  <2>5. \A f \in Gens : \A n \in Indexes(f) : chain'[f][n] # <<>> => Occupiable("rs_bucket", f, n)'
    BY <1>1, <1>2, <2>2, <2>3, <2>4 DEF Occupiable
  <2> QED BY <1>1, <1>2, <1>7, <1>8, <2>2, <2>3, <2>4, <2>5, AloneStep
<1> QED BY <1>9, <1>10

LEMMA RsBucketAInv ==
  ASSUME TInv, AInv, ResizesAlone, NEW t \in Threads, RsBucket(t)
  PROVE  AInv' /\ Tracked' = Tracked
<1>1. /\ th[t].pc = "rs_bucket" /\ th[t].pc \in InResize /\ th[t].pc \in Moving
      /\ th[t].pc \in Walking /\ "rs_unlink" \in Moving
  BY DEF RsBucket, At, InResize, Moving, Walking
<1>2. /\ \A u \in Threads \ {t} : th[u].pc = "idle"
      /\ th[t].op = "insert" /\ h["table"] \in Gens /\ ChainType /\ OnceByPlace
      /\ \A f \in Gens : \A n \in Indexes(f) : chain[f][n] # <<>> => Occupiable("rs_bucket", f, n)
  BY <1>1, AloneFacts
<1>3. h["buckets"] = h["table"] /\ h["locks"] = h["table"]
  BY <1>1, <1>2 DEF TInv, GenInv, Settled, Fields
<1>4. /\ cur.pos = Following(chain[h["table"]][cur.hti], NoEntry) /\ cur.got = NoEntry
      /\ cur.nxt = Following(chain[h["table"]][cur.hti], cur.pos)
      /\ cur.want = key[cur.pos]
  BY <1>1, <1>2 DEF AInv, WalkInv
<1>5. /\ holds' = [holds EXCEPT ![t] = <<h["table"], Code(h["table"], key[cur.pos])>>]
      /\ \E n : th' = [th EXCEPT ![t].pc = "rs_unlink", ![t].slot = n]
      /\ UNCHANGED <<chain, h, key, out, fault, aux, cur>>
  BY <1>3, <1>4 DEF RsBucket, fields, resize, client
<1>6. /\ holds'[t] = <<h'["table"], Code(h'["table"], key[cur'.pos])>>
      /\ cur'.want = key[cur'.pos]
  BY <1>4, <1>5 DEF TInv, TypeOK
<1>7. Tracked = InTable
  BY <1>4 DEF Tracked, InTable
<1>8. HashInv' /\ ChainsApart' /\ InTable' = InTable
  BY <1>2, <1>5 DEF AInv, HashInv, Code, OnceByPlace, ChainsApart, InTable, Linked
<1>9. /\ cur'.pos = Following(chain'[h'["table"]][cur'.hti], NoEntry)
      /\ cur'.nxt = Following(chain'[h'["table"]][cur'.hti], cur'.pos)
  BY <1>4, <1>5
<1>10. \A f \in Gens : \A n \in Indexes(f) : chain'[f][n] # <<>> => Occupiable("rs_unlink", f, n)'
  BY <1>1, <1>2, <1>5 DEF Occupiable
<1> QED BY <1>1, <1>2, <1>4, <1>5, <1>6, <1>7, <1>8, <1>9, <1>10, AloneStep

\* The entry at hand is the first of its bucket, so that is what deleting its
\* key unlinks.
LEMMA RsUnlinkAInv ==
  ASSUME TInv, AInv, ResizesAlone, NEW t \in Threads, RsUnlink(t)
  PROVE  AInv' /\ Tracked' = Tracked
<1> DEFINE g == h["table"]
           q == chain[g][cur.hti]
<1>1. /\ th[t].pc = "rs_unlink" /\ th[t].pc \in InResize /\ th[t].pc \in Moving
      /\ th[t].pc \in Walking /\ "rs_add" \in Moving
  BY DEF RsUnlink, At, InResize, Moving, Walking
<1>2. /\ \A u \in Threads \ {t} : th[u].pc = "idle"
      /\ th[t].op = "insert" /\ g \in Gens /\ ChainType /\ OnceByPlace
      /\ \A f \in Gens : \A n \in Indexes(f) : chain[f][n] # <<>> => Occupiable("rs_unlink", f, n)
  BY <1>1, AloneFacts
<1>3. /\ h["buckets"] = g /\ cur.hti \in Indexes(g) /\ cur.pos \in Entries /\ cur \in Cursors
      /\ cur.pos # NoEntry
  BY <1>1, <1>2, TableAssumption DEF TInv, TypeOK, GenInv, Settled, Fields, Walking
<1>4. /\ q \in Seq(Entries) /\ cur.got = NoEntry
      /\ cur.pos = Following(q, NoEntry) /\ cur.nxt = Following(q, cur.pos)
      /\ cur.want = key[cur.pos]
  BY <1>1, <1>2, <1>3 DEF ChainType, AInv, WalkInv
<1>5. /\ 1 \in 1..Len(q) /\ cur.pos = q[1] /\ cur.nxt = Following(RemoveAt(q, 1), NoEntry)
  BY <1>3, <1>4, HeadFacts
<1>6. Code(g, key[cur.pos]) = cur.hti
  <2>1. cur.pos \in ToSet(q)
    BY <1>5 DEF ToSet
  <2> QED BY <1>2, <1>3, <2>1 DEF AInv, HashInv
<1>7. FirstHit(q, key[cur.pos]) = 1
  <2> DEFINE S == {e \in Entries : Matches(e, key[cur.pos])}
  <2>1. q[1] \in S
    BY <1>3, <1>5, MatchesItself
  <2>2. FirstIn(q, S) # 0
    <3> HIDE DEF S
    <3>1. FirstIn(q, S) = 0 => \A i \in 1..Len(q) : q[i] \notin S
      BY <1>4, FirstInFacts
    <3> QED BY <1>5, <2>1, <3>1
  <2>3. FirstIn(q, S) \in 1..Len(q) /\ ~(1 < FirstIn(q, S)) /\ Len(q) \in Nat
    <3> HIDE DEF S
    <3> QED BY <1>4, <1>5, <2>1, <2>2, FirstInFacts
  <2> QED BY <2>3 DEF FirstHit
<1>8. /\ Goto(t, "rs_add") /\ UNCHANGED <<h, key, out, fault, aux>>
      /\ Cut(g, cur.hti, 1) /\ cur' = [cur EXCEPT !.got = q[1]]
  BY <1>3, <1>4, <1>6, <1>7 DEF RsUnlink, fields, client
<1>9. cur'.hti = cur.hti /\ cur'.nxt = cur.nxt /\ cur'.got = cur.pos
  BY <1>3, <1>5, <1>8 DEF Cursors
<1>10. \A f \in Gens : \A m \in Indexes(f) :
         chain'[f][m] = IF f = g /\ m = cur.hti THEN RemoveAt(q, 1) ELSE chain[f][m]
  BY <1>2, <1>3, <1>5, <1>8, CutChain
<1>11. /\ ChainsApart' /\ InTable' = InTable \ {cur.pos} /\ cur.pos \in InTable
  <2>1. /\ ChainsApart' /\ InTable' = InTable \ {chain[g][cur.hti][1]}
        /\ chain[g][cur.hti][1] \in InTable
    <3>1. /\ ChainType /\ ChainsApart /\ g \in Gens /\ cur.hti \in Indexes(g)
          /\ 1 \in 1..Len(chain[g][cur.hti]) /\ Cut(g, cur.hti, 1)
      BY <1>2, <1>3, <1>5, <1>8 DEF OnceByPlace
    <3> HIDE DEF g
    <3> QED BY ONLY <3>1, CutEffect
  <2> QED BY <1>5, <2>1
<1>12. HashInv'
  BY <1>2, <1>3, <1>5, <1>8, CutHash DEF OnceByPlace, AInv
<1>13. cur'.nxt = Following(chain'[h'["table"]][cur'.hti], NoEntry)
  BY <1>2, <1>3, <1>5, <1>8, <1>9, <1>10
<1>14. \A f \in Gens : \A n \in Indexes(f) : chain'[f][n] # <<>> => Occupiable("rs_add", f, n)'
  <2>1. ASSUME NEW f \in Gens, NEW n \in Indexes(f), chain'[f][n] # <<>>
        PROVE  Occupiable("rs_unlink", f, n)
    <3>1. chain[f][n] # <<>>
      BY <1>4, <1>5, <1>10, <2>1
    <3> QED BY <1>2, <3>1
  <2>2. ASSUME NEW f \in Gens, NEW n \in Indexes(f), Occupiable("rs_unlink", f, n)
        PROVE  Occupiable("rs_add", f, n)'
    BY <1>1, <1>8, <1>9, <2>2 DEF Occupiable
  <2> QED BY <2>1, <2>2
<1>15. InTable' \cup ({cur'.got} \ {NoEntry}) = Tracked /\ cur'.got \notin InTable'
  <2>1. Tracked = InTable
    BY <1>4 DEF Tracked, InTable
  <2> QED BY <1>3, <1>9, <1>11, <2>1
<1> HIDE DEF g, q
<1> QED BY <1>1, <1>2, <1>3, <1>8, <1>9, <1>11, <1>12, <1>13, <1>14, <1>15, AloneStep

LEMMA RsAddAInv ==
  ASSUME TInv, AInv, ResizesAlone, NEW t \in Threads, RsAdd(t)
  PROVE  AInv' /\ Tracked' = Tracked
<1> DEFINE g == h["table"]
           q == chain[g][cur.hti]
           m == Code(aux, key[cur.got])
<1>1. /\ th[t].pc = "rs_add" /\ th[t].pc \in InResize /\ th[t].pc \in Moving
      /\ th[t].pc \in Walking /\ "rs_walk" \in Moving
  BY DEF RsAdd, At, InResize, Moving, Walking
<1>2. /\ \A u \in Threads \ {t} : th[u].pc = "idle"
      /\ th[t].op = "insert" /\ g \in Gens /\ aux \in Gens /\ ChainType /\ OnceByPlace
      /\ \A f \in Gens : \A n \in Indexes(f) : chain[f][n] # <<>> => Occupiable("rs_add", f, n)
  BY <1>1, AloneFacts
<1>3. cur.hti \in Indexes(g) /\ aux = g + 1 /\ aux # g /\ cur \in Cursors
  BY <1>1, <1>2 DEF TInv, TypeOK, GenInv, Gens
<1>4. q \in Seq(Entries) /\ cur.got \in Entries /\ cur.nxt = Following(q, NoEntry)
  <2>1. q \in Seq(Entries)
    BY <1>2, <1>3 DEF ChainType
  <2>2. cur.got \in Entries /\ cur.nxt = Following(q, NoEntry)
    BY <1>1 DEF AInv, WalkInv
  <2> QED BY <2>1, <2>2
<1>5. cur.got # NoEntry /\ (cur.nxt # NoEntry => FirstIn(q, {cur.nxt}) # 0)
  <2>1. cur.nxt # NoEntry => FirstIn(q, {cur.nxt}) = 1
    <3> HIDE DEF q
    <3> QED BY <1>4, HeadFacts
  <2> QED BY <1>4, <2>1, TableAssumption
<1>6. /\ Goto(t, "rs_walk") /\ UNCHANGED <<h, key, out, fault, aux>> /\ Put(aux, m, cur.got)
      /\ cur' = [cur EXCEPT !.got = NoEntry, !.want = AnyKey, !.pos = cur.nxt,
                            !.nxt = Following(q, cur.nxt)]
  BY <1>5 DEF RsAdd, fields, client
<1>7. /\ cur'.hti = cur.hti /\ cur'.got = NoEntry /\ cur'.pos = Following(q, NoEntry)
      /\ cur'.nxt = Following(q, cur'.pos)
  BY <1>3, <1>4, <1>6 DEF Cursors
<1>8. m \in Indexes(aux)
  BY <1>2, <1>4, CodeType DEF TInv, TypeOK
<1>9. cur.got \notin InTable
  BY <1>2, <1>5 DEF OnceByPlace
<1>10. \A f \in Gens : \A n \in Indexes(f) :
         chain'[f][n] = IF f = aux /\ n = m THEN <<cur.got>> \o chain[aux][m] ELSE chain[f][n]
  <2>1. Put(aux, m, cur.got) /\ ChainType
    BY <1>2, <1>6
  <2> HIDE DEF m
  <2> QED BY <1>2, <1>4, <1>8, <2>1, PutChain
<1>11. ChainsApart' /\ InTable' = InTable \cup {cur.got}
  BY <1>2, <1>4, <1>6, <1>8, <1>9, PutEffect DEF OnceByPlace
<1>12. HashInv'
  BY <1>2, <1>4, <1>6, <1>8, <1>9, PutHash DEF OnceByPlace, AInv
<1>13. chain'[h'["table"]][cur'.hti] = q
  BY <1>2, <1>3, <1>6, <1>7, <1>10
<1>14. \A f \in Gens : \A n \in Indexes(f) : chain'[f][n] # <<>> => Occupiable("rs_walk", f, n)'
  <2>1. ASSUME NEW f \in Gens, NEW n \in Indexes(f), chain'[f][n] # <<>>
        PROVE  f = aux \/ Occupiable("rs_add", f, n)
    BY <1>2, <1>10, <2>1
  <2>2. ASSUME NEW f \in Gens, NEW n \in Indexes(f), f = aux \/ Occupiable("rs_add", f, n)
        PROVE  Occupiable("rs_walk", f, n)'
    BY <1>1, <1>6, <1>7, <2>2 DEF Occupiable
  <2> QED BY <2>1, <2>2
<1>15. InTable' \cup ({cur'.got} \ {NoEntry}) = Tracked
  <2>1. Tracked = InTable \cup {cur.got}
    BY <1>5 DEF Tracked, InTable
  <2> QED BY <1>7, <1>11, <2>1
<1> HIDE DEF g, q, m
<1>16. /\ cur'.pos = Following(chain'[h'["table"]][cur'.hti], NoEntry)
       /\ cur'.nxt = Following(chain'[h'["table"]][cur'.hti], cur'.pos)
  BY <1>7, <1>13
<1> QED BY <1>1, <1>2, <1>6, <1>7, <1>11, <1>12, <1>14, <1>15, <1>16, AloneStep

\* free(h->table) finds every chain empty.
LEMMA RsFreeAInv ==
  ASSUME TInv, AInv, ResizesAlone, NEW t \in Threads, RsFree(t)
  PROVE  AInv' /\ Tracked' = Tracked
<1> DEFINE g == h["table"]
<1>1. /\ th[t].pc = "rs_free" /\ th[t].pc \in InResize /\ th[t].pc \in Moving
      /\ th[t].pc \in Walking /\ "rs_install" \in Moving
  BY DEF RsFree, At, InResize, Moving, Walking
<1>2. /\ \A u \in Threads \ {t} : th[u].pc = "idle"
      /\ th[t].op = "insert" /\ g \in Gens /\ ChainType /\ OnceByPlace
      /\ \A f \in Gens : \A n \in Indexes(f) : chain[f][n] # <<>> => Occupiable("rs_free", f, n)
  BY <1>1, AloneFacts
<1>3. aux = g + 1 /\ aux # g
  BY <1>1, <1>2 DEF TInv, TypeOK, GenInv, Gens
<1>4. /\ Goto(t, "rs_install") /\ UNCHANGED <<h, key, out, fault, aux>> /\ cur' = NoCursor
      /\ chain' = [chain EXCEPT ![g] = [n \in Indexes(g) |-> <<>>]]
  BY DEF RsFree, fields, client
<1>5. \A f \in Gens : \A n \in Indexes(f) : chain[f][n] # <<>> => f = aux
  BY <1>2 DEF Occupiable
<1>6. \A f \in Gens : \A n \in Indexes(f) : chain'[f][n] = chain[f][n]
  <2>1. \A n \in Indexes(g) : chain[g][n] = <<>>
    BY <1>2, <1>3, <1>5
  <2> QED BY <1>2, <1>4, <2>1 DEF ChainType
<1>7. cur'.got = NoEntry
  BY <1>4 DEF NoCursor
<1>8. cur.got = NoEntry
  BY <1>1, <1>2 DEF AInv, WalkInv
<1>9. HashInv' /\ ChainsApart'
  <2>1. HashInv'
    BY <1>4, <1>6 DEF AInv, HashInv, Code
  <2>2. ChainsApart'
    BY <1>2, <1>6 DEF OnceByPlace, ChainsApart
  <2> QED BY <2>1, <2>2
<1>10. InTable' = InTable
  <2>1. \A x : x \in InTable' <=> \E f \in Gens : \E m \in Indexes(f) : x \in ToSet(chain'[f][m])
    BY DEF InTable, Linked
  <2> QED BY <1>6, <2>1, InTableAt
<1>11. \A f \in Gens : \A n \in Indexes(f) : chain'[f][n] # <<>> => Occupiable("rs_install", f, n)'
  BY <1>1, <1>4, <1>5, <1>6 DEF Occupiable
<1>12. Tracked = InTable
  BY <1>8 DEF Tracked, InTable
<1> HIDE DEF g
<1> QED BY <1>1, <1>2, <1>4, <1>7, <1>9, <1>10, <1>11, <1>12, AloneStep

LEMMA RsInstallAInv ==
  ASSUME TInv, AInv, ResizesAlone, NEW t \in Threads, RsInstall(t) \/ RsUnlock(t)
  PROVE  AInv' /\ Tracked' = Tracked
<1>1. /\ th[t].pc = "rs_install" /\ th[t].pc \in InResize /\ th[t].pc \in Moving
  BY DEF RsInstall, RsUnlock, At, InResize, Moving
<1>2. /\ \A u \in Threads \ {t} : th[u].pc = "idle"
      /\ th[t].op = "insert" /\ OnceByPlace
      /\ \A f \in Gens : \A n \in Indexes(f) : chain[f][n] # <<>> => Occupiable("rs_install", f, n)
  BY <1>1, AloneFacts
<1>3. UNCHANGED <<chain, key, out, fault, aux, cur>>
  BY DEF RsInstall, RsUnlock, fields, resize, client
<1>4. cur.got = NoEntry
  BY <1>1, <1>2 DEF AInv, WalkInv
<1>5. HashInv' /\ ChainsApart' /\ InTable' = InTable
  BY <1>2, <1>3 DEF AInv, HashInv, Code, OnceByPlace, ChainsApart, InTable, Linked
<1>6. Tracked = InTable
  BY <1>4 DEF Tracked, InTable
<1>7. \A f \in Gens : \A n \in Indexes(f) : chain'[f][n] # <<>> => f = aux'
  BY <1>2, <1>3 DEF Occupiable
<1>8. CASE RsInstall(t)
  <2>1. Goto(t, "rs_install")
    BY <1>1, <1>8 DEF RsInstall, Goto, TInv, TypeOK
  <2>2. \A f \in Gens : \A n \in Indexes(f) : chain'[f][n] # <<>> => Occupiable("rs_install", f, n)'
    BY <1>1, <1>7 DEF Occupiable
  <2> QED BY <1>1, <1>2, <1>3, <1>4, <1>5, <1>6, <2>1, <2>2, AloneStep
<1>9. CASE RsUnlock(t)
  <2>1. Goto(t, "rehash") /\ h'["table"] = aux' /\ "rehash" \notin Moving
    BY <1>9 DEF RsUnlock, fields, Fields, Moving
  <2>2. \A f \in Gens : \A n \in Indexes(f) : chain'[f][n] # <<>> => Occupiable("rehash", f, n)'
    BY <1>7, <2>1 DEF Occupiable
  <2> QED BY <1>1, <1>2, <1>3, <1>4, <1>5, <1>6, <2>1, <2>2, AloneStep
<1> QED BY <1>8, <1>9

----------------------------------------------------------------------------
LEMMA InitAInv == Init => AInv
<1> SUFFICES ASSUME Init PROVE AInv
  OBVIOUS
<1>1. \A t \in Threads : th[t] = Idle /\ th[t].pc = "idle" /\ th[t].op = "lookup"
  BY DEF Init, Idle
<1>2. \A g \in Gens : \A n \in Indexes(g) : chain[g][n] = <<>> /\ ToSet(chain[g][n]) = {}
  BY DEF Init, ToSet
<1>3. cur.got = NoEntry /\ out = Entries /\ fault = FALSE
  BY DEF Init, NoCursor
<1>4. Unlinked = {} /\ Arriving = {}
  BY <1>1 DEF Unlinked, Arriving
<1>5. SlotInv
  BY <1>1, <1>4 DEF SlotInv, Computed, Locked
<1>6. WalkInv /\ EmptyInv /\ HashInv /\ NoFault
  BY <1>1, <1>2, <1>3 DEF WalkInv, EmptyInv, HashInv, NoFault
<1>7. InTable = {}
  BY <1>2, InTableAt
<1>8. ChainsApart
  BY <1>2 DEF ChainsApart, IsInjective
<1>9. OnceByPlace
  BY <1>3, <1>4, <1>7, <1>8 DEF OnceByPlace
<1> QED BY <1>5, <1>6, <1>9, OnceParts DEF AInv

LEMMA NextAInv ==
  TInv /\ HoldsApart /\ AInv /\ ResizesAlone /\ ResizesAlone' /\ [Next]_vars => AInv'
<1> SUFFICES ASSUME TInv, HoldsApart, AInv, ResizesAlone, ResizesAlone', [Next]_vars PROVE AInv'
  OBVIOUS
<1>1. CASE UNCHANGED vars
  BY <1>1, IdleStill DEF vars, table, fields, resize, client
<1>2. ASSUME NEW t \in Threads, Begin(t) PROVE AInv'
  <2>1. PICK k \in Keys :
          \/ \E e \in Entries : BeginInsert(t, e, k) \/ PlainInsert(t, e, k)
          \/ TooLong(t, k) \/ BeginLookup(t, k) \/ BeginDelete(t, k)
          \/ PlainLookup(t, k) \/ PlainDelete(t, k)
    BY <1>2 DEF Begin
  <2> QED BY <2>1, BeginInsertAInv, PlainInsertAInv, CallsStill, PlainDeleteAInv
<1>3. ASSUME NEW t \in Threads, Continue(t) PROVE AInv'
  BY <1>3, CallsStill, InsLinkAInv, DelUnlinkAInv, RsInitAInv, RsWalkAInv, RsBucketAInv,
     RsUnlinkAInv, RsAddAInv, RsFreeAInv, RsInstallAInv DEF Continue
<1> QED BY <1>1, <1>2, <1>3 DEF Next

LEMMA Quietly == Spec /\ []ResizesAlone => [](TInv /\ AInv)
<1>1. Init => TInv /\ HoldsApart /\ AInv
  <2>1. Init => HoldsApart
    BY DEF Init, HoldsApart
  <2> QED BY <2>1, InitTInv, InitAInv
<1>2. TInv /\ HoldsApart /\ AInv /\ ResizesAlone /\ ResizesAlone' /\ [Next]_vars
        => (TInv /\ HoldsApart /\ AInv)'
  BY NextTInv, HoldsApartNext, NextAInv
<1> QED BY <1>1, <1>2, PTL DEF Spec

\* As long as a resize that moves entries (hashtbl.c:270 to 302) runs beside no
\* other call, no freed array or mutex and no unlinked entry is touched, by
\* the resize itself or by any number of other calls between resizes.
THEOREM NothingUndefined == Spec /\ []ResizesAlone => []NoFault
<1>1. AInv => NoFault
  BY DEF AInv
<1> QED BY <1>1, Quietly, PTL

\* On the same condition no entry is lost or in two places: what a resize moves
\* from the old chains to the new ones one by one (hashtbl.c:270 to 278) is all
\* there is, and every insertion and deletion hands exactly one entry over.
THEOREM NoEntryLost == Spec /\ []ResizesAlone => []EachEntryOnce
<1>1. AInv => EachEntryOnce
  BY DEF AInv
<1> QED BY <1>1, Quietly, PTL

\* And every entry is where lookups search for it (hashtbl.h:106 to 122).
THEOREM InTheirBuckets == Spec /\ []ResizesAlone => []Placement
<1>1. TInv /\ AInv => Placement
  <2> SUFFICES ASSUME TInv, AInv, NEW g \in {h["table"], aux}, NEW n \in Indexes(g),
                      NEW i \in 1..Len(chain[g][n])
               PROVE  n = Code(g, key[chain[g][n][i]])
    BY DEF Placement
  <2>1. g \in Gens
    BY DEF TInv, TypeOK, Fields
  <2>2. chain[g][n][i] \in ToSet(chain[g][n])
    BY DEF ToSet
  <2> QED BY <2>1, <2>2 DEF AInv, HashInv
<1> QED BY <1>1, Quietly, PTL

\* What keeps resizes alone: a single thread, or no memory for another array.
FewThreads == \A t, u \in Threads : t = u
NoGrowth == MaxGens = 1

LEMMA AlwaysAlone == ASSUME FewThreads \/ NoGrowth PROVE Spec => []ResizesAlone
<1>1. TInv => ResizesAlone
  <2>1. CASE FewThreads
    BY <2>1 DEF FewThreads, ResizesAlone
  <2>2. CASE NoGrowth
    <3> SUFFICES ASSUME TInv, NEW t \in Threads, th[t].pc \in Moving PROVE FALSE
      BY DEF ResizesAlone
    <3>1. Gens = {1} /\ aux \in Gens /\ h["table"] \in Gens
      BY <2>2 DEF NoGrowth, Gens, TInv, TypeOK, Fields
    <3>2. aux = h["table"] + 1 \/ aux - 1 \in Gens
      BY DEF TInv, GenInv, Walking, Moving
    <3> QED BY <3>1, <3>2
  <2> QED BY <2>1, <2>2
<1> QED BY <1>1, InitTInv, NextTInv, PTL DEF Spec

\* So a single thread, resizes included, or any number of them without resizes
\* keep every entry in exactly one place and never touch what is gone.
THEOREM SafeWithoutRaces ==
  ASSUME FewThreads \/ NoGrowth
  PROVE  Spec => [](NoFault /\ EachEntryOnce /\ Placement)
<1>1. Spec => []ResizesAlone
  BY AlwaysAlone
<1> QED BY <1>1, NothingUndefined, NoEntryLost, InTheirBuckets, PTL

----------------------------------------------------------------------------
(* Who changes a bucket *)

LEMMA UnderLockStep ==
  ASSUME TInv, AInv, ResizesAlone, Next, NEW u \in Threads, NEW n \in Indexes(h["table"]),
         th'[u] # th[u], dead' = dead, chain'[h["table"]][n] # chain[h["table"]][n]
  PROVE  holds[u] = <<h["locks"], n>>
<1> DEFINE g == h["table"]
<1>0. g \in Gens /\ th \in [Threads -> Calls] /\ ChainType
  BY DEF TInv, TypeOK, Fields, Calls
<1>1. PICK t \in Threads : Begin(t) \/ Continue(t)
  BY DEF Next
<1>2. ASSUME NEW l, Goto(t, l) PROVE u = t
  BY <1>2 DEF Goto, TInv, TypeOK
<1>3. ASSUME Fault PROVE FALSE
  BY <1>3 DEF Fault, table
<1>4. ASSUME NEW k \in Keys, NEW e \in Entries, BeginInsert(t, e, k) \/ PlainInsert(t, e, k)
      PROVE  FALSE
  BY <1>4 DEF BeginInsert, PlainInsert, table
<1>5. ASSUME NEW k \in Keys,
             \/ TooLong(t, k) \/ BeginLookup(t, k) \/ BeginDelete(t, k)
             \/ PlainLookup(t, k) \/ PlainDelete(t, k)
      PROVE  FALSE
  BY <1>5 DEF TooLong, BeginLookup, BeginDelete, PlainLookup, PlainDelete, table
<1>6. ~Begin(t)
  BY <1>4, <1>5 DEF Begin
<1>7. ASSUME UNCHANGED chain PROVE FALSE
  BY <1>7
<1>8. CASE InsLink(t)
  <2>1. th[t].pc = "link" /\ th[t].pc \in Computed /\ th[t].pc \in Locked
    BY <1>8 DEF InsLink, At, Computed, Locked
  <2>2. Calm
    BY <2>1 DEF ResizesAlone, Calm, At, Moving
  <2>3. /\ h["locks"] = g /\ th[t].slot \in Indexes(g) /\ holds[t] = <<g, th[t].slot>>
    BY <2>1, <2>2, ComputedFacts, CalmFacts DEF Fields, AInv, SlotInv
  <2>4. Put(g, th[t].slot, th[t].ent) /\ u = t
    BY <1>2, <1>3, <1>8 DEF InsLink
  <2>5. n = th[t].slot
    BY <1>0, <2>3, <2>4 DEF Put, ChainType
  <2> QED BY <2>3, <2>4, <2>5
<1>9. CASE DelUnlink(t)
  <2>1. th[t].pc = "unlink" /\ th[t].pc \in Computed /\ th[t].pc \in Locked
    BY <1>9 DEF DelUnlink, At, Computed, Locked
  <2>2. Calm
    BY <2>1 DEF ResizesAlone, Calm, At, Moving
  <2>3. h["locks"] = g /\ h["buckets"] = g
    BY <2>2, CalmFacts DEF Fields
  <2>4. /\ th[t].slot \in Indexes(g) /\ holds[t] = <<g, th[t].slot>>
        /\ th[t].slot = Code(h["buckets"], th[t].arg)
    BY <2>1, <2>2, <2>3, ComputedFacts DEF AInv, SlotInv
  <2>5. PICK i : Cut(g, th[t].slot, i)
    BY <1>3, <1>7, <1>9, <2>4 DEF DelUnlink
  <2>6. u = t
    BY <1>2, <1>3, <1>9 DEF DelUnlink
  <2>7. n = th[t].slot
    BY <1>0, <2>4, <2>5 DEF Cut, ChainType
  <2> QED BY <2>3, <2>4, <2>6, <2>7
<1>10. CASE RsUnlink(t)
  <2>1. th[t].pc = "rs_unlink" /\ th[t].pc \in Moving
    BY <1>10 DEF RsUnlink, At, Moving
  <2>2. \A v \in Threads \ {t} : th[v].pc = "idle"
    BY <2>1, AloneFacts
  <2>3. h["locks"] = g /\ h["buckets"] = g /\ cur.pos \in Entries /\ cur.want = key[cur.pos]
    BY <2>1, <2>2 DEF TInv, GenInv, Settled, Fields, AInv, WalkInv
  <2>4. holds[t] = <<g, Code(g, key[cur.pos])>> /\ Code(g, key[cur.pos]) \in Indexes(g)
    BY <1>0, <2>1, <2>3, CodeType DEF AInv, SlotInv, TInv, TypeOK
  <2>5. PICK i : Cut(g, Code(g, key[cur.pos]), i)
    BY <1>7, <1>10, <2>3 DEF RsUnlink
  <2>6. u = t
    BY <1>2, <1>10 DEF RsUnlink
  <2>7. n = Code(g, key[cur.pos])
    BY <1>0, <2>4, <2>5 DEF Cut, ChainType
  <2> QED BY <2>3, <2>4, <2>6, <2>7
<1>11. CASE RsAdd(t)
  <2>1. th[t].pc = "rs_add" /\ th[t].pc \in Walking
    BY <1>11 DEF RsAdd, At, Walking, Moving
  <2>2. aux = g + 1 /\ aux # g
    BY <1>0, <2>1 DEF TInv, GenInv, Gens
  <2>3. PICK m, e : Put(aux, m, e)
    BY <1>3, <1>7, <1>11 DEF RsAdd
  <2>4. chain'[g] = chain[g]
    BY <1>0, <2>2, <2>3 DEF Put, ChainType
  <2> QED BY <2>4
<1>12. CASE RsFree(t)
  <2>1. th[t].pc = "rs_free" /\ th[t].pc \in Moving
    BY <1>12 DEF RsFree, At, Moving
  <2>2. \A v \in Threads \ {t} : th[v].pc = "idle"
    BY <2>1, AloneFacts
  <2>3. g \notin dead
    BY <1>0, <2>1, <2>2 DEF TInv, GenInv, Settled, Gens
  <2> QED BY <1>12, <2>3 DEF RsFree
<1>13. CASE HashCodeSafe(t) \/ InsCheck(t) \/ BucketRead(t) \/ BucketLock(t) \/ InsCount(t)
            \/ InsStore(t) \/ LkFind(t) \/ BucketUnlock(t) \/ RsLock(t) \/ RsInit(t) \/ RsWalk(t)
            \/ RsBucket(t) \/ RsInstall(t) \/ RsUnlock(t)
  BY <1>3, <1>7, <1>13
     DEF HashCodeSafe, InsCheck, BucketRead, BucketLock, InsCount, InsStore, LkFind, BucketUnlock,
         RsLock, RsInit, RsWalk, RsBucket, RsInstall, RsUnlock, table, client
<1> QED BY <1>1, <1>6, <1>8, <1>9, <1>10, <1>11, <1>12, <1>13 DEF Continue

\* While resizes run alone, no thread changes a bucket of the array in use
\* without holding its lock, which hash_table_del_key_safe takes for a bucket
\* it then computes anew (hashtbl.c:217 and 104).
THEOREM LockedChanges == Spec /\ []ResizesAlone => ChangesUnderLock
<1> DEFINE A == \A t \in Threads, n \in Indexes(h["table"]) :
                  (th'[t] # th[t] /\ dead' = dead /\ chain'[h["table"]][n] # chain[h["table"]][n])
                    => holds[t] = <<h["locks"], n>>
<1>1. TInv /\ AInv /\ ResizesAlone /\ [Next]_vars => [A]_vars
  BY UnderLockStep
<1> HIDE DEF A
<1>2. Spec /\ []ResizesAlone => [][A]_vars
  BY <1>1, Quietly, PTL DEF Spec
<1> QED BY <1>2 DEF A, ChangesUnderLock

----------------------------------------------------------------------------
(* An atomic set of keyed entries *)

\* A bucket holds all the entries of its keys, so searching it decides.
LEMMA Answer ==
  ASSUME TInv, AInv, Calm, NEW k \in Keys, NEW S, \A e \in Entries : e \in S <=> key[e] = k,
         NEW q, q = chain[h["table"]][Code(h["table"], k)]
  PROVE  /\ FirstIn(q, S) = 0 => Abstract!Under(k) = {}
         /\ FirstIn(q, S) # 0 => FirstIn(q, S) \in 1..Len(q) /\ q[FirstIn(q, S)] \in Abstract!Under(k)
<1> DEFINE g == h["table"]
           n == Code(g, k)
<1>1. g \in Gens /\ Tracked = InTable
  BY CalmFacts
<1>2. n \in Indexes(g)
  BY <1>1, CodeType
<1>3. q \in Seq(Entries)
  BY <1>1, <1>2, ChainElement DEF TInv
<1>4. ASSUME FirstIn(q, S) = 0, NEW x \in Tracked, key[x] = k PROVE FALSE
  <2>1. PICK m \in Indexes(g) : x \in ToSet(chain[g][m])
    BY <1>1, <1>4, CalmFacts
  <2>2. Code(g, key[x]) = m
    BY <1>1, <2>1 DEF AInv, HashInv
  <2>3. x \in ToSet(q)
    BY <1>4, <2>1, <2>2
  <2>4. PICK i \in 1..Len(q) : x = q[i]
    BY <2>3 DEF ToSet
  <2>5. q[i] \notin S
    BY <1>3, <1>4, FirstInFacts
  <2>6. x \in Entries
    BY <1>3, <2>4
  <2> QED BY <1>4, <2>4, <2>5, <2>6
<1>5. ASSUME FirstIn(q, S) # 0
      PROVE  FirstIn(q, S) \in 1..Len(q) /\ q[FirstIn(q, S)] \in Tracked /\ key[q[FirstIn(q, S)]] = k
  <2>1. FirstIn(q, S) \in 1..Len(q) /\ q[FirstIn(q, S)] \in S \cap Entries
    BY <1>3, <1>5, FirstInFacts
  <2>2. q[FirstIn(q, S)] \in ToSet(q)
    BY <2>1 DEF ToSet
  <2>3. q[FirstIn(q, S)] \in InTable
    BY <1>1, <1>2, <2>2, InTableAt
  <2> QED BY <1>1, <2>1, <2>3
<1> QED BY <1>4, <1>5 DEF Abstract!Under

LEMMA MatchesTold ==
  ASSUME TInv, KeysTold, NEW k \in Keys
  PROVE  /\ \A e \in Entries : e \in {x \in Entries : Matches(x, k)} <=> key[e] = k
         /\ \A e \in Entries : e \in {x \in Entries : MatchesSafe(x, k)} <=> key[e] = k
<1>1. \A e \in Entries : Matches(e, k) \/ MatchesSafe(e, k) => key[e] = k
  BY DEF TInv, TypeOK, KeysTold, Matches, MatchesSafe
<1>2. \A e \in Entries : key[e] = k => Matches(e, k) /\ MatchesSafe(e, k)
  BY MatchesItself
<1> QED BY <1>1, <1>2

\* Nothing moves, and so nothing is between the old and the new chains.
LEMMA SameTracked == UNCHANGED <<chain, cur>> => Tracked' = Tracked
BY DEF Tracked, Linked

LEMMA CalmTracked ==
  ASSUME TInv, AInv, Calm, UNCHANGED cur
  PROVE  Tracked = InTable /\ Tracked' = InTable'
<1>1. cur.got = NoEntry
  BY CalmFacts
<1> QED BY <1>1 DEF Tracked, InTable

\* list_add is where an insertion takes effect.
LEMMA LinkRefines ==
  ASSUME TInv, AInv, Calm, NEW g, g = h["table"], NEW n \in Indexes(g), NEW e \in Entries,
         e \notin InTable, Put(g, n, e), UNCHANGED cur
  PROVE  e \notin Tracked /\ Tracked' = Tracked \cup {e}
<1>1. g \in Gens /\ ChainType /\ ChainsApart
  BY CalmFacts, OnceParts DEF TInv, AInv, OnceByPlace
<1>2. InTable' = InTable \cup {e}
  BY <1>1, PutEffect
<1> QED BY <1>2, CalmTracked

\* list_del_init is where a deletion does.
LEMMA RemoveRefines ==
  ASSUME TInv, AInv, Calm, KeysTold, NEW t \in Threads, NEW k \in Keys,
         NEW g, g = h["table"], NEW n, n = Code(g, k), NEW q, q = chain[g][n],
         NEW i, i = FirstHit(q, k), UNCHANGED <<cur, key>>,
         IF i = 0 THEN found' = [found EXCEPT ![t] = <<k, NoEntry>>] /\ UNCHANGED chain
                  ELSE found' = [found EXCEPT ![t] = <<k, q[i]>>] /\ Cut(g, n, i)
  PROVE  Abstract!Remove(t, k)
<1> DEFINE S == {x \in Entries : Matches(x, k)}
<1>1. \A e \in Entries : e \in S <=> key[e] = k
  BY MatchesTold
<1>2. i = FirstIn(q, S)
  BY DEF FirstHit
<1> HIDE DEF S
<1>3. /\ i = 0 => Abstract!Under(k) = {}
      /\ i # 0 => i \in 1..Len(q) /\ q[i] \in Abstract!Under(k)
  <2>1. q = chain[h["table"]][Code(h["table"], k)]
    OBVIOUS
  <2>2. /\ FirstIn(q, S) = 0 => Abstract!Under(k) = {}
        /\ FirstIn(q, S) # 0 => FirstIn(q, S) \in 1..Len(q) /\ q[FirstIn(q, S)] \in Abstract!Under(k)
    BY <1>1, <2>1, Answer
  <2> QED BY <1>2, <2>2
<1>4. CASE i = 0
  <2>1. Tracked' = Tracked
    BY <1>4, SameTracked
  <2> QED BY <1>3, <1>4, <2>1 DEF Abstract!Remove
<1>5. CASE i # 0
  <2>1. g \in Gens /\ ChainType /\ ChainsApart /\ n \in Indexes(g)
    BY CalmFacts, CodeType, OnceParts DEF TInv, AInv, OnceByPlace
  <2>2. Cut(g, n, i) /\ i \in 1..Len(chain[g][n])
    BY <1>3, <1>5
  <2>3. InTable' = InTable \ {chain[g][n][i]}
    BY <2>1, <2>2, CutEffect
  <2>4. Tracked' = Tracked \ {q[i]}
    BY <2>3, CalmTracked
  <2> QED BY <1>3, <1>5, <2>4 DEF Abstract!Remove
<1> QED BY <1>4, <1>5

\* The walk is where a lookup does.
LEMMA FindRefines ==
  ASSUME TInv, AInv, Calm, KeysTold, NEW t \in Threads, NEW k \in Keys,
         NEW S \in {{x \in Entries : Matches(x, k)}, {x \in Entries : MatchesSafe(x, k)}},
         NEW q, q = chain[h["table"]][Code(h["table"], k)], NEW i, i = FirstIn(q, S),
         UNCHANGED <<chain, cur, key>>,
         found' = [found EXCEPT ![t] = <<k, IF i = 0 THEN NoEntry ELSE q[i]>>]
  PROVE  Abstract!Find(t, k)
<1>1. \A e \in Entries : e \in S <=> key[e] = k
  BY MatchesTold
<1>2. /\ i = 0 => Abstract!Under(k) = {}
      /\ i # 0 => i \in 1..Len(q) /\ q[i] \in Abstract!Under(k)
  BY <1>1, Answer
<1>3. Tracked' = Tracked
  BY SameTracked
<1>4. CASE i = 0
  BY <1>2, <1>3, <1>4 DEF Abstract!Find
<1>5. CASE i # 0
  BY <1>2, <1>3, <1>5 DEF Abstract!Find
<1> QED BY <1>4, <1>5

LEMMA RefinesStep ==
  ASSUME TInv, AInv, ResizesAlone, ResizesAlone', KeysTold, Next
  PROVE  Abstract!Next \/ UNCHANGED <<Tracked, key, found>>
<1>0. PICK t \in Threads : Begin(t) \/ Continue(t)
  BY DEF Next
<1> DEFINE g == h["table"]
           Stutters == UNCHANGED <<Tracked, key, found>>
<1>1. th \in [Threads -> Calls] /\ g \in Gens /\ OnceByPlace
  BY OnceParts DEF TInv, TypeOK, Calls, Fields, AInv
<1>2. Calm => h["buckets"] = g
  BY CalmFacts DEF Fields
<1>3. ASSUME NEW k \in Keys, NEW e \in Entries, BeginInsert(t, e, k)
      PROVE  \E l \in Keys : Abstract!SetKey(e, l)
  <2>1. PICK l \in KeyLeft(e, k) : key' = [key EXCEPT ![e] = l]
    BY <1>3 DEF BeginInsert
  <2>2. l \in Keys
    BY KeyLeftType DEF TInv, TypeOK
  <2>3. e \in out /\ UNCHANGED <<chain, cur, found>>
    BY <1>3 DEF BeginInsert, table, resize
  <2>4. e \notin Tracked
    BY <2>3 DEF AInv, EachEntryOnce
  <2> QED BY <2>1, <2>2, <2>3, <2>4, SameTracked DEF Abstract!SetKey
<1>4. ASSUME NEW k \in Keys, NEW e \in Entries, PlainInsert(t, e, k)
      PROVE  \E l \in Keys : Abstract!Insert(e, l)
  <2>1. Calm
    BY <1>4 DEF PlainInsert, Alone, At, Calm, Moving
  <2>2. PICK l \in KeyLeft(e, k) : key' = [key EXCEPT ![e] = l] /\ Put(g, Code(g, l), e)
    BY <1>2, <1>4, <2>1 DEF PlainInsert
  <2>3. e \in out /\ UNCHANGED <<cur, found>>
    BY <1>4 DEF PlainInsert, resize
  <2>4. l \in Keys
    BY KeyLeftType DEF TInv, TypeOK
  <2>5. Code(g, l) \in Indexes(g) /\ e \notin InTable
    BY <1>1, <2>3, <2>4, CodeType DEF OnceByPlace
  <2>6. e \notin Tracked /\ Tracked' = Tracked \cup {e}
    BY <2>1, <2>2, <2>3, <2>5, LinkRefines
  <2> QED BY <2>2, <2>3, <2>4, <2>6 DEF Abstract!Insert
<1>5. ASSUME NEW k \in Keys, BeginLookup(t, k) \/ BeginDelete(t, k)
      PROVE  Stutters
  BY <1>5, SameTracked DEF BeginLookup, BeginDelete, table, resize, client
<1>a. ASSUME NEW k \in Keys, TooLong(t, k)
      PROVE  Abstract!Find(t, k)
  <2>1. /\ k \in LongKeys /\ found' = [found EXCEPT ![t] = <<k, NoEntry>>]
        /\ UNCHANGED <<chain, cur, key>>
    BY <1>a DEF TooLong, table, resize
  <2>2. Abstract!Under(k) = {}
    <3>1. Tracked \subseteq Entries
      BY DEF AInv, EachEntryOnce
    <3>2. \A e \in Entries : key[e] \notin LongKeys
      BY DEF TInv, TypeOK
    <3> QED BY <2>1, <3>1, <3>2 DEF Abstract!Under
  <2> QED BY <2>1, <2>2, SameTracked DEF Abstract!Find
<1>6. ASSUME NEW k \in Keys, PlainLookup(t, k)
      PROVE  Abstract!Find(t, k)
  <2>1. Calm
    BY <1>6 DEF PlainLookup, Alone, At, Calm, Moving
  <2> DEFINE q == chain[g][Code(g, k)]
             S == {x \in Entries : Matches(x, k)}
             i == FirstIn(q, S)
  <2>2. /\ found' = [found EXCEPT ![t] = <<k, IF i = 0 THEN NoEntry ELSE q[i]>>]
        /\ UNCHANGED <<chain, cur, key>>
    BY <1>2, <1>6, <2>1 DEF PlainLookup, FirstHit, table, resize
  <2>3. S \in {{x \in Entries : Matches(x, k)}, {x \in Entries : MatchesSafe(x, k)}}
    OBVIOUS
  <2>4. q = chain[h["table"]][Code(h["table"], k)] /\ i = FirstIn(q, S)
    OBVIOUS
  <2> HIDE DEF S, q, i
  <2> QED BY <2>1, <2>2, <2>3, <2>4, FindRefines
<1>7. ASSUME NEW k \in Keys, PlainDelete(t, k)
      PROVE  Abstract!Remove(t, k)
  <2>1. Calm
    BY <1>7 DEF PlainDelete, Alone, At, Calm, Moving
  <2> DEFINE n == Code(g, k)
             q == chain[g][n]
             i == FirstHit(q, k)
  <2>2. /\ UNCHANGED <<cur, key>>
        /\ IF i = 0 THEN found' = [found EXCEPT ![t] = <<k, NoEntry>>] /\ UNCHANGED chain
                    ELSE found' = [found EXCEPT ![t] = <<k, q[i]>>] /\ Cut(g, n, i)
    BY <1>2, <1>7, <2>1 DEF PlainDelete, resize
  <2>3. g = h["table"] /\ n = Code(g, k) /\ q = chain[g][n] /\ i = FirstHit(q, k)
    OBVIOUS
  <2> HIDE DEF g, n, q, i
  <2> QED BY <2>1, <2>2, <2>3, RemoveRefines
<1>8. CASE Begin(t)
  <2>1. PICK k \in Keys :
          \/ \E e \in Entries : BeginInsert(t, e, k) \/ PlainInsert(t, e, k)
          \/ TooLong(t, k) \/ BeginLookup(t, k) \/ BeginDelete(t, k)
          \/ PlainLookup(t, k) \/ PlainDelete(t, k)
    BY <1>8 DEF Begin
  <2> QED BY <1>3, <1>4, <1>5, <1>a, <1>6, <1>7, <2>1 DEF Abstract!Next
<1>9. CASE InsLink(t)
  <2>1. th[t].pc = "link" /\ th[t].op = "insert" /\ th[t].pc \in Computed
    BY <1>9 DEF InsLink, At, TInv, CallInv, Computed, Locked
  <2>2. Calm
    BY <2>1 DEF ResizesAlone, Calm, At, Moving
  <2>3. /\ ~Gone("table", th[t].slot) /\ th[t].slot \in Indexes(g)
    BY <2>1, <2>2, ComputedFacts
  <2>4. th[t].ent \in Entries /\ th[t].ent \in Arriving
    BY <2>1 DEF TInv, CallInv, Arriving, Unlinked
  <2>5. th[t].ent \notin InTable
    BY <1>1, <2>4 DEF OnceByPlace
  <2>6. Put(g, th[t].slot, th[t].ent) /\ UNCHANGED <<cur, key, found>>
    BY <1>9, <2>3 DEF InsLink, resize, client
  <2>7. th[t].ent \notin Tracked /\ Tracked' = Tracked \cup {th[t].ent}
    BY <2>2, <2>3, <2>4, <2>5, <2>6, LinkRefines
  <2>8. Abstract!Link(th[t].ent)
    BY <2>6, <2>7 DEF Abstract!Link
  <2> QED BY <2>4, <2>8 DEF Abstract!Next
<1>10. CASE DelUnlink(t)
  <2>1. th[t].pc = "unlink" /\ th[t].pc \in Computed
    BY <1>10 DEF DelUnlink, At, Computed, Locked
  <2>2. Calm
    BY <2>1 DEF ResizesAlone, Calm, At, Moving
  <2> DEFINE k == th[t].arg
             n == Code(g, k)
             q == chain[g][n]
             i == FirstHit(q, k)
  <2>3. ~Gone("table", n) /\ k \in Keys
    BY <2>1, <2>2, ComputedFacts
  <2>4. /\ UNCHANGED <<cur, key>>
        /\ IF i = 0 THEN found' = [found EXCEPT ![t] = <<k, NoEntry>>] /\ UNCHANGED chain
                    ELSE found' = [found EXCEPT ![t] = <<k, q[i]>>] /\ Cut(g, n, i)
    BY <1>2, <1>10, <2>2, <2>3 DEF DelUnlink, resize
  <2>5. g = h["table"] /\ n = Code(g, k) /\ q = chain[g][n] /\ i = FirstHit(q, k)
    OBVIOUS
  <2> HIDE DEF g, n, q, i, k
  <2>6. Abstract!Remove(t, k)
    BY <2>2, <2>3, <2>4, <2>5, RemoveRefines
  <2> QED BY <2>3, <2>6 DEF Abstract!Next
<1>11. CASE LkFind(t)
  <2>1. th[t].pc = "find" /\ th[t].pc \in Computed
    BY <1>11 DEF LkFind, At, Computed, Locked
  <2>2. Calm
    BY <2>1 DEF ResizesAlone, Calm, At, Moving
  <2> DEFINE k == th[t].arg
             q == chain[g][th[t].slot]
             S == {x \in Entries : MatchesSafe(x, k)}
             i == FirstIn(q, S)
  <2>3. ~Gone("table", th[t].slot) /\ k \in Keys /\ th[t].slot = Code(g, k)
    BY <2>1, <2>2, ComputedFacts
  <2>4. /\ found' = [found EXCEPT ![t] = <<k, IF i = 0 THEN NoEntry ELSE q[i]>>]
        /\ UNCHANGED <<chain, cur, key>>
    BY <1>11, <2>3 DEF LkFind, table, resize
  <2>5. S \in {{x \in Entries : Matches(x, k)}, {x \in Entries : MatchesSafe(x, k)}}
    OBVIOUS
  <2>6. q = chain[h["table"]][Code(h["table"], k)] /\ i = FirstIn(q, S)
    BY <2>3
  <2> HIDE DEF S, q, i, k
  <2>7. Abstract!Find(t, k)
    BY <2>2, <2>3, <2>4, <2>5, <2>6, FindRefines
  <2> QED BY <2>3, <2>7 DEF Abstract!Next
<1>12. CASE RsInit(t) \/ RsWalk(t) \/ RsBucket(t) \/ RsUnlink(t) \/ RsAdd(t) \/ RsFree(t)
            \/ RsInstall(t) \/ RsUnlock(t)
  <2>1. Tracked' = Tracked
    BY <1>12, RsInitAInv, RsWalkAInv, RsBucketAInv, RsUnlinkAInv, RsAddAInv, RsFreeAInv,
       RsInstallAInv
  <2>2. UNCHANGED <<key, found>>
    BY <1>12 DEF RsInit, RsWalk, RsBucket, RsUnlink, RsAdd, RsFree, RsInstall, RsUnlock, Fault,
                 client
  <2> QED BY <2>1, <2>2
<1>13. CASE HashCodeSafe(t) \/ InsCheck(t) \/ BucketRead(t) \/ BucketLock(t) \/ InsCount(t)
            \/ InsStore(t) \/ BucketUnlock(t) \/ RsLock(t)
  <2>1. UNCHANGED <<chain, cur, key, found>>
    BY <1>13 DEF HashCodeSafe, InsCheck, BucketRead, BucketLock, InsCount, InsStore, BucketUnlock,
                 RsLock, Fault, table, resize, client
  <2> QED BY <2>1, SameTracked
<1> QED BY <1>0, <1>8, <1>9, <1>10, <1>11, <1>12, <1>13 DEF Continue

\* As long as resizes run alone and the comparison tells keys apart, the
\* concurrent operations of hashtbl.c:47 to 222 act like atomic ones on a set
\* of keyed entries: each takes effect once, inside its bucket's critical
\* section, "not found" means that no such entry is there, and a resize cannot
\* be seen.
THEOREM TableRefines == ASSUME KeysTold PROVE Spec /\ []ResizesAlone => ImplementsEntryTable
<1>1. Init => Abstract!Init
  <2> SUFFICES ASSUME Init PROVE Abstract!Init
    OBVIOUS
  <2>1. AInv /\ out = Entries /\ cur.got = NoEntry
    BY InitAInv DEF Init, NoCursor
  <2>2. Tracked = {}
    BY <2>1 DEF AInv, EachEntryOnce
  <2>3. key \in [Entries -> Keys]
    BY DEF Init
  <2> QED BY <2>2, <2>3, AnyKeyType DEF Init, Abstract!Init
<1>2. TInv /\ AInv /\ ResizesAlone /\ ResizesAlone' /\ [Next]_vars
        => [Abstract!Next]_<<Tracked, key, found>>
  <2>1. UNCHANGED vars => UNCHANGED <<Tracked, key, found>>
    BY SameTracked DEF vars, table, resize, client
  <2> QED BY <2>1, RefinesStep
<1> QED BY <1>1, <1>2, Quietly, PTL DEF Spec, ImplementsEntryTable

\* A single thread, resizes included, or any number of them without resizes.
THEOREM AtomicWithoutRaces ==
  ASSUME KeysTold, FewThreads \/ NoGrowth
  PROVE  Spec => ImplementsEntryTable /\ ChangesUnderLock
<1>1. Spec => []ResizesAlone
  BY AlwaysAlone
<1>2. Spec /\ []ResizesAlone => ImplementsEntryTable
  BY TableRefines
<1> QED BY <1>1, <1>2, LockedChanges, PTL

----------------------------------------------------------------------------
(* Counting occupied buckets.  _used_buckets++ (hashtbl.c:69) is a load and a  *)
(* store, under the lock of one bucket only; StoresApart keeps them apart.     *)

\* The bucket an insertion has counted and not filled yet.
Counted == {th[t].slot : t \in {u \in Threads : th[u].pc = "link"}}

CountInv ==
  h = [f \in Fields |-> 1] =>
    /\ \A t \in Threads : th[t].pc = "store" => th[t].tmp = used
    /\ IsFiniteSet(Occupied \cup Counted) /\ Cardinality(Occupied \cup Counted) <= used

LEMMA CountStep ==
  ASSUME TInv, CountInv, StoresApart, StoresApart', ~Unsafe, Next
  PROVE  CountInv'
<1>1. PICK t \in Threads : Begin(t) \/ Continue(t)
  BY DEF Next
<1>2. /\ th \in [Threads -> Calls] /\ h \in [Fields -> Gens] /\ "table" \in Fields
      /\ h["table"] \in Gens /\ ChainType /\ used \in Nat /\ Fields # {}
  BY DEF TInv, TypeOK, Calls, Fields
<1> DEFINE g == h["table"]
           Ones == [f \in Fields |-> 1]
           Fewer == h' = Ones => h = Ones /\ Occupied' \subseteq Occupied \cup Counted /\ used' = used
<1>0. \A u \in Threads \ {t} : th'[u] = th[u]
  <2>1. CASE Begin(t)
    <3>1. ASSUME NEW k \in Keys, NEW e \in Entries, BeginInsert(t, e, k)
          PROVE  \A u \in Threads \ {t} : th'[u] = th[u]
      BY <1>2, <3>1 DEF BeginInsert
    <3>2. ASSUME NEW k \in Keys, TooLong(t, k) \/ BeginLookup(t, k) \/ BeginDelete(t, k)
          PROVE  \A u \in Threads \ {t} : th'[u] = th[u]
      BY <1>2, <3>2 DEF TooLong, BeginLookup, BeginDelete
    <3> QED BY <2>1, <3>1, <3>2 DEF Begin, PlainInsert, PlainLookup, PlainDelete, Alone
  <2>2. CASE Continue(t)
    <3>1. th' = th \/ \E c : th' = [th EXCEPT ![t] = c]
      BY <2>2 DEF Continue, HashCodeSafe, InsCheck, BucketRead, BucketLock, InsCount, InsStore, InsLink,
                  DelUnlink, LkFind, BucketUnlock, RsLock, RsInit, RsWalk, RsBucket, RsUnlink, RsAdd,
                  RsFree, RsInstall, RsUnlock, Goto, Return, Fault
    <3> QED BY <1>2, <3>1
  <2> QED BY <1>1, <2>1, <2>2
<1>a. ASSUME NEW S, IsFiniteSet(S), Cardinality(S) <= used, Occupied' \cup Counted' \subseteq S
      PROVE  IsFiniteSet(Occupied' \cup Counted') /\ Cardinality(Occupied' \cup Counted') <= used
  <2>1. /\ IsFiniteSet(Occupied' \cup Counted')
        /\ Cardinality(Occupied' \cup Counted') <= Cardinality(S)
    BY <1>a, FS_Subset
  <2>2. Cardinality(Occupied' \cup Counted') \in Nat /\ Cardinality(S) \in Nat
    BY <1>a, <2>1, FS_CardinalityType
  <2> QED BY <1>2, <1>a, <2>1, <2>2
<1>3. ASSUME Fewer, th'[t].pc \notin {"link", "store"}
      PROVE  CountInv'
  <2>1. Counted' \subseteq Counted
    BY <1>0, <1>3 DEF Counted
  <2>2. ASSUME h' = Ones
        PROVE  /\ \A u \in Threads : th'[u].pc = "store" => th'[u].tmp = used'
               /\ IsFiniteSet(Occupied' \cup Counted') /\ Cardinality(Occupied' \cup Counted') <= used'
    <3>1. /\ \A u \in Threads : th[u].pc = "store" => th[u].tmp = used
          /\ IsFiniteSet(Occupied \cup Counted) /\ Cardinality(Occupied \cup Counted) <= used
      BY <1>3, <2>2 DEF CountInv
    <3>2. Occupied' \cup Counted' \subseteq Occupied \cup Counted /\ used' = used
      BY <1>3, <2>1, <2>2
    <3>3. IsFiniteSet(Occupied' \cup Counted') /\ Cardinality(Occupied' \cup Counted') <= used
      BY <1>a, <3>1, <3>2
    <3>4. \A u \in Threads : th'[u].pc = "store" => th[u].pc = "store" /\ th'[u].tmp = th[u].tmp
      BY <1>0, <1>3
    <3> QED BY <3>1, <3>2, <3>3, <3>4
  <2> QED BY <2>2 DEF CountInv
<1>4. ASSUME UNCHANGED <<chain, h, used>> PROVE Fewer
  BY <1>4 DEF Occupied
<1>5. CASE Begin(t)
  <2>1. ASSUME NEW k \in Keys, NEW e \in Entries, BeginInsert(t, e, k)
        PROVE  CountInv'
    <3>1. th'[t].pc = "hash" /\ UNCHANGED <<chain, h, used>>
      BY <1>2, <2>1 DEF BeginInsert, Calls, table, fields
    <3> QED BY <1>3, <1>4, <3>1
  <2>2. ASSUME NEW k \in Keys, TooLong(t, k) \/ BeginLookup(t, k) \/ BeginDelete(t, k)
        PROVE  CountInv'
    <3>1. th'[t].pc \in {"idle", "hash", "bucket"} /\ UNCHANGED <<chain, h, used>>
      BY <1>2, <2>2 DEF TooLong, BeginLookup, BeginDelete, At, Calls, table, fields
    <3> QED BY <1>3, <1>4, <3>1
  <2> QED BY <1>5, <2>1, <2>2 DEF Begin, PlainInsert, PlainLookup, PlainDelete, Alone
<1>6. CASE Fault
  <2>1. UNCHANGED <<chain, h, used, th>>
    BY <1>6 DEF Fault, table, fields
  <2>2. Counted' = Counted /\ Occupied' = Occupied
    BY <2>1 DEF Counted, Occupied
  <2> QED BY <2>1, <2>2 DEF CountInv
<1>7. ASSUME NEW l, Goto(t, l) PROVE th'[t].pc = l /\ th'[t].slot = th[t].slot /\ th'[t].tmp = th[t].tmp
  BY <1>2, <1>7 DEF Goto, Calls
<1>8. CASE InsCount(t) /\ ~Fault
  <2>1. /\ th[t].pc = "count" /\ th[t].slot \in Indexes(g) /\ UNCHANGED <<chain, h, used>>
    BY <1>8 DEF InsCount, At, Gone, table, fields
  <2>2. Occupied' = Occupied
    BY <2>1 DEF Occupied
  <2>3. CASE chain[g][th[t].slot] = <<>>
    <3>1. th' = [th EXCEPT ![t].pc = "store", ![t].tmp = used]
      BY <1>8, <2>3 DEF InsCount
    <3>2. th'[t].pc = "store" /\ th'[t].tmp = used
      BY <1>2, <3>1 DEF Calls
    <3>3. Counted' = Counted
      BY <1>0, <2>1, <3>2 DEF Counted
    <3>4. \A u \in Threads \ {t} : th'[u].pc # "store"
      BY <3>2 DEF StoresApart, At
    <3> QED BY <2>1, <2>2, <3>2, <3>3, <3>4 DEF CountInv
  <2>4. CASE chain[g][th[t].slot] # <<>>
    <3>1. Goto(t, "link")
      BY <1>8, <2>4 DEF InsCount
    <3>2. th'[t].pc = "link" /\ th'[t].slot = th[t].slot
      BY <1>7, <3>1
    <3>3. Counted' \subseteq Counted \cup {th[t].slot} /\ Counted \subseteq Counted'
      BY <1>0, <2>1, <3>2 DEF Counted
    <3>4. th[t].slot \in Occupied
      BY <2>1, <2>4 DEF Occupied
    <3>5. Occupied' \cup Counted' = Occupied \cup Counted
      BY <2>2, <3>3, <3>4
    <3>6. \A u \in Threads : th'[u].pc = "store" => th[u].pc = "store" /\ th'[u].tmp = th[u].tmp
      BY <1>0, <3>2
    <3> QED BY <2>1, <3>5, <3>6 DEF CountInv
  <2> QED BY <2>3, <2>4
<1>9. CASE InsStore(t)
  <2>1. /\ th[t].pc = "store" /\ used' = th[t].tmp + 1 /\ Goto(t, "link") /\ UNCHANGED <<chain, h>>
    BY <1>9 DEF InsStore, At
  <2>2. th'[t].pc = "link" /\ th'[t].slot = th[t].slot
    BY <1>7, <2>1
  <2>3. Occupied' = Occupied /\ Counted' = Counted \cup {th[t].slot}
    <3>1. Occupied' = Occupied
      BY <2>1 DEF Occupied
    <3>2. Counted' \subseteq Counted \cup {th[t].slot}
      BY <1>0, <2>1, <2>2 DEF Counted
    <3>3. Counted \cup {th[t].slot} \subseteq Counted'
      BY <1>0, <2>1, <2>2 DEF Counted
    <3> QED BY <3>1, <3>2, <3>3
  <2>4. \A u \in Threads : th'[u].pc # "store"
    BY <1>0, <2>1, <2>2 DEF StoresApart, At
  <2>5. ASSUME h' = Ones
        PROVE  IsFiniteSet(Occupied' \cup Counted') /\ Cardinality(Occupied' \cup Counted') <= used'
    <3> DEFINE S == Occupied \cup Counted
    <3>1. IsFiniteSet(S) /\ Cardinality(S) <= used /\ used' = used + 1
      BY <2>1, <2>5 DEF CountInv
    <3>2. Occupied' \cup Counted' = S \cup {th[t].slot}
      BY <2>3
    <3> HIDE DEF S
    <3>3. /\ IsFiniteSet(S \cup {th[t].slot}) /\ Cardinality(S) \in Nat
          /\ \/ Cardinality(S \cup {th[t].slot}) = Cardinality(S)
             \/ Cardinality(S \cup {th[t].slot}) = Cardinality(S) + 1
      BY <3>1, FS_AddElement, FS_CardinalityType
    <3>4. Cardinality(S \cup {th[t].slot}) <= used'
      BY <1>2, <3>1, <3>3
    <3> QED BY <3>2, <3>3, <3>4
  <2> QED BY <2>4, <2>5 DEF CountInv
<1>10. CASE InsLink(t) /\ ~Fault
  <2>1. /\ th[t].pc = "link" /\ th[t].slot \in Indexes(g) /\ Put(g, th[t].slot, th[t].ent)
        /\ Goto(t, "unlock") /\ UNCHANGED <<h, used>>
    BY <1>10 DEF InsLink, At, Gone, fields
  <2>2. \A n \in Indexes(g) : n # th[t].slot => chain'[g][n] = chain[g][n]
    BY <1>2, <2>1 DEF Put, ChainType
  <2>3. th[t].slot \in Counted
    BY <2>1 DEF Counted
  <2>4. Fewer
    BY <2>1, <2>2, <2>3 DEF Occupied
  <2> QED BY <1>3, <1>7, <2>1, <2>4
<1>11. ASSUME NEW n \in Indexes(g), NEW i \in 1..Len(chain[g][n]), Cut(g, n, i),
              UNCHANGED <<h, used>>
       PROVE  Fewer
  <2>1. \A m \in Indexes(g) : m # n => chain'[g][m] = chain[g][m]
    BY <1>2, <1>11 DEF Cut, ChainType
  <2>2. chain[g][n] # <<>>
    BY <1>11
  <2> QED BY <1>11, <2>1, <2>2 DEF Occupied
<1>12. CASE DelUnlink(t) /\ ~Fault
  <2> DEFINE n == Code(h["buckets"], th[t].arg)
             i == FirstHit(chain[g][n], th[t].arg)
  <2>1. /\ n \in Indexes(g) /\ Goto(t, "unlock") /\ UNCHANGED <<h, used>>
        /\ UNCHANGED chain \/ (i # 0 /\ Cut(g, n, i))
    BY <1>12 DEF DelUnlink, Gone, fields
  <2>2. i # 0 => i \in 1..Len(chain[g][n])
    <3>1. chain[g][n] \in Seq(Entries)
      BY <1>2, <2>1 DEF ChainType
    <3> QED BY <3>1, FirstInFacts DEF FirstHit
  <2> HIDE DEF n, i
  <2>3. Fewer
    BY <1>4, <1>11, <2>1, <2>2
  <2> QED BY <1>3, <1>7, <2>1, <2>3
<1>13. CASE RsUnlink(t)
  <2> DEFINE n == Code(h["buckets"], cur.want)
             i == FirstHit(chain[g][n], cur.want)
  <2>1. h["buckets"] = g /\ cur.want \in Keys
    <3>1. th[t].pc = "rs_unlink" /\ lock = t
      BY <1>13 DEF RsUnlink, At, TInv, LockInv, InResize, Moving
    <3>2. \A u \in Threads : th[u].pc # "rs_install"
      BY <3>1 DEF TInv, LockInv, InResize, Moving
    <3> QED BY <3>1, <3>2 DEF TInv, TypeOK, Cursors, GenInv, Settled, Fields
  <2>2. n \in Indexes(g) /\ chain[g][n] \in Seq(Entries)
    BY <1>2, <2>1, CodeType DEF TInv, TypeOK, ChainType
  <2>3. /\ Goto(t, "rs_add") /\ UNCHANGED <<h, used>>
        /\ UNCHANGED chain \/ (i # 0 /\ Cut(g, n, i))
    BY <1>13 DEF RsUnlink, fields
  <2>4. i # 0 => i \in 1..Len(chain[g][n])
    BY <2>2, FirstInFacts DEF FirstHit
  <2> HIDE DEF n, i
  <2>5. Fewer
    BY <1>4, <1>11, <2>2, <2>3, <2>4
  <2> QED BY <1>3, <1>7, <2>3, <2>5
<1>14. CASE RsAdd(t) /\ ~Fault
  <2>1. aux = g + 1 /\ aux # g
    BY <1>2, <1>14 DEF RsAdd, At, TInv, GenInv, Walking, Moving, Gens
  <2>2. chain'[g] = chain[g] /\ UNCHANGED <<h, used>> /\ Goto(t, "rs_walk")
    BY <1>2, <1>14, <2>1 DEF RsAdd, Put, ChainType, fields
  <2>3. Fewer
    BY <2>2 DEF Occupied
  <2> QED BY <1>3, <1>7, <2>2, <2>3
<1>15. CASE RsFree(t)
  <2>1. /\ Goto(t, "rs_install") /\ UNCHANGED <<h, used>>
        /\ chain' = [chain EXCEPT ![g] = [n \in Indexes(g) |-> <<>>]]
    BY <1>15 DEF RsFree, fields
  <2>2. \A n \in Indexes(g) : chain'[g][n] = <<>>
    BY <1>2, <2>1 DEF ChainType
  <2>3. Fewer
    BY <2>1, <2>2 DEF Occupied
  <2> QED BY <1>3, <1>7, <2>1, <2>3
<1>16. CASE RsInstall(t)
  <2>1. aux - 1 \in Gens /\ aux # 1 /\ th[t].pc = "rs_install"
    BY <1>16 DEF RsInstall, At, TInv, GenInv, Gens
  <2>2. PICK f \in Fields : h' = [h EXCEPT ![f] = aux]
    BY <1>16 DEF RsInstall
  <2>3. h' # Ones
    BY <1>2, <2>1, <2>2
  <2> QED BY <2>3 DEF CountInv
<1>17. CASE HashCodeSafe(t) \/ ((BucketLock(t) \/ BucketUnlock(t) \/ LkFind(t) \/ RsWalk(t)) /\ ~Fault)
            \/ InsCheck(t) \/ BucketRead(t) \/ RsLock(t) \/ RsInit(t) \/ RsBucket(t) \/ RsUnlock(t)
  <2>1. UNCHANGED <<chain, h, used>>
    BY <1>17 DEF HashCodeSafe, BucketRead, BucketLock, BucketUnlock, LkFind, RsWalk, InsCheck, RsLock, RsInit,
                 RsBucket, RsUnlock, table, fields, resize, client
  <2>2. th'[t].pc \notin {"link", "store"}
    <3>1. CASE HashCodeSafe(t)
      BY <1>2, <3>1 DEF HashCodeSafe, Calls
    <3>2. CASE BucketUnlock(t) /\ ~Fault
      BY <1>2, <3>2 DEF BucketUnlock, Return, Idle
    <3>3. CASE BucketLock(t) /\ ~Fault
      <4> DEFINE l == CASE th[t].op = "insert" -> "count"
                        [] th[t].op = "delete" -> "unlink"
                        [] th[t].op = "lookup" -> "find"
      <4>1. Goto(t, l)
        BY <3>3 DEF BucketLock
      <4>2. l \in {"count", "unlink", "find"}
        BY <1>2 DEF Calls, Ops
      <4> HIDE DEF l
      <4> QED BY <1>7, <4>1, <4>2
    <3>4. CASE RsWalk(t) /\ ~Fault
      <4>1. th[t].pc = "rs_walk"
        BY <3>4 DEF RsWalk, At
      <4>2. th' = th \/ Goto(t, "rs_free") \/ Goto(t, "rs_bucket")
        BY <3>4 DEF RsWalk
      <4> QED BY <1>7, <4>1, <4>2
    <3>5. CASE (LkFind(t) /\ ~Fault) \/ InsCheck(t) \/ RsLock(t) \/ RsInit(t) \/ RsUnlock(t)
      <4>1. \E l \in {"unlock", "rs_lock", "bucket", "rs_init", "rs_walk", "rehash"} : Goto(t, l)
        BY ONLY <3>5 DEF LkFind, InsCheck, RsLock, RsInit, RsUnlock
      <4> QED BY <1>7, <4>1
    <3>6. CASE BucketRead(t) \/ RsBucket(t)
      BY <1>2, <3>6 DEF BucketRead, RsBucket, Calls
    <3> QED BY <1>17, <3>1, <3>2, <3>3, <3>4, <3>5, <3>6
  <2> QED BY <1>3, <1>4, <2>1, <2>2
<1> QED BY <1>1, <1>5, <1>6, <1>8, <1>9, <1>10, <1>12, <1>13, <1>14, <1>15, <1>16, <1>17
        DEF Continue

\* Whatever calls and resizes run beside each other, if no two insertions are
\* between the load and the store of _used_buckets at once, every bucket of the
\* first array that is occupied has been counted (hashtbl.c:68), until a resize
\* starts from zero.  Clients use the thread-safe operations only.
THEOREM UsedWithoutRaces ==
  ASSUME ~Unsafe
  PROVE  Spec /\ []StoresApart => []CountCoversOccupied
<1>1. Init => CountInv
  <2> SUFFICES ASSUME Init PROVE CountInv
    OBVIOUS
  <2>1. \A t \in Threads : th[t].pc = "idle"
    BY DEF Init, Idle
  <2>2. Counted = {}
    BY <2>1 DEF Counted
  <2>3. h["table"] \in Gens /\ used = 0
    BY TableAssumption DEF Init, Fields, Gens
  <2>4. Occupied = {}
    BY <2>3 DEF Init, Occupied
  <2>5. Occupied \cup Counted = {} /\ Cardinality({}) = 0 /\ IsFiniteSet({})
    BY <2>2, <2>4, FS_EmptySet
  <2>6. Cardinality(Occupied \cup Counted) <= used
    BY <2>3, <2>5
  <2> QED BY <2>1, <2>5, <2>6 DEF CountInv
<1>2. TInv /\ CountInv /\ StoresApart /\ StoresApart' /\ [Next]_vars => CountInv'
  <2>1. ASSUME CountInv, UNCHANGED vars PROVE CountInv'
    <3>1. UNCHANGED <<chain, h, used, th>>
      BY <2>1 DEF vars, table, fields
    <3>2. Counted' = Counted /\ Occupied' = Occupied
      BY <3>1 DEF Counted, Occupied
    <3> QED BY <2>1, <3>1, <3>2 DEF CountInv
  <2> QED BY <2>1, CountStep
<1>3. TInv /\ CountInv => CountCoversOccupied
  <2> SUFFICES ASSUME TInv, CountInv, h = [f \in Fields |-> 1] PROVE Cardinality(Occupied) <= used
    BY DEF CountCoversOccupied
  <2>1. IsFiniteSet(Occupied \cup Counted) /\ Cardinality(Occupied \cup Counted) <= used
    BY DEF CountInv
  <2>2. IsFiniteSet(Occupied) /\ Cardinality(Occupied) <= Cardinality(Occupied \cup Counted)
    BY <2>1, FS_Subset
  <2>3. Cardinality(Occupied) \in Nat /\ Cardinality(Occupied \cup Counted) \in Nat /\ used \in Nat
    BY <2>1, <2>2, FS_CardinalityType DEF TInv, TypeOK
  <2> QED BY <2>1, <2>2, <2>3
<1> QED BY <1>1, <1>2, <1>3, InitTInv, NextTInv, PTL DEF Spec

\* One thread does not race with itself.
THEOREM CountIsEnough ==
  ASSUME FewThreads, ~Unsafe
  PROVE  Spec => []CountCoversOccupied
<1>1. StoresApart
  BY DEF StoresApart, FewThreads
<1> QED BY <1>1, UsedWithoutRaces, PTL
=============================================================================
