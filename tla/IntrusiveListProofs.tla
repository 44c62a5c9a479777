------------------------ MODULE IntrusiveListProofs ------------------------
(***************************************************************************)
(* For lists of any length: what the ring operations that the queues of    *)
(* Pool and the buckets of HashTable are made of do to the pointers is     *)
(* what those modules say they do to sequences.                            *)
(***************************************************************************)
EXTENDS IntrusiveList, SequenceLemmas

Memories == [next : [Cells -> Cells \cup {Null}], prev : [Cells -> Cells \cup {Null}]]

\* A ring without repetitions.
Holds(m, h, s) ==
  /\ m \in Memories /\ h \in Heads /\ s \in Seq(Nodes)
  /\ \A i, j \in 1..Len(s) : s[i] = s[j] => i = j
  /\ Ring(m, h, s)

\* The stores of __list_add, one pointer at a time.
LEMMA BetweenStores ==
  ASSUME NEW m \in Memories, NEW e \in Cells, NEW p \in Cells, NEW n \in Cells
  PROVE  LET a == list_add_between(m, e, p, n)
         IN  /\ a \in Memories
             /\ \A c \in Cells :
                  /\ a.next[c] = IF c = p THEN e ELSE IF c = e THEN n ELSE m.next[c]
                  /\ a.prev[c] = IF c = e THEN p ELSE IF c = n THEN e ELSE m.prev[c]
BY DEF list_add_between, Memories

\* The stores of list_del.
LEMMA DelStores ==
  ASSUME NEW m \in Memories, NEW e \in Nodes, m.next[e] \in Cells, m.prev[e] \in Cells
  PROVE  LET a == list_del(m, e)
         IN  /\ a \in Memories
             /\ \A c \in Cells \ {e} :
                  /\ a.next[c] = IF c = m.prev[e] THEN m.next[e] ELSE m.next[c]
                  /\ a.prev[c] = IF c = m.next[e] THEN m.prev[e] ELSE m.prev[c]
BY CellsAssumption DEF list_del, list_unlink, Memories, Cells

\* Cells of a ring are cells, and no two positions but the ends share one.
LEMMA RingCells ==
  ASSUME NEW m, NEW h, NEW s, Holds(m, h, s)
  PROVE  /\ \A i \in Nat : Cell(h, s, i) \in Cells
         /\ \A i, j \in 0..Len(s) : Cell(h, s, i) = Cell(h, s, j) => i = j
         /\ Cell(h, s, 0) = h /\ Cell(h, s, Len(s) + 1) = h
         /\ Len(s) \in Nat
BY CellsAssumption DEF Holds, Cell, Cells

\* One link of a ring.
LEMMA RingAt ==
  ASSUME NEW m, NEW h, NEW s, Holds(m, h, s), NEW i \in 0..Len(s)
  PROVE  m.next[Cell(h, s, i)] = Cell(h, s, i + 1) /\ m.prev[Cell(h, s, i + 1)] = Cell(h, s, i)
BY DEF Holds, Ring

\* list_empty answers for the sequence.
THEOREM EmptyTest ==
  ASSUME NEW m, NEW h, NEW s, Holds(m, h, s)
  PROVE  list_empty(m, h) <=> s = <<>>
<1>1. m.next[h] = Cell(h, s, 1)
  <2>1. 0 \in 0..Len(s) /\ Cell(h, s, 0) = h /\ 0 + 1 = 1
    BY RingCells
  <2>2. m.next[Cell(h, s, 0)] = Cell(h, s, 0 + 1)
    BY <2>1, RingAt
  <2> QED BY <2>1, <2>2
<1>2. CASE s = <<>>
  BY <1>1, <1>2 DEF list_empty, Cell
<1>3. CASE s # <<>>
  <2>0. 1 \in 1..Len(s)
    BY <1>3 DEF Holds
  <2>1. Cell(h, s, 1) # h
    BY <2>0, CellsAssumption DEF Holds, Cell
  <2> QED BY <1>1, <1>3, <2>1 DEF list_empty
<1> QED BY <1>2, <1>3

\* A ring does not see stores to cells that are not on it.
LEMMA RingElsewhere ==
  ASSUME NEW m, NEW h, NEW s, Holds(m, h, s), NEW a \in Memories,
         \A i \in 0..Len(s) : /\ a.next[Cell(h, s, i)] = m.next[Cell(h, s, i)]
                              /\ a.prev[Cell(h, s, i + 1)] = m.prev[Cell(h, s, i + 1)]
  PROVE  Holds(a, h, s)
BY DEF Holds, Ring

\* The stores of list_add_tail.
LEMMA AddTailStores ==
  ASSUME NEW m, NEW h, NEW s, Holds(m, h, s), NEW e \in Nodes
  PROVE  LET a == list_add_tail(m, e, h)
             z == Cell(h, s, Len(s))
         IN  /\ a \in Memories
             /\ \A c \in Cells :
                  /\ a.next[c] = IF c = z THEN e ELSE IF c = e THEN h ELSE m.next[c]
                  /\ a.prev[c] = IF c = e THEN z ELSE IF c = h THEN e ELSE m.prev[c]
<1>1. m.prev[h] = Cell(h, s, Len(s))
  <2>1. Len(s) \in 0..Len(s) /\ Cell(h, s, Len(s) + 1) = h
    <3>1. Len(s) \in Nat /\ Cell(h, s, Len(s) + 1) = h
      BY RingCells
    <3> QED BY <3>1
  <2>2. m.prev[Cell(h, s, Len(s) + 1)] = Cell(h, s, Len(s))
    BY <2>1, RingAt
  <2> QED BY <2>1, <2>2
<1>2. e \in Cells /\ h \in Cells /\ Cell(h, s, Len(s)) \in Cells /\ m \in Memories
  BY RingCells DEF Cells, Holds
<1> QED BY <1>1, <1>2, BetweenStores DEF list_add_tail

\* put_fifo's list_add_tail appends the entry (queue.h:43).
THEOREM AddTailAppends ==
  ASSUME NEW m, NEW h, NEW s, Holds(m, h, s), NEW e \in Nodes, \A i \in 1..Len(s) : s[i] # e
  PROVE  Holds(list_add_tail(m, e, h), h, Append(s, e))
<1> DEFINE t == Append(s, e)
           N == Len(s)
           a == list_add_tail(m, e, h)
<1>1. /\ t \in Seq(Nodes) /\ Len(t) = N + 1 /\ N \in Nat
      /\ \A i \in 1..N : t[i] = s[i]
      /\ t[N + 1] = e
  BY DEF Holds
<1>2. /\ \A i \in 0..N : Cell(h, t, i) = Cell(h, s, i)
      /\ Cell(h, t, N + 1) = e /\ Cell(h, t, N + 2) = h
  BY <1>1 DEF Cell
<1>3. /\ a \in Memories
      /\ \A c \in Cells :
           /\ a.next[c] = IF c = Cell(h, s, N) THEN e ELSE IF c = e THEN h ELSE m.next[c]
           /\ a.prev[c] = IF c = e THEN Cell(h, s, N) ELSE IF c = h THEN e ELSE m.prev[c]
  BY AddTailStores
<1>4. \A i \in 0..N : Cell(h, s, i) # e /\ Cell(h, s, i) \in Cells
  BY RingCells, CellsAssumption DEF Cell, Holds
<1>5. Ring(a, h, t)
  <2> SUFFICES ASSUME NEW i \in 0..N + 1
               PROVE  /\ a.next[Cell(h, t, i)] = Cell(h, t, i + 1)
                      /\ a.prev[Cell(h, t, i + 1)] = Cell(h, t, i)
    BY <1>1 DEF Ring
  <2>1. e \in Cells /\ h \in Cells /\ h # e
    BY CellsAssumption DEF Cells, Holds
  <2>2. CASE i < N
    <3>1. /\ Cell(h, t, i) = Cell(h, s, i) /\ Cell(h, t, i + 1) = Cell(h, s, i + 1)
          /\ i \in 0..N /\ i + 1 \in 0..N
      BY <1>1, <1>2, <2>2
    <3>2. /\ Cell(h, s, i) # Cell(h, s, N) /\ Cell(h, s, i + 1) # Cell(h, s, 0)
          /\ Cell(h, s, 0) = h
      BY <1>1, <2>2, <3>1, RingCells
    <3>3. /\ m.next[Cell(h, s, i)] = Cell(h, s, i + 1)
          /\ m.prev[Cell(h, s, i + 1)] = Cell(h, s, i)
      BY <3>1 DEF Holds, Ring
    <3> QED BY <1>3, <1>4, <3>1, <3>2, <3>3
  <2>3. CASE i = N
    <3>1. Cell(h, t, i) = Cell(h, s, N) /\ Cell(h, t, i + 1) = e
      BY <1>1, <1>2, <2>3
    <3> QED BY <1>1, <1>3, <1>4, <2>1, <3>1
  <2>4. CASE i = N + 1
    <3>1. Cell(h, t, i) = e /\ Cell(h, t, i + 1) = h
      BY <1>1, <1>2, <2>4
    <3>2. Cell(h, s, N) # e
      BY <1>1, <1>4
    <3> QED BY <1>3, <2>1, <3>1, <3>2
  <2> QED BY <1>1, <2>2, <2>3, <2>4
<1>6. \A i, j \in 1..Len(t) : t[i] = t[j] => i = j
  BY <1>1 DEF Holds
<1> QED BY <1>1, <1>3, <1>5, <1>6 DEF Holds

\* hash_table_insert's list_add puts the entry first (hashtbl.c:13 and 70).
THEOREM AddPrepends ==
  ASSUME NEW m, NEW h, NEW s, Holds(m, h, s), NEW e \in Nodes, \A i \in 1..Len(s) : s[i] # e
  PROVE  Holds(list_add(m, e, h), h, <<e>> \o s)
<1> DEFINE t == <<e>> \o s
           N == Len(s)
           a == list_add(m, e, h)
<1>1. /\ t \in Seq(Nodes) /\ Len(t) = N + 1 /\ N \in Nat
      /\ \A i \in 1..N : t[i + 1] = s[i]
      /\ t[1] = e
  <2>1. s \in Seq(Nodes) /\ N \in Nat
    BY DEF Holds
  <2> QED BY <2>1, PrependContents
<1>2. /\ \A i \in 1..N + 1 : Cell(h, t, i + 1) = Cell(h, s, i)
      /\ Cell(h, t, 1) = e /\ Cell(h, t, 0) = h
  BY <1>1 DEF Cell
<1>3. m.next[h] = Cell(h, s, 1)
  BY RingCells DEF Holds, Ring
<1>4. /\ a \in Memories
      /\ \A c \in Cells :
           /\ a.next[c] = IF c = h THEN e ELSE IF c = e THEN Cell(h, s, 1) ELSE m.next[c]
           /\ a.prev[c] = IF c = e THEN h ELSE IF c = Cell(h, s, 1) THEN e ELSE m.prev[c]
  <2>1. e \in Cells /\ h \in Cells /\ Cell(h, s, 1) \in Cells /\ m \in Memories
    BY RingCells DEF Cells, Holds
  <2> QED BY <1>3, <2>1, BetweenStores DEF list_add
<1>5. \A i \in 0..N + 1 : Cell(h, s, i) # e /\ Cell(h, s, i) \in Cells
  BY RingCells, CellsAssumption DEF Cell, Holds
<1>6. Ring(a, h, t)
  <2> SUFFICES ASSUME NEW i \in 0..N + 1
               PROVE  /\ a.next[Cell(h, t, i)] = Cell(h, t, i + 1)
                      /\ a.prev[Cell(h, t, i + 1)] = Cell(h, t, i)
    BY <1>1 DEF Ring
  <2>1. e \in Cells /\ h \in Cells /\ h # e
    BY CellsAssumption DEF Cells, Holds
  <2>2. CASE i = 0
    <3>1. Cell(h, t, i) = h /\ Cell(h, t, i + 1) = e
      BY <1>2, <2>2
    <3> QED BY <1>4, <2>1, <3>1
  <2>3. CASE i = 1
    <3>1. Cell(h, t, i) = e /\ Cell(h, t, i + 1) = Cell(h, s, 1)
      BY <1>1, <1>2, <2>3
    <3>2. Cell(h, s, 1) # e /\ Cell(h, s, 1) \in Cells
      BY <1>1, <1>5
    <3> QED BY <1>4, <2>1, <3>1, <3>2
  <2>4. CASE i > 1
    <3> DEFINE k == i - 1
    <3>1. /\ k \in 1..N /\ i = k + 1
          /\ Cell(h, t, i) = Cell(h, s, k) /\ Cell(h, t, i + 1) = Cell(h, s, k + 1)
      BY <1>1, <1>2, <2>4
    <3>2. Cell(h, s, k) # h /\ Cell(h, s, k + 1) # Cell(h, s, 1)
      <4>1. Cell(h, s, k) # h
        BY <3>1, CellsAssumption DEF Cell, Holds
      <4>2. Cell(h, s, k + 1) # Cell(h, s, 1)
        BY <3>1, <1>1, CellsAssumption DEF Cell, Holds
      <4> QED BY <4>1, <4>2
    <3>3. /\ m.next[Cell(h, s, k)] = Cell(h, s, k + 1)
          /\ m.prev[Cell(h, s, k + 1)] = Cell(h, s, k)
      BY <3>1 DEF Holds, Ring
    <3>4. /\ Cell(h, s, k) # e /\ Cell(h, s, k) \in Cells
          /\ Cell(h, s, k + 1) # e /\ Cell(h, s, k + 1) \in Cells
      BY <1>1, <1>5, <3>1
    <3> QED BY <1>4, <3>1, <3>2, <3>3, <3>4
  <2> QED BY <1>1, <2>2, <2>3, <2>4
<1>7. \A i, j \in 1..Len(t) : t[i] = t[j] => i = j
  <2> SUFFICES ASSUME NEW i \in 1..N + 1, NEW j \in 1..N + 1, t[i] = t[j] PROVE i = j
    BY <1>1
  <2>1. \A k \in 1..N : s[k] # e
    OBVIOUS
  <2>2. /\ i # 1 => i - 1 \in 1..N /\ t[i] = s[i - 1]
        /\ j # 1 => j - 1 \in 1..N /\ t[j] = s[j - 1]
    BY <1>1
  <2> QED BY <1>1, <2>1, <2>2 DEF Holds
<1> QED BY <1>1, <1>4, <1>6, <1>7 DEF Holds

\* list_del takes the entry out, wherever it stands: the first one in get_fifo
\* (queue.h:33), any one in hash_table_del_key_safe (hashtbl.c:223).
THEOREM DelRemoves ==
  ASSUME NEW m, NEW h, NEW s, Holds(m, h, s), NEW k \in 1..Len(s)
  PROVE  Holds(list_del(m, s[k]), h, RemoveAt(s, k))
<1> DEFINE t == RemoveAt(s, k)
           N == Len(s)
           a == list_del(m, s[k])
<1>1. /\ t \in Seq(Nodes) /\ Len(t) = N - 1 /\ N \in Nat
      /\ \A i \in 1..N - 1 : t[i] = IF i < k THEN s[i] ELSE s[i + 1]
  <2>1. s \in Seq(Nodes)
    BY DEF Holds
  <2>2. /\ RemoveAt(s, k) \in Seq(Nodes) /\ Len(RemoveAt(s, k)) = Len(s) - 1
        /\ \A i \in 1..Len(s) - 1 : RemoveAt(s, k)[i] = IF i < k THEN s[i] ELSE s[i + 1]
    BY <2>1, RemoveFacts
  <2> QED BY <2>1, <2>2
<1> HIDE DEF t
<1>2. \A i \in 0..N : Cell(h, t, i) = IF i < k THEN Cell(h, s, i) ELSE Cell(h, s, i + 1)
  BY <1>1 DEF Cell
<1>3. s[k] = Cell(h, s, k) /\ s[k] \in Nodes /\ k \in 0..N /\ k - 1 \in 0..N
  BY <1>1 DEF Cell, Holds
<1>4. m.next[s[k]] = Cell(h, s, k + 1) /\ m.prev[s[k]] = Cell(h, s, k - 1)
  BY <1>1, <1>3 DEF Holds, Ring
<1>5. \A i \in 0..N + 1 : Cell(h, s, i) \in Cells /\ (Cell(h, s, i) = s[k] => i = k)
  BY <1>1, <1>3, CellsAssumption DEF Cell, Cells, Holds
<1>6. /\ a \in Memories
      /\ \A c \in Cells \ {s[k]} :
           /\ a.next[c] = IF c = Cell(h, s, k - 1) THEN Cell(h, s, k + 1) ELSE m.next[c]
           /\ a.prev[c] = IF c = Cell(h, s, k + 1) THEN Cell(h, s, k - 1) ELSE m.prev[c]
  <2>1. m \in Memories /\ Cell(h, s, k + 1) \in Cells /\ Cell(h, s, k - 1) \in Cells
    BY <1>1, <1>5 DEF Holds
  <2> QED BY <1>3, <1>4, <2>1, DelStores
<1>7. Ring(a, h, t)
  <2> SUFFICES ASSUME NEW i \in 0..N - 1
               PROVE  /\ a.next[Cell(h, t, i)] = Cell(h, t, i + 1)
                      /\ a.prev[Cell(h, t, i + 1)] = Cell(h, t, i)
    BY <1>1 DEF Ring
  <2>1. CASE i = k - 1
    <3>1. Cell(h, t, i) = Cell(h, s, k - 1) /\ Cell(h, t, i + 1) = Cell(h, s, k + 1)
      BY <1>1, <1>2, <2>1
    <3>2. Cell(h, s, k - 1) \in Cells \ {s[k]} /\ Cell(h, s, k + 1) \in Cells \ {s[k]}
      BY <1>1, <1>5
    <3> QED BY <1>6, <3>1, <3>2
  <2>2. CASE i # k - 1
    <3> DEFINE j == IF i < k THEN i ELSE i + 1
    <3>1. /\ j \in 0..N /\ j # k /\ j # k - 1
          /\ Cell(h, t, i) = Cell(h, s, j) /\ Cell(h, t, i + 1) = Cell(h, s, j + 1)
      BY <1>1, <1>2, <2>2
    <3>2. Cell(h, s, j) \in Cells \ {s[k]} /\ Cell(h, s, j + 1) \in Cells \ {s[k]}
      BY <1>1, <1>5, <3>1
    <3>3. Cell(h, s, j) # Cell(h, s, k - 1) /\ Cell(h, s, j + 1) # Cell(h, s, k + 1)
      BY <1>1, <3>1, CellsAssumption DEF Cell, Holds
    <3>4. /\ m.next[Cell(h, s, j)] = Cell(h, s, j + 1)
          /\ m.prev[Cell(h, s, j + 1)] = Cell(h, s, j)
      BY <3>1 DEF Holds, Ring
    <3> QED BY <1>6, <3>1, <3>2, <3>3, <3>4
  <2> QED BY <2>1, <2>2
<1>8. \A i, j \in 1..Len(t) : t[i] = t[j] => i = j
  BY <1>1 DEF Holds
<1> QED BY <1>1, <1>6, <1>7, <1>8 DEF Holds, t

\* An operation on one ring does not touch another: neither list_add_tail of an
\* entry that is on neither, nor list_del.
THEOREM OtherRings ==
  ASSUME NEW m, NEW h, NEW s, Holds(m, h, s), NEW g, NEW u, Holds(m, g, u), g # h,
         \A i \in 1..Len(s), j \in 1..Len(u) : s[i] # u[j]
  PROVE  /\ \A e \in Nodes : (\A j \in 1..Len(u) : u[j] # e) => Holds(list_add_tail(m, e, h), g, u)
         /\ \A k \in 1..Len(s) : Holds(list_del(m, s[k]), g, u)
<1>1. \A i \in Nat, j \in Nat : Cell(h, s, i) # Cell(g, u, j)
  BY CellsAssumption DEF Cell, Holds
<1>2. \A j \in Nat : Cell(g, u, j) \in Cells
  BY RingCells
<1>3. m \in Memories /\ Len(s) \in Nat /\ Len(u) \in Nat /\ h \in Cells
  BY DEF Holds, Cells
<1>4. ASSUME NEW e \in Nodes, \A j \in 1..Len(u) : u[j] # e
      PROVE  Holds(list_add_tail(m, e, h), g, u)
  <2> DEFINE a == list_add_tail(m, e, h)
  <2>1. \A j \in Nat : Cell(g, u, j) # e
    BY <1>4, CellsAssumption DEF Cell, Holds
  <2>2. h = Cell(h, s, 0)
    BY RingCells
  <2>3. /\ a \in Memories
        /\ \A c \in Cells : /\ c # e /\ c # Cell(h, s, Len(s)) => a.next[c] = m.next[c]
                            /\ c # e /\ c # h => a.prev[c] = m.prev[c]
    BY AddTailStores
  <2>4. \A i \in 0..Len(u) : /\ a.next[Cell(g, u, i)] = m.next[Cell(g, u, i)]
                             /\ a.prev[Cell(g, u, i + 1)] = m.prev[Cell(g, u, i + 1)]
    <3> SUFFICES ASSUME NEW i \in 0..Len(u)
                 PROVE  /\ a.next[Cell(g, u, i)] = m.next[Cell(g, u, i)]
                        /\ a.prev[Cell(g, u, i + 1)] = m.prev[Cell(g, u, i + 1)]
      OBVIOUS
    <3>1. /\ Cell(g, u, i) # Cell(h, s, Len(s)) /\ Cell(g, u, i + 1) # Cell(h, s, 0)
          /\ Cell(g, u, i) # e /\ Cell(g, u, i + 1) # e
      BY <1>1, <1>3, <2>1
    <3>2. Cell(g, u, i) \in Cells /\ Cell(g, u, i + 1) \in Cells
      BY <1>2, <1>3
    <3> QED BY <2>2, <2>3, <3>1, <3>2
  <2> QED BY <2>3, <2>4, RingElsewhere
<1>5. ASSUME NEW k \in 1..Len(s)
      PROVE  Holds(list_del(m, s[k]), g, u)
  <2> DEFINE a == list_del(m, s[k])
  <2>1. /\ s[k] = Cell(h, s, k) /\ s[k] \in Nodes
        /\ m.next[s[k]] = Cell(h, s, k + 1) /\ m.prev[s[k]] = Cell(h, s, k - 1)
        /\ Cell(h, s, k + 1) \in Cells /\ Cell(h, s, k - 1) \in Cells
    <3>1. s[k] = Cell(h, s, k) /\ s[k] \in Nodes
      BY DEF Cell, Holds
    <3>2. k \in 0..Len(s) /\ k - 1 \in 0..Len(s) /\ k + 1 \in Nat /\ k - 1 \in Nat
      BY <1>3
    <3>3. (k - 1) + 1 = k
      BY <1>3
    <3>4. m.next[Cell(h, s, k)] = Cell(h, s, k + 1) /\ m.prev[Cell(h, s, (k - 1) + 1)] = Cell(h, s, k - 1)
      BY <3>2, RingAt
    <3>5. Cell(h, s, k + 1) \in Cells /\ Cell(h, s, k - 1) \in Cells
      BY <3>2, RingCells
    <3> QED BY <3>1, <3>3, <3>4, <3>5
  <2>2. /\ a \in Memories
        /\ \A c \in Cells \ {s[k]} :
             /\ c # Cell(h, s, k - 1) => a.next[c] = m.next[c]
             /\ c # Cell(h, s, k + 1) => a.prev[c] = m.prev[c]
    BY <1>3, <2>1, DelStores
  <2>3. \A i \in 0..Len(u) : /\ a.next[Cell(g, u, i)] = m.next[Cell(g, u, i)]
                             /\ a.prev[Cell(g, u, i + 1)] = m.prev[Cell(g, u, i + 1)]
    <3> SUFFICES ASSUME NEW i \in 0..Len(u)
                 PROVE  /\ a.next[Cell(g, u, i)] = m.next[Cell(g, u, i)]
                        /\ a.prev[Cell(g, u, i + 1)] = m.prev[Cell(g, u, i + 1)]
      OBVIOUS
    <3>0. k \in Nat /\ k - 1 \in Nat /\ k + 1 \in Nat /\ i \in Nat /\ i + 1 \in Nat
      BY <1>3
    <3>1. /\ Cell(g, u, i) # Cell(h, s, k - 1) /\ Cell(g, u, i + 1) # Cell(h, s, k + 1)
          /\ Cell(g, u, i) # s[k] /\ Cell(g, u, i + 1) # s[k]
      BY <1>1, <2>1, <3>0
    <3>2. Cell(g, u, i) \in Cells /\ Cell(g, u, i + 1) \in Cells
      BY <1>2, <3>0
    <3> QED BY <2>2, <3>1, <3>2
  <2> QED BY <2>2, <2>3, RingElsewhere
<1> QED BY <1>4, <1>5

\* The queues of queue.h are first in, first out: what Pool assumes of get_fifo
\* and put_fifo when it keeps a queue as a sequence (queue.h:23 and 39).
THEOREM QueueIsFifo ==
  ASSUME NEW m, NEW q, NEW s, Holds(m, q, s)
  PROVE  /\ \A e \in Nodes : (\A i \in 1..Len(s) : s[i] # e) =>
                             Holds(put_fifo(m, q, e), q, Append(s, e))
         /\ s = <<>> => get_fifo(m, q).elem = Null /\ Holds(get_fifo(m, q).mem, q, s)
         /\ s # <<>> => get_fifo(m, q).elem = Head(s) /\ Holds(get_fifo(m, q).mem, q, Tail(s))
<1>1. ASSUME NEW e \in Nodes, \A i \in 1..Len(s) : s[i] # e
      PROVE  Holds(put_fifo(m, q, e), q, Append(s, e))
  BY <1>1, AddTailAppends DEF put_fifo
<1>2. ASSUME s = <<>>
      PROVE  get_fifo(m, q).elem = Null /\ Holds(get_fifo(m, q).mem, q, s)
  <2>1. list_empty(m, q)
    BY <1>2, EmptyTest
  <2> QED BY <2>1 DEF get_fifo
<1>3. ASSUME s # <<>>
      PROVE  get_fifo(m, q).elem = Head(s) /\ Holds(get_fifo(m, q).mem, q, Tail(s))
  <2>1. s \in Seq(Nodes) /\ 1 \in 1..Len(s) /\ Head(s) = s[1]
    BY <1>3 DEF Holds
  <2>2. m.next[q] = s[1]
    <3>1. 0 \in 0..Len(s) /\ 0 + 1 = 1
      BY <2>1
    <3>2. Cell(q, s, 0) = q /\ Cell(q, s, 1) = s[1]
      BY <2>1 DEF Cell
    <3>3. m.next[Cell(q, s, 0)] = Cell(q, s, 0 + 1)
      BY <3>1, RingAt
    <3> QED BY <3>1, <3>2, <3>3
  <2>3. ~list_empty(m, q)
    BY <1>3, EmptyTest
  <2>4. get_fifo(m, q).elem = s[1] /\ get_fifo(m, q).mem = list_del(m, s[1])
    BY <2>2, <2>3 DEF get_fifo
  <2>5. RemoveAt(s, 1) = Tail(s)
    <3>1. SubSeq(s, 1, 1 - 1) = <<>> /\ SubSeq(s, 1 + 1, Len(s)) = Tail(s)
      BY <2>1
    <3>2. Tail(s) \in Seq(Nodes)
      BY <2>1
    <3> QED BY <3>1, <3>2 DEF RemoveAt
  <2>6. Holds(list_del(m, s[1]), q, RemoveAt(s, 1))
    BY <2>1, DelRemoves
  <2> QED BY <2>1, <2>4, <2>5, <2>6
<1> QED BY <1>1, <1>2, <1>3
=============================================================================
