----------------------- MODULE IntrusiveListInvariant -----------------------
(***************************************************************************)
(* IntrusiveList for any number of heads and entries: after any sequence   *)
(* of legal calls the pointers of all lists are those of the promised      *)
(* sequences, and every walk visits what it promised.                      *)
(*                                                                         *)
(* The argument is about links, the pairs of neighbouring cells of all     *)
(* lists together: Joins(k, l, c, d) says that d follows c on a list of l. *)
(* What a call does to the sequences replaces a few links by others, and   *)
(* the memory follows if its stores make the new ones.  Neighbours are     *)
(* unique, so all other lists are untouched.                               *)
(***************************************************************************)
EXTENDS IntrusiveListProofs

\* What a kind of list may be.
Kinds == {"ring", "chain"}

\* The cell at index j of a list: its head at 0, and behind the last entry the
\* head again, or NULL.
Place(k, h, s, j) ==
  IF j \in 1..Len(s) THEN s[j] ELSE IF j = 0 \/ k = "ring" THEN h ELSE Null

\* Some list of l has d behind c: d is a cell, or NULL behind a chain.
Joins(k, l, c, d) == \E h \in DOMAIN l : \E j \in 0..Len(l[h]) :
  c = Place(k, h, l[h], j) /\ d = Place(k, h, l[h], j + 1)

\* An entry is on one list, at one place.
Apart(l) ==
  /\ DOMAIN l \subseteq Heads /\ \A h \in DOMAIN l : l[h] \in Seq(Nodes)
  /\ \A h, g \in DOMAIN l : \A i \in 1..Len(l[h]), j \in 1..Len(l[g]) :
       l[h][i] = l[g][j] => h = g /\ i = j

\* The cell is a head or an entry of a list.
On(l, c) == c \in DOMAIN l \/ c \in Entries(l)

\* The memory has the pointers of all lists: what the proof is about.
Follows(k, m, l) == \A c, d : Joins(k, l, c, d) => m.next[c] = d /\ (d # Null => m.prev[d] = c)

----------------------------------------------------------------------------
(* Links *)

\* Entries are what stands at an index.
LEMMA EntryAt ==
  ASSUME NEW l, Apart(l)
  PROVE  /\ \A h \in DOMAIN l : /\ h \in Heads /\ h \in Cells /\ Len(l[h]) \in Nat
                                /\ DOMAIN l[h] = 1..Len(l[h])
                                /\ \A i \in 1..Len(l[h]) : l[h][i] \in Nodes /\ l[h][i] \in Entries(l)
         /\ \A e : e \in Entries(l) <=> \E h \in DOMAIN l : e \in ToSet(l[h])
         /\ \A h \in DOMAIN l : \A e : e \in ToSet(l[h]) <=> \E i \in 1..Len(l[h]) : l[h][i] = e
         /\ Entries(l) \subseteq Nodes
<1>1. \A h \in DOMAIN l : h \in Heads /\ l[h] \in Seq(Nodes) /\ Len(l[h]) \in Nat
                          /\ DOMAIN l[h] = 1..Len(l[h]) /\ h \in Cells
  BY DEF Apart, Cells
<1>2. \A h \in DOMAIN l : \A e : e \in ToSet(l[h]) <=> \E i \in 1..Len(l[h]) : l[h][i] = e
  BY <1>1 DEF ToSet
<1>3. \A e : e \in Entries(l) <=> \E h \in DOMAIN l : e \in ToSet(l[h])
  BY DEF Entries
<1>4. \A h \in DOMAIN l : \A i \in 1..Len(l[h]) : l[h][i] \in Nodes
  BY <1>1
<1> QED BY <1>1, <1>2, <1>3, <1>4

\* The same entry at two indices: they are one index of one list.
LEMMA SameEntry ==
  ASSUME NEW l, Apart(l), NEW h \in DOMAIN l, NEW g \in DOMAIN l,
         NEW i \in 1..Len(l[h]), NEW j \in 1..Len(l[g]), l[h][i] = l[g][j]
  PROVE  h = g /\ i = j
BY DEF Apart

\* An entry is on one list only.
LEMMA OneList ==
  ASSUME NEW l, Apart(l), NEW g \in DOMAIN l, NEW h \in DOMAIN l, h # g
  PROVE  /\ ToSet(l[g]) \cap ToSet(l[h]) = {}
         /\ \A i \in 1..Len(l[g]) : l[g][i] \notin ToSet(l[h])
<1>1. ASSUME NEW n \in ToSet(l[g]), n \in ToSet(l[h])
      PROVE  FALSE
  <2>1. PICK i \in 1..Len(l[g]) : l[g][i] = n
    BY EntryAt
  <2>2. PICK j \in 1..Len(l[h]) : l[h][j] = n
    BY <1>1, EntryAt
  <2> QED BY <2>1, <2>2 DEF Apart
<1>2. \A i \in 1..Len(l[g]) : l[g][i] \in ToSet(l[g])
  BY EntryAt
<1> QED BY <1>1, <1>2

\* Where the cells of a list are.
LEMMA PlaceFacts ==
  ASSUME NEW k \in Kinds, NEW l, Apart(l), NEW h \in DOMAIN l
  PROVE  /\ Place(k, h, l[h], 0) = h
         /\ Place(k, h, l[h], Len(l[h]) + 1) = IF k = "ring" THEN h ELSE Null
         /\ \A j \in 1..Len(l[h]) : Place(k, h, l[h], j) = l[h][j]
         /\ \A j \in 0..Len(l[h]) : Place(k, h, l[h], j) \in Cells /\ On(l, Place(k, h, l[h], j))
         /\ \A j \in 0..Len(l[h]) : Joins(k, l, Place(k, h, l[h], j), Place(k, h, l[h], j + 1))
<1>1. h \in Heads /\ h \in Cells /\ Len(l[h]) \in Nat
      /\ \A i \in 1..Len(l[h]) : l[h][i] \in Nodes /\ l[h][i] \in Entries(l)
  BY EntryAt
<1>2. /\ Place(k, h, l[h], 0) = h /\ \A j \in 1..Len(l[h]) : Place(k, h, l[h], j) = l[h][j]
      /\ Place(k, h, l[h], Len(l[h]) + 1) = IF k = "ring" THEN h ELSE Null
  BY <1>1 DEF Place
<1>3. \A j \in 0..Len(l[h]) : j = 0 \/ j \in 1..Len(l[h])
  BY <1>1
<1>4. \A j \in 0..Len(l[h]) : Place(k, h, l[h], j) \in Cells /\ On(l, Place(k, h, l[h], j))
  BY <1>1, <1>2, <1>3 DEF On, Cells
<1> QED BY <1>2, <1>4 DEF Joins

\* Two places of lists that hold the same cell are one.
LEMMA OnePlace ==
  ASSUME NEW k \in Kinds, NEW l, Apart(l), NEW h \in DOMAIN l, NEW g \in DOMAIN l,
         NEW i \in 0..Len(l[h]), NEW j \in 0..Len(l[g])
  PROVE  /\ Place(k, h, l[h], i) = Place(k, g, l[g], j) => h = g /\ i = j
         /\ Place(k, h, l[h], i + 1) = Place(k, g, l[g], j + 1) =>
              (h = g /\ i = j) \/ Place(k, h, l[h], i + 1) = Null
<1>1. /\ h \in Heads /\ g \in Heads /\ Len(l[h]) \in Nat /\ Len(l[g]) \in Nat
      /\ \A a \in 1..Len(l[h]) : l[h][a] \in Nodes
      /\ \A a \in 1..Len(l[g]) : l[g][a] \in Nodes
  BY EntryAt
<1>2. h \notin Nodes /\ g \notin Nodes /\ Null \notin Nodes /\ h # Null /\ g # Null
  BY <1>1, CellsAssumption DEF Cells
<1>3. \A a \in 1..Len(l[h]), b \in 1..Len(l[g]) : l[h][a] = l[g][b] => h = g /\ a = b
  BY DEF Apart
<1>4. (i = 0 \/ i \in 1..Len(l[h])) /\ (j = 0 \/ j \in 1..Len(l[g]))
  BY <1>1
<1>5. /\ i + 1 \in 1..Len(l[h]) \/ (i = Len(l[h]) /\ i + 1 \notin 1..Len(l[h]) /\ i + 1 # 0)
      /\ j + 1 \in 1..Len(l[g]) \/ (j = Len(l[g]) /\ j + 1 \notin 1..Len(l[g]) /\ j + 1 # 0)
      /\ (i + 1 = j + 1 => i = j) /\ 0 \notin 1..Len(l[h]) /\ 0 \notin 1..Len(l[g])
  BY <1>1
<1>6. Place(k, h, l[h], i) = Place(k, g, l[g], j) => h = g /\ i = j
  BY <1>1, <1>2, <1>3, <1>4, <1>5 DEF Place
<1>7. ASSUME Place(k, h, l[h], i + 1) = Place(k, g, l[g], j + 1)
      PROVE  (h = g /\ i = j) \/ Place(k, h, l[h], i + 1) = Null
  <2>1. CASE i + 1 \in 1..Len(l[h])
    BY <1>7, <2>1, <1>1, <1>2, <1>3, <1>5 DEF Place
  <2>2. CASE i = Len(l[h]) /\ i + 1 \notin 1..Len(l[h]) /\ i + 1 # 0
    BY <1>7, <2>2, <1>1, <1>2, <1>5 DEF Place, Kinds
  <2> QED BY <2>1, <2>2, <1>5
<1> QED BY <1>6, <1>7

\* Neighbours are unique, and on a list.
LEMMA JoinFacts ==
  ASSUME NEW k \in Kinds, NEW l, Apart(l), NEW c, NEW d, Joins(k, l, c, d)
  PROVE  /\ c \in Cells /\ On(l, c)
         /\ d # Null => d \in Cells /\ On(l, d)
         /\ k = "ring" => d # Null
         /\ \A e : Joins(k, l, c, e) => e = d
         /\ \A e : Joins(k, l, e, d) /\ d # Null => e = c
<1>0. PICK h \in DOMAIN l : \E j \in 0..Len(l[h]) :
        c = Place(k, h, l[h], j) /\ d = Place(k, h, l[h], j + 1)
  BY DEF Joins
<1>1. PICK j \in 0..Len(l[h]) :
        c = Place(k, h, l[h], j) /\ d = Place(k, h, l[h], j + 1)
  BY <1>0
<1>2. c \in Cells /\ On(l, c)
  BY <1>1, PlaceFacts
<1>3. Len(l[h]) \in Nat
  BY EntryAt
<1>4. j + 1 \in 0..Len(l[h]) \/ j + 1 = Len(l[h]) + 1
  BY <1>3
<1>5. /\ d # Null => d \in Cells /\ On(l, d)
      /\ k = "ring" => d # Null
  <2>1. CASE j + 1 \in 0..Len(l[h])
    <3>1. d \in Cells /\ On(l, d)
      BY <1>1, <2>1, PlaceFacts
    <3> QED BY <3>1, CellsAssumption
  <2>2. CASE j + 1 = Len(l[h]) + 1
    <3>1. d = IF k = "ring" THEN h ELSE Null
      BY <1>1, <2>2, PlaceFacts
    <3>2. h \in Cells
      BY EntryAt
    <3> QED BY <3>1, <3>2, CellsAssumption DEF On
  <2> QED BY <1>4, <2>1, <2>2
<1>6. ASSUME NEW e, Joins(k, l, c, e)
      PROVE  e = d
  <2>0. PICK g \in DOMAIN l : \E i \in 0..Len(l[g]) :
          c = Place(k, g, l[g], i) /\ e = Place(k, g, l[g], i + 1)
    BY <1>6 DEF Joins
  <2>1. PICK i \in 0..Len(l[g]) :
          c = Place(k, g, l[g], i) /\ e = Place(k, g, l[g], i + 1)
    BY <2>0
  <2>2. Place(k, h, l[h], j) = Place(k, g, l[g], i) => h = g /\ j = i
    BY OnePlace
  <2> QED BY <1>1, <2>1, <2>2
<1>7. ASSUME NEW e, Joins(k, l, e, d), d # Null
      PROVE  e = c
  <2>0. PICK g \in DOMAIN l : \E i \in 0..Len(l[g]) :
          e = Place(k, g, l[g], i) /\ d = Place(k, g, l[g], i + 1)
    BY <1>7 DEF Joins
  <2>1. PICK i \in 0..Len(l[g]) :
          e = Place(k, g, l[g], i) /\ d = Place(k, g, l[g], i + 1)
    BY <2>0
  <2>2. Place(k, h, l[h], j + 1) = Place(k, g, l[g], i + 1) =>
          (h = g /\ j = i) \/ Place(k, h, l[h], j + 1) = Null
    BY OnePlace
  <2> QED BY <1>1, <1>7, <2>1, <2>2
<1> QED BY <1>2, <1>5, <1>6, <1>7

\* Every cell of a list has a neighbour behind it, every entry one before it.
LEMMA HasNeighbours ==
  ASSUME NEW k \in Kinds, NEW l, Apart(l), NEW c
  PROVE  /\ On(l, c) => \E d : Joins(k, l, c, d)
         /\ c \in Entries(l) => \E b : Joins(k, l, b, c)
<1>1. ASSUME c \in DOMAIN l
      PROVE  \E d : Joins(k, l, c, d)
  <2>1. 0 \in 0..Len(l[c])
    BY <1>1, EntryAt
  <2>2. Place(k, c, l[c], 0) = c /\ Joins(k, l, Place(k, c, l[c], 0), Place(k, c, l[c], 0 + 1))
    BY <1>1, <2>1, PlaceFacts
  <2> QED BY <2>2
<1>2. ASSUME c \in Entries(l)
      PROVE  (\E d : Joins(k, l, c, d)) /\ (\E b : Joins(k, l, b, c))
  <2>1. PICK h \in DOMAIN l : \E i \in 1..Len(l[h]) : l[h][i] = c
    BY <1>2, EntryAt
  <2>2. PICK i \in 1..Len(l[h]) : l[h][i] = c
    BY <2>1
  <2>3. i \in 0..Len(l[h]) /\ i - 1 \in 0..Len(l[h]) /\ (i - 1) + 1 = i
    BY EntryAt
  <2>4. Place(k, h, l[h], i) = c
    BY <2>2, PlaceFacts
  <2>5. Joins(k, l, Place(k, h, l[h], i), Place(k, h, l[h], i + 1))
    BY <2>3, PlaceFacts
  <2>6. Joins(k, l, Place(k, h, l[h], i - 1), Place(k, h, l[h], (i - 1) + 1))
    BY <2>3, PlaceFacts
  <2> QED BY <2>3, <2>4, <2>5, <2>6
<1> QED BY <1>1, <1>2 DEF On

----------------------------------------------------------------------------
(* What changes of the sequences do to the links *)

\* Only the list of g changes, to s.
Changes(l2, l, g, s) ==
  /\ DOMAIN l2 = DOMAIN l /\ g \in DOMAIN l /\ l2[g] = s
  /\ \A h \in DOMAIN l \ {g} : l2[h] = l[h]

\* Sequence x put in behind index i.
Spliced(s, i, x) == SubSeq(s, 1, i) \o x \o SubSeq(s, i + 1, Len(s))

\* Entries, at least one, that are on no list.
Fresh(x, l) ==
  /\ x \in Seq(Nodes) /\ x # <<>> /\ \A a, b \in 1..Len(x) : x[a] = x[b] => a = b
  /\ \A a \in 1..Len(x) : x[a] \notin Entries(l)

\* The list of h is given up, or has become empty.
Drops(l2, l, h) ==
  /\ \/ DOMAIN l2 = DOMAIN l \ {h}
     \/ DOMAIN l2 = DOMAIN l \cup {h} /\ l2[h] = <<>>
  /\ \A g \in DOMAIN l \ {h} : l2[g] = l[g]

\* The elements of a concatenation.
LEMMA ConcatFacts ==
  ASSUME NEW S, NEW p \in Seq(S), NEW q \in Seq(S)
  PROVE  /\ p \o q \in Seq(S) /\ Len(p \o q) = Len(p) + Len(q)
         /\ \A j \in 1..(Len(p) + Len(q)) :
              (p \o q)[j] = IF j <= Len(p) THEN p[j] ELSE q[j - Len(p)]
OBVIOUS

\* x is put behind the first i elements.
LEMMA SplicedFacts ==
  ASSUME NEW S, NEW s \in Seq(S), NEW x \in Seq(S), NEW i \in 0..Len(s)
  PROVE  /\ Spliced(s, i, x) \in Seq(S) /\ Len(Spliced(s, i, x)) = Len(s) + Len(x)
         /\ \A j \in 1..Len(s) + Len(x) : Spliced(s, i, x)[j] =
              IF j <= i THEN s[j] ELSE IF j <= i + Len(x) THEN x[j - i] ELSE s[j - Len(x)]
<1> DEFINE u == SubSeq(s, 1, i)
           v == SubSeq(s, i + 1, Len(s))
           w == u \o x
<1>1. Len(s) \in Nat /\ Len(x) \in Nat /\ i \in Nat /\ i <= Len(s)
  OBVIOUS
<1>2. u \in Seq(S) /\ Len(u) = i /\ \A j \in 1..i : u[j] = s[j]
  BY <1>1
<1>3. v \in Seq(S) /\ Len(v) = Len(s) - i /\ \A j \in 1..(Len(s) - i) : v[j] = s[j + i]
  BY <1>1
<1> HIDE DEF u, v
<1>4. w \in Seq(S) /\ Len(w) = i + Len(x)
      /\ \A j \in 1..(i + Len(x)) : w[j] = IF j <= i THEN s[j] ELSE x[j - i]
  <2>1. w \in Seq(S) /\ Len(w) = Len(u) + Len(x)
        /\ \A j \in 1..(Len(u) + Len(x)) : w[j] = IF j <= Len(u) THEN u[j] ELSE x[j - Len(u)]
    BY <1>2
  <2> HIDE DEF w
  <2>2. \A j \in 1..(i + Len(x)) : j <= i => j \in 1..i
    BY <1>1
  <2> QED BY <1>2, <2>1, <2>2
<1> HIDE DEF w
<1>5. w \o v \in Seq(S) /\ Len(w \o v) = Len(s) + Len(x)
      /\ \A j \in 1..(Len(s) + Len(x)) : (w \o v)[j] = IF j <= i + Len(x) THEN w[j] ELSE v[j - (i + Len(x))]
  <2>1. /\ w \o v \in Seq(S) /\ Len(w \o v) = Len(w) + Len(v)
        /\ \A j \in 1..(Len(w) + Len(v)) :
             (w \o v)[j] = IF j <= Len(w) THEN w[j] ELSE v[j - Len(w)]
    BY <1>3, <1>4, ConcatFacts
  <2>2. Len(w) + Len(v) = Len(s) + Len(x)
    BY <1>1, <1>3, <1>4
  <2> QED BY <2>1, <2>2, <1>4
<1>6. ASSUME NEW j \in 1..(Len(s) + Len(x))
      PROVE  (w \o v)[j] = IF j <= i THEN s[j] ELSE IF j <= i + Len(x) THEN x[j - i] ELSE s[j - Len(x)]
  <2>1. CASE j <= i + Len(x)
    BY <2>1, <1>1, <1>4, <1>5
  <2>2. CASE ~(j <= i + Len(x))
    <3>1. j - (i + Len(x)) \in 1..(Len(s) - i) /\ (j - (i + Len(x))) + i = j - Len(x)
          /\ ~(j <= i)
      BY <2>2, <1>1
    <3>2. (w \o v)[j] = v[j - (i + Len(x))]
      BY <2>2, <1>5
    <3>3. v[j - (i + Len(x))] = s[(j - (i + Len(x))) + i]
      BY <3>1, <1>3
    <3> QED BY <2>2, <3>1, <3>2, <3>3
  <2> QED BY <2>1, <2>2
<1>7. Spliced(s, i, x) = w \o v
  BY DEF Spliced, w, u, v
<1> QED BY <1>5, <1>6, <1>7

\* Entries x are put in between two neighbours.
LEMMA InsertJoins ==
  ASSUME NEW k \in Kinds, NEW l, Apart(l), NEW g \in DOMAIN l, NEW i \in 0..Len(l[g]),
         NEW x, Fresh(x, l), NEW l2, Changes(l2, l, g, Spliced(l[g], i, x)),
         NEW b, b = Place(k, g, l[g], i), NEW e, e = Place(k, g, l[g], i + 1)
  PROVE  /\ Apart(l2) /\ \A c : On(l2, c) <=> On(l, c) \/ c \in ToSet(x)
         /\ Joins(k, l, b, e)
         /\ \A c, d : Joins(k, l2, c, d) =>
              \/ Joins(k, l, c, d) /\ c # b /\ (d = e => d = Null)
              \/ c = b /\ d = x[1]
              \/ c = x[Len(x)] /\ d = e
              \/ \E a \in 1..Len(x) - 1 : c = x[a] /\ d = x[a + 1]
<1> DEFINE s == l[g]
           t == Spliced(s, i, x)
           N == Len(s)
           X == Len(x)
<1>0. /\ x \in Seq(Nodes) /\ x # <<>> /\ \A a, p \in 1..Len(x) : x[a] = x[p] => a = p
      /\ \A a \in 1..Len(x) : x[a] \notin Entries(l)
  BY DEF Fresh
<1>1. /\ s \in Seq(Nodes) /\ N \in Nat /\ X \in Nat /\ X >= 1 /\ i \in Nat /\ i <= N
      /\ \A a \in 1..X : x[a] \in Nodes
      /\ DOMAIN x = 1..X
  BY <1>0 DEF Apart
<1>2. t \in Seq(Nodes) /\ Len(t) = N + X
      /\ \A j \in 1..N + X : t[j] = IF j <= i THEN s[j] ELSE IF j <= i + X THEN x[j - i] ELSE s[j - X]
  <2>1. /\ Spliced(s, i, x) \in Seq(Nodes) /\ Len(Spliced(s, i, x)) = Len(s) + Len(x)
        /\ \A j \in 1..Len(s) + Len(x) : Spliced(s, i, x)[j] =
             IF j <= i THEN s[j] ELSE IF j <= i + Len(x) THEN x[j - i] ELSE s[j - Len(x)]
    <3>1. s \in Seq(Nodes) /\ i \in 0..Len(s) /\ x \in Seq(Nodes)
      BY <1>0, <1>1
    <3> HIDE DEF s
    <3> QED BY <3>1, SplicedFacts
  <2> QED BY <2>1
<1>3. DOMAIN l2 = DOMAIN l /\ l2[g] = t /\ \A h \in DOMAIN l : h # g => l2[h] = l[h]
  BY DEF Changes
<1> HIDE DEF t
<1>4. \A h \in DOMAIN l : \A j \in 1..Len(l[h]), a \in 1..X : l[h][j] # x[a]
  BY <1>0, EntryAt
<1>5. \A j \in 1..N : \A m \in 1..N : s[j] = s[m] => j = m
  BY DEF Apart
<1>6. \A j \in 1..(N + X) : \/ j <= i /\ j \in 1..N /\ t[j] = s[j]
                            \/ j > i /\ j <= i + X /\ j - i \in 1..X /\ t[j] = x[j - i]
                            \/ j > i + X /\ j - X \in 1..N /\ j - X > i /\ t[j] = s[j - X]
  BY <1>1, <1>2
<1>7. Apart(l2)
  <2>1. DOMAIN l2 \subseteq Heads /\ \A h \in DOMAIN l2 : l2[h] \in Seq(Nodes)
    BY <1>2, <1>3 DEF Apart
  <2>2. ASSUME NEW j \in 1..(N + X), NEW m \in 1..(N + X), t[j] = t[m]
        PROVE  j = m
    <3>0. ASSUME NEW a \in 1..(N + X), NEW c \in 1..(N + X), t[a] = t[c], a > i, a <= i + X
          PROVE  c > i /\ c <= i + X
      <4>1. t[a] = x[a - i] /\ a - i \in 1..X
        BY <3>0, <1>6, <1>1
      <4>2. \A p \in 1..N : s[p] # t[a]
        BY <4>1, <1>4
      <4> QED BY <3>0, <4>2, <1>6
    <3>1. (j > i /\ j <= i + X) <=> (m > i /\ m <= i + X)
      BY <2>2, <3>0
    <3>2. CASE j > i /\ j <= i + X
      <4>1. j - i = m - i
        BY <2>2, <3>1, <3>2, <1>0, <1>6
      <4> QED BY <4>1, <1>1
    <3>3. CASE ~(j > i /\ j <= i + X)
      <4> DEFINE p == IF j <= i THEN j ELSE j - X
                 q == IF m <= i THEN m ELSE m - X
      <4>1. p \in 1..N /\ q \in 1..N /\ t[j] = s[p] /\ t[m] = s[q]
            /\ (p <= i <=> j <= i) /\ (q <= i <=> m <= i)
        BY <3>1, <3>3, <1>1, <1>6
      <4>2. p = q
        BY <2>2, <4>1, <1>5
      <4> QED BY <4>1, <4>2, <1>1
    <3> QED BY <3>2, <3>3
  <2>3. ASSUME NEW h \in DOMAIN l, h # g, NEW j \in 1..(N + X), NEW m \in 1..Len(l[h])
        PROVE  t[j] # l[h][m]
    <3>1. CASE j > i /\ j <= i + X
      BY <3>1, <1>4, <1>6
    <3>2. CASE ~(j > i /\ j <= i + X)
      <4>1. \E p \in 1..N : t[j] = s[p]
        BY <3>2, <1>6
      <4> QED BY <4>1, <2>3 DEF Apart
    <3> QED BY <3>1, <3>2
  <2>4. ASSUME NEW h \in DOMAIN l2, NEW h2 \in DOMAIN l2,
               NEW j \in 1..Len(l2[h]), NEW m \in 1..Len(l2[h2]), l2[h][j] = l2[h2][m]
        PROVE  h = h2 /\ j = m
    <3>1. CASE h = g /\ h2 = g
      BY <2>2, <2>4, <3>1, <1>2, <1>3
    <3>2. CASE h = g /\ h2 # g
      BY <2>3, <2>4, <3>2, <1>2, <1>3
    <3>3. CASE h # g /\ h2 = g
      <4>1. t[m] # l[h][j]
        BY <2>3, <3>3, <1>2, <1>3
      <4> QED BY <2>4, <3>3, <4>1, <1>3
    <3>4. CASE h # g /\ h2 # g
      BY <2>4, <3>4, <1>3 DEF Apart
    <3> QED BY <3>1, <3>2, <3>3, <3>4
  <2> QED BY <2>1, <2>4 DEF Apart
<1>8. ToSet(t) = ToSet(s) \cup ToSet(x)
  <2>1. DOMAIN t = 1..(N + X) /\ DOMAIN s = 1..N
    BY <1>1, <1>2
  <2>2. ASSUME NEW j \in 1..(N + X) PROVE t[j] \in ToSet(s) \cup ToSet(x)
    <3>1. \/ j \in 1..N /\ t[j] = s[j]
          \/ j - i \in 1..X /\ t[j] = x[j - i]
          \/ j - X \in 1..N /\ t[j] = s[j - X]
      BY <1>6
    <3> QED BY <2>1, <3>1, <1>1 DEF ToSet
  <2>3. ASSUME NEW j \in 1..N PROVE s[j] \in ToSet(t)
    <3> DEFINE p == IF j <= i THEN j ELSE j + X
    <3>1. p \in 1..(N + X) /\ (j > i => ~(p <= i) /\ ~(p <= i + X) /\ p - X = j)
      BY <1>1
    <3>2. t[p] = s[j]
      BY <3>1, <1>2
    <3> QED BY <2>1, <3>1, <3>2 DEF ToSet
  <2>4. ASSUME NEW a \in 1..X PROVE x[a] \in ToSet(t)
    <3>1. i + a \in 1..(N + X) /\ ~(i + a <= i) /\ i + a <= i + X /\ (i + a) - i = a
      BY <1>1
    <3>2. t[i + a] = x[a]
      BY <3>1, <1>2
    <3> QED BY <2>1, <3>1, <3>2 DEF ToSet
  <2>5. ToSet(s) = {s[j] : j \in 1..N} /\ ToSet(x) = {x[a] : a \in 1..X}
        /\ ToSet(t) = {t[j] : j \in 1..(N + X)}
    BY <2>1, <1>1 DEF ToSet
  <2>6. ToSet(t) \subseteq ToSet(s) \cup ToSet(x)
    BY <2>2, <2>5
  <2>7. ToSet(s) \subseteq ToSet(t) /\ ToSet(x) \subseteq ToSet(t)
    BY <2>3, <2>4, <2>5
  <2> QED BY <2>6, <2>7
<1>9. ASSUME NEW c PROVE On(l2, c) <=> On(l, c) \/ c \in ToSet(x)
  <2>1. c \in Entries(l2) <=> \E h \in DOMAIN l2 : c \in ToSet(l2[h])
    BY <1>7, EntryAt
  <2>2. c \in Entries(l) <=> \E h \in DOMAIN l : c \in ToSet(l[h])
    BY EntryAt
  <2> QED BY <2>1, <2>2, <1>3, <1>8 DEF On
<1>10. Joins(k, l, b, e)
  BY PlaceFacts
<1>11. \A j \in 0..(N + X + 1) : Place(k, g, t, j) =
          IF j <= i THEN Place(k, g, s, j) ELSE IF j <= i + X THEN x[j - i] ELSE Place(k, g, s, j - X)
  <2> SUFFICES ASSUME NEW j \in 0..(N + X + 1)
               PROVE  Place(k, g, t, j) =
                        IF j <= i THEN Place(k, g, s, j)
                        ELSE IF j <= i + X THEN x[j - i] ELSE Place(k, g, s, j - X)
    OBVIOUS
  <2>1. CASE j \in 1..(N + X)
    <3>1. Place(k, g, t, j) = t[j] /\ \A p \in 1..N : Place(k, g, s, p) = s[p]
      BY <2>1, <1>2 DEF Place
    <3> QED BY <2>1, <3>1, <1>1, <1>6
  <2>2. CASE j = 0
    BY <2>2, <1>1, <1>2 DEF Place
  <2>3. CASE j = N + X + 1
    <3>1. /\ j \notin 1..(N + X) /\ j # 0 /\ ~(j <= i) /\ ~(j <= i + X) /\ j - X = N + 1
          /\ N + 1 \notin 1..N /\ N + 1 # 0
      BY <2>3, <1>1
    <3> QED BY <3>1, <1>2 DEF Place
  <2>4. j \in 1..(N + X) \/ j = 0 \/ j = N + X + 1
    BY <1>1
  <2> QED BY <2>1, <2>2, <2>3, <2>4
<1>12. ASSUME NEW h \in DOMAIN l, NEW j \in 0..Len(l[h]), h # g \/ j # i
       PROVE  /\ Joins(k, l, Place(k, h, l[h], j), Place(k, h, l[h], j + 1))
              /\ Place(k, h, l[h], j) # b
              /\ Place(k, h, l[h], j + 1) = e => Place(k, h, l[h], j + 1) = Null
  <2>1. Joins(k, l, Place(k, h, l[h], j), Place(k, h, l[h], j + 1))
    BY PlaceFacts
  <2>2. /\ Place(k, h, l[h], j) = Place(k, g, l[g], i) => h = g /\ j = i
        /\ Place(k, h, l[h], j + 1) = Place(k, g, l[g], i + 1) =>
              (h = g /\ j = i) \/ Place(k, h, l[h], j + 1) = Null
    BY OnePlace
  <2> QED BY <2>1, <2>2, <1>12
<1>13. ASSUME NEW c, NEW d, Joins(k, l2, c, d)
       PROVE  \/ Joins(k, l, c, d) /\ c # b /\ (d = e => d = Null)
              \/ c = b /\ d = x[1]
              \/ c = x[X] /\ d = e
              \/ \E a \in 1..X - 1 : c = x[a] /\ d = x[a + 1]
  <2>1. PICK h \in DOMAIN l : \E j \in 0..Len(l2[h]) :
          c = Place(k, h, l2[h], j) /\ d = Place(k, h, l2[h], j + 1)
    BY <1>13, <1>3 DEF Joins
  <2>2. PICK j \in 0..Len(l2[h]) :
          c = Place(k, h, l2[h], j) /\ d = Place(k, h, l2[h], j + 1)
    BY <2>1
  <2>3. CASE h # g
    BY <2>2, <2>3, <1>3, <1>12
  <2>4. CASE h = g
    <3>1. j \in 0..(N + X) /\ c = Place(k, g, t, j) /\ d = Place(k, g, t, j + 1)
      BY <2>2, <2>4, <1>2, <1>3
    <3>2. j \in 0..(N + X + 1) /\ j + 1 \in 0..(N + X + 1)
      BY <3>1, <1>1
    <3>3. CASE j < i
      <4>1. j \in 0..N /\ j + 1 <= i /\ j # i
        BY <3>1, <3>3, <1>1
      <4>2. c = Place(k, g, s, j) /\ d = Place(k, g, s, j + 1)
        BY <3>1, <3>2, <4>1, <3>3, <1>1, <1>11
      <4> QED BY <4>1, <4>2, <1>12
    <3>4. CASE j = i
      <4>1. c = b
        BY <3>1, <3>2, <3>4, <1>1, <1>11
      <4>2. ~(j + 1 <= i) /\ j + 1 <= i + X /\ (j + 1) - i = 1
        BY <3>4, <1>1
      <4>3. d = x[1]
        BY <3>1, <3>2, <4>2, <1>11
      <4> QED BY <4>1, <4>3
    <3>5. CASE j > i /\ j < i + X
      <4>1. j - i \in 1..(X - 1) /\ (j + 1) - i = (j - i) + 1
        BY <3>1, <3>5, <1>1
      <4>2. ~(j <= i) /\ j <= i + X /\ ~(j + 1 <= i) /\ j + 1 <= i + X
        BY <3>1, <3>5, <1>1
      <4>3. c = x[j - i] /\ d = x[(j + 1) - i]
        BY <3>1, <3>2, <4>2, <1>11
      <4> QED BY <4>1, <4>3
    <3>6. CASE j = i + X
      <4>1. ~(j <= i) /\ j <= i + X /\ j - i = X
            /\ ~(j + 1 <= i) /\ ~(j + 1 <= i + X) /\ (j + 1) - X = i + 1
        BY <3>6, <1>1
      <4>2. c = x[X] /\ d = Place(k, g, s, i + 1)
        BY <3>1, <3>2, <4>1, <1>11
      <4> QED BY <4>2
    <3>7. CASE j > i + X
      <4> DEFINE m == j - X
      <4>1. m \in 0..N /\ m # i /\ (j + 1) - X = m + 1
            /\ ~(j <= i) /\ ~(j <= i + X) /\ ~(j + 1 <= i) /\ ~(j + 1 <= i + X)
        BY <3>1, <3>7, <1>1
      <4>2. c = Place(k, g, s, m) /\ d = Place(k, g, s, m + 1)
        BY <3>1, <3>2, <4>1, <1>11
      <4> HIDE DEF m
      <4> QED BY <4>1, <4>2, <1>12
    <3>8. j < i \/ j = i \/ (j > i /\ j < i + X) \/ j = i + X \/ j > i + X
      BY <3>1, <1>1
    <3> QED BY <3>3, <3>4, <3>5, <3>6, <3>7, <3>8
  <2> QED BY <2>3, <2>4
<1> QED BY <1>7, <1>9, <1>10, <1>13

\* An entry leaves its list: its neighbours become neighbours.
LEMMA RemoveJoins ==
  ASSUME NEW k \in Kinds, NEW l, Apart(l), NEW g \in DOMAIN l, NEW i \in 1..Len(l[g]),
         NEW l2, Changes(l2, l, g, RemoveAt(l[g], i)), NEW n, n = l[g][i],
         NEW b, b = Place(k, g, l[g], i - 1), NEW e, e = Place(k, g, l[g], i + 1)
  PROVE  /\ Apart(l2) /\ \A c : On(l2, c) <=> On(l, c) /\ c # n
         /\ Joins(k, l, b, n) /\ Joins(k, l, n, e)
         /\ \A c, d : Joins(k, l2, c, d) =>
              \/ c = b /\ d = e
              \/ Joins(k, l, c, d) /\ c # b /\ c # n /\ d # n /\ (d = e => d = Null)
<1> DEFINE s == l[g]
           t == RemoveAt(s, i)
           N == Len(s)
<1>1. s \in Seq(Nodes) /\ N \in Nat /\ i \in 1..N /\ i \in Nat
  BY DEF Apart
<1>2. t \in Seq(Nodes) /\ Len(t) = N - 1
      /\ \A j \in 1..N - 1 : t[j] = IF j < i THEN s[j] ELSE s[j + 1]
  <2>1. s \in Seq(Nodes) /\ i \in 1..Len(s)
    BY <1>1
  <2> HIDE DEF s
  <2>2. /\ RemoveAt(s, i) \in Seq(Nodes) /\ Len(RemoveAt(s, i)) = Len(s) - 1
        /\ \A j \in 1..Len(s) - 1 : RemoveAt(s, i)[j] = IF j < i THEN s[j] ELSE s[j + 1]
    BY <2>1, RemoveFacts
  <2> QED BY <2>2
<1>3. DOMAIN l2 = DOMAIN l /\ l2[g] = t /\ \A h \in DOMAIN l : h # g => l2[h] = l[h]
  BY DEF Changes
<1> HIDE DEF t
<1> DEFINE Old(j) == IF j < i THEN j ELSE j + 1
<1>4. \A j \in 1..(N - 1) : Old(j) \in 1..N /\ Old(j) # i /\ t[j] = s[Old(j)]
  BY <1>1, <1>2
<1>5. \A j \in 1..(N - 1), m \in 1..(N - 1) : Old(j) = Old(m) => j = m
  BY <1>1
<1>6. \A j \in 1..N : j # i => \E m \in 1..(N - 1) : Old(m) = j
  <2> SUFFICES ASSUME NEW j \in 1..N, j # i PROVE \E m \in 1..(N - 1) : Old(m) = j
    OBVIOUS
  <2>1. CASE j < i
    BY <2>1, <1>1
  <2>2. CASE ~(j < i)
    <3>1. j - 1 \in 1..(N - 1) /\ Old(j - 1) = j
      BY <2>2, <1>1
    <3> QED BY <3>1
  <2> QED BY <2>1, <2>2
<1> HIDE DEF Old
<1>7. \A j \in 1..N, m \in 1..N : s[j] = s[m] => j = m
  BY DEF Apart
<1>8. Apart(l2)
  <2>1. DOMAIN l2 \subseteq Heads /\ \A h \in DOMAIN l2 : l2[h] \in Seq(Nodes)
    BY <1>2, <1>3 DEF Apart
  <2>2. \A j \in 1..(N - 1), m \in 1..(N - 1) : t[j] = t[m] => j = m
    BY <1>4, <1>5, <1>7
  <2>3. ASSUME NEW h \in DOMAIN l, h # g, NEW j \in 1..(N - 1), NEW m \in 1..Len(l[h])
        PROVE  t[j] # l[h][m]
    BY <2>3, <1>4 DEF Apart
  <2>4. ASSUME NEW h \in DOMAIN l2, NEW h2 \in DOMAIN l2,
               NEW j \in 1..Len(l2[h]), NEW m \in 1..Len(l2[h2]), l2[h][j] = l2[h2][m]
        PROVE  h = h2 /\ j = m
    <3>1. CASE h = g /\ h2 = g
      BY <2>2, <2>4, <3>1, <1>2, <1>3
    <3>2. CASE h = g /\ h2 # g
      BY <2>3, <2>4, <3>2, <1>2, <1>3
    <3>3. CASE h # g /\ h2 = g
      <4>1. t[m] # l[h][j]
        BY <2>3, <3>3, <1>2, <1>3
      <4> QED BY <2>4, <3>3, <4>1, <1>3
    <3>4. CASE h # g /\ h2 # g
      BY <2>4, <3>4, <1>3 DEF Apart
    <3> QED BY <3>1, <3>2, <3>3, <3>4
  <2> QED BY <2>1, <2>4 DEF Apart
<1>9. \A c : c \in ToSet(t) <=> c \in ToSet(s) /\ c # n
  <2>1. DOMAIN t = 1..(N - 1) /\ DOMAIN s = 1..N
    BY <1>1, <1>2
  <2>2. ToSet(s) = {s[j] : j \in 1..N} /\ ToSet(t) = {t[j] : j \in 1..(N - 1)}
    BY <2>1 DEF ToSet
  <2>3. ASSUME NEW j \in 1..(N - 1) PROVE t[j] \in ToSet(s) /\ t[j] # n
    BY <2>2, <1>4, <1>1, <1>7
  <2>4. ASSUME NEW j \in 1..N, s[j] # n PROVE s[j] \in ToSet(t)
    <3>1. PICK m \in 1..(N - 1) : Old(m) = j
      BY <2>4, <1>6
    <3> QED BY <3>1, <2>2, <1>4
  <2> QED BY <2>2, <2>3, <2>4
<1>10. ASSUME NEW h \in DOMAIN l, h # g PROVE n \notin ToSet(l[h])
  BY <1>10, OneList
<1>11. n \in Nodes /\ n \in Entries(l)
  BY EntryAt
<1>12. ASSUME NEW c PROVE On(l2, c) <=> On(l, c) /\ c # n
  <2>1. c \in Entries(l2) <=> \E h \in DOMAIN l2 : c \in ToSet(l2[h])
    BY <1>8, EntryAt
  <2>2. c \in Entries(l) <=> \E h \in DOMAIN l : c \in ToSet(l[h])
    BY EntryAt
  <2>3. n \notin DOMAIN l
    BY <1>11, CellsAssumption DEF Apart
  <2> QED BY <2>1, <2>2, <2>3, <1>3, <1>9, <1>10 DEF On
<1>13. /\ i - 1 \in 0..N /\ i \in 0..N /\ (i - 1) + 1 = i
  BY <1>1
<1>14. Place(k, g, s, i) = n
  BY PlaceFacts
<1>15. Joins(k, l, b, n) /\ Joins(k, l, n, e)
  <2>1. Joins(k, l, Place(k, g, s, i - 1), Place(k, g, s, (i - 1) + 1))
    BY <1>13, PlaceFacts
  <2>2. Joins(k, l, Place(k, g, s, i), Place(k, g, s, i + 1))
    BY <1>13, PlaceFacts
  <2> QED BY <2>1, <2>2, <1>13, <1>14
<1>16. \A j \in 0..N : Place(k, g, t, j) = IF j < i THEN Place(k, g, s, j) ELSE Place(k, g, s, j + 1)
  <2> SUFFICES ASSUME NEW j \in 0..N
               PROVE  Place(k, g, t, j) =
                        IF j < i THEN Place(k, g, s, j) ELSE Place(k, g, s, j + 1)
    OBVIOUS
  <2>1. CASE j \in 1..(N - 1)
    <3>1. j \in 1..Len(t) /\ (j < i => j \in 1..N) /\ (~(j < i) => j + 1 \in 1..N)
      BY <2>1, <1>1, <1>2
    <3> QED BY <2>1, <3>1, <1>2 DEF Place
  <2>2. CASE j = 0
    BY <2>2, <1>1, <1>2 DEF Place
  <2>3. CASE j = N
    <3>1. j \notin 1..(N - 1) /\ j # 0 /\ ~(j < i) /\ j + 1 \notin 1..N /\ j + 1 # 0
      BY <2>3, <1>1
    <3> QED BY <3>1, <1>2 DEF Place
  <2> QED BY <2>1, <2>2, <2>3, <1>1
<1>17. ASSUME NEW h \in DOMAIN l, NEW j \in 0..Len(l[h]), h # g \/ (j # i /\ j # i - 1)
       PROVE  LET c == Place(k, h, l[h], j)
                  d == Place(k, h, l[h], j + 1)
              IN  Joins(k, l, c, d) /\ c # b /\ c # n /\ d # n /\ (d = e => d = Null)
  <2> DEFINE c == Place(k, h, l[h], j)
             d == Place(k, h, l[h], j + 1)
  <2>1. Joins(k, l, c, d)
    BY PlaceFacts
  <2>2. c # b /\ c # n
    <3>1. Place(k, h, l[h], j) = Place(k, g, l[g], i - 1) => h = g /\ j = i - 1
      BY <1>13, OnePlace
    <3>2. Place(k, h, l[h], j) = Place(k, g, l[g], i) => h = g /\ j = i
      BY <1>13, OnePlace
    <3> QED BY <3>1, <3>2, <1>14, <1>17
  <2>3. d # n
    <3>1. Place(k, h, l[h], j + 1) = Place(k, g, l[g], (i - 1) + 1) =>
            (h = g /\ j = i - 1) \/ Place(k, h, l[h], j + 1) = Null
      BY <1>13, OnePlace
    <3>2. n # Null
      BY <1>11, CellsAssumption DEF Cells
    <3> QED BY <3>1, <3>2, <1>13, <1>14, <1>17
  <2>4. d = e => d = Null
    <3>1. Place(k, h, l[h], j + 1) = Place(k, g, l[g], i + 1) =>
            (h = g /\ j = i) \/ Place(k, h, l[h], j + 1) = Null
      BY <1>13, OnePlace
    <3> QED BY <3>1, <1>17
  <2> QED BY <2>1, <2>2, <2>3, <2>4
<1>18. ASSUME NEW c, NEW d, Joins(k, l2, c, d)
       PROVE  \/ c = b /\ d = e
              \/ Joins(k, l, c, d) /\ c # b /\ c # n /\ d # n /\ (d = e => d = Null)
  <2>1. PICK h \in DOMAIN l : \E j \in 0..Len(l2[h]) :
          c = Place(k, h, l2[h], j) /\ d = Place(k, h, l2[h], j + 1)
    BY <1>18, <1>3 DEF Joins
  <2>2. PICK j \in 0..Len(l2[h]) :
          c = Place(k, h, l2[h], j) /\ d = Place(k, h, l2[h], j + 1)
    BY <2>1
  <2>3. CASE h # g
    BY <2>2, <2>3, <1>3, <1>17
  <2>4. CASE h = g
    <3>1. j \in 0..(N - 1) /\ c = Place(k, g, t, j) /\ d = Place(k, g, t, j + 1)
      BY <2>2, <2>4, <1>2, <1>3
    <3>2. j \in 0..N /\ j + 1 \in 0..N /\ j \in Nat
      BY <3>1, <1>1
    <3>3. CASE j + 1 < i
      <4>1. j < i /\ j # i /\ j # i - 1
        BY <3>2, <3>3, <1>1
      <4>2. c = Place(k, g, s, j) /\ d = Place(k, g, s, j + 1)
        BY <3>1, <3>2, <3>3, <4>1, <1>16
      <4> QED BY <3>2, <4>1, <4>2, <1>17
    <3>4. CASE j + 1 = i
      <4>1. j < i /\ ~(j + 1 < i) /\ j = i - 1
        BY <3>2, <3>4, <1>1
      <4>2. c = Place(k, g, s, j) /\ d = Place(k, g, s, (j + 1) + 1)
        BY <3>1, <3>2, <4>1, <1>16
      <4> QED BY <3>4, <4>1, <4>2
    <3>5. CASE j + 1 > i
      <4> DEFINE m == j + 1
      <4>1. ~(j < i) /\ ~(m < i) /\ m # i /\ m # i - 1 /\ m \in 0..N
        BY <3>1, <3>2, <3>5, <1>1
      <4>2. c = Place(k, g, s, m) /\ d = Place(k, g, s, m + 1)
        BY <3>1, <3>2, <4>1, <1>16
      <4> HIDE DEF m
      <4> QED BY <4>1, <4>2, <1>17
    <3> QED BY <3>2, <3>3, <3>4, <3>5, <1>1
  <2> QED BY <2>3, <2>4
<1> QED BY <1>8, <1>12, <1>15, <1>18

\* A list with its head is no more, or has become empty.
LEMMA DropJoins ==
  ASSUME NEW k \in Kinds, NEW l, Apart(l), NEW h \in Heads, NEW l2, Drops(l2, l, h)
  PROVE  /\ Apart(l2)
         /\ \A c : On(l2, c) => c = h \/ (On(l, c) /\ c # h)
         /\ \A c : On(l, c) /\ c # h /\ (h \in DOMAIN l => c \notin ToSet(l[h])) => On(l2, c)
         /\ h \in DOMAIN l => \A c \in ToSet(l[h]) : ~On(l2, c)
         /\ \A c, d : Joins(k, l2, c, d) =>
              \/ h \in DOMAIN l2 /\ c = h /\ d = IF k = "ring" THEN h ELSE Null
              \/ /\ Joins(k, l, c, d) /\ c # h /\ d # h
                 /\ h \in DOMAIN l => c \notin ToSet(l[h]) /\ d \notin ToSet(l[h])
<1>1. \A g \in DOMAIN l2 : g = h \/ (g # h /\ g \in DOMAIN l /\ l2[g] = l[g])
  BY DEF Drops
<1>2. h \in DOMAIN l2 => l2[h] = <<>> /\ Len(l2[h]) = 0
  BY DEF Drops
<1>3. h \notin Nodes /\ h # Null
  BY CellsAssumption DEF Cells
<1>4. \A g \in DOMAIN l2 : \A j \in 1..Len(l2[g]) : g # h
  BY <1>2
<1>5. Apart(l2)
  <2>1. ASSUME NEW g \in DOMAIN l2 PROVE g \in Heads /\ l2[g] \in Seq(Nodes)
    <3>1. CASE g = h
      <4>1. <<>> \in Seq(Nodes)
        OBVIOUS
      <4> QED BY <3>1, <4>1, <1>2
    <3>2. CASE g # h
      BY <3>2, <1>1 DEF Apart
    <3> QED BY <3>1, <3>2
  <2>2. \A g, f \in DOMAIN l2 : \A i \in 1..Len(l2[g]), j \in 1..Len(l2[f]) :
          l2[g][i] = l2[f][j] => g = f /\ i = j
    BY <1>1, <1>4 DEF Apart
  <2> QED BY <2>1, <2>2 DEF Apart
<1>6. \A c : c \in Entries(l2) <=> \E g \in DOMAIN l \ {h} : c \in ToSet(l[g])
  <2>1. \A c : c \in Entries(l2) <=> \E g \in DOMAIN l2 : c \in ToSet(l2[g])
    BY <1>5, EntryAt
  <2>2. h \in DOMAIN l2 => ToSet(l2[h]) = {}
    BY <1>2 DEF ToSet
  <2>3. \A g \in DOMAIN l \ {h} : g \in DOMAIN l2
    BY DEF Drops
  <2> QED BY <2>1, <2>2, <2>3, <1>1
<1>7. \A c : c \in Entries(l) <=> \E g \in DOMAIN l : c \in ToSet(l[g])
  BY EntryAt
<1>8. \A g \in DOMAIN l : g # h /\ h \in DOMAIN l => ToSet(l[g]) \cap ToSet(l[h]) = {}
  BY OneList
<1>9. \A c : On(l2, c) => c = h \/ (On(l, c) /\ c # h)
  <2>1. \A c : c \in DOMAIN l2 => c = h \/ c \in DOMAIN l
    BY DEF Drops
  <2> QED BY <2>1, <1>6, <1>7 DEF On
<1>10. \A c : On(l, c) /\ c # h /\ (h \in DOMAIN l => c \notin ToSet(l[h])) => On(l2, c)
  <2>1. \A c : c \in DOMAIN l /\ c # h => c \in DOMAIN l2
    BY DEF Drops
  <2> QED BY <2>1, <1>6, <1>7 DEF On
<1>11. ASSUME h \in DOMAIN l, NEW c \in ToSet(l[h])
       PROVE  ~On(l2, c)
  <2>1. c \in Nodes
    BY <1>11, EntryAt
  <2>2. c \notin DOMAIN l2
    BY <2>1, <1>5, CellsAssumption DEF Apart
  <2> QED BY <2>2, <1>6, <1>8, <1>11 DEF On
<1>12. ASSUME NEW c, NEW d, Joins(k, l2, c, d)
       PROVE  \/ h \in DOMAIN l2 /\ c = h /\ d = IF k = "ring" THEN h ELSE Null
              \/ /\ Joins(k, l, c, d) /\ c # h /\ d # h
                 /\ h \in DOMAIN l => c \notin ToSet(l[h]) /\ d \notin ToSet(l[h])
  <2>1. PICK g \in DOMAIN l2 : \E j \in 0..Len(l2[g]) :
          c = Place(k, g, l2[g], j) /\ d = Place(k, g, l2[g], j + 1)
    BY <1>12 DEF Joins
  <2>2. PICK j \in 0..Len(l2[g]) :
          c = Place(k, g, l2[g], j) /\ d = Place(k, g, l2[g], j + 1)
    BY <2>1
  <2>3. CASE g = h
    <3>1. j = 0 /\ l2[g] = <<>>
      BY <2>3, <1>2
    <3>2. c = h /\ d = IF k = "ring" THEN h ELSE Null
      BY <2>2, <2>3, <3>1 DEF Place
    <3> QED BY <2>3, <3>2
  <2>4. CASE g # h
    <3>1. g \in DOMAIN l /\ l2[g] = l[g] /\ j \in 0..Len(l[g])
      BY <2>4, <1>1
    <3>2. Joins(k, l, c, d)
      BY <3>1, <2>2, PlaceFacts
    <3>3. (c = g \/ c \in ToSet(l[g])) /\ (d = g \/ d \in ToSet(l[g]) \/ d = Null)
      <4>1. (j = 0 \/ j \in 1..Len(l[g])) /\ (j + 1 \in 1..Len(l[g]) \/ j + 1 = Len(l[g]) + 1)
        BY <3>1, EntryAt
      <4>2. \A i \in 1..Len(l[g]) : Place(k, g, l[g], i) \in ToSet(l[g])
        <5>1. \A i \in 1..Len(l[g]) : Place(k, g, l[g], i) = l[g][i]
          BY <3>1, PlaceFacts
        <5>2. \A i \in 1..Len(l[g]) : l[g][i] \in ToSet(l[g])
          BY <3>1, EntryAt
        <5> QED BY <5>1, <5>2
      <4>3. Place(k, g, l[g], 0) = g /\ Place(k, g, l[g], Len(l[g]) + 1) \in {g, Null}
        BY <3>1, PlaceFacts
      <4> QED BY <2>2, <3>1, <4>1, <4>2, <4>3
    <3>4. \A x \in ToSet(l[g]) : x \in Nodes
      BY <3>1, EntryAt
    <3>5. g \in Heads
      BY <3>1, EntryAt
    <3>6. c # h /\ d # h
      BY <3>3, <3>4, <1>3, <2>4
    <3>7. ASSUME h \in DOMAIN l PROVE c \notin ToSet(l[h]) /\ d \notin ToSet(l[h])
      <4>1. \A x \in ToSet(l[h]) : x \in Nodes
        BY <3>7, EntryAt
      <4>2. ToSet(l[g]) \cap ToSet(l[h]) = {}
        BY <3>1, <3>7, <2>4, <1>8
      <4> QED BY <4>1, <4>2, <3>3, <3>5, CellsAssumption DEF Cells
    <3> QED BY <3>2, <3>6, <3>7
  <2> QED BY <2>3, <2>4
<1> QED BY <1>5, <1>9, <1>10, <1>11, <1>12

----------------------------------------------------------------------------
(* What the stores do to the pointers *)

\* n is put between b and e; e is NULL behind the last node of a chain.
Puts(a, m, b, n, e) ==
  /\ a \in Memories
  /\ \A c \in Cells : /\ a.next[c] = IF c = b THEN n ELSE IF c = n THEN e ELSE m.next[c]
                      /\ a.prev[c] = IF c = n THEN b ELSE IF c = e THEN n ELSE m.prev[c]

\* n is taken from between b and e; its own pointers do not matter.
Takes(a, m, b, n, e) ==
  /\ a \in Memories
  /\ \A c \in Cells \ {n} : /\ a.next[c] = IF c = b THEN e ELSE m.next[c]
                            /\ a.prev[c] = IF c = e THEN b ELSE m.prev[c]

\* Memory a, lists l2 come after m and l by a call that stores only into lists
\* and into the entries of S.
Leads(k, m, l, a, l2, S) ==
  /\ a \in Memories /\ Apart(l2) /\ Follows(k, a, l2)
  /\ Entries(l2) \subseteq Entries(l) \cup S
  /\ \A c \in Nodes \ (Entries(l) \cup S) : a.next[c] = m.next[c] /\ a.prev[c] = m.prev[c]

\* The additions to a ring and to a chain.
LEMMA RingPuts ==
  ASSUME NEW m \in Memories, NEW n \in Nodes, NEW c \in Cells, n # c
  PROVE  /\ m.next[c] \in Cells => Puts(list_add(m, n, c), m, c, n, m.next[c])
         /\ m.prev[c] \in Cells => Puts(list_add_tail(m, n, c), m, m.prev[c], n, c)
<1>1. n \in Cells
  BY DEF Cells
<1>2. ASSUME NEW b \in Cells, NEW e \in Cells
      PROVE  Puts(list_add_between(m, n, b, e), m, b, n, e)
  <2>1. LET a == list_add_between(m, n, b, e)
        IN  /\ a \in Memories
            /\ \A x \in Cells :
                 /\ a.next[x] = IF x = b THEN n ELSE IF x = n THEN e ELSE m.next[x]
                 /\ a.prev[x] = IF x = n THEN b ELSE IF x = e THEN n ELSE m.prev[x]
    BY <1>1, BetweenStores
  <2> QED BY <2>1 DEF Puts
<1>3. ASSUME m.next[c] \in Cells PROVE Puts(list_add(m, n, c), m, c, n, m.next[c])
  BY <1>2, <1>3 DEF list_add
<1>4. ASSUME m.prev[c] \in Cells PROVE Puts(list_add_tail(m, n, c), m, m.prev[c], n, c)
  BY <1>2, <1>4 DEF list_add_tail
<1> QED BY <1>3, <1>4

\* The insertions of chains, in front of a cell whose pprev is known or behind it.
LEMMA ChainPuts ==
  ASSUME NEW m \in Memories, NEW n \in Nodes, NEW c \in Cells, n # c, m.next[c] # n
  PROVE  /\ Puts(hlist_add_head(m, n, c), m, c, n, m.next[c])
         /\ Puts(hlist_add_after(m, c, n), m, c, n, m.next[c])
         /\ m.prev[c] \in Cells /\ m.prev[c] # n =>
              Puts(hlist_add_before(m, n, c), m, m.prev[c], n, c)
<1>1. n \in Cells /\ Null \notin Cells /\ m.next[c] \in Cells \cup {Null}
  BY CellsAssumption DEF Cells, Memories
<1>2. Puts(hlist_add_head(m, n, c), m, c, n, m.next[c])
  BY <1>1 DEF hlist_add_head, pprev_fixup, Puts, Memories
<1>3. Puts(hlist_add_after(m, c, n), m, c, n, m.next[c])
  <2> DEFINE u == [m EXCEPT !.next[n] = m.next[c], !.next[c] = n, !.prev[n] = c]
  <2>1. u \in Memories
        /\ \A x \in Cells : /\ u.next[x] = IF x = c THEN n ELSE IF x = n THEN m.next[c] ELSE m.next[x]
                            /\ u.prev[x] = IF x = n THEN c ELSE m.prev[x]
    BY <1>1 DEF Memories
  <2>2. hlist_add_after(m, c, n) = pprev_fixup(u, m.next[c], n)
    BY DEF hlist_add_after
  <2> HIDE DEF u
  <2>3. CASE m.next[c] = Null
    BY <1>1, <2>1, <2>2, <2>3 DEF pprev_fixup, Puts
  <2>4. CASE m.next[c] # Null
    <3>1. hlist_add_after(m, c, n) = [u EXCEPT !.prev[m.next[c]] = n]
      BY <2>2, <2>4 DEF pprev_fixup
    <3> QED BY <1>1, <2>1, <2>4, <3>1 DEF Puts, Memories
  <2> QED BY <2>3, <2>4
<1>4. ASSUME m.prev[c] \in Cells, m.prev[c] # n
      PROVE  Puts(hlist_add_before(m, n, c), m, m.prev[c], n, c)
  BY <1>1, <1>4 DEF hlist_add_before, Puts, Memories
<1> QED BY <1>2, <1>3, <1>4

\* The removals, and what they leave in the entry.
LEMMA RingTakes ==
  ASSUME NEW m \in Memories, NEW n \in Nodes, m.next[n] \in Cells, m.prev[n] \in Cells
  PROVE  /\ Takes(list_unlink(m, n), m, m.prev[n], n, m.next[n])
         /\ Takes(list_del(m, n), m, m.prev[n], n, m.next[n])
         /\ Takes(list_del_init(m, n), m, m.prev[n], n, m.next[n])
         /\ list_del_init(m, n).next[n] = n /\ list_del_init(m, n).prev[n] = n
<1>1. n \in Cells
  BY DEF Cells
<1>2. /\ list_unlink(m, n) \in Memories
      /\ \A c \in Cells :
           /\ list_unlink(m, n).next[c] = IF c = m.prev[n] THEN m.next[n] ELSE m.next[c]
           /\ list_unlink(m, n).prev[c] = IF c = m.next[n] THEN m.prev[n] ELSE m.prev[c]
  BY <1>1 DEF list_unlink, Memories
<1>3. Takes(list_unlink(m, n), m, m.prev[n], n, m.next[n])
  BY <1>2 DEF Takes
<1>4. Takes(list_del(m, n), m, m.prev[n], n, m.next[n])
  BY DelStores DEF Takes
<1> DEFINE u == list_unlink(m, n)
<1> HIDE DEF u
<1>5. ASSUME u \in Memories
      PROVE  /\ INIT_LIST_HEAD(u, n) \in Memories
             /\ INIT_LIST_HEAD(u, n).next[n] = n /\ INIT_LIST_HEAD(u, n).prev[n] = n
             /\ \A c \in Cells \ {n} : /\ INIT_LIST_HEAD(u, n).next[c] = u.next[c]
                                       /\ INIT_LIST_HEAD(u, n).prev[c] = u.prev[c]
  BY <1>1, <1>5 DEF INIT_LIST_HEAD, Memories
<1>6. list_del_init(m, n) = INIT_LIST_HEAD(u, n)
  BY DEF u, list_del_init
<1>7. u \in Memories /\ Takes(u, m, m.prev[n], n, m.next[n])
  BY <1>2, <1>3 DEF u
<1> QED BY <1>3, <1>4, <1>5, <1>6, <1>7 DEF Takes

\* The removal of chains, and what it leaves in the entry.
LEMMA ChainTakes ==
  ASSUME NEW m \in Memories, NEW n \in Nodes, m.prev[n] \in Cells
  PROVE  /\ Takes(hlist_del(m, n), m, m.prev[n], n, m.next[n])
         /\ hlist_del(m, n).next[n] = Null /\ hlist_del(m, n).prev[n] = Null
<1>1. n \in Cells /\ Null \notin Cells /\ m.next[n] \in Cells \cup {Null}
  BY CellsAssumption DEF Cells, Memories
<1> DEFINE u == pprev_fixup([m EXCEPT !.next[m.prev[n]] = m.next[n]], m.next[n], m.prev[n])
<1>2. Takes(u, m, m.prev[n], n, m.next[n])
  BY <1>1 DEF pprev_fixup, Takes, Memories
<1> HIDE DEF u
<1>3. u \in Memories
  BY <1>2 DEF Takes
<1>4. /\ INIT_HLIST_NODE(u, n) \in Memories
      /\ INIT_HLIST_NODE(u, n).next[n] = Null /\ INIT_HLIST_NODE(u, n).prev[n] = Null
      /\ \A c \in Cells \ {n} : /\ INIT_HLIST_NODE(u, n).next[c] = u.next[c]
                                /\ INIT_HLIST_NODE(u, n).prev[c] = u.prev[c]
  BY <1>1, <1>3 DEF INIT_HLIST_NODE, Memories
<1>5. hlist_del(m, n) = INIT_HLIST_NODE(u, n)
  BY DEF hlist_del, u
<1> QED BY <1>2, <1>4, <1>5 DEF Takes

\* The initialisations touch one cell.
LEMMA InitStores ==
  ASSUME NEW m \in Memories, NEW h \in Cells
  PROVE  /\ \A a \in {INIT_LIST_HEAD(m, h), INIT_HLIST_HEAD(m, h), INIT_HLIST_NODE(m, h), hlist_add_fake(m, h)} :
              /\ a \in Memories
              /\ \A c \in Cells \ {h} : a.next[c] = m.next[c] /\ a.prev[c] = m.prev[c]
         /\ INIT_LIST_HEAD(m, h).next[h] = h /\ INIT_LIST_HEAD(m, h).prev[h] = h
         /\ INIT_HLIST_HEAD(m, h).next[h] = Null
         /\ INIT_HLIST_NODE(m, h).next[h] = Null /\ INIT_HLIST_NODE(m, h).prev[h] = Null
         /\ hlist_add_fake(m, h).next[h] = m.next[h] /\ hlist_add_fake(m, h).prev[h] = h
<1>1. INIT_LIST_HEAD(m, h) \in Memories
      /\ INIT_LIST_HEAD(m, h).next[h] = h /\ INIT_LIST_HEAD(m, h).prev[h] = h
      /\ \A c \in Cells \ {h} : /\ INIT_LIST_HEAD(m, h).next[c] = m.next[c]
                                /\ INIT_LIST_HEAD(m, h).prev[c] = m.prev[c]
  BY DEF INIT_LIST_HEAD, Memories
<1>2. INIT_HLIST_HEAD(m, h) \in Memories
      /\ INIT_HLIST_HEAD(m, h).next[h] = Null
      /\ \A c \in Cells \ {h} : /\ INIT_HLIST_HEAD(m, h).next[c] = m.next[c]
                                /\ INIT_HLIST_HEAD(m, h).prev[c] = m.prev[c]
  BY DEF INIT_HLIST_HEAD, Memories
<1>3. INIT_HLIST_NODE(m, h) \in Memories
      /\ INIT_HLIST_NODE(m, h).next[h] = Null /\ INIT_HLIST_NODE(m, h).prev[h] = Null
      /\ \A c \in Cells \ {h} : /\ INIT_HLIST_NODE(m, h).next[c] = m.next[c]
                                /\ INIT_HLIST_NODE(m, h).prev[c] = m.prev[c]
  BY DEF INIT_HLIST_NODE, Memories
<1>4. hlist_add_fake(m, h) \in Memories
      /\ hlist_add_fake(m, h).next[h] = m.next[h] /\ hlist_add_fake(m, h).prev[h] = h
      /\ \A c \in Cells \ {h} : /\ hlist_add_fake(m, h).next[c] = m.next[c]
                                /\ hlist_add_fake(m, h).prev[c] = m.prev[c]
  BY DEF hlist_add_fake, Memories
<1> QED BY <1>1, <1>2, <1>3, <1>4

----------------------------------------------------------------------------
(* What the operators on lists do to the sequences *)

\* Home and At find the place of a cell.
LEMMA HomeAt ==
  ASSUME NEW k \in Kinds, NEW l, Apart(l)
  PROVE  /\ \A h \in DOMAIN l : h \in Heads /\ Home(l, h) = h /\ At(l, h) = 0
         /\ \A h \in DOMAIN l : \A i \in 1..Len(l[h]) :
              /\ l[h][i] \notin Heads
              /\ Home(l, l[h][i]) = h /\ At(l, l[h][i]) = i
         /\ \A c : On(l, c) =>
              /\ Home(l, c) \in DOMAIN l /\ At(l, c) \in 0..Len(l[Home(l, c)])
              /\ Place(k, Home(l, c), l[Home(l, c)], At(l, c)) = c
         /\ \A n \in Entries(l) : At(l, n) \in 1..Len(l[Home(l, n)]) /\ l[Home(l, n)][At(l, n)] = n
<1>1. ASSUME NEW h \in DOMAIN l
      PROVE  h \in Heads /\ Home(l, h) = h /\ At(l, h) = 0 /\ 0 \in 0..Len(l[h])
  <2>1. h \in Heads /\ Len(l[h]) \in Nat
    BY EntryAt
  <2> QED BY <2>1 DEF Home, At
<1>2. ASSUME NEW h \in DOMAIN l, NEW i \in 1..Len(l[h])
      PROVE  l[h][i] \notin Heads /\ Home(l, l[h][i]) = h /\ At(l, l[h][i]) = i
  <2> DEFINE n == l[h][i]
  <2>1. n \in Nodes /\ n \notin Heads /\ n \in ToSet(l[h])
    BY EntryAt, CellsAssumption
  <2>2. \A g \in DOMAIN l : n \in ToSet(l[g]) => g = h
    BY <2>1, OneList
  <2>3. Home(l, n) = h
    BY <2>1, <2>2 DEF Home
  <2>4. DOMAIN l[h] = 1..Len(l[h]) /\ \A j \in 1..Len(l[h]) : l[h][j] = n => j = i
    BY EntryAt DEF Apart
  <2>5. At(l, n) = CHOOSE j \in DOMAIN l[h] : l[h][j] = n
    BY <2>1, <2>3 DEF At
  <2> HIDE DEF n
  <2>6. l[h][i] = n
    BY DEF n
  <2>7. At(l, n) = i
    BY <2>4, <2>5, <2>6
  <2> QED BY <2>1, <2>3, <2>7 DEF n
<1>3. ASSUME NEW n \in Entries(l)
      PROVE  \E h \in DOMAIN l : \E i \in 1..Len(l[h]) : l[h][i] = n /\ Home(l, n) = h /\ At(l, n) = i
  <2>1. PICK h \in DOMAIN l : \E i \in 1..Len(l[h]) : l[h][i] = n
    BY EntryAt
  <2>2. PICK i \in 1..Len(l[h]) : l[h][i] = n
    BY <2>1
  <2> QED BY <2>2, <1>2
<1>4. ASSUME NEW n \in Entries(l)
      PROVE  /\ Home(l, n) \in DOMAIN l /\ At(l, n) \in 1..Len(l[Home(l, n)])
             /\ l[Home(l, n)][At(l, n)] = n /\ At(l, n) \in 0..Len(l[Home(l, n)])
             /\ Place(k, Home(l, n), l[Home(l, n)], At(l, n)) = n
  <2>1. /\ Home(l, n) \in DOMAIN l /\ At(l, n) \in 1..Len(l[Home(l, n)])
        /\ l[Home(l, n)][At(l, n)] = n
    BY <1>3
  <2>2. At(l, n) \in 0..Len(l[Home(l, n)])
    BY <2>1
  <2> QED BY <2>1, <2>2, PlaceFacts
<1>5. ASSUME NEW h \in DOMAIN l
      PROVE  Place(k, Home(l, h), l[Home(l, h)], At(l, h)) = h
  BY <1>1, PlaceFacts
<1> QED BY <1>1, <1>2, <1>4, <1>5 DEF On

\* A concatenation with an empty sequence.
LEMMA EmptyConcat ==
  ASSUME NEW S, NEW s \in Seq(S)
  PROVE  s \o <<>> = s /\ <<>> \o s = s /\ SubSeq(s, 1, Len(s)) = s /\ SubSeq(s, Len(s) + 1, Len(s)) = <<>>
         /\ SubSeq(s, 1, 0) = <<>>
OBVIOUS

\* InsertAfter puts x at an index of the list of c, behind c.
LEMMA AfterChanges ==
  ASSUME NEW k \in Kinds, NEW l, Apart(l), NEW c, On(l, c), NEW x
  PROVE  Changes(InsertAfter(l, c, x), l, Home(l, c), Spliced(l[Home(l, c)], At(l, c), x))
<1>1. Home(l, c) \in DOMAIN l
  BY HomeAt
<1> QED BY <1>1 DEF InsertAfter, Changes, Spliced

\* InsertBefore puts x at the index before that of c, behind the entry there.
LEMMA BeforeChanges ==
  ASSUME NEW k \in Kinds, NEW l, Apart(l), NEW c, On(l, c), k = "ring" \/ c \in Nodes,
         NEW x \in Seq(Nodes)
  PROVE  \E i \in 0..Len(l[Home(l, c)]) :
           /\ Place(k, Home(l, c), l[Home(l, c)], i + 1) = c
           /\ Changes(InsertBefore(l, c, x), l, Home(l, c), Spliced(l[Home(l, c)], i, x))
<1> DEFINE h == Home(l, c)
           s == l[h]
<1>0. h \in DOMAIN l /\ s \in Seq(Nodes) /\ Len(s) \in Nat
  BY HomeAt DEF Apart
<1>1. CASE c \in DOMAIN l
  <2>1. c \in Heads /\ h = c /\ c \notin Nodes
    BY <1>1, HomeAt, CellsAssumption
  <2>2. Place(k, h, s, Len(s) + 1) = c
    BY <2>1, <1>1, PlaceFacts
  <2>3. Spliced(s, Len(s), x) = s \o x
    <3> HIDE DEF s
    <3>1. s \o x \in Seq(Nodes) /\ (s \o x) \o <<>> = s \o x
      BY <1>0, EmptyConcat
    <3> QED BY <1>0, <3>1, EmptyConcat DEF Spliced
  <2>4. Changes(InsertBefore(l, c, x), l, h, s \o x)
    BY <1>0, <2>1 DEF InsertBefore, Changes
  <2>5. Len(s) \in 0..Len(s)
    BY <1>0
  <2> QED BY <2>2, <2>3, <2>4, <2>5
<1>2. CASE c \in Entries(l)
  <2>1. At(l, c) \in 1..Len(s) /\ s[At(l, c)] = c /\ c \notin Heads
    <3>1. At(l, c) \in 1..Len(s) /\ s[At(l, c)] = c
      BY <1>2, HomeAt
    <3> QED BY <1>0, <3>1, HomeAt
  <2> DEFINE i == At(l, c) - 1
  <2>2. i \in 0..Len(s) /\ i + 1 = At(l, c)
    BY <1>0, <2>1
  <2>3. Place(k, h, s, At(l, c)) = c
    BY <1>0, <2>1, PlaceFacts
  <2>4. InsertBefore(l, c, x) = [l EXCEPT ![h] = SubSeq(@, 1, i) \o x \o SubSeq(@, i + 1, Len(@))]
    BY <2>1 DEF InsertBefore
  <2> HIDE DEF i
  <2>5. Changes(InsertBefore(l, c, x), l, h, Spliced(s, i, x))
    BY <1>0, <2>4 DEF Changes, Spliced
  <2> QED BY <2>2, <2>3, <2>5
<1> QED BY <1>1, <1>2 DEF On

\* Without removes an entry from its list.
LEMMA WithoutChanges ==
  ASSUME NEW l, Apart(l), NEW n
  PROVE  /\ DOMAIN Without(l, n) = DOMAIN l
         /\ \A h \in DOMAIN l : \A i \in 1..Len(l[h]) :
              l[h][i] = n => Changes(Without(l, n), l, h, RemoveAt(l[h], i))
         /\ \A h \in DOMAIN l : n \notin ToSet(l[h]) => Without(l, n)[h] = l[h]
<1>1. /\ DOMAIN Without(l, n) = DOMAIN l
      /\ \A h \in DOMAIN l : n \notin ToSet(l[h]) => Without(l, n)[h] = l[h]
      /\ \A h \in DOMAIN l : n \in ToSet(l[h]) => Without(l, n)[h] = RemoveAt(l[h], At(l, n))
  BY DEF Without
<1>2. ASSUME NEW h \in DOMAIN l, NEW i \in 1..Len(l[h]), l[h][i] = n
      PROVE  Changes(Without(l, n), l, h, RemoveAt(l[h], i))
  <2>1. n \in ToSet(l[h])
    BY <1>2, EntryAt
  <2>2. At(l, n) = i
    <3>1. "ring" \in Kinds
      BY DEF Kinds
    <3> QED BY <1>2, <3>1, HomeAt
  <2>3. \A g \in DOMAIN l \ {h} : n \notin ToSet(l[g])
    BY <1>2, OneList
  <2> QED BY <1>1, <2>1, <2>2, <2>3 DEF Changes
<1> QED BY <1>1, <1>2

\* The same lists.
LEMMA SameLists ==
  ASSUME NEW k \in Kinds, NEW l, Apart(l), NEW l2, DOMAIN l2 = DOMAIN l,
         \A h \in DOMAIN l : l2[h] = l[h]
  PROVE  /\ Apart(l2) /\ Entries(l2) = Entries(l)
         /\ \A c, d : Joins(k, l2, c, d) => Joins(k, l, c, d)
<1>1. Apart(l2)
  BY DEF Apart
<1>2. Entries(l2) = Entries(l)
  BY DEF Entries
<1>3. \A c, d : Joins(k, l2, c, d) => Joins(k, l, c, d)
  BY DEF Joins
<1> QED BY <1>1, <1>2, <1>3

----------------------------------------------------------------------------
(* The memory follows *)

\* Entries are the cells on a list that are no heads.
LEMMA OnNodes ==
  ASSUME NEW l, Apart(l)
  PROVE  /\ \A c \in Nodes : On(l, c) <=> c \in Entries(l)
         /\ \A c \in Heads : On(l, c) <=> c \in DOMAIN l
<1>1. DOMAIN l \subseteq Heads /\ Entries(l) \subseteq Nodes
  BY EntryAt DEF Apart
<1> QED BY <1>1, CellsAssumption DEF On

\* What the pointers of a cell on a list are.
LEMMA Neighbours ==
  ASSUME NEW k \in Kinds, NEW m, NEW l, Apart(l), Follows(k, m, l),
         NEW g \in DOMAIN l, NEW i \in 0..Len(l[g])
  PROVE  LET b == Place(k, g, l[g], i)
             e == Place(k, g, l[g], i + 1)
         IN  /\ b \in Cells /\ On(l, b) /\ m.next[b] = e
             /\ e # Null => e \in Cells /\ On(l, e) /\ m.prev[e] = b
             /\ k = "ring" => e # Null
             /\ e = Null => i = Len(l[g])
             /\ b = e => k = "ring" /\ Len(l[g]) = 0
<1> DEFINE b == Place(k, g, l[g], i)
           e == Place(k, g, l[g], i + 1)
<1>1. Joins(k, l, b, e)
  BY PlaceFacts
<1>2. /\ b \in Cells /\ On(l, b) /\ m.next[b] = e
      /\ e # Null => e \in Cells /\ On(l, e) /\ m.prev[e] = b
      /\ k = "ring" => e # Null
  BY <1>1, JoinFacts DEF Follows
<1>3. Len(l[g]) \in Nat
  BY EntryAt
<1>4. CASE i + 1 \in 0..Len(l[g])
  <2>1. e \in Cells
    BY <1>4, PlaceFacts
  <2>2. b = e => i = i + 1
    BY <1>4, OnePlace
  <2>3. i # i + 1
    BY <1>3
  <2> QED BY <1>2, <2>1, <2>2, <2>3, CellsAssumption
<1>5. CASE i = Len(l[g])
  <2>1. e = IF k = "ring" THEN g ELSE Null
    BY <1>5, PlaceFacts
  <2>2. g = Place(k, g, l[g], 0) /\ 0 \in 0..Len(l[g])
    BY <1>3, PlaceFacts
  <2>3. b = g => i = 0
    BY <2>2, OnePlace
  <2>4. b # Null
    BY <1>2, CellsAssumption
  <2> QED BY <1>2, <1>5, <2>1, <2>3, <2>4
<1> QED BY <1>3, <1>4, <1>5

\* An entry is put between two neighbours.
LEMMA PutLeads ==
  ASSUME NEW k \in Kinds, NEW m, NEW l, Apart(l), Follows(k, m, l),
         NEW g \in DOMAIN l, NEW i \in 0..Len(l[g]), NEW n \in Nodes, n \notin Entries(l),
         NEW l2, Changes(l2, l, g, Spliced(l[g], i, <<n>>)),
         NEW a, Puts(a, m, Place(k, g, l[g], i), n, Place(k, g, l[g], i + 1))
  PROVE  Leads(k, m, l, a, l2, {n}) /\ n \in Entries(l2)
<1> DEFINE x == <<n>>
           b == Place(k, g, l[g], i)
           e == Place(k, g, l[g], i + 1)
<1>1. Fresh(x, l) /\ Len(x) = 1 /\ x[1] = n /\ ToSet(x) = {n}
  BY DEF Fresh, ToSet
<1> HIDE DEF x
<1>2. /\ Apart(l2) /\ \A c : On(l2, c) <=> On(l, c) \/ c \in ToSet(x)
      /\ Joins(k, l, b, e)
      /\ \A c, d : Joins(k, l2, c, d) =>
           \/ Joins(k, l, c, d) /\ c # b /\ (d = e => d = Null)
           \/ c = b /\ d = x[1]
           \/ c = x[Len(x)] /\ d = e
           \/ \E p \in 1..Len(x) - 1 : c = x[p] /\ d = x[p + 1]
  <2>1. Changes(l2, l, g, Spliced(l[g], i, x))
    BY DEF x
  <2> QED BY <1>1, <2>1, InsertJoins
<1>3. /\ b \in Cells /\ On(l, b)
      /\ e # Null => e \in Cells /\ On(l, e)
  BY <1>2, JoinFacts
<1>4. ~On(l, n) /\ n \in Cells /\ n # Null
  BY OnNodes, CellsAssumption DEF Cells
<1>5. /\ a \in Memories
      /\ \A c \in Cells : /\ a.next[c] = IF c = b THEN n ELSE IF c = n THEN e ELSE m.next[c]
                          /\ a.prev[c] = IF c = n THEN b ELSE IF c = e THEN n ELSE m.prev[c]
  BY DEF Puts
<1> HIDE DEF b, e
<1>6. ASSUME NEW c, NEW d, Joins(k, l2, c, d)
      PROVE  a.next[c] = d /\ (d # Null => a.prev[d] = c)
  <2>1. CASE Joins(k, l, c, d) /\ c # b /\ (d = e => d = Null)
    <3>1. /\ c \in Cells /\ On(l, c) /\ m.next[c] = d
          /\ d # Null => d \in Cells /\ On(l, d) /\ m.prev[d] = c
      BY <2>1, JoinFacts DEF Follows
    <3> QED BY <2>1, <3>1, <1>4, <1>5
  <2>2. CASE c = b /\ d = n
    BY <2>2, <1>3, <1>4, <1>5
  <2>3. CASE c = n /\ d = e
    BY <2>3, <1>3, <1>4, <1>5
  <2>4. \A p \in 1..Len(x) - 1 : FALSE
    BY <1>1
  <2> QED BY <1>1, <1>2, <1>6, <2>1, <2>2, <2>3, <2>4
<1>7. \A c \in Nodes : c \in Entries(l2) <=> c \in Entries(l) \/ c = n
  <2>1. \A c \in Nodes : (On(l2, c) <=> c \in Entries(l2)) /\ (On(l, c) <=> c \in Entries(l))
    BY <1>2, OnNodes
  <2> QED BY <1>1, <1>2, <2>1
<1>8. Entries(l2) \subseteq Nodes
  BY <1>2, EntryAt
<1>9. ASSUME NEW c \in Nodes \ (Entries(l) \cup {n}) PROVE a.next[c] = m.next[c] /\ a.prev[c] = m.prev[c]
  <2>1. c \in Cells /\ ~On(l, c)
    BY OnNodes DEF Cells
  <2>2. c # Null
    BY <2>1, CellsAssumption
  <2> QED BY <2>1, <2>2, <1>3, <1>5, <1>9
<1> QED BY <1>2, <1>5, <1>6, <1>7, <1>8, <1>9 DEF Leads, Follows

\* An entry is taken off its list.
LEMMA TakeLeads ==
  ASSUME NEW k \in Kinds, NEW m, NEW l, Apart(l), Follows(k, m, l),
         NEW g \in DOMAIN l, NEW i \in 1..Len(l[g]), NEW n, n = l[g][i],
         NEW l2, Changes(l2, l, g, RemoveAt(l[g], i)),
         NEW a, Takes(a, m, Place(k, g, l[g], i - 1), n, Place(k, g, l[g], i + 1))
  PROVE  Leads(k, m, l, a, l2, {}) /\ Entries(l2) = Entries(l) \ {n}
<1> DEFINE b == Place(k, g, l[g], i - 1)
           e == Place(k, g, l[g], i + 1)
<1>1. /\ Apart(l2) /\ \A c : On(l2, c) <=> On(l, c) /\ c # n
      /\ Joins(k, l, b, n) /\ Joins(k, l, n, e)
      /\ \A c, d : Joins(k, l2, c, d) =>
           \/ c = b /\ d = e
           \/ Joins(k, l, c, d) /\ c # b /\ c # n /\ d # n /\ (d = e => d = Null)
  BY RemoveJoins
<1>2. /\ b \in Cells /\ On(l, b)
      /\ e # Null => e \in Cells /\ On(l, e)
  BY <1>1, JoinFacts
<1>3. n \in Nodes /\ n \in Entries(l) /\ On(l, n) /\ n \in Cells /\ n # Null
  <2>1. n \in Nodes /\ n \in Entries(l)
    BY EntryAt
  <2> QED BY <2>1, OnNodes, CellsAssumption DEF Cells
<1>4. b # n /\ e # n
  <2>1. Len(l[g]) \in Nat
    BY EntryAt
  <2>2. i \in 0..Len(l[g]) /\ i - 1 \in 0..Len(l[g]) /\ (i - 1) + 1 = i /\ Len(l[g]) # 0
    BY <2>1
  <2>3. Place(k, g, l[g], i) = n
    BY PlaceFacts
  <2>4. n # e
    BY <2>2, <2>3, Neighbours
  <2>5. Place(k, g, l[g], i - 1) = Place(k, g, l[g], (i - 1) + 1) => Len(l[g]) = 0
    BY <2>2, Neighbours
  <2> QED BY <2>2, <2>3, <2>4, <2>5
<1>5. /\ a \in Memories
      /\ \A c \in Cells \ {n} : /\ a.next[c] = IF c = b THEN e ELSE m.next[c]
                                /\ a.prev[c] = IF c = e THEN b ELSE m.prev[c]
  BY DEF Takes
<1> HIDE DEF b, e
<1>6. ASSUME NEW c, NEW d, Joins(k, l2, c, d)
      PROVE  a.next[c] = d /\ (d # Null => a.prev[d] = c)
  <2>1. CASE c = b /\ d = e
    BY <2>1, <1>2, <1>4, <1>5
  <2>2. CASE Joins(k, l, c, d) /\ c # b /\ c # n /\ d # n /\ (d = e => d = Null)
    <3>1. /\ c \in Cells /\ m.next[c] = d
          /\ d # Null => d \in Cells /\ m.prev[d] = c
      BY <2>2, JoinFacts DEF Follows
    <3> QED BY <2>2, <3>1, <1>5
  <2> QED BY <1>1, <1>6, <2>1, <2>2
<1>7. \A c \in Nodes : c \in Entries(l2) <=> c \in Entries(l) /\ c # n
  <2>1. \A c \in Nodes : (On(l2, c) <=> c \in Entries(l2)) /\ (On(l, c) <=> c \in Entries(l))
    BY <1>1, OnNodes
  <2> QED BY <1>1, <2>1
<1>8. Entries(l2) \subseteq Nodes /\ Entries(l) \subseteq Nodes
  BY <1>1, EntryAt
<1>9. ASSUME NEW c \in Nodes \ (Entries(l) \cup {}) PROVE a.next[c] = m.next[c] /\ a.prev[c] = m.prev[c]
  <2>1. c \in Cells /\ ~On(l, c)
    BY OnNodes DEF Cells
  <2>2. c # Null /\ c # n
    BY <2>1, <1>3, CellsAssumption
  <2> QED BY <2>1, <2>2, <1>2, <1>5
<1> QED BY <1>1, <1>5, <1>6, <1>7, <1>8, <1>9 DEF Leads, Follows

\* Stores elsewhere do not matter.
LEMMA ElsewhereLeads ==
  ASSUME NEW k \in Kinds, NEW m, NEW l, Apart(l), Follows(k, m, l), NEW a \in Memories, NEW S,
         \A c \in Cells \ S : a.next[c] = m.next[c] /\ a.prev[c] = m.prev[c],
         \A c \in S : ~On(l, c),
         NEW l2, DOMAIN l2 = DOMAIN l, \A h \in DOMAIN l : l2[h] = l[h]
  PROVE  Leads(k, m, l, a, l2, S)
<1>1. /\ Apart(l2) /\ Entries(l2) = Entries(l)
      /\ \A c, d : Joins(k, l2, c, d) => Joins(k, l, c, d)
  BY SameLists
<1>2. ASSUME NEW c, NEW d, Joins(k, l2, c, d)
      PROVE  a.next[c] = d /\ (d # Null => a.prev[d] = c)
  <2>1. /\ c \in Cells /\ On(l, c) /\ m.next[c] = d
        /\ d # Null => d \in Cells /\ On(l, d) /\ m.prev[d] = c
    BY <1>1, <1>2, JoinFacts DEF Follows
  <2> QED BY <2>1
<1>3. \A c \in Nodes \ (Entries(l) \cup S) : a.next[c] = m.next[c] /\ a.prev[c] = m.prev[c]
  BY DEF Cells
<1> QED BY <1>1, <1>2, <1>3 DEF Leads, Follows

\* One after the other.
LEMMA LeadsOn ==
  ASSUME NEW k, NEW m, NEW l, NEW a, NEW l2, NEW S, NEW b, NEW l3, NEW T,
         Leads(k, m, l, a, l2, S), Leads(k, a, l2, b, l3, T)
  PROVE  Leads(k, m, l, b, l3, S \cup T)
BY DEF Leads

\* A list is given up, or begins: its head is initialised or left dangling.
LEMMA DropLeads ==
  ASSUME NEW k \in Kinds, NEW m, NEW l, Apart(l), Follows(k, m, l), NEW h \in Heads,
         NEW l2, Drops(l2, l, h),
         NEW a \in Memories, \A c \in Cells \ {h} : a.next[c] = m.next[c] /\ a.prev[c] = m.prev[c],
         h \in DOMAIN l2 => a.next[h] = (IF k = "ring" THEN h ELSE Null) /\ (k = "ring" => a.prev[h] = h)
  PROVE  Leads(k, m, l, a, l2, {})
<1>1. /\ Apart(l2)
      /\ \A c : On(l2, c) => c = h \/ (On(l, c) /\ c # h)
      /\ \A c, d : Joins(k, l2, c, d) =>
           \/ h \in DOMAIN l2 /\ c = h /\ d = IF k = "ring" THEN h ELSE Null
           \/ Joins(k, l, c, d) /\ c # h /\ d # h
  <2>1. /\ Apart(l2)
        /\ \A c : On(l2, c) => c = h \/ (On(l, c) /\ c # h)
        /\ \A c, d : Joins(k, l2, c, d) =>
             \/ h \in DOMAIN l2 /\ c = h /\ d = IF k = "ring" THEN h ELSE Null
             \/ /\ Joins(k, l, c, d) /\ c # h /\ d # h
                /\ h \in DOMAIN l => c \notin ToSet(l[h]) /\ d \notin ToSet(l[h])
    BY DropJoins
  <2> QED BY <2>1
<1>2. h \in Cells /\ h \notin Nodes /\ h # Null
  BY CellsAssumption DEF Cells
<1>3. ASSUME NEW c, NEW d, Joins(k, l2, c, d)
      PROVE  a.next[c] = d /\ (d # Null => a.prev[d] = c)
  <2>1. CASE h \in DOMAIN l2 /\ c = h /\ d = IF k = "ring" THEN h ELSE Null
    BY <2>1, <1>2
  <2>2. CASE Joins(k, l, c, d) /\ c # h /\ d # h
    <3>1. /\ c \in Cells /\ m.next[c] = d
          /\ d # Null => d \in Cells /\ m.prev[d] = c
      BY <2>2, JoinFacts DEF Follows
    <3> QED BY <2>2, <3>1
  <2> QED BY <1>1, <1>3, <2>1, <2>2
<1>4. \A c \in Nodes : c \in Entries(l2) => c \in Entries(l)
  <2>1. \A c \in Nodes : (On(l2, c) <=> c \in Entries(l2)) /\ (On(l, c) <=> c \in Entries(l))
    BY <1>1, OnNodes
  <2> QED BY <1>1, <1>2, <2>1
<1>5. Entries(l2) \subseteq Nodes
  BY <1>1, EntryAt
<1>6. \A c \in Nodes : c \in Cells /\ c # h
  BY <1>2 DEF Cells
<1> QED BY <1>1, <1>3, <1>4, <1>5, <1>6 DEF Leads, Follows

\* The entries of h move to index i of the list of g, which may begin with
\* them; h is then empty or given up.
Target(l, g) == IF g \in DOMAIN l THEN l[g] ELSE <<>>
Pours(l2, l, h, g, s) ==
  /\ h \in DOMAIN l /\ g \in Heads /\ g # h
  /\ DOMAIN l2 = (DOMAIN l \cup {g}) \ {h} \/ DOMAIN l2 = DOMAIN l \cup {g}
  /\ l2[g] = s /\ (h \in DOMAIN l2 => l2[h] = <<>>)
  /\ \A f \in DOMAIN l \ {g, h} : l2[f] = l[f]

\* Before they go elsewhere, the entries of h leave it; the list of g, where
\* they will go, may begin.
LEMMA PourOut ==
  ASSUME NEW k \in Kinds, NEW l, Apart(l), NEW h, NEW g, NEW l0, Pours(l0, l, h, g, Target(l, g))
  PROVE  /\ Apart(l0)
         /\ \A c \in ToSet(l[h]) : ~On(l0, c)
         /\ \A c \in Nodes : On(l0, c) => On(l, c)
         /\ \A c, d : Joins(k, l0, c, d) =>
              \/ h \in DOMAIN l0 /\ c = h /\ d = IF k = "ring" THEN h ELSE Null
              \/ c = g /\ g \notin DOMAIN l
              \/ Joins(k, l, c, d) /\ c # h /\ d # h /\ c \notin ToSet(l[h]) /\ d \notin ToSet(l[h])
<1> DEFINE lg == [f \in DOMAIN l \cup {g} |-> IF f \in DOMAIN l THEN l[f] ELSE <<>>]
<1>0. h \in DOMAIN l /\ g \in Heads /\ g # h /\ h \in Heads /\ h \notin Nodes /\ g \notin Nodes
  BY EntryAt, CellsAssumption DEF Pours
<1>1. /\ DOMAIN lg = DOMAIN l \cup {g} /\ h \in DOMAIN lg
      /\ lg[g] = (IF g \in DOMAIN l THEN l[g] ELSE <<>>)
      /\ \A f \in DOMAIN l : lg[f] = l[f]
  BY <1>0
<1> HIDE DEF lg
<1>2. /\ Apart(lg) /\ \A c \in Nodes : On(lg, c) => On(l, c)
      /\ \A c, d : Joins(k, lg, c, d) => Joins(k, l, c, d) \/ (c = g /\ g \notin DOMAIN l)
  <2>1. CASE g \in DOMAIN l
    <3>1. DOMAIN lg = DOMAIN l
      BY <1>1, <2>1
    <3>2. Apart(lg) /\ Entries(lg) = Entries(l) /\ \A c, d : Joins(k, lg, c, d) => Joins(k, l, c, d)
      BY <1>1, <3>1, SameLists
    <3> QED BY <3>1, <3>2 DEF On
  <2>2. CASE g \notin DOMAIN l
    <3>1. Drops(lg, l, g)
      BY <1>1, <2>2 DEF Drops
    <3>2. /\ Apart(lg) /\ \A c : On(lg, c) => c = g \/ (On(l, c) /\ c # g)
          /\ \A c, d : Joins(k, lg, c, d) =>
               \/ g \in DOMAIN lg /\ c = g /\ d = IF k = "ring" THEN g ELSE Null
               \/ /\ Joins(k, l, c, d) /\ c # g /\ d # g
                  /\ g \in DOMAIN l => c \notin ToSet(l[g]) /\ d \notin ToSet(l[g])
      BY <3>1, <1>0, DropJoins
    <3> QED BY <3>2, <2>2, <1>0
  <2> QED BY <2>1, <2>2
<1>3. Drops(l0, lg, h)
  <2>1. /\ DOMAIN l0 = DOMAIN lg \ {h} \/ DOMAIN l0 = DOMAIN lg \cup {h}
        /\ h \in DOMAIN l0 => l0[h] = <<>>
    BY <1>1 DEF Pours
  <2>2. ASSUME NEW f \in DOMAIN lg \ {h} PROVE l0[f] = lg[f]
    BY <1>1 DEF Pours, Target
  <2> QED BY <2>1, <2>2 DEF Drops
<1>4. /\ Apart(l0)
      /\ \A c : On(l0, c) => c = h \/ (On(lg, c) /\ c # h)
      /\ h \in DOMAIN lg => \A c \in ToSet(lg[h]) : ~On(l0, c)
      /\ \A c, d : Joins(k, l0, c, d) =>
           \/ h \in DOMAIN l0 /\ c = h /\ d = IF k = "ring" THEN h ELSE Null
           \/ /\ Joins(k, lg, c, d) /\ c # h /\ d # h
              /\ h \in DOMAIN lg => c \notin ToSet(lg[h]) /\ d \notin ToSet(lg[h])
  <2>1. Apart(lg) /\ h \in Heads
    BY <1>0, <1>2
  <2> QED BY <2>1, <1>3, DropJoins
<1>5. h \in DOMAIN lg /\ lg[h] = l[h]
  BY <1>0, <1>1
<1> QED BY <1>0, <1>2, <1>4, <1>5

\* The entries x of h move to an index of another list.
LEMMA PourJoins ==
  ASSUME NEW k \in Kinds, NEW l, Apart(l), NEW h, NEW x, x = l[h], x # <<>>, NEW g,
         NEW t, t = Target(l, g), NEW i \in 0..Len(t),
         NEW l2, Pours(l2, l, h, g, Spliced(t, i, x)),
         NEW b, b = Place(k, g, t, i), NEW e, e = Place(k, g, t, i + 1)
  PROVE  /\ Apart(l2) /\ \A c \in Nodes : c \in Entries(l2) => c \in Entries(l)
         /\ \A c \in Nodes : c = b \/ c = e \/ c \in ToSet(x) => c \in Entries(l)
         /\ b \in Cells /\ b \notin ToSet(x) /\ e \notin ToSet(x)
         /\ x[1] \in ToSet(x) /\ x[Len(x)] \in ToSet(x) /\ Len(x) \in Nat
         /\ \A c, d : Joins(k, l2, c, d) =>
              \/ h \in DOMAIN l2 /\ c = h /\ d = IF k = "ring" THEN h ELSE Null
              \/ /\ Joins(k, l, c, d) /\ c # h /\ d # h /\ c \notin ToSet(x) /\ d \notin ToSet(x)
                 /\ c # b /\ (d = e => d = Null)
              \/ c = b /\ d = x[1]
              \/ c = x[Len(x)] /\ d = e
              \/ /\ Joins(k, l, c, d) /\ c \in ToSet(x) /\ d \in ToSet(x)
                 /\ c # x[Len(x)] /\ d # x[1]
<1> DEFINE l0 == [f \in DOMAIN l2 |-> IF f = h THEN <<>> ELSE IF f = g THEN t ELSE l[f]]
<1>1. h \in DOMAIN l /\ g \in Heads /\ g # h /\ h \in Heads /\ h \notin Nodes /\ h # Null
  BY EntryAt, CellsAssumption DEF Cells, Pours
<1>2. /\ DOMAIN l0 = DOMAIN l2 /\ g \in DOMAIN l0 /\ l0[g] = t /\ (h \in DOMAIN l0 => l0[h] = <<>>)
      /\ \A f \in DOMAIN l \ {g, h} : l0[f] = l[f]
      /\ \A f \in DOMAIN l0 \ {g} : l2[f] = l0[f]
      /\ l2[g] = Spliced(t, i, x) /\ h \in DOMAIN l
      /\ DOMAIN l0 = (DOMAIN l \cup {g}) \ {h} \/ DOMAIN l0 = DOMAIN l \cup {g}
  BY <1>1 DEF Pours
<1> HIDE DEF l0
<1>3. /\ Apart(l0)
      /\ \A c \in ToSet(x) : ~On(l0, c)
      /\ \A c \in Nodes : On(l0, c) => On(l, c)
      /\ \A c, d : Joins(k, l0, c, d) =>
           \/ h \in DOMAIN l0 /\ c = h /\ d = IF k = "ring" THEN h ELSE Null
           \/ c = g /\ g \notin DOMAIN l
           \/ Joins(k, l, c, d) /\ c # h /\ d # h /\ c \notin ToSet(x) /\ d \notin ToSet(x)
  <2>1. /\ Apart(l0)
        /\ \A c \in ToSet(l[h]) : ~On(l0, c)
        /\ \A c \in Nodes : On(l0, c) => On(l, c)
        /\ \A c, d : Joins(k, l0, c, d) =>
             \/ h \in DOMAIN l0 /\ c = h /\ d = IF k = "ring" THEN h ELSE Null
             \/ c = g /\ g \notin DOMAIN l
             \/ Joins(k, l, c, d) /\ c # h /\ d # h /\ c \notin ToSet(l[h]) /\ d \notin ToSet(l[h])
    <3>1. Pours(l0, l, h, g, Target(l, g))
      BY <1>1, <1>2 DEF Pours
    <3> QED BY <3>1, PourOut
  <2> QED BY <2>1
<1>4. g \notin DOMAIN l => g = b
  BY DEF Place, Target
<1>5. /\ x \in Seq(Nodes) /\ Len(x) \in Nat /\ Len(x) >= 1 /\ x # <<>>
      /\ 1 \in 1..Len(x) /\ Len(x) \in 1..Len(x)
      /\ \A p, q \in 1..Len(x) : x[p] = x[q] => p = q
  BY <1>1 DEF Apart
<1>6. /\ \A p \in 1..Len(x) : x[p] \in ToSet(x)
      /\ \A c \in ToSet(x) : c \in Nodes /\ c \in Entries(l)
  BY <1>1, EntryAt
<1>7. Fresh(x, l0)
  BY <1>3, <1>5, <1>6 DEF On, Fresh
<1>8. /\ Apart(l2) /\ \A c : On(l2, c) <=> On(l0, c) \/ c \in ToSet(x)
      /\ Joins(k, l0, b, e)
      /\ \A c, d : Joins(k, l2, c, d) =>
           \/ Joins(k, l0, c, d) /\ c # b /\ (d = e => d = Null)
           \/ c = b /\ d = x[1]
           \/ c = x[Len(x)] /\ d = e
           \/ \E p \in 1..Len(x) - 1 : c = x[p] /\ d = x[p + 1]
  <2>1. Changes(l2, l0, g, Spliced(l0[g], i, x))
    BY <1>2 DEF Changes
  <2>2. i \in 0..Len(l0[g]) /\ b = Place(k, g, l0[g], i) /\ e = Place(k, g, l0[g], i + 1) /\ g \in DOMAIN l0
    BY <1>2
  <2> QED BY <1>3, <1>5, <1>7, <2>1, <2>2, InsertJoins
<1>9. b \in Cells /\ On(l0, b) /\ (e # Null => On(l0, e))
  BY <1>3, <1>8, JoinFacts
<1>10. e \notin ToSet(x) /\ b \notin ToSet(x)
  <2>1. Null \notin ToSet(x)
    BY <1>6, CellsAssumption DEF Cells
  <2> QED BY <1>3, <1>9, <2>1
<1>11. \A c \in Nodes : On(l0, c) \/ c \in ToSet(x) => c \in Entries(l)
  BY <1>3, <1>6, OnNodes
<1>12. \A c \in Nodes : c \in Entries(l2) => c \in Entries(l)
  BY <1>8, <1>11, OnNodes
<1>13. \A c \in Nodes : c = b \/ c = e \/ c \in ToSet(x) => c \in Entries(l)
  <2>1. Null \notin Nodes
    BY CellsAssumption DEF Cells
  <2> QED BY <1>9, <1>11, <2>1
<1>14. ASSUME NEW p \in 1..Len(x) - 1
       PROVE  /\ Joins(k, l, x[p], x[p + 1]) /\ x[p] \in ToSet(x) /\ x[p + 1] \in ToSet(x)
              /\ x[p] # x[Len(x)] /\ x[p + 1] # x[1]
  <2>1. p \in 0..Len(l[h]) /\ p \in 1..Len(x) /\ p + 1 \in 1..Len(x) /\ p # Len(x) /\ p + 1 # 1
    BY <1>5
  <2>2. Joins(k, l, Place(k, h, l[h], p), Place(k, h, l[h], p + 1))
    BY <2>1, <1>1, PlaceFacts
  <2>3. Place(k, h, l[h], p) = x[p] /\ Place(k, h, l[h], p + 1) = x[p + 1]
    BY <2>1, <1>1, <1>5, PlaceFacts
  <2> QED BY <2>1, <2>2, <2>3, <1>5, <1>6
<1>15. ASSUME NEW c, NEW d, Joins(k, l2, c, d)
       PROVE  \/ h \in DOMAIN l2 /\ c = h /\ d = IF k = "ring" THEN h ELSE Null
              \/ /\ Joins(k, l, c, d) /\ c # h /\ d # h /\ c \notin ToSet(x) /\ d \notin ToSet(x)
                 /\ c # b /\ (d = e => d = Null)
              \/ c = b /\ d = x[1]
              \/ c = x[Len(x)] /\ d = e
              \/ /\ Joins(k, l, c, d) /\ c \in ToSet(x) /\ d \in ToSet(x)
                 /\ c # x[Len(x)] /\ d # x[1]
  <2>1. CASE Joins(k, l0, c, d) /\ c # b /\ (d = e => d = Null)
    BY <2>1, <1>2, <1>3, <1>4
  <2>2. CASE \E p \in 1..Len(x) - 1 : c = x[p] /\ d = x[p + 1]
    BY <2>2, <1>14
  <2> QED BY <1>8, <1>15, <2>1, <2>2
<1>16. x[1] \in ToSet(x) /\ x[Len(x)] \in ToSet(x)
  BY <1>5, <1>6
<1> QED BY <1>5, <1>8, <1>9, <1>10, <1>12, <1>13, <1>15, <1>16

\* x is linked in between b and e; the pointers of h may be anything.
Takeover(a, m, x, b, e, h) ==
  /\ a \in Memories
  /\ a.next[b] = x[1] /\ a.prev[x[1]] = b
  /\ a.next[x[Len(x)]] = e /\ (e # Null => a.prev[e] = x[Len(x)])
  /\ \A c \in Cells \ {b, x[Len(x)], h} : a.next[c] = m.next[c]
  /\ \A c \in Cells \ {x[1], e, h} : a.prev[c] = m.prev[c]

\* The memory follows when the entries of a list move to another.
LEMMA PourLeads ==
  ASSUME NEW k \in Kinds, NEW m, NEW l, Apart(l), Follows(k, m, l),
         NEW h, NEW x, x = l[h], x # <<>>, NEW g,
         NEW t, t = Target(l, g), NEW i \in 0..Len(t),
         NEW l2, Pours(l2, l, h, g, Spliced(t, i, x)),
         NEW b, b = Place(k, g, t, i), NEW e, e = Place(k, g, t, i + 1), NEW a, Takeover(a, m, x, b, e, h),
         h \in DOMAIN l2 => a.next[h] = (IF k = "ring" THEN h ELSE Null) /\ (k = "ring" => a.prev[h] = h)
  PROVE  Leads(k, m, l, a, l2, {})
<1>1. /\ Apart(l2) /\ \A c \in Nodes : c \in Entries(l2) => c \in Entries(l)
      /\ \A c \in Nodes : c = b \/ c = e \/ c \in ToSet(x) => c \in Entries(l)
      /\ b \in Cells /\ b \notin ToSet(x) /\ e \notin ToSet(x)
      /\ x[1] \in ToSet(x) /\ x[Len(x)] \in ToSet(x) /\ Len(x) \in Nat
      /\ \A c, d : Joins(k, l2, c, d) =>
           \/ h \in DOMAIN l2 /\ c = h /\ d = IF k = "ring" THEN h ELSE Null
           \/ /\ Joins(k, l, c, d) /\ c # h /\ d # h /\ c \notin ToSet(x) /\ d \notin ToSet(x)
              /\ c # b /\ (d = e => d = Null)
           \/ c = b /\ d = x[1]
           \/ c = x[Len(x)] /\ d = e
           \/ /\ Joins(k, l, c, d) /\ c \in ToSet(x) /\ d \in ToSet(x)
              /\ c # x[Len(x)] /\ d # x[1]
  BY PourJoins
<1>2. h \in DOMAIN l /\ h \in Heads /\ h \notin Nodes /\ h # Null
  BY EntryAt, CellsAssumption DEF Cells, Pours
<1>3. \A c \in ToSet(x) : c \in Nodes /\ c # h
  BY <1>2, EntryAt
<1>4. ASSUME NEW c, NEW d, Joins(k, l2, c, d)
      PROVE  a.next[c] = d /\ (d # Null => a.prev[d] = c)
  <2>1. CASE h \in DOMAIN l2 /\ c = h /\ d = IF k = "ring" THEN h ELSE Null
    BY <2>1, <1>2
  <2>2. CASE /\ Joins(k, l, c, d) /\ c # h /\ d # h /\ c \notin ToSet(x) /\ d \notin ToSet(x)
             /\ c # b /\ (d = e => d = Null)
    <3>1. /\ c \in Cells /\ m.next[c] = d
          /\ d # Null => d \in Cells /\ m.prev[d] = c
      BY <2>2, JoinFacts DEF Follows
    <3>2. c \in Cells \ {b, x[Len(x)], h} /\ (d # Null => d \in Cells \ {x[1], e, h})
      BY <2>2, <3>1, <1>1
    <3> QED BY <3>1, <3>2 DEF Takeover
  <2>3. CASE c = b /\ d = x[1]
    BY <2>3 DEF Takeover
  <2>4. CASE c = x[Len(x)] /\ d = e
    BY <2>4 DEF Takeover
  <2>5. CASE /\ Joins(k, l, c, d) /\ c \in ToSet(x) /\ d \in ToSet(x)
             /\ c # x[Len(x)] /\ d # x[1]
    <3>1. /\ c \in Cells /\ m.next[c] = d
          /\ d # Null => d \in Cells /\ m.prev[d] = c
      BY <2>5, JoinFacts DEF Follows
    <3>2. c \in Cells \ {b, x[Len(x)], h} /\ (d # Null => d \in Cells \ {x[1], e, h})
      BY <2>5, <3>1, <1>1, <1>3
    <3> QED BY <3>1, <3>2 DEF Takeover
  <2> QED BY <1>1, <1>4, <2>1, <2>2, <2>3, <2>4, <2>5
<1>5. ASSUME NEW c \in Nodes \ (Entries(l) \cup {}) PROVE a.next[c] = m.next[c] /\ a.prev[c] = m.prev[c]
  <2>1. c \in Cells /\ c # h
    BY <1>2 DEF Cells
  <2>2. c # b /\ c # e /\ c \notin ToSet(x)
    BY <1>1
  <2> QED BY <2>1, <2>2, <1>1 DEF Takeover
<1>6. Entries(l2) \subseteq Nodes
  BY <1>1, EntryAt
<1> QED BY <1>1, <1>4, <1>5, <1>6 DEF Leads, Follows, Takeover

\* The first i entries of h become the list of g, whatever that held.
Cuts(l2, l, h, g, i) ==
  /\ h \in DOMAIN l /\ g \in Heads /\ g # h /\ i \in 1..Len(l[h])
  /\ DOMAIN l2 = DOMAIN l \cup {g}
  /\ l2[g] = SubSeq(l[h], 1, i) /\ l2[h] = SubSeq(l[h], i + 1, Len(l[h]))
  /\ \A f \in DOMAIN l \ {g, h} : l2[f] = l[f]

\* The links of a ring that is cut behind its entry i.
LEMMA CutJoins ==
  ASSUME NEW l, Apart(l), NEW h, NEW g, NEW i, NEW l2, Cuts(l2, l, h, g, i),
         NEW s, s = l[h], NEW e, e = Place("ring", h, s, i + 1)
  PROVE  /\ Apart(l2) /\ Entries(l2) \subseteq Entries(l)
         /\ s[1] \in Entries(l) /\ s[i] \in Entries(l) /\ e # g /\ (e = h \/ e \in Entries(l)) /\ e # s[1]
         /\ \A c, d : Joins("ring", l2, c, d) =>
              \/ c = g /\ d = s[1]
              \/ c = s[i] /\ d = g
              \/ c = h /\ d = e
              \/ Joins("ring", l, c, d) /\ c \notin {g, h, s[i]} /\ d \notin {g, e, s[1]}
<1> DEFINE u == SubSeq(s, 1, i)
           v == SubSeq(s, i + 1, Len(s))
           N == Len(s)
           P(f, j) == Place("ring", f, l[f], j)
<1>1. /\ h \in DOMAIN l /\ h \in Heads /\ g \in Heads /\ g # h /\ i \in 1..N
      /\ N \in Nat /\ i \in Nat /\ i >= 1 /\ i <= N /\ s \in Seq(Nodes)
      /\ h \notin Nodes /\ g \notin Nodes /\ "ring" \in Kinds
      /\ \A j \in 1..N : s[j] \in Nodes /\ s[j] \in Entries(l)
  BY EntryAt, CellsAssumption DEF Cuts, Apart, Kinds
<1>2. /\ DOMAIN l2 = DOMAIN l \cup {g} /\ l2[g] = u /\ l2[h] = v
      /\ \A f \in DOMAIN l : f # g /\ f # h => l2[f] = l[f]
  BY DEF Cuts
<1>3. u \in Seq(Nodes) /\ Len(u) = i /\ \A j \in 1..i : u[j] = s[j]
  BY <1>1
<1>4. v \in Seq(Nodes) /\ Len(v) = N - i /\ \A j \in 1..(N - i) : v[j] = s[j + i]
  BY <1>1
<1> HIDE DEF u, v
<1>5. /\ \A j \in 1..i : j \in 1..N
      /\ \A j \in 1..(N - i) : j + i \in 1..N /\ j + i > i
  BY <1>1
<1>6. \A f \in DOMAIN l2 : /\ f \in Heads /\ l2[f] \in Seq(Nodes)
                           /\ f # g /\ f # h => f \in DOMAIN l /\ l2[f] = l[f]
  <2>1. \A f \in DOMAIN l2 : f # g /\ f # h => f \in DOMAIN l /\ l2[f] = l[f]
    BY <1>2
  <2>2. \A f \in DOMAIN l : f \in Heads /\ l[f] \in Seq(Nodes)
    BY DEF Apart
  <2> QED BY <2>1, <2>2, <1>1, <1>2, <1>3, <1>4
<1>7. /\ \A p, q \in 1..N : s[p] = s[q] => p = q
      /\ \A f \in DOMAIN l : f # h => \A p \in 1..N, q \in 1..Len(l[f]) : s[p] # l[f][q]
  BY <1>1 DEF Apart
<1> DEFINE F(f) == IF f = g THEN h ELSE f
           J(f, j) == IF f = h THEN j + i ELSE j
<1>8. ASSUME NEW f \in DOMAIN l2, NEW j \in 1..Len(l2[f])
      PROVE  /\ F(f) \in DOMAIN l /\ J(f, j) \in 1..Len(l[F(f)]) /\ l2[f][j] = l[F(f)][J(f, j)]
             /\ j \in Nat /\ (f = g => J(f, j) <= i) /\ (f = h => J(f, j) > i)
  <2>1. CASE f = g
    BY <2>1, <1>1, <1>2, <1>3, <1>5
  <2>2. CASE f = h
    BY <2>2, <1>1, <1>2, <1>4, <1>5
  <2>3. CASE f # g /\ f # h
    BY <2>3, <1>6
  <2> QED BY <2>1, <2>2, <2>3
<1>9. Apart(l2)
  <2>1. ASSUME NEW f \in DOMAIN l2, NEW f2 \in DOMAIN l2,
               NEW j \in 1..Len(l2[f]), NEW j2 \in 1..Len(l2[f2]), l2[f][j] = l2[f2][j2]
        PROVE  f = f2 /\ j = j2
    <3>1. F(f) = F(f2) /\ J(f, j) = J(f2, j2)
      <4>1. /\ F(f) \in DOMAIN l /\ J(f, j) \in 1..Len(l[F(f)]) /\ l2[f][j] = l[F(f)][J(f, j)]
            /\ F(f2) \in DOMAIN l /\ J(f2, j2) \in 1..Len(l[F(f2)]) /\ l2[f2][j2] = l[F(f2)][J(f2, j2)]
        BY <1>8
      <4> HIDE DEF F, J
      <4>2. l[F(f)][J(f, j)] = l[F(f2)][J(f2, j2)]
        BY <2>1, <4>1
      <4> QED BY <4>1, <4>2, SameEntry
    <3>2. f = f2
      BY <3>1, <1>1, <1>8
    <3> QED BY <3>1, <3>2, <1>1, <1>8
  <2> QED BY <2>1, <1>6 DEF Apart
<1>10. Entries(l2) \subseteq Entries(l)
  <2> SUFFICES ASSUME NEW n \in Entries(l2) PROVE n \in Entries(l)
    OBVIOUS
  <2>1. PICK f \in DOMAIN l2 : \E j \in 1..Len(l2[f]) : l2[f][j] = n
    BY <1>9, EntryAt
  <2>2. PICK j \in 1..Len(l2[f]) : l2[f][j] = n
    BY <2>1
  <2>3. F(f) \in DOMAIN l /\ J(f, j) \in 1..Len(l[F(f)]) /\ n = l[F(f)][J(f, j)]
    BY <2>2, <1>8
  <2> HIDE DEF F, J
  <2> QED BY <2>3, EntryAt
<1>11. e = h \/ (i + 1 \in 1..N /\ e = s[i + 1])
  BY <1>1 DEF Place
<1>12. /\ P(h, 0) = h /\ \A p \in 1..N : P(h, p) = s[p]
       /\ 0 \in 0..N /\ i \in 0..N /\ P(h, i + 1) = e /\ 0 + 1 = 1 /\ 1 \in 1..N
  BY <1>1, PlaceFacts
<1>13. ASSUME NEW f \in DOMAIN l, NEW p \in 0..Len(l[f]), f # g, f # h \/ p \notin {0, i}
       PROVE  /\ Joins("ring", l, P(f, p), P(f, p + 1))
              /\ P(f, p) \notin {g, h, s[i]} /\ P(f, p + 1) \notin {g, e, s[1]}
  <2>1. Joins("ring", l, P(f, p), P(f, p + 1)) /\ f \in Heads
    BY <1>1, EntryAt, PlaceFacts
  <2>2. P(f, p) # h /\ P(f, p) # s[i]
    <3>1. Place("ring", f, l[f], p) = Place("ring", h, l[h], 0) => f = h /\ p = 0
      BY <1>1, <1>12, OnePlace
    <3>2. Place("ring", f, l[f], p) = Place("ring", h, l[h], i) => f = h /\ p = i
      BY <1>1, <1>12, OnePlace
    <3>3. P(h, i) = s[i]
      BY <1>1, <1>12
    <3> QED BY <3>1, <3>2, <3>3, <1>12, <1>13
  <2>3. P(f, p + 1) # Null
    BY <2>1, <1>1, JoinFacts
  <2>4. P(f, p + 1) # e /\ P(f, p + 1) # s[1]
    <3>1. Place("ring", f, l[f], p + 1) = Place("ring", h, l[h], 0 + 1) =>
            (f = h /\ p = 0) \/ Place("ring", f, l[f], p + 1) = Null
      BY <1>1, <1>12, OnePlace
    <3>2. Place("ring", f, l[f], p + 1) = Place("ring", h, l[h], i + 1) =>
            (f = h /\ p = i) \/ Place("ring", f, l[f], p + 1) = Null
      BY <1>1, <1>12, OnePlace
    <3>3. P(h, 0 + 1) = s[1]
      BY <1>12
    <3> QED BY <3>1, <3>2, <3>3, <2>3, <1>12, <1>13
  <2>5. P(f, p) # g /\ P(f, p + 1) # g
    <3>1. \A j \in 1..Len(l[f]) : l[f][j] \in Nodes
      BY EntryAt
    <3> QED BY <3>1, <1>1, <1>13 DEF Place
  <2> QED BY <2>1, <2>2, <2>4, <2>5
<1>14. ASSUME NEW c, NEW d, Joins("ring", l2, c, d)
       PROVE  \/ c = g /\ d = s[1]
              \/ c = s[i] /\ d = g
              \/ c = h /\ d = e
              \/ Joins("ring", l, c, d) /\ c \notin {g, h, s[i]} /\ d \notin {g, e, s[1]}
  <2>1. PICK f \in DOMAIN l2 : \E j \in 0..Len(l2[f]) :
          c = Place("ring", f, l2[f], j) /\ d = Place("ring", f, l2[f], j + 1)
    BY <1>14 DEF Joins
  <2>2. PICK j \in 0..Len(l2[f]) :
          c = Place("ring", f, l2[f], j) /\ d = Place("ring", f, l2[f], j + 1)
    BY <2>1
  <2>3. CASE f = g
    <3>1. j \in 0..i /\ c = Place("ring", g, u, j) /\ d = Place("ring", g, u, j + 1)
      BY <2>2, <2>3, <1>2, <1>3
    <3>2. CASE j = 0
      BY <3>1, <3>2, <1>1, <1>3 DEF Place
    <3>3. CASE j = i
      <4>1. i + 1 \notin 1..i /\ i \in 1..i
        BY <1>1
      <4> QED BY <3>1, <3>3, <4>1, <1>3 DEF Place
    <3>4. CASE j # 0 /\ j # i
      <4>1. j \in 1..i /\ j + 1 \in 1..i /\ j \in 1..N /\ j + 1 \in 1..N /\ j \in 0..N
        BY <3>1, <3>4, <1>1
      <4>2. c = s[j] /\ d = s[j + 1]
        BY <3>1, <4>1, <1>3 DEF Place
      <4>3. c = P(h, j) /\ d = P(h, j + 1)
        BY <4>1, <4>2, <1>12
      <4> QED BY <4>1, <4>3, <3>4, <1>1, <1>13
    <3> QED BY <3>2, <3>3, <3>4
  <2>4. CASE f = h
    <3>1. j \in 0..(N - i) /\ c = Place("ring", h, v, j) /\ d = Place("ring", h, v, j + 1)
      BY <2>2, <2>4, <1>2, <1>4
    <3>2. ASSUME NEW p \in 1..(N - i + 1) PROVE Place("ring", h, v, p) = P(h, p + i)
      <4>1. CASE p \in 1..(N - i)
        <5>1. Place("ring", h, v, p) = s[p + i]
          BY <4>1, <1>4 DEF Place
        <5> QED BY <4>1, <5>1, <1>5, <1>12
      <4>2. CASE p = N - i + 1
        <5>1. p \notin 1..(N - i) /\ p + i \notin 1..N
          BY <4>2, <1>1
        <5> QED BY <5>1, <1>4 DEF Place
      <4> QED BY <4>1, <4>2, <1>1
    <3>3. j + 1 \in 1..(N - i + 1) /\ j \in Nat
      BY <3>1, <1>1
    <3>4. CASE j = 0
      <4>1. c = h
        BY <3>1, <3>4 DEF Place
      <4>2. d = P(h, 1 + i) /\ 1 + i = i + 1
        BY <3>1, <3>2, <3>3, <3>4, <1>1
      <4> QED BY <4>1, <4>2, <1>12
    <3>5. CASE j # 0
      <4>0. j + i \in 0..N
        BY <3>1, <1>1
      <4>1. j \in 1..(N - i + 1) /\ j + i \in 0..N /\ j + i \notin {0, i} /\ (j + 1) + i = (j + i) + 1
        BY <4>0, <3>3, <3>5, <1>1
      <4>2. c = P(h, j + i) /\ d = P(h, (j + i) + 1)
        <5>1. Place("ring", h, v, j) = P(h, j + i)
          BY <4>1, <3>2
        <5>2. Place("ring", h, v, j + 1) = P(h, (j + 1) + i)
          BY <3>3, <3>2
        <5> QED BY <5>1, <5>2, <4>1, <3>1
      <4> QED BY <4>1, <4>2, <1>1, <1>13
    <3> QED BY <3>4, <3>5
  <2>5. CASE f # g /\ f # h
    <3>1. f \in DOMAIN l /\ j \in 0..Len(l[f]) /\ c = P(f, j) /\ d = P(f, j + 1)
      BY <2>2, <2>5, <1>6
    <3> QED BY <2>5, <3>1, <1>13
  <2> QED BY <2>3, <2>4, <2>5
<1>15. e # g /\ (e = h \/ e \in Entries(l)) /\ e # s[1]
  <2>1. CASE e = h
    BY <2>1, <1>1, <1>12
  <2>2. CASE i + 1 \in 1..N /\ e = s[i + 1]
    <3>1. i + 1 # 1
      BY <1>1
    <3> QED BY <2>2, <3>1, <1>1, <1>7, <1>12
  <2> QED BY <2>1, <2>2, <1>11
<1> QED BY <1>1, <1>9, <1>10, <1>12, <1>14, <1>15

\* The memory follows when a ring is cut.
LEMMA CutLeads ==
  ASSUME NEW m \in Memories, NEW l, Apart(l), Follows("ring", m, l), NEW h, NEW g, NEW i, NEW l2,
         Cuts(l2, l, h, g, i), NEW a,
         a = [m EXCEPT !.next[g] = m.next[h], !.prev[m.next[h]] = g,
                       !.prev[g] = l[h][i], !.next[l[h][i]] = g,
                       !.next[h] = m.next[l[h][i]], !.prev[m.next[l[h][i]]] = h]
  PROVE  Leads("ring", m, l, a, l2, {})
<1> DEFINE s == l[h]
           n == s[i]
           f == s[1]
           e == Place("ring", h, s, i + 1)
<1>1. /\ h \in DOMAIN l /\ h \in Heads /\ g \in Heads /\ g # h /\ i \in 1..Len(s) /\ Len(s) \in Nat
      /\ "ring" \in Kinds
  BY EntryAt DEF Cuts, Kinds
<1>2. /\ Apart(l2) /\ Entries(l2) \subseteq Entries(l)
      /\ f \in Entries(l) /\ n \in Entries(l) /\ e # g /\ (e = h \/ e \in Entries(l)) /\ e # f
      /\ \A c, d : Joins("ring", l2, c, d) =>
           \/ c = g /\ d = f
           \/ c = n /\ d = g
           \/ c = h /\ d = e
           \/ Joins("ring", l, c, d) /\ c \notin {g, h, n} /\ d \notin {g, e, f}
  BY CutJoins
<1>3. m.next[h] = f /\ m.next[n] = e
  <2>1. 0 \in 0..Len(s) /\ i \in 0..Len(s) /\ 0 + 1 = 1 /\ 1 \in 1..Len(s)
    BY <1>1
  <2>2. /\ Place("ring", h, s, 0) = h /\ Place("ring", h, s, 1) = f /\ Place("ring", h, s, i) = n
    BY <1>1, <2>1, PlaceFacts
  <2>3. m.next[Place("ring", h, s, 0)] = Place("ring", h, s, 0 + 1)
    BY <1>1, <2>1, Neighbours
  <2>4. m.next[Place("ring", h, s, i)] = Place("ring", h, s, i + 1)
    BY <1>1, <2>1, Neighbours
  <2> QED BY <2>1, <2>2, <2>3, <2>4
<1>4. /\ f \in Nodes /\ n \in Nodes /\ e \in Nodes \cup {h} /\ h \notin Nodes /\ g \notin Nodes
      /\ f \in Cells /\ n \in Cells /\ e \in Cells /\ h \in Cells /\ g \in Cells
  BY <1>1, <1>2, EntryAt, CellsAssumption DEF Cells
<1> HIDE DEF f, n, e
<1>5. a = [m EXCEPT !.next[g] = f, !.prev[f] = g, !.prev[g] = n, !.next[n] = g,
                    !.next[h] = e, !.prev[e] = h]
  BY <1>3 DEF n
<1>6. /\ a \in Memories
      /\ \A c \in Cells :
           /\ a.next[c] = IF c = h THEN e ELSE IF c = n THEN g ELSE IF c = g THEN f ELSE m.next[c]
           /\ a.prev[c] = IF c = e THEN h ELSE IF c = g THEN n ELSE IF c = f THEN g ELSE m.prev[c]
  <2> DEFINE nx == m.next
             pv == m.prev
  <2>1. /\ a.next = [nx EXCEPT ![g] = f, ![n] = g, ![h] = e]
        /\ a.prev = [pv EXCEPT ![f] = g, ![g] = n, ![e] = h]
        /\ a = [next |-> a.next, prev |-> a.prev]
    BY <1>5 DEF Memories
  <2>2. /\ m.next \in [Cells -> Cells \cup {Null}] /\ m.prev \in [Cells -> Cells \cup {Null}]
    BY DEF Memories
  <2>3. /\ a.next \in [Cells -> Cells \cup {Null}] /\ a.prev \in [Cells -> Cells \cup {Null}]
    BY ONLY <2>1, <2>2, <1>4
  <2> HIDE DEF nx, pv
  <2>4. \A c \in Cells :
          a.next[c] = IF c = h THEN e ELSE IF c = n THEN g ELSE IF c = g THEN f ELSE m.next[c]
    <3>1. nx \in [Cells -> Cells \cup {Null}]
      BY <2>2 DEF nx
    <3>2. \A c \in Cells : a.next[c] = IF c = h THEN e ELSE IF c = n THEN g ELSE IF c = g THEN f ELSE nx[c]
      BY ONLY <2>1, <3>1, <1>4
    <3> QED BY ONLY <3>2 DEF nx
  <2>5. \A c \in Cells :
          a.prev[c] = IF c = e THEN h ELSE IF c = g THEN n ELSE IF c = f THEN g ELSE m.prev[c]
    <3>1. pv \in [Cells -> Cells \cup {Null}]
      BY <2>2 DEF pv
    <3>2. \A c \in Cells : a.prev[c] = IF c = e THEN h ELSE IF c = g THEN n ELSE IF c = f THEN g ELSE pv[c]
      BY ONLY <2>1, <3>1, <1>4
    <3> QED BY ONLY <3>2 DEF pv
  <2>6. a \in Memories
    BY ONLY <2>1, <2>3 DEF Memories
  <2> QED BY ONLY <2>4, <2>5, <2>6
<1>7. ASSUME NEW c, NEW d, Joins("ring", l2, c, d)
      PROVE  a.next[c] = d /\ (d # Null => a.prev[d] = c)
  <2>1. CASE c = g /\ d = f
    BY <2>1, <1>1, <1>2, <1>4, <1>6
  <2>2. CASE c = n /\ d = g
    BY <2>2, <1>1, <1>2, <1>4, <1>6
  <2>3. CASE c = h /\ d = e
    BY <2>3, <1>4, <1>6
  <2>4. CASE Joins("ring", l, c, d) /\ c \notin {g, h, n} /\ d \notin {g, e, f}
    <3>1. /\ c \in Cells /\ m.next[c] = d
          /\ d # Null => d \in Cells /\ m.prev[d] = c
      BY <2>4, <1>1, JoinFacts DEF Follows
    <3> QED BY <2>4, <3>1, <1>6
  <2> QED BY <1>2, <1>7, <2>1, <2>2, <2>3, <2>4
<1>8. ASSUME NEW c \in Nodes \ (Entries(l) \cup {}) PROVE a.next[c] = m.next[c] /\ a.prev[c] = m.prev[c]
  <2>1. c \in Cells /\ c # h /\ c # g
    BY <1>1, <1>4 DEF Cells
  <2> QED BY <2>1, <1>2, <1>6
<1> QED BY <1>2, <1>6, <1>7, <1>8 DEF Leads, Follows

----------------------------------------------------------------------------
(* The invariant *)

\* The type invariant, with the entries of all lists apart.
Types ==
  /\ kind \in Kinds /\ mem \in Memories /\ Apart(lists)
  /\ idle \subseteq Nodes \ (Entries(lists) \cup fake) /\ fake \subseteq Nodes \ Entries(lists)

\* Pointers that the calls on entries outside the lists rely on.
OutsideKnown ==
  /\ kind = "ring" => \A n \in idle : mem.next[n] = n /\ mem.prev[n] = n
  /\ kind = "chain" => /\ \A n \in idle : mem.next[n] = Null /\ mem.prev[n] = Null
                       /\ \A n \in fake : mem.next[n] = Null /\ mem.prev[n] = n

\* The entries of a list in the order of a walk, and what stands at j; behind
\* the last one the walk ends.
Course(l, w) == IF w.dir = "next" THEN l[w.head] ELSE Reverse(l[w.head])
Rim(k, h) == IF k = "ring" THEN h ELSE Null
Stop(k, l, w, j) == IF j \in 1..Len(Course(l, w)) THEN Course(l, w)[j] ELSE Rim(k, w.head)

\* Where a walk stands: at j or, if it is safe, before j on an entry that may
\* have left the list.
OnCourse(k, l, w) ==
  \/ w.pos = Rim(k, w.head) /\ w.todo = <<>>
  \/ \E j \in 1..(Len(Course(l, w)) + 1) :
       IF w.safe
       THEN /\ w.pos \in Nodes /\ w.n = Stop(k, l, w, j)
            /\ w.todo = <<w.pos>> \o SubSeq(Course(l, w), j, Len(Course(l, w)))
            /\ w.pos \in ToSet(Course(l, w)) => j # 1 /\ Course(l, w)[j - 1] = w.pos
       ELSE w.pos = Stop(k, l, w, j) /\ w.todo = SubSeq(Course(l, w), j, Len(Course(l, w)))

\* What is known of a walk by its type.
Walks(l) == [head : DOMAIN l, dir : {"next", "prev"}, safe : BOOLEAN,
             pos : Cells \cup {Null}, n : Cells \cup {Null}, todo : Seq(Nodes)]

\* At most one walk goes on, along a list, and it knows where it is.
Walking ==
  walk = <<>> \/ \E w \in Walks(lists) :
    walk = <<w>> /\ (kind = "chain" => w.dir = "next") /\ OnCourse(kind, lists, w)

\* The inductive invariant.  The last three parts are needed because the calls
\* read pointers of entries outside the lists, and walks hold positions.
IInv == Types /\ Follows(kind, mem, lists) /\ OutsideKnown /\ Walking

----------------------------------------------------------------------------
(* Sequences that walks go along *)

\* Sequences with the same elements are equal.
LEMMA SameSeq ==
  ASSUME NEW S, NEW u \in Seq(S), NEW v \in Seq(S), Len(u) = Len(v),
         \A j \in 1..Len(u) : u[j] = v[j]
  PROVE  u = v
OBVIOUS

\* The entries of a sequence from k on.
LEMMA RestFacts ==
  ASSUME NEW S, NEW s \in Seq(S), NEW k \in 1..(Len(s) + 1)
  PROVE  LET r == SubSeq(s, k, Len(s))
         IN  /\ r \in Seq(S) /\ Len(r) = Len(s) + 1 - k
             /\ \A j \in 1..(Len(s) + 1 - k) : r[j] = s[j + k - 1]
             /\ r = <<>> <=> k = Len(s) + 1
             /\ k # Len(s) + 1 => /\ Head(r) = s[k] /\ Tail(r) = SubSeq(s, k + 1, Len(s))
                                  /\ r = <<s[k]>> \o SubSeq(s, k + 1, Len(s))
<1> DEFINE r == SubSeq(s, k, Len(s))
           q == SubSeq(s, k + 1, Len(s))
<1>1. Len(s) \in Nat /\ k \in Nat /\ k >= 1 /\ k <= Len(s) + 1
  OBVIOUS
<1>2. r \in Seq(S) /\ Len(r) = Len(s) + 1 - k /\ \A j \in 1..(Len(s) + 1 - k) : r[j] = s[j + k - 1]
  BY <1>1
<1>3. r = <<>> <=> k = Len(s) + 1
  <2> HIDE DEF r
  <2>1. r = <<>> <=> Len(r) = 0
    BY <1>2
  <2> QED BY <1>1, <1>2, <2>1
<1>4. ASSUME k # Len(s) + 1
      PROVE  Head(r) = s[k] /\ Tail(r) = q /\ r = <<s[k]>> \o q
  <2>1. q \in Seq(S) /\ Len(q) = Len(s) - k /\ \A j \in 1..(Len(s) - k) : q[j] = s[j + k]
    BY <1>1, <1>4
  <2>2. s[k] \in S /\ Len(r) # 0 /\ 1 \in 1..(Len(s) + 1 - k) /\ 1 + k - 1 = k
    BY <1>1, <1>2, <1>4
  <2>3. \A j \in 1..(Len(s) - k) : j + 1 \in 1..(Len(s) + 1 - k) /\ (j + 1) + k - 1 = j + k
    BY <1>1
  <2> HIDE DEF r, q
  <2>4. Head(r) = s[k]
    BY <1>2, <2>2
  <2>5. Tail(r) \in Seq(S) /\ Len(Tail(r)) = Len(s) - k /\ \A j \in 1..(Len(s) - k) : Tail(r)[j] = r[j + 1]
    BY <1>1, <1>2, <2>2
  <2>6. \A j \in 1..(Len(s) - k) : Tail(r)[j] = q[j]
    BY <1>2, <2>1, <2>3, <2>5
  <2>7. Tail(r) = q
    <3> DEFINE t == Tail(r)
    <3>1. t \in Seq(S) /\ Len(t) = Len(q) /\ \A j \in 1..Len(t) : t[j] = q[j]
      BY <2>1, <2>5, <2>6
    <3> HIDE DEF t
    <3>2. t = q
      BY <2>1, <3>1, SameSeq
    <3> QED BY <3>2 DEF t
  <2>8. <<s[k]>> \o Tail(r) = r
    BY <1>2, <2>2, <2>4
  <2> QED BY <2>4, <2>7, <2>8
<1> QED BY <1>2, <1>3, <1>4

\* A sequence and its reverse.
LEMMA ReverseFacts ==
  ASSUME NEW S, NEW s \in Seq(S)
  PROVE  /\ Reverse(s) \in Seq(S) /\ Len(Reverse(s)) = Len(s)
         /\ \A k \in 1..Len(s) : Reverse(s)[k] = s[Len(s) - k + 1]
<1>1. Len(s) \in Nat /\ \A k \in 1..Len(s) : (Len(s) - k) + 1 \in 1..Len(s)
  OBVIOUS
<1>2. Reverse(s) = [k \in 1..Len(s) |-> s[(Len(s) - k) + 1]]
  BY DEF Reverse
<1>3. \A k \in 1..Len(s) : s[(Len(s) - k) + 1] \in S
  BY <1>1
<1> HIDE DEF Reverse
<1>4. Reverse(s) \in Seq(S) /\ Len(Reverse(s)) = Len(s)
  BY <1>1, <1>2, <1>3
<1> QED BY <1>2, <1>4

\* The rest of a reversed sequence is reversed what lies before.
LEMMA ReverseRest ==
  ASSUME NEW S, NEW s \in Seq(S), NEW i \in 1..Len(s)
  PROVE  SubSeq(Reverse(s), Len(s) - i + 2, Len(s)) = Reverse(SubSeq(s, 1, i - 1))
<1> DEFINE r == Reverse(s)
           u == SubSeq(s, 1, i - 1)
           v == SubSeq(r, Len(s) - i + 2, Len(s))
<1>1. Len(s) \in Nat /\ i \in Nat /\ i >= 1 /\ i <= Len(s)
  OBVIOUS
<1>2. r \in Seq(S) /\ Len(r) = Len(s) /\ \A k \in 1..Len(s) : r[k] = s[Len(s) - k + 1]
  BY ReverseFacts
<1>3. u \in Seq(S) /\ Len(u) = i - 1 /\ \A k \in 1..(i - 1) : u[k] = s[k]
  BY <1>1
<1> HIDE DEF r, u
<1>4. Reverse(u) \in Seq(S) /\ Len(Reverse(u)) = i - 1 /\ \A k \in 1..(i - 1) : Reverse(u)[k] = u[(i - 1) - k + 1]
  <2>1. /\ Reverse(u) \in Seq(S) /\ Len(Reverse(u)) = Len(u)
        /\ \A k \in 1..Len(u) : Reverse(u)[k] = u[Len(u) - k + 1]
    BY <1>3, ReverseFacts
  <2> QED BY <1>3, <2>1
<1>5. v \in Seq(S) /\ Len(v) = i - 1 /\ \A k \in 1..(i - 1) : v[k] = r[k + (Len(s) - i + 2) - 1]
  <2>1. Len(s) - i + 2 \in 1..(Len(s) + 1)
    BY <1>1
  <2>2. /\ SubSeq(r, Len(s) - i + 2, Len(r)) \in Seq(S)
        /\ Len(SubSeq(r, Len(s) - i + 2, Len(r))) = Len(r) + 1 - (Len(s) - i + 2)
        /\ \A k \in 1..(Len(r) + 1 - (Len(s) - i + 2)) :
             SubSeq(r, Len(s) - i + 2, Len(r))[k] = r[k + (Len(s) - i + 2) - 1]
    BY <1>2, <2>1, RestFacts
  <2>3. Len(r) + 1 - (Len(s) - i + 2) = i - 1
    BY <1>1, <1>2
  <2> QED BY <1>2, <2>2, <2>3
<1> HIDE DEF v
<1>6. ASSUME NEW k \in 1..(i - 1) PROVE v[k] = Reverse(u)[k]
  <2>1. /\ k + (Len(s) - i + 2) - 1 \in 1..Len(s)
        /\ Len(s) - (k + (Len(s) - i + 2) - 1) + 1 = i - k
        /\ (i - 1) - k + 1 = i - k /\ i - k \in 1..(i - 1)
    BY <1>1
  <2>2. v[k] = s[i - k]
    BY <2>1, <1>2, <1>5
  <2>3. Reverse(u)[k] = s[i - k]
    BY <2>1, <1>3, <1>4
  <2> QED BY <2>2, <2>3
<1>7. v = Reverse(u)
  BY <1>4, <1>5, <1>6
<1> QED BY <1>7 DEF u, v, r

\* Behind p, a sequence without its element p is as it was.
LEMMA RestWithout ==
  ASSUME NEW S, NEW s \in Seq(S), NEW t \in Seq(S), NEW p \in 1..Len(s), Len(t) = Len(s) - 1,
         \A q \in 1..Len(t) : t[q] = IF q < p THEN s[q] ELSE s[q + 1]
  PROVE  SubSeq(t, p, Len(t)) = SubSeq(s, p + 1, Len(s))
<1> DEFINE u == SubSeq(t, p, Len(t))
           v == SubSeq(s, p + 1, Len(s))
<1>1. Len(s) \in Nat /\ p \in Nat /\ p >= 1 /\ p <= Len(s)
      /\ p \in 1..(Len(t) + 1) /\ p + 1 \in 1..(Len(s) + 1)
  OBVIOUS
<1>2. u \in Seq(S) /\ Len(u) = Len(t) + 1 - p /\ \A j \in 1..(Len(t) + 1 - p) : u[j] = t[j + p - 1]
  BY <1>1, RestFacts
<1>3. v \in Seq(S) /\ Len(v) = Len(s) + 1 - (p + 1) /\ \A j \in 1..(Len(s) + 1 - (p + 1)) : v[j] = s[j + (p + 1) - 1]
  BY <1>1, RestFacts
<1>4. Len(s) + 1 - (p + 1) = Len(s) - p /\ Len(t) + 1 - p = Len(s) - p
  BY <1>1
<1> HIDE DEF u, v
<1>5. ASSUME NEW j \in 1..(Len(s) - p) PROVE u[j] = v[j]
  <2>1. j + p - 1 \in 1..Len(t) /\ ~(j + p - 1 < p) /\ (j + p - 1) + 1 = j + (p + 1) - 1
    BY <1>1, <1>4
  <2> QED BY <2>1, <1>2, <1>3, <1>4
<1>6. Len(u) = Len(v) /\ \A j \in 1..Len(u) : u[j] = v[j]
  BY <1>2, <1>3, <1>4, <1>5
<1>7. u = v
  BY <1>2, <1>3, <1>6, SameSeq
<1> QED BY <1>7 DEF u, v

----------------------------------------------------------------------------
(* Walks *)

\* The course of a walk has the entries of its list.
LEMMA CourseFacts ==
  ASSUME NEW k \in Kinds, NEW l, Apart(l), NEW w \in Walks(l)
  PROVE  LET C == Course(l, w)
         IN  /\ C \in Seq(Nodes) /\ Len(C) \in Nat /\ Len(C) = Len(l[w.head])
             /\ \A p, q \in 1..Len(C) : C[p] = C[q] => p = q
             /\ \A x : x \in ToSet(C) <=> \E p \in 1..Len(C) : C[p] = x
             /\ w.dir = "next" => C = l[w.head]
             /\ w.dir = "prev" => \A p \in 1..Len(C) : C[p] = l[w.head][Len(C) - p + 1]
             /\ w.head \in DOMAIN l /\ w.head \in Heads /\ w.dir \in {"next", "prev"}
             /\ Rim(k, w.head) \notin Nodes /\ Rim(k, w.head) \in Cells \cup {Null}
<1> DEFINE s == l[w.head]
           C == Course(l, w)
<1>1. w.head \in DOMAIN l /\ w.dir \in {"next", "prev"}
  BY DEF Walks
<1>2. w.head \in Heads /\ s \in Seq(Nodes) /\ Len(s) \in Nat /\ \A p, q \in 1..Len(s) : s[p] = s[q] => p = q
  BY <1>1 DEF Apart
<1> HIDE DEF s
<1>3. w.dir = "next" => C = s
  BY DEF Course, s
<1>4. w.dir = "prev" => C = Reverse(s)
  BY DEF Course, s
<1> HIDE DEF C
<1>5. /\ Reverse(s) \in Seq(Nodes) /\ Len(Reverse(s)) = Len(s)
      /\ \A p \in 1..Len(s) : Reverse(s)[p] = s[Len(s) - p + 1]
  BY <1>2, ReverseFacts
<1>6. C \in Seq(Nodes) /\ Len(C) = Len(s)
  BY <1>1, <1>2, <1>3, <1>4, <1>5
<1>7. ASSUME NEW p \in 1..Len(C), NEW q \in 1..Len(C), C[p] = C[q] PROVE p = q
  <2>1. CASE w.dir = "next"
    BY <2>1, <1>2, <1>3, <1>7
  <2>2. CASE w.dir = "prev"
    <3>1. Len(s) - p + 1 \in 1..Len(s) /\ Len(s) - q + 1 \in 1..Len(s)
      BY <1>2, <1>6
    <3>2. s[Len(s) - p + 1] = s[Len(s) - q + 1]
      BY <2>2, <1>4, <1>5, <1>6, <1>7
    <3>3. Len(s) - p + 1 = Len(s) - q + 1
      BY <3>1, <3>2, <1>2
    <3> QED BY <3>3, <1>2, <1>6
  <2> QED BY <1>1, <2>1, <2>2
<1>8. \A x : x \in ToSet(C) <=> \E p \in 1..Len(C) : C[p] = x
  BY <1>6 DEF ToSet
<1>9. Rim(k, w.head) \notin Nodes /\ Rim(k, w.head) \in Cells \cup {Null}
  BY <1>2, CellsAssumption DEF Rim, Cells
<1>10. w.dir = "prev" => \A p \in 1..Len(C) : C[p] = s[Len(C) - p + 1]
  BY <1>4, <1>5, <1>6
<1> QED BY <1>1, <1>2, <1>3, <1>6, <1>7, <1>8, <1>9, <1>10 DEF C, s

\* What stands on a course.
LEMMA StopFacts ==
  ASSUME NEW k \in Kinds, NEW l, Apart(l), NEW w \in Walks(l), NEW j \in 1..(Len(Course(l, w)) + 1)
  PROVE  /\ Stop(k, l, w, j) \in Cells \cup {Null}
         /\ j # Len(Course(l, w)) + 1 => /\ Stop(k, l, w, j) = Course(l, w)[j]
                                         /\ Stop(k, l, w, j) \in Nodes
                                         /\ j \in 1..Len(Course(l, w))
                                         /\ j + 1 \in 1..(Len(Course(l, w)) + 1)
         /\ j = Len(Course(l, w)) + 1 => Stop(k, l, w, j) = Rim(k, w.head)
<1> DEFINE C == Course(l, w)
<1>1. C \in Seq(Nodes) /\ Len(C) \in Nat
      /\ Rim(k, w.head) \notin Nodes /\ Rim(k, w.head) \in Cells \cup {Null}
  BY CourseFacts
<1>2. j \in 1..(Len(C) + 1)
  OBVIOUS
<1>3. Stop(k, l, w, j) = IF j \in 1..Len(C) THEN C[j] ELSE Rim(k, w.head)
  BY DEF Stop
<1> HIDE DEF C
<1>4. CASE j = Len(C) + 1
  <2>1. j \notin 1..Len(C)
    BY <1>1, <1>4
  <2> QED BY <2>1, <1>1, <1>3, <1>4 DEF C
<1>5. CASE j # Len(C) + 1
  <2>1. j \in 1..Len(C) /\ j + 1 \in 1..(Len(C) + 1)
    BY <1>1, <1>2, <1>5
  <2>2. C[j] \in Nodes
    BY <1>1, <2>1
  <2> QED BY <2>1, <2>2, <1>3, <1>5 DEF C, Cells
<1> QED BY <1>4, <1>5

\* The pointers lead along the course.
LEMMA CourseLinks ==
  ASSUME NEW k \in Kinds, NEW m, NEW l, Apart(l), Follows(k, m, l), NEW w \in Walks(l),
         k = "chain" => w.dir = "next"
  PROVE  /\ m[w.dir][w.head] = Stop(k, l, w, 1)
         /\ \A j \in 1..Len(Course(l, w)) : m[w.dir][Course(l, w)[j]] = Stop(k, l, w, j + 1)
<1> DEFINE s == l[w.head]
           h == w.head
           C == Course(l, w)
           N == Len(s)
<1>1. /\ C \in Seq(Nodes) /\ N \in Nat /\ Len(C) = N
      /\ w.dir = "next" => C = s
      /\ w.dir = "prev" => \A p \in 1..N : C[p] = s[N - p + 1]
      /\ h \in DOMAIN l /\ h \in Heads /\ w.dir \in {"next", "prev"}
  BY CourseFacts
<1>2. /\ Place(k, h, s, 0) = h /\ \A j \in 1..N : Place(k, h, s, j) = s[j]
      /\ Place(k, h, s, N + 1) = Rim(k, h)
  BY <1>1, PlaceFacts DEF Rim
<1>3. \A j \in 1..(N + 1) : Stop(k, l, w, j) = IF j \in 1..N THEN C[j] ELSE Rim(k, h)
  BY <1>1 DEF Stop
<1>4. \A i \in 0..N : LET b == Place(k, h, s, i)
                          e == Place(k, h, s, i + 1)
                      IN  m.next[b] = e /\ (e # Null => m.prev[e] = b) /\ (k = "ring" => e # Null)
  BY <1>1, Neighbours
<1>5. CASE w.dir = "next"
  <2>1. \A j \in 1..(N + 1) : Place(k, h, s, j) = Stop(k, l, w, j)
    <3> SUFFICES ASSUME NEW j \in 1..(N + 1) PROVE Place(k, h, s, j) = Stop(k, l, w, j)
      OBVIOUS
    <3>1. j \in 1..N \/ (j = N + 1 /\ j \notin 1..N)
      BY <1>1
    <3> QED BY <3>1, <1>1, <1>2, <1>3, <1>5
  <2>2. 0 \in 0..N /\ 0 + 1 = 1 /\ 1 \in 1..(N + 1)
        /\ \A j \in 1..N : j \in 0..N /\ j + 1 \in 1..(N + 1)
    BY <1>1
  <2> HIDE DEF s, N, h
  <2>3. m.next[h] = Stop(k, l, w, 1)
    BY <2>1, <2>2, <1>2, <1>4
  <2>4. ASSUME NEW j \in 1..N PROVE m.next[C[j]] = Stop(k, l, w, j + 1)
    <3>1. m.next[Place(k, h, s, j)] = Place(k, h, s, j + 1)
      BY <2>2, <1>4
    <3> QED BY <3>1, <2>1, <2>2, <1>1, <1>2, <1>5
  <2> QED BY <2>3, <2>4, <1>1, <1>5 DEF h, N
<1>6. CASE w.dir = "prev"
  <2>1. k = "ring" /\ Rim(k, h) = h
    BY <1>6 DEF Kinds, Rim
  <2> HIDE DEF s, N, h
  <2>2. ASSUME NEW i \in 0..N PROVE m.prev[Place(k, h, s, i + 1)] = Place(k, h, s, i)
    BY <2>1, <1>4
  <2>3. ASSUME NEW j \in 1..(N + 1) PROVE Stop(k, l, w, j) = Place(k, h, s, N - j + 1)
    <3>1. CASE j \in 1..N
      <4>1. N - j + 1 \in 1..N
        BY <1>1, <3>1
      <4> QED BY <3>1, <4>1, <1>1, <1>2, <1>3, <1>6
    <3>2. CASE j = N + 1
      <4>1. N - j + 1 = 0 /\ j \notin 1..N
        BY <1>1, <3>2
      <4> QED BY <4>1, <2>1, <1>2, <1>3
    <3> QED BY <3>1, <3>2, <1>1
  <2>4. m.prev[h] = Stop(k, l, w, 1)
    <3>1. N \in 0..N /\ 1 \in 1..(N + 1) /\ N - 1 + 1 = N
      BY <1>1
    <3>2. m.prev[Place(k, h, s, N + 1)] = Place(k, h, s, N)
      BY <3>1, <2>2
    <3>3. Stop(k, l, w, 1) = Place(k, h, s, N - 1 + 1)
      BY <3>1, <2>3
    <3> QED BY <3>1, <3>2, <3>3, <2>1, <1>2
  <2>5. ASSUME NEW j \in 1..N PROVE m.prev[C[j]] = Stop(k, l, w, j + 1)
    <3>1. N - j \in 0..N /\ (N - j) + 1 = N - j + 1 /\ j + 1 \in 1..(N + 1) /\ N - (j + 1) + 1 = N - j
          /\ j \in 1..(N + 1) /\ N - j + 1 \in 1..N
      BY <1>1
    <3>2. m.prev[Place(k, h, s, (N - j) + 1)] = Place(k, h, s, N - j)
      BY <3>1, <2>2
    <3>3. Stop(k, l, w, j + 1) = Place(k, h, s, N - (j + 1) + 1)
      BY <3>1, <2>3
    <3>4. C[j] = Place(k, h, s, N - j + 1)
      BY <3>1, <1>1, <1>2, <1>6
    <3> QED BY <3>1, <3>2, <3>3, <3>4
  <2> QED BY <2>4, <2>5, <1>1, <1>6 DEF h, N
<1> QED BY <1>1, <1>5, <1>6

----------------------------------------------------------------------------
\* A call leaves the list of a walk alone, or takes the entry a safe loop
\* stands on.
Spares(l, l2, w) ==
  /\ w.head \in DOMAIN l2
  /\ \/ l2[w.head] = l[w.head]
     \/ w.safe /\ \E j \in 1..Len(l[w.head]) :
          l[w.head][j] = w.pos /\ l2[w.head] = RemoveAt(l[w.head], j)

\* What there is to know of a course, without its definition.
CourseOf(C, l, w) ==
  /\ C \in Seq(Nodes) /\ Len(C) \in Nat /\ Len(C) = Len(l[w.head])
  /\ w.dir = "next" => C = l[w.head]
  /\ w.dir = "prev" => \A p \in 1..Len(C) : C[p] = l[w.head][Len(C) - p + 1]
  /\ w.head \in DOMAIN l /\ w.dir \in {"next", "prev"}

\* Every course is one.
LEMMA CourseShort ==
  ASSUME NEW k \in Kinds, NEW l, Apart(l), NEW w \in Walks(l)
  PROVE  CourseOf(Course(l, w), l, w)
BY CourseFacts DEF CourseOf

\* The course of a walk without its entry at index j of the list.
LEMMA CourseWithout ==
  ASSUME NEW k \in Kinds, NEW l, Apart(l), NEW l2, Apart(l2), NEW w \in Walks(l), w \in Walks(l2),
         NEW j \in 1..Len(l[w.head]), l2[w.head] = RemoveAt(l[w.head], j)
  PROVE  \E p \in 1..Len(Course(l, w)) :
           /\ Course(l, w)[p] = l[w.head][j]
           /\ Len(Course(l2, w)) = Len(Course(l, w)) - 1
           /\ \A q \in 1..Len(Course(l2, w)) :
                Course(l2, w)[q] = IF q < p THEN Course(l, w)[q] ELSE Course(l, w)[q + 1]
<1> DEFINE s == l[w.head]
           t == l2[w.head]
           C == Course(l, w)
           D == Course(l2, w)
           N == Len(s)
<1>1. /\ C \in Seq(Nodes) /\ N \in Nat /\ Len(C) = N
      /\ w.dir = "next" => C = s
      /\ w.dir = "prev" => \A p \in 1..N : C[p] = s[N - p + 1]
      /\ w.head \in DOMAIN l /\ w.dir \in {"next", "prev"}
  <2>1. CourseOf(C, l, w)
    BY CourseShort
  <2> QED BY <2>1 DEF CourseOf
<1>2. /\ Len(D) = Len(t)
      /\ w.dir = "next" => D = t
      /\ w.dir = "prev" => \A p \in 1..Len(t) : D[p] = t[Len(t) - p + 1]
  <2>1. CourseOf(D, l2, w)
    BY CourseShort
  <2> QED BY <2>1 DEF CourseOf
<1>3. s \in Seq(Nodes)
  BY <1>1 DEF Apart
<1>4. Len(t) = N - 1 /\ \A q \in 1..N - 1 : t[q] = IF q < j THEN s[q] ELSE s[q + 1]
  BY <1>3, RemoveFacts
<1>5. j \in 1..N
  OBVIOUS
<1> HIDE DEF s, t, C, D, N
<1>6. CASE w.dir = "next"
  BY <1>1, <1>2, <1>4, <1>5, <1>6 DEF C, D, s
<1>7. CASE w.dir = "prev"
  <2> DEFINE p == N - j + 1
  <2>1. p \in 1..N /\ C[p] = s[j]
    <3>1. N - p + 1 = j /\ p \in 1..N
      BY <1>1, <1>5
    <3> QED BY <3>1, <1>1, <1>7
  <2>2. ASSUME NEW q \in 1..N - 1 PROVE D[q] = IF q < p THEN C[q] ELSE C[q + 1]
    <3>1. /\ (N - 1) - q + 1 \in 1..N - 1 /\ (N - 1) - q + 1 = N - q
          /\ q \in 1..N /\ q + 1 \in 1..N /\ N - q + 1 = (N - q) + 1 /\ N - (q + 1) + 1 = N - q
          /\ (q < p <=> ~(N - q < j))
      BY <1>1, <1>5
    <3>2. D[q] = t[N - q]
      BY <3>1, <1>2, <1>4, <1>7
    <3>3. t[N - q] = IF N - q < j THEN s[N - q] ELSE s[(N - q) + 1]
      BY <3>1, <1>4
    <3>4. C[q] = s[N - q + 1] /\ C[q + 1] = s[N - q]
      BY <3>1, <1>1, <1>7
    <3> QED BY <3>1, <3>2, <3>3, <3>4
  <2> HIDE DEF p
  <2> QED BY <2>1, <2>2, <1>1, <1>2, <1>4 DEF C, D, s
<1> QED BY <1>1, <1>6, <1>7

\* A walk whose list a call spares stays on its course.
LEMMA WalkGoesOn ==
  ASSUME NEW k \in Kinds, NEW l, Apart(l), NEW l2, Apart(l2), NEW w \in Walks(l), OnCourse(k, l, w),
         Spares(l, l2, w)
  PROVE  w \in Walks(l2) /\ OnCourse(k, l2, w)
<1>1. w \in Walks(l2)
  BY DEF Walks, Spares
<1>2. CASE l2[w.head] = l[w.head]
  BY <1>1, <1>2 DEF OnCourse, Course, Stop
<1>3. CASE w.safe /\ \E j \in 1..Len(l[w.head]) : l[w.head][j] = w.pos /\ l2[w.head] = RemoveAt(l[w.head], j)
  <2> DEFINE C == Course(l, w)
             D == Course(l2, w)
  <2>1. PICK j \in 1..Len(l[w.head]) : l[w.head][j] = w.pos /\ l2[w.head] = RemoveAt(l[w.head], j)
    BY <1>3
  <2>2. PICK p \in 1..Len(C) :
          /\ C[p] = l[w.head][j]
          /\ Len(D) = Len(C) - 1
          /\ \A q \in 1..Len(D) : D[q] = IF q < p THEN C[q] ELSE C[q + 1]
    <3>1. l2[w.head] = RemoveAt(l[w.head], j)
      BY <2>1
    <3> HIDE DEF C, D
    <3>2. \E p \in 1..Len(Course(l, w)) :
           /\ Course(l, w)[p] = l[w.head][j]
           /\ Len(Course(l2, w)) = Len(Course(l, w)) - 1
           /\ \A q \in 1..Len(Course(l2, w)) :
                Course(l2, w)[q] = IF q < p THEN Course(l, w)[q] ELSE Course(l, w)[q + 1]
      BY <1>1, <3>1, CourseWithout
    <3> QED BY <3>2 DEF C, D
  <2>3. /\ C \in Seq(Nodes) /\ Len(C) \in Nat /\ \A a, b \in 1..Len(C) : C[a] = C[b] => a = b
        /\ \A x : x \in ToSet(C) <=> \E a \in 1..Len(C) : C[a] = x
        /\ Rim(k, w.head) \notin Nodes
    BY CourseFacts
  <2>4. D \in Seq(Nodes) /\ Len(D) \in Nat /\ \A x : x \in ToSet(D) <=> \E a \in 1..Len(D) : D[a] = x
    BY <1>1, CourseFacts
  <2>5. PICK i \in 1..(Len(C) + 1) :
          /\ w.pos \in Nodes /\ w.n = Stop(k, l, w, i)
          /\ w.todo = <<w.pos>> \o SubSeq(C, i, Len(C))
          /\ w.pos \in ToSet(C) => i # 1 /\ C[i - 1] = w.pos
    <3>1. w.pos \in Nodes /\ w.pos # Rim(k, w.head)
      BY <2>1, <2>2, <2>3
    <3> QED BY <3>1, <1>3 DEF OnCourse
  <2>6. Stop(k, l, w, i) = IF i \in 1..Len(C) THEN C[i] ELSE Rim(k, w.head)
    BY DEF Stop
  <2>7. Stop(k, l2, w, p) = IF p \in 1..Len(D) THEN D[p] ELSE Rim(k, w.head)
    BY DEF Stop
  <2> HIDE DEF C, D
  <2>8. i = p + 1
    <3>1. w.pos \in ToSet(C) /\ C[p] = w.pos
      BY <2>1, <2>2, <2>3
    <3>2. i # 1 /\ C[i - 1] = C[p] /\ i - 1 \in 1..Len(C)
      BY <3>1, <2>3, <2>5
    <3>3. i - 1 = p
      BY <3>2, <2>3
    <3> QED BY <3>3, <2>3
  <2>9. w.n = Stop(k, l2, w, p)
    <3>1. CASE p + 1 \in 1..Len(C)
      <4>1. p \in 1..Len(D) /\ ~(p < p)
        BY <3>1, <2>2, <2>3
      <4> QED BY <4>1, <3>1, <2>2, <2>5, <2>6, <2>7, <2>8
    <3>2. CASE p + 1 \notin 1..Len(C)
      <4>1. p \notin 1..Len(D)
        BY <3>2, <2>2, <2>3
      <4> QED BY <4>1, <3>2, <2>5, <2>6, <2>7, <2>8
    <3> QED BY <3>1, <3>2
  <2>10. SubSeq(D, p, Len(D)) = SubSeq(C, p + 1, Len(C))
    BY <2>2, <2>3, <2>4, RestWithout
  <2>11. w.pos \notin ToSet(D)
    <3>1. ASSUME NEW q \in 1..Len(D), D[q] = w.pos PROVE FALSE
      <4>1. q \in 1..Len(C) /\ q + 1 \in 1..Len(C)
        BY <2>2, <2>3
      <4>2. C[p] = w.pos
        BY <2>1, <2>2
      <4>3. CASE q < p
        <5>1. C[q] = C[p]
          BY <4>2, <4>3, <3>1, <2>2
        <5>2. q = p
          BY <5>1, <4>1, <2>3
        <5> QED BY <5>2, <4>3, <2>3
      <4>4. CASE ~(q < p)
        <5>1. C[q + 1] = C[p]
          BY <4>2, <4>4, <3>1, <2>2
        <5>2. q + 1 = p
          BY <5>1, <4>1, <2>3
        <5> QED BY <5>2, <4>4, <2>3
      <4> QED BY <4>3, <4>4
    <3> QED BY <3>1, <2>4
  <2>12. p \in 1..(Len(D) + 1)
    BY <2>2, <2>3
  <2>13. /\ w.pos \in Nodes /\ w.n = Stop(k, l2, w, p)
         /\ w.todo = <<w.pos>> \o SubSeq(D, p, Len(D))
         /\ w.pos \in ToSet(D) => p # 1 /\ D[p - 1] = w.pos
    BY <2>5, <2>8, <2>9, <2>10, <2>11
  <2>14. w.safe
    BY <1>3
  <2> QED BY <1>1, <2>12, <2>13, <2>14 DEF OnCourse, D
<1> QED BY <1>2, <1>3 DEF Spares

----------------------------------------------------------------------------
(* What callers may do *)

\* The cells that calls may use, for the lists and the walk at hand.
LEMMA CallerFacts ==
  ASSUME Types, Walking
  PROVE  /\ \A w : walk = <<w>> => w \in Walks(lists) /\ w.head \in DOMAIN lists
         /\ \A h \in Calm : h \in Heads /\ h \in DOMAIN lists /\ \A w : walk = <<w>> => w.head # h
         /\ \A c \in Linked : /\ c \in Cells /\ On(lists, c) /\ Home(lists, c) \in Calm
                              /\ c \in Nodes => c \in Entries(lists) /\ c \notin fake
         /\ \A n \in Removable : /\ n \in Nodes /\ n \in Entries(lists) /\ n \notin fake
                                 /\ \A w : walk = <<w>> /\ w.head = Home(lists, n) => w.safe /\ w.pos = n
         /\ \A n \in Loose : n \in Nodes /\ n \notin Entries(lists) /\ n \notin fake
         /\ \A h \in Unused : /\ h \in Heads /\ h \in Cells /\ h \notin DOMAIN lists
                              /\ \A w : walk = <<w>> => w.head # h
<1>0. kind \in Kinds /\ Apart(lists) /\ fake \subseteq Nodes \ Entries(lists)
  BY DEF Types
<1>1. \A w : walk = <<w>> => w \in Walks(lists) /\ w.head \in DOMAIN lists
  <2> SUFFICES ASSUME NEW w, walk = <<w>> PROVE w \in Walks(lists) /\ w.head \in DOMAIN lists
    OBVIOUS
  <2>1. walk # <<>>
    OBVIOUS
  <2>2. PICK v \in Walks(lists) : walk = <<v>>
    BY <2>1 DEF Walking
  <2>3. v = w
    BY <2>2
  <2> QED BY <2>2, <2>3 DEF Walks
<1>2. walk = <<>> \/ \E w : walk = <<w>>
  BY DEF Walking
<1>3. /\ walk = <<>> => DOMAIN walk = {}
      /\ \A w : walk = <<w>> => DOMAIN walk = {1} /\ walk[1] = w
  OBVIOUS
<1>4. \A h \in Calm : h \in DOMAIN lists /\ \A w : walk = <<w>> => w.head # h
  BY <1>3 DEF Calm
<1>5. \A h \in DOMAIN lists : h \in Heads /\ h \in Cells /\ h \notin Nodes
  BY <1>0, EntryAt, CellsAssumption
<1>6. \A c : c \in Entries([h \in Calm |-> lists[h]]) <=> \E h \in Calm : c \in ToSet(lists[h])
  BY DEF Entries
<1>7. ASSUME NEW c \in Linked
      PROVE  /\ c \in Cells /\ On(lists, c) /\ Home(lists, c) \in Calm
             /\ c \in Nodes => c \in Entries(lists) /\ c \notin fake
  <2>1. CASE c \in Calm
    <3>1. c \in DOMAIN lists /\ c \in Heads /\ c \in Cells /\ c \notin Nodes
      BY <2>1, <1>4, <1>5
    <3>2. Home(lists, c) = c
      BY <3>1 DEF Home
    <3> QED BY <2>1, <3>1, <3>2 DEF On
  <2>2. CASE c \notin Calm
    <3>1. PICK h \in Calm : c \in ToSet(lists[h])
      BY <2>2, <1>6 DEF Linked
    <3>2. h \in DOMAIN lists
      BY <1>4
    <3>3. PICK i \in 1..Len(lists[h]) : lists[h][i] = c
      BY <1>0, <3>1, <3>2, EntryAt
    <3>4. c \in Nodes /\ c \in Entries(lists)
      BY <1>0, <3>2, <3>3, EntryAt
    <3>5. Home(lists, c) = h
      BY <1>0, <3>2, <3>3, HomeAt
    <3> QED BY <3>4, <3>5, <1>0 DEF Cells, On
  <2> QED BY <2>1, <2>2
<1>8. ASSUME NEW n \in Removable
      PROVE  /\ n \in Nodes /\ n \in Entries(lists)
             /\ \A w : walk = <<w>> /\ w.head = Home(lists, n) => w.safe /\ w.pos = n
  <2>1. CASE n \in Linked \cap Nodes
    <3>1. n \in Entries(lists) /\ Home(lists, n) \in Calm
      BY <2>1, <1>7
    <3> QED BY <2>1, <3>1, <1>4
  <2>2. CASE n \notin Linked \cap Nodes
    <3>1. PICK i \in DOMAIN walk : walk[i].safe /\ walk[i].pos \in ToSet(lists[walk[i].head]) /\ n = walk[i].pos
      BY <2>2 DEF Removable
    <3>2. PICK v : walk = <<v>>
      BY <3>1, <1>2, <1>3
    <3>3. v.safe /\ v.pos = n /\ n \in ToSet(lists[v.head]) /\ v.head \in DOMAIN lists
      BY <3>1, <3>2, <1>1, <1>3
    <3>4. n \in Entries(lists)
      BY <1>0, <3>3, EntryAt
    <3>5. n \in Nodes
      BY <1>0, <3>4, EntryAt
    <3>6. \A w : walk = <<w>> => w = v
      BY <3>2
    <3> QED BY <3>3, <3>4, <3>5, <3>6
  <2> QED BY <2>1, <2>2
<1>9. \A h \in Unused : h \in Heads /\ h \in Cells /\ h \notin DOMAIN lists /\ \A w : walk = <<w>> => w.head # h
  BY <1>1 DEF Unused, Cells
<1>10. \A n \in Loose : n \in Nodes /\ n \notin Entries(lists) /\ n \notin fake
  BY DEF Loose
<1>11. \A n \in Removable : n \notin fake
  BY <1>0, <1>8
<1> QED BY <1>1, <1>4, <1>5, <1>7, <1>8, <1>9, <1>10, <1>11

\* What is shown of a call that leaves memory a, lists l and the entries of q
\* initialised.
Stays(k, a, n) == IF k = "ring" THEN a.next[n] = n /\ a.prev[n] = n
                  ELSE a.next[n] = Null /\ a.prev[n] = Null
Sound(a, l, q) ==
  /\ \E S \in SUBSET Nodes : /\ Leads(kind, mem, lists, a, l, S)
                             /\ S \subseteq Entries(lists) \cup Entries(l) \cup q /\ S \cap fake \subseteq q
  /\ q \subseteq Nodes /\ (kind = "ring" => q \cap fake = {})
  /\ \A n \in q \ Entries(l) : Stays(kind, a, n)
  /\ \A w : walk = <<w>> => Spares(lists, l, w)

\* A call of which this is shown keeps the invariant.
LEMMA CallKeeps ==
  ASSUME IInv, NEW a, NEW l, NEW q, Sound(a, l, q), RingCall(a, l, q) \/ ChainCall(a, l, q)
  PROVE  IInv'
<1>1. /\ kind' = kind /\ mem' = a /\ lists' = l /\ walk' = walk
      /\ idle' = (idle \cup q) \ Entries(l)
      /\ kind = "ring" => fake' = fake
      /\ kind = "chain" => fake' = fake \ q
  BY DEF RingCall, ChainCall, Call
<1>2. PICK S \in SUBSET Nodes : /\ Leads(kind, mem, lists, a, l, S)
                                /\ S \subseteq Entries(lists) \cup Entries(l) \cup q /\ S \cap fake \subseteq q
  BY DEF Sound
<1>3. /\ a \in Memories /\ Apart(l) /\ Follows(kind, a, l)
      /\ Entries(l) \subseteq Entries(lists) \cup S
      /\ \A c \in Nodes \ (Entries(lists) \cup S) : a.next[c] = mem.next[c] /\ a.prev[c] = mem.prev[c]
  BY <1>2 DEF Leads
<1>4. /\ kind \in Kinds /\ Apart(lists)
      /\ idle \subseteq Nodes \ (Entries(lists) \cup fake) /\ fake \subseteq Nodes \ Entries(lists)
  BY DEF IInv, Types
<1>5. /\ q \subseteq Nodes /\ (kind = "ring" => q \cap fake = {})
      /\ \A n \in q \ Entries(l) : Stays(kind, a, n)
      /\ \A w : walk = <<w>> => Spares(lists, l, w)
  BY DEF Sound
<1>6. kind = "ring" \/ kind = "chain"
  BY <1>4 DEF Kinds
<1>7. fake' \subseteq Nodes \ Entries(l) /\ fake' \subseteq fake \ S
  BY <1>1, <1>2, <1>3, <1>4, <1>5, <1>6
<1>8. idle' \subseteq Nodes \ (Entries(l) \cup fake')
  BY <1>1, <1>4, <1>5, <1>6, <1>7
<1>9. Types'
  BY <1>1, <1>3, <1>4, <1>7, <1>8 DEF Types
<1>10. OutsideKnown'
  <2>1. \A n \in idle' : n \in q \ Entries(l) \/ (n \in idle /\ n \in Nodes \ (Entries(lists) \cup S))
    BY <1>1, <1>2, <1>4
  <2>2. \A n \in fake' : n \in fake /\ n \in Nodes \ (Entries(lists) \cup S)
    BY <1>4, <1>7
  <2>3. CASE kind = "ring"
    <3>1. \A n \in idle : mem.next[n] = n /\ mem.prev[n] = n
      BY <2>3 DEF IInv, OutsideKnown
    <3>2. \A n \in idle' : a.next[n] = n /\ a.prev[n] = n
      BY <2>1, <2>3, <3>1, <1>3, <1>5 DEF Stays
    <3> QED BY <2>3, <3>2, <1>1 DEF OutsideKnown
  <2>4. CASE kind = "chain"
    <3>1. /\ \A n \in idle : mem.next[n] = Null /\ mem.prev[n] = Null
          /\ \A n \in fake : mem.next[n] = Null /\ mem.prev[n] = n
      BY <2>4 DEF IInv, OutsideKnown
    <3>2. \A n \in idle' : a.next[n] = Null /\ a.prev[n] = Null
      BY <2>1, <2>4, <3>1, <1>3, <1>5 DEF Stays
    <3>3. \A n \in fake' : a.next[n] = Null /\ a.prev[n] = n
      BY <2>2, <3>1, <1>3
    <3> QED BY <2>4, <3>2, <3>3, <1>1 DEF OutsideKnown
  <2> QED BY <1>6, <2>3, <2>4
<1>11. Walking'
  <2>1. CASE walk = <<>>
    BY <2>1, <1>1 DEF Walking
  <2>2. CASE walk # <<>>
    <3>1. PICK w \in Walks(lists) : walk = <<w>> /\ (kind = "chain" => w.dir = "next") /\ OnCourse(kind, lists, w)
      BY <2>2 DEF IInv, Walking
    <3>2. Spares(lists, l, w)
      BY <3>1, <1>5
    <3>3. w \in Walks(l) /\ OnCourse(kind, l, w)
      BY <3>1, <3>2, <1>3, <1>4, WalkGoesOn
    <3> QED BY <3>1, <3>3, <1>1 DEF Walking
  <2> QED BY <2>1, <2>2
<1> QED BY <1>1, <1>3, <1>9, <1>10, <1>11 DEF IInv

----------------------------------------------------------------------------
(* Calls that initialise, add and delete *)

\* A new, empty list.
LEMMA InitHeadKeeps ==
  ASSUME IInv, InitHead
  PROVE  IInv'
<1>1. Types /\ Walking /\ kind \in Kinds /\ Apart(lists) /\ mem \in Memories /\ Follows(kind, mem, lists)
  BY DEF IInv, Types
<1>2. PICK h \in Unused : \/ RingCall(INIT_LIST_HEAD(mem, h), Gain(lists, h, <<>>), {})
                          \/ ChainCall(INIT_HLIST_HEAD(mem, h), Gain(lists, h, <<>>), {})
  BY DEF InitHead
<1>3. h \in Heads /\ h \in Cells /\ h \notin DOMAIN lists /\ \A w : walk = <<w>> => w.head # h /\ w.head \in DOMAIN lists
  BY <1>1, CallerFacts
<1> DEFINE l == Gain(lists, h, <<>>)
<1>4. DOMAIN l = DOMAIN lists \cup {h} /\ l[h] = <<>> /\ \A g \in DOMAIN lists \ {h} : l[g] = lists[g]
  BY DEF Gain
<1>5. Drops(l, lists, h)
  BY <1>4 DEF Drops
<1>6. \A w : walk = <<w>> => Spares(lists, l, w)
  BY <1>3, <1>4 DEF Spares
<1> HIDE DEF l
<1>7. ASSUME NEW a, a \in Memories, \A c \in Cells \ {h} : a.next[c] = mem.next[c] /\ a.prev[c] = mem.prev[c],
             a.next[h] = (IF kind = "ring" THEN h ELSE Null) /\ (kind = "ring" => a.prev[h] = h)
      PROVE  Sound(a, l, {})
  <2>1. Leads(kind, mem, lists, a, l, {})
    BY <1>1, <1>3, <1>5, <1>7, DropLeads
  <2> QED BY <2>1, <1>6 DEF Sound
<1>8. CASE RingCall(INIT_LIST_HEAD(mem, h), l, {})
  <2> DEFINE a == INIT_LIST_HEAD(mem, h)
  <2>1. a \in Memories /\ \A c \in Cells \ {h} : a.next[c] = mem.next[c] /\ a.prev[c] = mem.prev[c]
    BY <1>1, <1>3, InitStores
  <2>2. a.next[h] = h /\ a.prev[h] = h /\ kind = "ring"
    BY <1>1, <1>3, <1>8, InitStores DEF RingCall
  <2> HIDE DEF a
  <2>3. Sound(a, l, {})
    BY <2>1, <2>2, <1>7
  <2> QED BY <2>3, <1>8, CallKeeps DEF a
<1>9. CASE ChainCall(INIT_HLIST_HEAD(mem, h), l, {})
  <2> DEFINE a == INIT_HLIST_HEAD(mem, h)
  <2>1. a \in Memories /\ \A c \in Cells \ {h} : a.next[c] = mem.next[c] /\ a.prev[c] = mem.prev[c]
    BY <1>1, <1>3, InitStores
  <2>2. a.next[h] = Null /\ kind # "ring"
    BY <1>1, <1>3, <1>9, InitStores DEF ChainCall
  <2> HIDE DEF a
  <2>3. Sound(a, l, {})
    BY <2>1, <2>2, <1>7
  <2> QED BY <2>3, <1>9, CallKeeps DEF a
<1> QED BY <1>2, <1>8, <1>9 DEF l

\* A call that stores only into a cell outside the lists, and leaves it known.
LEMMA OutsideSound ==
  ASSUME Types, Walking, Follows(kind, mem, lists), NEW n \in Nodes, n \notin Entries(lists),
         NEW a \in Memories, \A c \in Cells \ {n} : a.next[c] = mem.next[c] /\ a.prev[c] = mem.prev[c],
         Stays(kind, a, n), kind = "ring" => n \notin fake,
         NEW l, DOMAIN l = DOMAIN lists, \A h \in DOMAIN lists : l[h] = lists[h]
  PROVE  Sound(a, l, {n})
<1>1. kind \in Kinds /\ Apart(lists)
  BY DEF Types
<1>2. ~On(lists, n)
  BY <1>1, OnNodes
<1>3. Leads(kind, mem, lists, a, l, {n})
  BY <1>1, <1>2, ElsewhereLeads
<1>4. \A w : walk = <<w>> => Spares(lists, l, w)
  <2>1. \A w : walk = <<w>> => w.head \in DOMAIN lists
    BY CallerFacts
  <2> QED BY <2>1 DEF Spares
<1> QED BY <1>3, <1>4 DEF Sound

\* An entry outside the lists is initialised.
LEMMA InitEntryKeeps ==
  ASSUME IInv, InitEntry
  PROVE  IInv'
<1>1. Types /\ Walking /\ kind \in Kinds /\ Apart(lists) /\ mem \in Memories /\ Follows(kind, mem, lists)
  BY DEF IInv, Types
<1>2. PICK n \in Loose : \/ RingCall(INIT_LIST_HEAD(mem, n), lists, {n})
                         \/ ChainCall(INIT_HLIST_NODE(mem, n), lists, {n})
  BY DEF InitEntry
<1>3. n \in Nodes /\ n \notin Entries(lists) /\ n \notin fake /\ n \in Cells
  BY <1>1, CallerFacts DEF Cells
<1>4. CASE RingCall(INIT_LIST_HEAD(mem, n), lists, {n})
  <2> DEFINE a == INIT_LIST_HEAD(mem, n)
  <2>1. a \in Memories /\ \A c \in Cells \ {n} : a.next[c] = mem.next[c] /\ a.prev[c] = mem.prev[c]
    BY <1>1, <1>3, InitStores
  <2>2. Stays(kind, a, n)
    BY <1>1, <1>3, <1>4, InitStores DEF RingCall, Stays
  <2> HIDE DEF a
  <2>3. Sound(a, lists, {n})
    BY <2>1, <2>2, <1>1, <1>3, OutsideSound
  <2> QED BY <2>3, <1>4, CallKeeps DEF a
<1>5. CASE ChainCall(INIT_HLIST_NODE(mem, n), lists, {n})
  <2> DEFINE a == INIT_HLIST_NODE(mem, n)
  <2>1. a \in Memories /\ \A c \in Cells \ {n} : a.next[c] = mem.next[c] /\ a.prev[c] = mem.prev[c]
    BY <1>1, <1>3, InitStores
  <2>2. Stays(kind, a, n)
    BY <1>1, <1>3, <1>5, InitStores DEF ChainCall, Stays
  <2> HIDE DEF a
  <2>3. Sound(a, lists, {n})
    BY <2>1, <2>2, <1>1, <1>3, OutsideSound
  <2> QED BY <2>3, <1>5, CallKeeps DEF a
<1> QED BY <1>2, <1>4, <1>5

\* A call that adds entry n behind index i of the list of g.
LEMMA PutSound ==
  ASSUME Types, Walking, Follows(kind, mem, lists), NEW n \in Loose, NEW g \in Calm,
         NEW i \in 0..Len(lists[g]), NEW l, Changes(l, lists, g, Spliced(lists[g], i, <<n>>)),
         NEW a, Puts(a, mem, Place(kind, g, lists[g], i), n, Place(kind, g, lists[g], i + 1))
  PROVE  Sound(a, l, {})
<1>1. kind \in Kinds /\ Apart(lists)
  BY DEF Types
<1>2. /\ n \in Nodes /\ n \notin Entries(lists) /\ n \notin fake
      /\ g \in DOMAIN lists /\ \A w : walk = <<w>> => w.head # g /\ w.head \in DOMAIN lists
  BY CallerFacts
<1>3. Leads(kind, mem, lists, a, l, {n}) /\ n \in Entries(l)
  BY <1>1, <1>2, PutLeads
<1>4. \A w : walk = <<w>> => Spares(lists, l, w)
  BY <1>2 DEF Spares, Changes
<1> QED BY <1>2, <1>3, <1>4 DEF Sound

\* Where a cell is, and what is before and behind it.
LEMMA CellLinks ==
  ASSUME Types, Follows(kind, mem, lists), NEW c, On(lists, c)
  PROVE  LET g == Home(lists, c)
             i == At(lists, c)
         IN  /\ g \in DOMAIN lists /\ i \in 0..Len(lists[g]) /\ c \in Cells
             /\ Place(kind, g, lists[g], i) = c /\ Place(kind, g, lists[g], i + 1) = mem.next[c]
             /\ mem.next[c] # Null => mem.next[c] \in Cells /\ On(lists, mem.next[c]) /\ mem.prev[mem.next[c]] = c
             /\ kind = "ring" => mem.next[c] # Null
<1> DEFINE g == Home(lists, c)
           i == At(lists, c)
<1>1. kind \in Kinds /\ Apart(lists)
  BY DEF Types
<1>2. g \in DOMAIN lists /\ i \in 0..Len(lists[g]) /\ Place(kind, g, lists[g], i) = c
  BY <1>1, HomeAt
<1> HIDE DEF g, i
<1> QED BY <1>1, <1>2, Neighbours DEF g, i

\* list_add, list_add_tail.
LEMMA RingAddKeeps ==
  ASSUME IInv, RingAdd
  PROVE  IInv'
<1>1. Types /\ Walking /\ kind \in Kinds /\ Apart(lists) /\ mem \in Memories /\ Follows(kind, mem, lists)
  BY DEF IInv, Types
<1>2. PICK n \in Loose, c \in Linked : 
        \/ RingCall(list_add(mem, n, c), InsertAfter(lists, c, <<n>>), {})
        \/ RingCall(list_add_tail(mem, n, c), InsertBefore(lists, c, <<n>>), {})
  BY DEF RingAdd
<1>3. kind = "ring"
  BY <1>2 DEF RingCall
<1>4. n \in Nodes /\ n \notin Entries(lists) /\ ~On(lists, n) /\ <<n>> \in Seq(Nodes)
  BY <1>1, CallerFacts, OnNodes
<1>5. c \in Cells /\ On(lists, c) /\ Home(lists, c) \in Calm /\ n # c
  BY <1>1, <1>4, CallerFacts
<1> DEFINE g == Home(lists, c)
           i == At(lists, c)
<1>6. /\ g \in DOMAIN lists /\ i \in 0..Len(lists[g])
      /\ Place(kind, g, lists[g], i) = c /\ Place(kind, g, lists[g], i + 1) = mem.next[c]
      /\ mem.next[c] \in Cells
  BY <1>1, <1>3, <1>5, CellLinks
<1>7. CASE RingCall(list_add(mem, n, c), InsertAfter(lists, c, <<n>>), {})
  <2>1. Changes(InsertAfter(lists, c, <<n>>), lists, g, Spliced(lists[g], i, <<n>>))
    BY <1>1, <1>5, AfterChanges
  <2>2. Puts(list_add(mem, n, c), mem, c, n, mem.next[c])
    BY <1>1, <1>4, <1>5, <1>6, RingPuts
  <2> HIDE DEF g, i
  <2>3. Sound(list_add(mem, n, c), InsertAfter(lists, c, <<n>>), {})
    BY <2>1, <2>2, <1>1, <1>5, <1>6, PutSound DEF g
  <2> QED BY <2>3, <1>7, CallKeeps
<1>8. CASE RingCall(list_add_tail(mem, n, c), InsertBefore(lists, c, <<n>>), {})
  <2>1. PICK j \in 0..Len(lists[g]) :
           /\ Place(kind, g, lists[g], j + 1) = c
           /\ Changes(InsertBefore(lists, c, <<n>>), lists, g, Spliced(lists[g], j, <<n>>))
    BY <1>1, <1>3, <1>4, <1>5, BeforeChanges
  <2> HIDE DEF g, i
  <2>2. c # Null
    BY <1>5, CellsAssumption
  <2>3. Place(kind, g, lists[g], j) \in Cells /\ mem.prev[c] = Place(kind, g, lists[g], j)
    BY <2>1, <2>2, <1>1, <1>6, Neighbours
  <2>4. Puts(list_add_tail(mem, n, c), mem, mem.prev[c], n, c)
    BY <2>3, <1>1, <1>4, <1>5, RingPuts
  <2>5. Sound(list_add_tail(mem, n, c), InsertBefore(lists, c, <<n>>), {})
    BY <2>1, <2>3, <2>4, <1>1, <1>5, <1>6, PutSound DEF g
  <2> QED BY <2>5, <1>8, CallKeeps
<1> QED BY <1>2, <1>7, <1>8

\* hlist_add_head, hlist_add_before, hlist_add_after.
LEMMA ChainAddKeeps ==
  ASSUME IInv, ChainAdd
  PROVE  IInv'
<1>1. Types /\ Walking /\ kind \in Kinds /\ Apart(lists) /\ mem \in Memories /\ Follows(kind, mem, lists)
  BY DEF IInv, Types
<1>2. PICK n \in Loose :
        \/ \E h \in Calm : ChainCall(hlist_add_head(mem, n, h), InsertAfter(lists, h, <<n>>), {})
        \/ \E c \in Linked \cap Nodes :
             \/ ChainCall(hlist_add_before(mem, n, c), InsertBefore(lists, c, <<n>>), {})
             \/ ChainCall(hlist_add_after(mem, c, n), InsertAfter(lists, c, <<n>>), {})
  BY DEF ChainAdd
<1>3. n \in Nodes /\ n \notin Entries(lists) /\ ~On(lists, n) /\ <<n>> \in Seq(Nodes)
  BY <1>1, CallerFacts, OnNodes
<1>4. n \in Cells /\ n # Null
  BY <1>3, CellsAssumption DEF Cells
<1>5. ASSUME NEW c \in Linked, NEW a, a = hlist_add_head(mem, n, c) \/ a = hlist_add_after(mem, c, n),
             ChainCall(a, InsertAfter(lists, c, <<n>>), {})
      PROVE  IInv'
  <2>1. c \in Cells /\ On(lists, c) /\ Home(lists, c) \in Calm /\ n # c
    BY <1>1, <1>3, CallerFacts
  <2> DEFINE g == Home(lists, c)
             i == At(lists, c)
  <2>2. /\ g \in DOMAIN lists /\ i \in 0..Len(lists[g])
        /\ Place(kind, g, lists[g], i) = c /\ Place(kind, g, lists[g], i + 1) = mem.next[c]
        /\ mem.next[c] # Null => On(lists, mem.next[c])
    BY <1>1, <2>1, CellLinks
  <2>3. Changes(InsertAfter(lists, c, <<n>>), lists, g, Spliced(lists[g], i, <<n>>))
    BY <1>1, <2>1, AfterChanges
  <2>4. mem.next[c] # n
    BY <2>2, <1>3, <1>4
  <2>5. Puts(a, mem, c, n, mem.next[c])
    BY <2>1, <2>4, <1>1, <1>3, <1>5, ChainPuts
  <2> HIDE DEF g, i
  <2>6. Sound(a, InsertAfter(lists, c, <<n>>), {})
    BY <2>1, <2>2, <2>3, <2>5, <1>1, PutSound DEF g
  <2> QED BY <2>6, <1>5, CallKeeps
<1>6. \A h \in Calm : h \in Linked
  BY DEF Linked
<1>7. ASSUME NEW c \in Linked \cap Nodes,
             ChainCall(hlist_add_before(mem, n, c), InsertBefore(lists, c, <<n>>), {})
      PROVE  IInv'
  <2>1. c \in Cells /\ On(lists, c) /\ Home(lists, c) \in Calm /\ n # c /\ c # Null
    BY <1>1, <1>3, CallerFacts, CellsAssumption
  <2> DEFINE g == Home(lists, c)
             i == At(lists, c)
             a == hlist_add_before(mem, n, c)
  <2>2. /\ g \in DOMAIN lists
        /\ mem.next[c] # Null => On(lists, mem.next[c])
    BY <1>1, <2>1, CellLinks
  <2>3. PICK j \in 0..Len(lists[g]) :
           /\ Place(kind, g, lists[g], j + 1) = c
           /\ Changes(InsertBefore(lists, c, <<n>>), lists, g, Spliced(lists[g], j, <<n>>))
    BY <1>1, <1>3, <2>1, BeforeChanges
  <2> HIDE DEF g, i
  <2>4. /\ Place(kind, g, lists[g], j) \in Cells /\ mem.prev[c] = Place(kind, g, lists[g], j)
        /\ On(lists, Place(kind, g, lists[g], j))
    BY <2>1, <2>2, <2>3, <1>1, Neighbours
  <2>5. mem.next[c] # n /\ mem.prev[c] # n
    BY <2>2, <2>4, <1>3, <1>4
  <2>6. Puts(a, mem, mem.prev[c], n, c)
    BY <2>1, <2>4, <2>5, <1>1, <1>3, ChainPuts
  <2> HIDE DEF a
  <2>7. Sound(a, InsertBefore(lists, c, <<n>>), {})
    BY <2>1, <2>2, <2>3, <2>4, <2>6, <1>1, PutSound DEF g
  <2> QED BY <2>7, <1>7, CallKeeps DEF a
<1> QED BY <1>2, <1>5, <1>6, <1>7

\* Where an entry is, and what is before and behind it.
LEMMA EntryLinks ==
  ASSUME Types, Follows(kind, mem, lists), NEW n \in Entries(lists)
  PROVE  LET g == Home(lists, n)
             i == At(lists, n)
         IN  /\ g \in DOMAIN lists /\ i \in 1..Len(lists[g]) /\ lists[g][i] = n /\ n \in Nodes
             /\ Changes(Without(lists, n), lists, g, RemoveAt(lists[g], i))
             /\ Place(kind, g, lists[g], i - 1) = mem.prev[n] /\ Place(kind, g, lists[g], i + 1) = mem.next[n]
             /\ mem.prev[n] \in Cells /\ On(lists, mem.prev[n]) /\ mem.next[mem.prev[n]] = n
             /\ mem.next[n] # Null => mem.next[n] \in Cells /\ On(lists, mem.next[n])
             /\ kind = "ring" => mem.next[n] # Null
<1> DEFINE g == Home(lists, n)
           i == At(lists, n)
<1>1. kind \in Kinds /\ Apart(lists)
  BY DEF Types
<1>2. n \in Nodes /\ On(lists, n) /\ n # Null
  BY <1>1, EntryAt, CellsAssumption DEF On, Cells
<1>3. i \in 1..Len(lists[g]) /\ lists[g][i] = n
  BY <1>1, HomeAt
<1>4. /\ g \in DOMAIN lists /\ Place(kind, g, lists[g], i) = n /\ Place(kind, g, lists[g], i + 1) = mem.next[n]
      /\ mem.next[n] # Null => mem.next[n] \in Cells /\ On(lists, mem.next[n])
      /\ kind = "ring" => mem.next[n] # Null
  BY <1>2, CellLinks
<1>5. Len(lists[g]) \in Nat
  BY <1>1, <1>4, EntryAt
<1>6. i - 1 \in 0..Len(lists[g]) /\ (i - 1) + 1 = i
  BY <1>3, <1>5
<1> HIDE DEF g, i
<1>7. /\ Place(kind, g, lists[g], i - 1) \in Cells /\ On(lists, Place(kind, g, lists[g], i - 1))
      /\ mem.next[Place(kind, g, lists[g], i - 1)] = n
      /\ mem.prev[n] = Place(kind, g, lists[g], i - 1)
  BY <1>1, <1>2, <1>4, <1>6, Neighbours
<1>8. Changes(Without(lists, n), lists, g, RemoveAt(lists[g], i))
  BY <1>1, <1>3, <1>4, WithoutChanges
<1> QED BY <1>2, <1>3, <1>4, <1>7, <1>8 DEF g, i

\* A call that takes an entry off its list.
LEMMA TakeSound ==
  ASSUME Types, Walking, Follows(kind, mem, lists), NEW n \in Removable,
         NEW a, Takes(a, mem, mem.prev[n], n, mem.next[n]),
         NEW q, q = {} \/ (q = {n} /\ Stays(kind, a, n))
  PROVE  Sound(a, Without(lists, n), q)
<1> DEFINE g == Home(lists, n)
           i == At(lists, n)
           l == Without(lists, n)
<1>1. kind \in Kinds /\ Apart(lists)
  BY DEF Types
<1>2. /\ n \in Nodes /\ n \in Entries(lists) /\ n \notin fake
      /\ \A w : walk = <<w>> /\ w.head = g => w.safe /\ w.pos = n
      /\ \A w : walk = <<w>> => w.head \in DOMAIN lists
  BY CallerFacts
<1>3. /\ g \in DOMAIN lists /\ i \in 1..Len(lists[g]) /\ lists[g][i] = n
      /\ Changes(l, lists, g, RemoveAt(lists[g], i))
      /\ Place(kind, g, lists[g], i - 1) = mem.prev[n] /\ Place(kind, g, lists[g], i + 1) = mem.next[n]
  BY <1>2, EntryLinks
<1> HIDE DEF g, i, l
<1>4. Leads(kind, mem, lists, a, l, {}) /\ Entries(l) = Entries(lists) \ {n}
  <2>1. Takes(a, mem, Place(kind, g, lists[g], i - 1), n, Place(kind, g, lists[g], i + 1))
    BY <1>3
  <2>2. n = lists[g][i] /\ g \in DOMAIN lists /\ i \in 1..Len(lists[g]) /\ Changes(l, lists, g, RemoveAt(lists[g], i))
    BY <1>3
  <2> QED BY <2>1, <2>2, <1>1, TakeLeads
<1>5. \A w : walk = <<w>> => Spares(lists, l, w)
  BY <1>2, <1>3 DEF Spares, Changes
<1>6. q \subseteq Nodes /\ q \cap fake = {} /\ \A x \in q : Stays(kind, a, x)
  BY <1>2
<1> QED BY <1>4, <1>5, <1>6 DEF Sound, l

\* Taking an entry that is on no list off it leaves the lists alone.
LEMMA WithoutOther ==
  ASSUME Types, NEW n, n \notin Entries(lists)
  PROVE  /\ DOMAIN Without(lists, n) = DOMAIN lists
         /\ \A h \in DOMAIN lists : Without(lists, n)[h] = lists[h]
<1>1. Apart(lists)
  BY DEF Types
<1>2. \A h \in DOMAIN lists : n \notin ToSet(lists[h])
  BY <1>1, EntryAt
<1> QED BY <1>1, <1>2, WithoutChanges

\* list_del, list_del_init.
LEMMA RingDelKeeps ==
  ASSUME IInv, RingDel
  PROVE  IInv'
<1>1. Types /\ Walking /\ kind \in Kinds /\ Apart(lists) /\ mem \in Memories /\ Follows(kind, mem, lists)
      /\ OutsideKnown
  BY DEF IInv, Types
<1>2. kind = "ring"
  BY DEF RingDel, RingCall
<1>3. \A n \in Removable : n \in Nodes /\ n \in Entries(lists) /\ mem.next[n] \in Cells /\ mem.prev[n] \in Cells
  BY <1>1, <1>2, CallerFacts, EntryLinks
<1>4. ASSUME NEW n \in Removable, RingCall(list_del(mem, n), Without(lists, n), {})
      PROVE  IInv'
  <2>1. Takes(list_del(mem, n), mem, mem.prev[n], n, mem.next[n])
    BY <1>1, <1>3, RingTakes
  <2>2. Sound(list_del(mem, n), Without(lists, n), {})
    BY <2>1, <1>1, TakeSound
  <2> QED BY <2>2, <1>4, CallKeeps
<1>5. ASSUME NEW n \in Removable, RingCall(list_del_init(mem, n), Without(lists, n), {n})
      PROVE  IInv'
  <2>1. /\ Takes(list_del_init(mem, n), mem, mem.prev[n], n, mem.next[n])
        /\ list_del_init(mem, n).next[n] = n /\ list_del_init(mem, n).prev[n] = n
    BY <1>1, <1>3, RingTakes
  <2>2. Stays(kind, list_del_init(mem, n), n)
    BY <2>1, <1>2 DEF Stays
  <2>3. Sound(list_del_init(mem, n), Without(lists, n), {n})
    BY <2>1, <2>2, <1>1, TakeSound
  <2> QED BY <2>3, <1>5, CallKeeps
<1>6. ASSUME NEW n \in idle, RingCall(list_del_init(mem, n), Without(lists, n), {n})
      PROVE  IInv'
  <2> DEFINE a == list_del_init(mem, n)
             l == Without(lists, n)
  <2>1. n \in Nodes /\ n \in Cells /\ n \notin Entries(lists) /\ n \notin fake
    BY <1>1 DEF Types, Cells
  <2>2. mem.next[n] = n /\ mem.prev[n] = n
    BY <1>1, <1>2 DEF OutsideKnown
  <2>3. Takes(a, mem, n, n, n) /\ a.next[n] = n /\ a.prev[n] = n
    BY <2>1, <2>2, <1>1, RingTakes
  <2> HIDE DEF a
  <2>4. a \in Memories /\ \A c \in Cells \ {n} : a.next[c] = mem.next[c] /\ a.prev[c] = mem.prev[c]
    BY <2>3 DEF Takes
  <2>5. Stays(kind, a, n)
    BY <2>3, <1>2 DEF Stays
  <2>6. DOMAIN l = DOMAIN lists /\ \A h \in DOMAIN lists : l[h] = lists[h]
    BY <2>1, <1>1, WithoutOther
  <2> HIDE DEF l
  <2>7. Sound(a, l, {n})
    BY <2>1, <2>4, <2>5, <2>6, <1>1, OutsideSound
  <2> QED BY <2>7, <1>6, CallKeeps DEF a, l
<1> QED BY <1>4, <1>5, <1>6 DEF RingDel

\* hlist_del, hlist_del_init.
LEMMA ChainDelKeeps ==
  ASSUME IInv, ChainDel
  PROVE  IInv'
<1>1. Types /\ Walking /\ kind \in Kinds /\ Apart(lists) /\ mem \in Memories /\ Follows(kind, mem, lists)
      /\ OutsideKnown
  BY DEF IInv, Types
<1>2. kind = "chain"
  BY DEF ChainDel, ChainCall
<1>3. \A n \in Removable : n \in Nodes /\ n \in Entries(lists) /\ mem.prev[n] \in Cells
  BY <1>1, CallerFacts, EntryLinks
<1>4. \A n \in fake \cup idle : n \in Nodes /\ n \in Cells /\ n \notin Entries(lists)
  BY <1>1 DEF Types, Cells
<1>5. /\ \A n \in idle : mem.next[n] = Null /\ mem.prev[n] = Null
      /\ \A n \in fake : mem.next[n] = Null /\ mem.prev[n] = n
  BY <1>1, <1>2 DEF OutsideKnown
<1>6. \A c \in Cells : c # Null
  BY CellsAssumption
<1>7. ASSUME NEW n \in Removable PROVE Sound(hlist_del(mem, n), Without(lists, n), {n})
  <2>1. /\ Takes(hlist_del(mem, n), mem, mem.prev[n], n, mem.next[n])
        /\ hlist_del(mem, n).next[n] = Null /\ hlist_del(mem, n).prev[n] = Null
    BY <1>1, <1>3, ChainTakes
  <2>2. Stays(kind, hlist_del(mem, n), n)
    BY <2>1, <1>2 DEF Stays
  <2> QED BY <2>1, <2>2, <1>1, TakeSound
<1>8. ASSUME NEW n \in fake PROVE Sound(hlist_del(mem, n), Without(lists, n), {n})
  <2> DEFINE a == hlist_del(mem, n)
             l == Without(lists, n)
  <2>1. Takes(a, mem, n, n, Null) /\ a.next[n] = Null /\ a.prev[n] = Null
    BY <1>1, <1>4, <1>5, ChainTakes
  <2> HIDE DEF a
  <2>2. a \in Memories /\ \A c \in Cells \ {n} : a.next[c] = mem.next[c] /\ a.prev[c] = mem.prev[c]
    BY <2>1, <1>6 DEF Takes
  <2>3. Stays(kind, a, n)
    BY <2>1, <1>2 DEF Stays
  <2>4. DOMAIN l = DOMAIN lists /\ \A h \in DOMAIN lists : l[h] = lists[h]
    BY <1>1, <1>4, WithoutOther
  <2> HIDE DEF l
  <2>5. Sound(a, l, {n})
    BY <2>2, <2>3, <2>4, <1>1, <1>2, <1>4, OutsideSound
  <2> QED BY <2>5 DEF a, l
<1>9. ASSUME NEW n \in idle PROVE Sound(mem, Without(lists, n), {n})
  <2> DEFINE l == Without(lists, n)
  <2>1. Stays(kind, mem, n)
    BY <1>2, <1>5 DEF Stays
  <2>2. DOMAIN l = DOMAIN lists /\ \A h \in DOMAIN lists : l[h] = lists[h]
    BY <1>1, <1>4, WithoutOther
  <2> HIDE DEF l
  <2>3. Sound(mem, l, {n})
    BY <2>1, <2>2, <1>1, <1>2, <1>4, OutsideSound
  <2> QED BY <2>3 DEF l
<1>10. /\ \A n \in Removable \cup fake : hlist_del_init(mem, n) = hlist_del(mem, n)
       /\ \A n \in idle : hlist_del_init(mem, n) = mem
  BY <1>3, <1>4, <1>5, <1>6 DEF hlist_del_init, hlist_unhashed
<1>11. ASSUME NEW n, \/ n \in Removable \cup fake /\ ChainCall(hlist_del(mem, n), Without(lists, n), {n})
                     \/ n \in Removable \cup fake \cup idle /\
                          ChainCall(hlist_del_init(mem, n), Without(lists, n), {n})
       PROVE  IInv'
  <2>1. CASE n \in Removable \cup fake
    <3>1. ChainCall(hlist_del(mem, n), Without(lists, n), {n})
      BY <2>1, <1>10, <1>11
    <3>2. Sound(hlist_del(mem, n), Without(lists, n), {n})
      BY <2>1, <1>7, <1>8
    <3> QED BY <3>1, <3>2, CallKeeps
  <2>2. CASE n \in idle /\ n \notin Removable \cup fake
    <3>1. ChainCall(mem, Without(lists, n), {n})
      BY <2>2, <1>10, <1>11
    <3>2. Sound(mem, Without(lists, n), {n})
      BY <2>2, <1>9
    <3> QED BY <3>1, <3>2, CallKeeps
  <2> QED BY <2>1, <2>2, <1>11
<1> QED BY <1>11 DEF ChainDel

----------------------------------------------------------------------------
(* Moves *)

\* hlist_add_fake.
LEMMA ChainFakeKeeps ==
  ASSUME IInv, ChainFake
  PROVE  IInv'
<1>1. Types /\ Walking /\ kind \in Kinds /\ Apart(lists) /\ mem \in Memories /\ Follows(kind, mem, lists)
      /\ OutsideKnown
  BY DEF IInv, Types
<1>2. PICK n \in idle :
        /\ kind = "chain" /\ mem' = hlist_add_fake(mem, n)
        /\ idle' = idle \ {n} /\ fake' = fake \cup {n} /\ UNCHANGED <<kind, lists, walk>>
  BY DEF ChainFake
<1> DEFINE a == hlist_add_fake(mem, n)
<1>3. n \in Nodes /\ n \in Cells /\ n \notin Entries(lists)
  BY <1>1 DEF Types, Cells
<1>4. /\ a \in Memories /\ \A c \in Cells \ {n} : a.next[c] = mem.next[c] /\ a.prev[c] = mem.prev[c]
      /\ a.next[n] = mem.next[n] /\ a.prev[n] = n
  BY <1>1, <1>3, InitStores
<1>5. ~On(lists, n)
  BY <1>1, <1>3, OnNodes
<1>6. mem' = a
  BY <1>2
<1> HIDE DEF a
<1>7. Leads(kind, mem, lists, a, lists, {n})
  BY <1>1, <1>4, <1>5, ElsewhereLeads
<1>8. Follows(kind, a, lists)
  BY <1>7 DEF Leads
<1>9. Types' /\ Walking' /\ Follows(kind, mem, lists)'
  <2>1. Types'
    BY <1>1, <1>2, <1>3, <1>4, <1>6 DEF Types
  <2>2. Walking'
    BY <1>1, <1>2 DEF Walking
  <2> QED BY <2>1, <2>2, <1>2, <1>6, <1>8
<1>10. OutsideKnown'
  <2>1. kind # "ring" /\ kind' = kind
    BY <1>2
  <2>2. /\ \A x \in idle : mem.next[x] = Null /\ mem.prev[x] = Null /\ x \in Cells
        /\ \A x \in fake : mem.next[x] = Null /\ mem.prev[x] = x /\ x \in Cells
    BY <1>1, <1>2 DEF OutsideKnown, Types, Cells
  <2>3. \A x \in idle \ {n} : a.next[x] = Null /\ a.prev[x] = Null
    BY <2>2, <1>4
  <2>4. \A x \in fake \cup {n} : a.next[x] = Null /\ a.prev[x] = x
    BY <2>2, <1>4
  <2> QED BY <2>1, <2>3, <2>4, <1>2, <1>6 DEF OutsideKnown
<1> QED BY <1>9, <1>10 DEF IInv

\* The cells that stay keep their list.
LEMMA HomeKept ==
  ASSUME NEW l, Apart(l), NEW g \in DOMAIN l, NEW i \in 1..Len(l[g]),
         NEW l1, Apart(l1), Changes(l1, l, g, RemoveAt(l[g], i)), NEW c, On(l1, c)
  PROVE  Home(l1, c) = Home(l, c)
<1> DEFINE h == Home(l1, c)
           j == At(l1, c)
<1>1. "ring" \in Kinds
  BY DEF Kinds
<1>2. /\ DOMAIN l1 = DOMAIN l /\ l1[g] = RemoveAt(l[g], i)
      /\ \A f \in DOMAIN l \ {g} : l1[f] = l[f]
  BY DEF Changes
<1>3. CASE c \in Heads
  BY <1>3 DEF Home
<1>4. CASE c \notin Heads
  <2>1. c \in Entries(l1)
    BY <1>4 DEF On, Apart
  <2>2. h \in DOMAIN l1 /\ j \in 1..Len(l1[h]) /\ l1[h][j] = c
    BY <2>1, <1>1, HomeAt DEF On
  <2>3. l[g] \in Seq(Nodes) /\ Len(l[g]) \in Nat
    BY DEF Apart
  <2>4. /\ Len(l1[g]) = Len(l[g]) - 1
        /\ \A p \in 1..Len(l[g]) - 1 : l1[g][p] = IF p < i THEN l[g][p] ELSE l[g][p + 1]
    BY <2>3, <1>2, RemoveFacts
  <2> HIDE DEF h, j
  <2>5. \E p \in 1..Len(l[h]) : l[h][p] = c
    <3>1. CASE h = g
      <4>1. j \in 1..Len(l[g]) - 1 /\ j \in 1..Len(l[g]) /\ j + 1 \in 1..Len(l[g])
        BY <3>1, <2>2, <2>3, <2>4
      <4>2. c = l[g][j] \/ c = l[g][j + 1]
        BY <4>1, <3>1, <2>2, <2>4
      <4> QED BY <4>1, <4>2, <3>1
    <3>2. CASE h # g
      BY <3>2, <2>2, <1>2
    <3> QED BY <3>1, <3>2
  <2>6. h \in DOMAIN l
    BY <2>2, <1>2
  <2>7. PICK p \in 1..Len(l[h]) : l[h][p] = c
    BY <2>5
  <2>8. Home(l, c) = h
    BY <2>6, <2>7, <1>1, HomeAt
  <2> QED BY <2>8 DEF h
<1> QED BY <1>3, <1>4

\* An entry leaves its list, and goes elsewhere in a ring.
LEMMA MoveTakes ==
  ASSUME Types, Walking, Follows(kind, mem, lists), kind = "ring", NEW n \in Removable, NEW c \in Linked \ {n}
  PROVE  LET m1 == list_unlink(mem, n)
             l1 == Without(lists, n)
         IN  /\ Leads(kind, mem, lists, m1, l1, {}) /\ Apart(l1) /\ m1 \in Memories /\ Follows(kind, m1, l1)
             /\ n \in Nodes /\ n \notin Entries(l1) /\ On(l1, c) /\ c \in Cells /\ Home(l1, c) \in Calm
             /\ Home(l1, c) \in DOMAIN l1 /\ At(l1, c) \in 0..Len(l1[Home(l1, c)])
             /\ Place(kind, Home(l1, c), l1[Home(l1, c)], At(l1, c)) = c
             /\ \A w : walk = <<w>> => w.head \in DOMAIN lists /\ Spares(lists, l1, w)
             /\ DOMAIN l1 = DOMAIN lists
<1> DEFINE g == Home(lists, n)
           i == At(lists, n)
           l1 == Without(lists, n)
           m1 == list_unlink(mem, n)
<1>1. kind \in Kinds /\ Apart(lists) /\ mem \in Memories
  BY DEF Types
<1>2. /\ n \in Nodes /\ n \in Entries(lists)
      /\ \A w : walk = <<w>> /\ w.head = g => w.safe /\ w.pos = n
      /\ \A w : walk = <<w>> => w.head \in DOMAIN lists
  BY CallerFacts
<1>3. c \in Cells /\ On(lists, c) /\ Home(lists, c) \in Calm /\ c # n
  BY CallerFacts
<1>4. /\ g \in DOMAIN lists /\ i \in 1..Len(lists[g]) /\ lists[g][i] = n
      /\ Changes(l1, lists, g, RemoveAt(lists[g], i))
      /\ Place(kind, g, lists[g], i - 1) = mem.prev[n] /\ Place(kind, g, lists[g], i + 1) = mem.next[n]
      /\ mem.prev[n] \in Cells /\ mem.next[n] \in Cells
  BY <1>2, EntryLinks
<1>5. Takes(m1, mem, mem.prev[n], n, mem.next[n])
  BY <1>1, <1>2, <1>4, RingTakes
<1> HIDE DEF g, i, l1, m1
<1>6. Leads(kind, mem, lists, m1, l1, {}) /\ Entries(l1) = Entries(lists) \ {n}
  <2>1. Takes(m1, mem, Place(kind, g, lists[g], i - 1), n, Place(kind, g, lists[g], i + 1))
    BY <1>4, <1>5
  <2>2. n = lists[g][i] /\ g \in DOMAIN lists /\ i \in 1..Len(lists[g]) /\ Changes(l1, lists, g, RemoveAt(lists[g], i))
    BY <1>4
  <2> QED BY <2>1, <2>2, <1>1, TakeLeads
<1>7. Apart(l1) /\ m1 \in Memories /\ Follows(kind, m1, l1)
  BY <1>6 DEF Leads
<1>8. DOMAIN l1 = DOMAIN lists /\ l1[g] = RemoveAt(lists[g], i) /\ \A f \in DOMAIN lists \ {g} : l1[f] = lists[f]
  BY <1>4 DEF Changes
<1>9. On(l1, c)
  BY <1>3, <1>6, <1>8 DEF On
<1>10. Home(l1, c) = Home(lists, c)
  BY <1>1, <1>4, <1>7, <1>9, HomeKept
<1>11. /\ Home(l1, c) \in DOMAIN l1 /\ At(l1, c) \in 0..Len(l1[Home(l1, c)])
       /\ Place(kind, Home(l1, c), l1[Home(l1, c)], At(l1, c)) = c
  BY <1>1, <1>7, <1>9, HomeAt
<1>12. \A w : walk = <<w>> => w.head \in DOMAIN lists /\ Spares(lists, l1, w)
  BY <1>2, <1>4, <1>8 DEF Spares
<1> QED BY <1>2, <1>3, <1>6, <1>7, <1>8, <1>9, <1>10, <1>11, <1>12 DEF l1, m1

\* An entry is taken from its list and put in elsewhere.
LEMMA MoveSound ==
  ASSUME Types, Walking, Follows(kind, mem, lists), kind = "ring", NEW n \in Removable, NEW c \in Linked \ {n},
         NEW l1, l1 = Without(lists, n), NEW g, g = Home(l1, c), NEW j \in 0..Len(l1[g]),
         NEW l, Changes(l, l1, g, Spliced(l1[g], j, <<n>>)),
         NEW m1, m1 = list_unlink(mem, n),
         NEW a, Puts(a, m1, Place(kind, g, l1[g], j), n, Place(kind, g, l1[g], j + 1))
  PROVE  Sound(a, l, {})
<1>1. kind \in Kinds /\ Apart(lists)
  BY DEF Types
<1>2. /\ Leads(kind, mem, lists, m1, l1, {}) /\ Apart(l1) /\ Follows(kind, m1, l1)
      /\ n \in Nodes /\ n \notin Entries(l1) /\ g \in Calm /\ g \in DOMAIN l1
      /\ \A w : walk = <<w>> => w.head \in DOMAIN lists /\ Spares(lists, l1, w)
      /\ DOMAIN l1 = DOMAIN lists
  BY MoveTakes
<1>3. n \in Entries(lists) /\ n \notin fake /\ \A w : walk = <<w>> => w.head # g
  BY <1>2, CallerFacts
<1>4. Leads(kind, m1, l1, a, l, {n})
  BY <1>1, <1>2, PutLeads
<1>5. Leads(kind, mem, lists, a, l, {} \cup {n})
  BY <1>2, <1>4, LeadsOn
<1>6. \A w : walk = <<w>> => Spares(lists, l, w)
  BY <1>2, <1>3 DEF Spares, Changes
<1> QED BY <1>2, <1>3, <1>5, <1>6 DEF Sound

\* list_move, list_move_tail.
LEMMA RingMoveKeeps ==
  ASSUME IInv, RingMove
  PROVE  IInv'
<1>1. Types /\ Walking /\ kind \in Kinds /\ Apart(lists) /\ mem \in Memories /\ Follows(kind, mem, lists)
  BY DEF IInv, Types
<1>2. PICK n \in Removable : \E c \in Linked \ {n} :
        \/ RingCall(list_move(mem, n, c), InsertAfter(Without(lists, n), c, <<n>>), {})
        \/ RingCall(list_move_tail(mem, n, c), InsertBefore(Without(lists, n), c, <<n>>), {})
  BY DEF RingMove
<1>3. PICK c \in Linked \ {n} :
        \/ RingCall(list_move(mem, n, c), InsertAfter(Without(lists, n), c, <<n>>), {})
        \/ RingCall(list_move_tail(mem, n, c), InsertBefore(Without(lists, n), c, <<n>>), {})
  BY <1>2
<1>4. kind = "ring"
  BY <1>3 DEF RingCall
<1> DEFINE m1 == list_unlink(mem, n)
           l1 == Without(lists, n)
           g == Home(l1, c)
           i == At(l1, c)
<1>5. /\ Apart(l1) /\ m1 \in Memories /\ Follows(kind, m1, l1) /\ n \in Nodes /\ On(l1, c)
      /\ g \in DOMAIN l1 /\ i \in 0..Len(l1[g]) /\ Place(kind, g, l1[g], i) = c /\ c \in Cells /\ c # n
  BY <1>1, <1>4, MoveTakes
<1>6. list_move(mem, n, c) = list_add(m1, n, c) /\ list_move_tail(mem, n, c) = list_add_tail(m1, n, c)
  BY DEF list_move, list_move_tail
<1>7. c # Null /\ <<n>> \in Seq(Nodes)
  BY <1>5, CellsAssumption
<1> HIDE DEF m1, l1, g, i
<1>8. CASE RingCall(list_add(m1, n, c), InsertAfter(l1, c, <<n>>), {})
  <2>1. Changes(InsertAfter(l1, c, <<n>>), l1, g, Spliced(l1[g], i, <<n>>))
    BY <1>1, <1>5, AfterChanges DEF g, i
  <2>2. Place(kind, g, l1[g], i + 1) = m1.next[c] /\ m1.next[c] \in Cells
    BY <1>1, <1>4, <1>5, Neighbours
  <2>3. Puts(list_add(m1, n, c), m1, c, n, m1.next[c])
    BY <2>2, <1>5, RingPuts
  <2>4. Puts(list_add(m1, n, c), m1, Place(kind, g, l1[g], i), n, Place(kind, g, l1[g], i + 1))
    BY <2>2, <2>3, <1>5
  <2>5. Sound(list_add(m1, n, c), InsertAfter(l1, c, <<n>>), {})
    BY <2>1, <2>4, <1>1, <1>4, <1>5, MoveSound DEF g, l1, m1
  <2> QED BY <2>5, <1>8, CallKeeps
<1>9. CASE RingCall(list_add_tail(m1, n, c), InsertBefore(l1, c, <<n>>), {})
  <2>1. PICK j \in 0..Len(l1[g]) :
           /\ Place(kind, g, l1[g], j + 1) = c
           /\ Changes(InsertBefore(l1, c, <<n>>), l1, g, Spliced(l1[g], j, <<n>>))
    BY <1>1, <1>4, <1>5, <1>7, BeforeChanges DEF g
  <2>2. Place(kind, g, l1[g], j) \in Cells /\ m1.prev[c] = Place(kind, g, l1[g], j)
    BY <2>1, <1>1, <1>5, <1>7, Neighbours
  <2>3. Puts(list_add_tail(m1, n, c), m1, m1.prev[c], n, c)
    BY <2>2, <1>5, RingPuts
  <2>4. Puts(list_add_tail(m1, n, c), m1, Place(kind, g, l1[g], j), n, Place(kind, g, l1[g], j + 1))
    BY <2>1, <2>2, <2>3
  <2>5. Sound(list_add_tail(m1, n, c), InsertBefore(l1, c, <<n>>), {})
    BY <2>1, <2>4, <1>1, <1>4, <1>5, MoveSound DEF g, l1, m1
  <2> QED BY <2>5, <1>9, CallKeeps
<1> QED BY <1>3, <1>6, <1>8, <1>9 DEF l1

\* The cells at the ends of a ring.
LEMMA RingEnds ==
  ASSUME Types, Follows(kind, mem, lists), kind = "ring", NEW h \in DOMAIN lists
  PROVE  LET s == lists[h]
         IN  /\ h \in Heads /\ h \in Cells /\ s \in Seq(Nodes) /\ Len(s) \in Nat
             /\ s = <<>> => mem.next[h] = h /\ mem.prev[h] = h
             /\ s # <<>> => /\ Len(s) >= 1 /\ mem.next[h] = s[1] /\ mem.prev[h] = s[Len(s)]
                            /\ s[1] \in Nodes /\ s[Len(s)] \in Nodes /\ s[1] \in Entries(lists)
                            /\ Home(lists, s[1]) = h /\ At(lists, s[1]) = 1
                            /\ mem.prev[s[1]] = h /\ mem.next[s[Len(s)]] = h
             /\ list_empty(mem, h) <=> s = <<>>
<1> DEFINE s == lists[h]
           N == Len(s)
<1>1. kind \in Kinds /\ Apart(lists)
  BY DEF Types
<1>2. /\ h \in Heads /\ h \in Cells /\ s \in Seq(Nodes) /\ N \in Nat /\ h # Null /\ h \notin Nodes
      /\ \A i \in 1..N : s[i] \in Nodes /\ s[i] \in Entries(lists) /\ Home(lists, s[i]) = h /\ At(lists, s[i]) = i
  BY <1>1, EntryAt, HomeAt, CellsAssumption DEF Apart
<1>3. /\ Place(kind, h, s, 0) = h /\ Place(kind, h, s, N + 1) = h
      /\ \A i \in 1..N : Place(kind, h, s, i) = s[i]
  BY <1>1, PlaceFacts
<1>4. ASSUME NEW i \in 0..N
      PROVE  /\ mem.next[Place(kind, h, s, i)] = Place(kind, h, s, i + 1)
             /\ mem.prev[Place(kind, h, s, i + 1)] = Place(kind, h, s, i)
  BY <1>1, Neighbours
<1>5. 0 \in 0..N /\ N \in 0..N /\ 0 + 1 = 1
  BY <1>2
<1>6. s = <<>> <=> N = 0
  BY <1>2
<1> HIDE DEF s, N
<1>7. /\ mem.next[h] = Place(kind, h, s, 1) /\ mem.prev[h] = Place(kind, h, s, N)
      /\ mem.prev[Place(kind, h, s, 1)] = h /\ mem.next[Place(kind, h, s, N)] = h
  BY <1>3, <1>4, <1>5
<1>8. CASE s = <<>>
  <2>1. N + 1 = 1 /\ N = 0
    BY <1>6, <1>8
  <2>2. mem.next[h] = h /\ mem.prev[h] = h
    BY <2>1, <1>3, <1>7
  <2> QED BY <2>2, <1>2, <1>8 DEF s, N, list_empty
<1>9. CASE s # <<>>
  <2>1. N >= 1 /\ 1 \in 1..N /\ N \in 1..N
    BY <1>2, <1>6, <1>9
  <2>2. Place(kind, h, s, 1) = s[1] /\ Place(kind, h, s, N) = s[N]
    BY <2>1, <1>3
  <2>3. s[1] # h
    BY <2>1, <1>2
  <2> QED BY <2>1, <2>2, <2>3, <1>2, <1>7, <1>9 DEF s, N, list_empty
<1> QED BY <1>8, <1>9

\* A rotation takes the first entry and adds it behind the last one.
LEMMA RotatedIs ==
  ASSUME NEW S, NEW s \in Seq(S), s # <<>>
  PROVE  Append(Tail(s), Head(s)) = Spliced(RemoveAt(s, 1), Len(RemoveAt(s, 1)), <<s[1]>>)
<1> DEFINE N == Len(s)
           t == RemoveAt(s, 1)
           x == <<s[1]>>
           u == Append(Tail(s), Head(s))
           v == Spliced(t, Len(t), x)
<1>1. N \in Nat /\ N # 0 /\ 1 \in 1..N /\ s[1] \in S /\ Head(s) = s[1]
  OBVIOUS
<1>2. t \in Seq(S) /\ Len(t) = N - 1 /\ \A q \in 1..N - 1 : t[q] = IF q < 1 THEN s[q] ELSE s[q + 1]
  BY <1>1, RemoveFacts
<1>3. Tail(s) \in Seq(S) /\ Len(Tail(s)) = N - 1 /\ \A q \in 1..N - 1 : Tail(s)[q] = s[q + 1]
  BY <1>1
<1>4. x \in Seq(S) /\ Len(x) = 1 /\ x[1] = s[1]
  BY <1>1
<1> HIDE DEF t, x
<1>5. u \in Seq(S) /\ Len(u) = N /\ u[N] = s[1] /\ \A q \in 1..N - 1 : u[q] = s[q + 1]
  BY <1>1, <1>3
<1>6. Len(t) \in 0..Len(t)
  BY <1>1, <1>2
<1>7. /\ v \in Seq(S) /\ Len(v) = Len(t) + Len(x)
      /\ \A j \in 1..Len(t) + Len(x) : v[j] = IF j <= Len(t) THEN t[j]
                                               ELSE IF j <= Len(t) + Len(x) THEN x[j - Len(t)] ELSE t[j - Len(x)]
  <2>1. t \in Seq(S) /\ x \in Seq(S) /\ Len(t) \in 0..Len(t)
    BY <1>2, <1>4, <1>6
  <2> QED BY ONLY <2>1, SplicedFacts
<1> HIDE DEF u, v
<1>8. ASSUME NEW j \in 1..N PROVE u[j] = v[j]
  <2>1. CASE j = N
    <3>1. j \in 1..Len(t) + Len(x) /\ ~(j <= Len(t)) /\ j <= Len(t) + Len(x) /\ j - Len(t) = 1
      BY <2>1, <1>1, <1>2, <1>4
    <3>2. v[j] = x[1]
      BY <3>1, <1>7
    <3> QED BY <3>2, <2>1, <1>4, <1>5
  <2>2. CASE j # N
    <3>1. j \in 1..Len(t) + Len(x) /\ j <= Len(t) /\ j \in 1..N - 1 /\ ~(j < 1)
      BY <2>2, <1>1, <1>2, <1>4
    <3>2. v[j] = t[j]
      BY <3>1, <1>7
    <3>3. t[j] = s[j + 1]
      BY <3>1, <1>2
    <3> QED BY <3>1, <3>2, <3>3, <1>5
  <2> QED BY <2>1, <2>2
<1>9. Len(u) = Len(v) /\ \A j \in 1..Len(u) : u[j] = v[j]
  BY <1>1, <1>2, <1>4, <1>5, <1>7, <1>8
<1>10. u = v
  BY <1>5, <1>7, <1>9, SameSeq
<1> QED BY <1>10 DEF u, v, t, x

\* list_rotate_left: the first entry is moved to the end.
LEMMA RingRotateKeeps ==
  ASSUME IInv, RingRotate
  PROVE  IInv'
<1>1. Types /\ Walking /\ kind \in Kinds /\ Apart(lists) /\ mem \in Memories /\ Follows(kind, mem, lists)
  BY DEF IInv, Types
<1>2. PICK h \in Calm : RingCall(list_rotate_left(mem, h),
        [lists EXCEPT ![h] = IF @ = <<>> THEN @ ELSE Append(Tail(@), Head(@))], {})
  BY DEF RingRotate
<1> DEFINE l == [lists EXCEPT ![h] = IF @ = <<>> THEN @ ELSE Append(Tail(@), Head(@))]
           s == lists[h]
           n == s[1]
<1>3. kind = "ring"
  BY <1>2 DEF RingCall
<1>4. h \in Heads /\ h \in Cells /\ h \in DOMAIN lists /\ (\A w : walk = <<w>> => w.head # h) /\ h \in Linked
      /\ \A w : walk = <<w>> => w.head \in DOMAIN lists
  BY <1>1, CallerFacts DEF Linked, Cells
<1>5. /\ DOMAIN l = DOMAIN lists /\ \A g \in DOMAIN lists \ {h} : l[g] = lists[g]
      /\ l[h] = IF s = <<>> THEN s ELSE Append(Tail(s), Head(s))
  BY <1>4
<1>6. /\ s \in Seq(Nodes)
      /\ s # <<>> => /\ mem.next[h] = n /\ n \in Nodes /\ n \in Entries(lists)
                     /\ Home(lists, n) = h /\ At(lists, n) = 1
      /\ list_empty(mem, h) <=> s = <<>>
  BY <1>1, <1>3, <1>4, RingEnds
<1> HIDE DEF l
<1>7. CASE s = <<>>
  <2>1. list_rotate_left(mem, h) = mem
    BY <1>6, <1>7 DEF list_rotate_left
  <2>2. \A g \in DOMAIN lists : l[g] = lists[g]
    BY <1>5, <1>7
  <2>3. Leads(kind, mem, lists, mem, l, {})
    BY <2>2, <1>1, <1>5, ElsewhereLeads
  <2>4. \A w : walk = <<w>> => Spares(lists, l, w)
    BY <1>4, <1>5 DEF Spares
  <2>5. Sound(mem, l, {})
    BY <2>3, <2>4 DEF Sound
  <2> QED BY <2>1, <2>5, <1>2, CallKeeps DEF l
<1>8. CASE s # <<>>
  <2> DEFINE m1 == list_unlink(mem, n)
             l1 == Without(lists, n)
             j == Len(l1[h])
             a == list_add_tail(m1, n, h)
  <2>1. list_rotate_left(mem, h) = a
    BY <1>6, <1>8 DEF list_rotate_left, list_move_tail
  <2>2. n \in Removable /\ n \in Nodes /\ h \in Linked \ {n} /\ n # h
    <3>1. n \in ToSet(lists[h])
      <4>1. 1 \in 1..Len(s)
        BY <1>6, <1>8
      <4> QED BY <4>1, <1>1, <1>4, EntryAt
    <3>2. n \in Entries([f \in Calm |-> lists[f]])
      BY <3>1 DEF Entries
    <3>3. n \in Linked \cap Nodes
      BY <3>2, <1>6, <1>8 DEF Linked
    <3> QED BY <3>3, <1>4, <1>6, <1>8, CellsAssumption DEF Removable
  <2> HIDE DEF n
  <2>3. /\ Apart(l1) /\ m1 \in Memories /\ Follows(kind, m1, l1) /\ DOMAIN l1 = DOMAIN lists
    BY <2>2, <1>1, <1>3, MoveTakes
  <2>4. Home(l1, h) = h
    BY <1>4 DEF Home
  <2>5. l1[h] = RemoveAt(s, 1) /\ \A g \in DOMAIN lists \ {h} : l1[g] = lists[g]
    <3>1. Changes(l1, lists, h, RemoveAt(s, 1))
      BY <1>1, <1>6, <1>8, EntryLinks
    <3> QED BY <3>1 DEF Changes
  <2>6. l[h] = Spliced(l1[h], j, <<n>>)
    <3>1. Append(Tail(s), Head(s)) = Spliced(RemoveAt(s, 1), Len(RemoveAt(s, 1)), <<s[1]>>)
      BY <1>6, <1>8, RotatedIs
    <3> QED BY <3>1, <2>5, <1>5, <1>8 DEF n
  <2>7. Changes(l, l1, h, Spliced(l1[h], j, <<n>>))
    BY <2>3, <2>5, <2>6, <1>4, <1>5 DEF Changes
  <2>8. Len(l1[h]) \in Nat
    BY <2>3, <1>4, EntryAt
  <2>9. j \in 0..Len(l1[h]) /\ Place(kind, h, l1[h], j + 1) = h
    BY <2>3, <2>8, <1>1, <1>3, <1>4, PlaceFacts
  <2> HIDE DEF m1, l1, a, j
  <2>10. Place(kind, h, l1[h], j) \in Cells /\ m1.prev[h] = Place(kind, h, l1[h], j)
    <3>1. h # Null
      BY <1>4, CellsAssumption
    <3> QED BY <3>1, <2>3, <2>9, <1>1, <1>4, Neighbours
  <2>11. Puts(a, m1, m1.prev[h], n, h)
    BY <2>2, <2>3, <2>10, <1>4, RingPuts DEF a
  <2>12. Puts(a, m1, Place(kind, h, l1[h], j), n, Place(kind, h, l1[h], j + 1))
    BY <2>9, <2>10, <2>11
  <2>13. h = Home(l1, h) /\ l1 = Without(lists, n) /\ m1 = list_unlink(mem, n)
    BY <2>4 DEF l1, m1
  <2>14. Sound(a, l, {})
    BY <2>2, <2>7, <2>9, <2>12, <2>13, <1>1, <1>3, MoveSound
  <2> QED BY <2>1, <2>14, <1>2, CallKeeps DEF l
<1> QED BY <1>7, <1>8

----------------------------------------------------------------------------
(* Replacement *)

\* list_replace puts the new cell between the neighbours of the old one; of an
\* empty list it makes an empty list.
LEMMA ReplaceStores ==
  ASSUME NEW m \in Memories, NEW old \in Cells, NEW n \in Cells, n # old,
         m.next[old] \in Cells, m.prev[old] \in Cells
  PROVE  /\ m.next[old] # old => Puts(list_replace(m, old, n), m, m.prev[old], n, m.next[old])
         /\ m.next[old] = old =>
              LET a == list_replace(m, old, n)
              IN  /\ a \in Memories
                  /\ \A c \in Cells \ {n} : a.next[c] = m.next[c]
                  /\ \A c \in Cells \ {n, old} : a.prev[c] = m.prev[c]
                  /\ a.next[n] = n /\ a.prev[n] = n
<1> DEFINE a == list_replace(m, old, n)
           e == m.next[old]
           m1 == [m EXCEPT !.next[n] = e, !.prev[e] = n]
           b == m1.prev[old]
<1>1. /\ m1.next = [m.next EXCEPT ![n] = e] /\ m1.prev = [m.prev EXCEPT ![e] = n]
      /\ m1 \in Memories /\ b \in Cells
  BY DEF Memories
<1>2. a = [m1 EXCEPT !.prev[n] = b, !.next[b] = n]
  BY DEF list_replace
<1> HIDE DEF a, m1
<1>3. a.next = [m1.next EXCEPT ![b] = n] /\ a.prev = [m1.prev EXCEPT ![n] = b] /\ a \in Memories
  BY <1>1, <1>2 DEF Memories
<1>4. m.next \in [Cells -> Cells \cup {Null}] /\ m.prev \in [Cells -> Cells \cup {Null}]
      /\ m1.next \in [Cells -> Cells \cup {Null}] /\ m1.prev \in [Cells -> Cells \cup {Null}]
  BY <1>1 DEF Memories
<1>5. CASE e # old
  <2>1. b = m.prev[old]
    BY <1>1, <1>4, <1>5
  <2>2. \A c \in Cells : a.next[c] = IF c = b THEN n ELSE IF c = n THEN e ELSE m.next[c]
    BY <1>1, <1>3, <1>4
  <2>3. \A c \in Cells : a.prev[c] = IF c = n THEN b ELSE IF c = e THEN n ELSE m.prev[c]
    BY <1>1, <1>3, <1>4
  <2> QED BY <2>1, <2>2, <2>3, <1>3, <1>5 DEF Puts, a
<1>6. CASE e = old
  <2>1. b = n
    BY <1>1, <1>4, <1>6
  <2>2. \A c \in Cells : a.next[c] = IF c = n THEN n ELSE m.next[c]
    BY <2>1, <1>1, <1>3, <1>4
  <2>3. \A c \in Cells : a.prev[c] = IF c = n THEN n ELSE IF c = old THEN n ELSE m.prev[c]
    BY <2>1, <1>1, <1>3, <1>4, <1>6
  <2> QED BY <2>2, <2>3, <1>3, <1>6 DEF a
<1> QED BY <1>5, <1>6

\* Entry i of the list of g, between b and e, has n behind it.
Replaces(l1, l, g, i, old, n, b, e) ==
  /\ g \in DOMAIN l /\ i \in 1..Len(l[g]) /\ old = l[g][i]
  /\ n \in Nodes /\ n \notin Entries(l)
  /\ Changes(l1, l, g, Spliced(l[g], i, <<n>>))
  /\ b = Place("ring", g, l[g], i - 1) /\ e = Place("ring", g, l[g], i + 1)

\* The links when entry i of a ring gives way to n.
LEMMA ReplaceJoins ==
  ASSUME NEW l, Apart(l), NEW g, NEW i, NEW old, NEW n, NEW l1, NEW b, NEW e,
         Replaces(l1, l, g, i, old, n, b, e)
  PROVE  /\ Apart(Without(l1, old)) /\ n \in Entries(Without(l1, old))
         /\ Entries(Without(l1, old)) \subseteq Entries(l) \cup {n} /\ ~On(Without(l1, old), old)
         /\ DOMAIN Without(l1, old) = DOMAIN l
         /\ \A h \in DOMAIN l \ {g} : Without(l1, old)[h] = l[h]
         /\ \A c, d : Joins("ring", Without(l1, old), c, d) =>
              \/ c = b /\ d = n
              \/ c = n /\ d = e
              \/ Joins("ring", l, c, d) /\ c \notin {b, old} /\ d \notin {old, e}
<1> DEFINE l2 == Without(l1, old)
           s == l[g]
           u == l1[g]
           x == <<n>>
<1>0. /\ g \in DOMAIN l /\ i \in 1..Len(l[g]) /\ old = l[g][i]
      /\ n \in Nodes /\ n \notin Entries(l)
      /\ Changes(l1, l, g, Spliced(l[g], i, <<n>>))
      /\ b = Place("ring", g, l[g], i - 1) /\ e = Place("ring", g, l[g], i + 1)
  BY DEF Replaces
<1> USE <1>0
<1>1. "ring" \in Kinds /\ s \in Seq(Nodes) /\ Len(s) \in Nat /\ i \in 0..Len(s) /\ old \in Nodes /\ old \in Entries(l)
      /\ old = s[i] /\ i \in 1..Len(s)
  <2>1. Len(s) \in Nat /\ old \in Nodes /\ old \in Entries(l)
    BY EntryAt
  <2>2. s \in Seq(Nodes)
    BY DEF Apart
  <2> HIDE DEF l2, u, x
  <2>3. i \in 0..Len(s)
    BY <2>1
  <2> QED BY <2>1, <2>2, <2>3 DEF Kinds
<1>2. Fresh(x, l) /\ x[1] = n /\ x[Len(x)] = n /\ ToSet(x) = {n} /\ Len(x) = 1 /\ x \in Seq(Nodes)
  BY DEF Fresh, ToSet
<1>3. Place("ring", g, s, i) = old
  BY <1>1, PlaceFacts
<1> HIDE DEF x
<1>4. /\ Apart(l1) /\ \A c : On(l1, c) <=> On(l, c) \/ c \in ToSet(x)
      /\ \A c, d : Joins("ring", l1, c, d) =>
              \/ Joins("ring", l, c, d) /\ c # old /\ (d = e => d = Null)
              \/ c = old /\ d = x[1]
              \/ c = x[Len(x)] /\ d = e
              \/ \E a \in 1..Len(x) - 1 : c = x[a] /\ d = x[a + 1]
  <2>1. Changes(l1, l, g, Spliced(l[g], i, x)) /\ old = Place("ring", g, l[g], i)
    BY <1>3 DEF x
  <2> QED BY <2>1, <1>1, <1>2, InsertJoins
<1>5. /\ DOMAIN l1 = DOMAIN l /\ u = Spliced(s, i, x) /\ \A h \in DOMAIN l \ {g} : l1[h] = l[h]
  BY DEF Changes, x
<1> HIDE DEF u, s
<1>6. /\ u \in Seq(Nodes) /\ Len(u) = Len(s) + 1
      /\ \A j \in 1..Len(s) + 1 : u[j] = IF j <= i THEN s[j] ELSE IF j <= i + 1 THEN x[j - i] ELSE s[j - 1]
  <2>1. /\ Spliced(s, i, x) \in Seq(Nodes) /\ Len(Spliced(s, i, x)) = Len(s) + Len(x)
        /\ \A j \in 1..Len(s) + Len(x) : Spliced(s, i, x)[j] =
              IF j <= i THEN s[j] ELSE IF j <= i + Len(x) THEN x[j - i] ELSE s[j - Len(x)]
    <3>1. s \in Seq(Nodes) /\ x \in Seq(Nodes) /\ i \in 0..Len(s)
      BY <1>1, <1>2
    <3> QED BY <3>1, SplicedFacts
  <2> QED BY <2>1, <1>2, <1>5
<1>7. i \in 1..Len(u) /\ u[i] = old /\ i + 1 \in 1..Len(u) /\ u[i + 1] = n
  <2>1. i \in 1..Len(s) + 1 /\ i + 1 \in 1..Len(s) + 1 /\ i <= i /\ ~(i + 1 <= i) /\ (i + 1) - i = 1
    <3>1. Len(s) \in Nat /\ i \in Nat /\ i >= 1 /\ i <= Len(s)
      BY <1>1
    <3> HIDE <1>0
    <3> QED BY <3>1
  <2>2. u[i] = s[i]
    <3>1. u[i] = IF i <= i THEN s[i] ELSE IF i <= i + 1 THEN x[i - i] ELSE s[i - 1]
      BY <2>1, <1>6, Zenon
    <3> QED BY <3>1, <2>1
  <2>4. u[i + 1] = x[1]
    <3>1. u[i + 1] = IF i + 1 <= i THEN s[i + 1] ELSE IF i + 1 <= i + 1 THEN x[(i + 1) - i] ELSE s[(i + 1) - 1]
      BY <2>1, <1>6, Zenon
    <3>2. i + 1 <= i + 1
      BY <1>1
    <3> QED BY <3>1, <3>2, <2>1
  <2>3. i \in 1..Len(u) /\ i + 1 \in 1..Len(u)
    BY <2>1, <1>6
  <2> QED BY <2>2, <2>3, <2>4, <1>1, <1>2
<1>8. Changes(l2, l1, g, RemoveAt(u, i))
  BY <1>4, <1>5, <1>7, WithoutChanges DEF u
<1> HIDE DEF l2
<1>9. Place("ring", g, u, i + 1) = n
  BY <1>7 DEF Place
<1>10. Place("ring", g, u, i - 1) = b
  <2>1. i = 1 \/ (i - 1 \in 1..Len(s) /\ i - 1 \in 1..Len(s) + 1 /\ i - 1 <= i)
    BY <1>1 DEF s
  <2>2. CASE i = 1
    BY <2>2 DEF Place, s
  <2>3. CASE i # 1
    <3>1. u[i - 1] = s[i - 1]
      BY <2>1, <2>3, <1>6
    <3>2. i - 1 \in 1..Len(u)
      BY <2>1, <2>3, <1>6
    <3> QED BY <2>1, <2>3, <3>1, <3>2 DEF Place, s
  <2> QED BY <2>2, <2>3
<1>11. /\ Apart(l2) /\ \A c : On(l2, c) <=> On(l1, c) /\ c # old
       /\ \A c, d : Joins("ring", l2, c, d) =>
              \/ c = b /\ d = n
              \/ Joins("ring", l1, c, d) /\ c # b /\ c # old /\ d # old /\ (d = n => d = Null)
  <2>1. /\ g \in DOMAIN l1 /\ i \in 1..Len(l1[g]) /\ Changes(l2, l1, g, RemoveAt(l1[g], i)) /\ old = l1[g][i]
        /\ b = Place("ring", g, l1[g], i - 1) /\ n = Place("ring", g, l1[g], i + 1)
    BY <1>5, <1>7, <1>8, <1>9, <1>10 DEF u
  <2>2. Apart(l1) /\ "ring" \in Kinds
    BY <1>1, <1>4
  <2> QED BY <2>1, <2>2, RemoveJoins
<1>12. n # Null /\ \A c, d : Joins("ring", l, c, d) => d # Null
  BY <1>1, CellsAssumption, JoinFacts DEF Cells
<1>13. ~ \E a \in 1..Len(x) - 1 : TRUE
  BY <1>2
<1>14. ASSUME NEW c, NEW d, Joins("ring", l2, c, d)
       PROVE  \/ c = b /\ d = n
              \/ c = n /\ d = e
              \/ Joins("ring", l, c, d) /\ c \notin {b, old} /\ d \notin {old, e}
  <2>1. CASE c = b /\ d = n
    BY <2>1
  <2>2. CASE Joins("ring", l1, c, d) /\ c # b /\ c # old /\ d # old /\ (d = n => d = Null)
    <3>1. \/ Joins("ring", l, c, d) /\ c # old /\ (d = e => d = Null)
          \/ c = n /\ d = e
      BY <2>2, <1>2, <1>4, <1>13
    <3> QED BY <3>1, <2>2, <1>12
  <2> QED BY <2>1, <2>2, <1>11, <1>14
<1>15. DOMAIN l2 = DOMAIN l /\ \A h \in DOMAIN l \ {g} : l2[h] = l[h]
  BY <1>5, <1>8 DEF Changes
<1>16. n \in Entries(l2) /\ Entries(l2) \subseteq Entries(l) \cup {n} /\ ~On(l2, old)
  <2>1. \A c \in Nodes : On(l2, c) <=> c \in Entries(l2)
    BY <1>11, OnNodes
  <2>2. \A c \in Nodes : On(l, c) <=> c \in Entries(l)
    BY OnNodes
  <2>3. Entries(l2) \subseteq Nodes
    BY <1>11, EntryAt
  <2>4. n # old
    BY <1>1
  <2> QED BY <2>1, <2>2, <2>3, <2>4, <1>2, <1>4, <1>11
<1> QED BY <1>11, <1>14, <1>15, <1>16 DEF l2

\* Where a replaced entry's successor takes its place, the memory follows.
LEMMA ReplaceEntryLeads ==
  ASSUME NEW m, NEW l, Apart(l), Follows("ring", m, l), NEW old \in Nodes, NEW b, NEW e,
         Joins("ring", l, b, old), Joins("ring", l, old, e),
         NEW n \in Nodes, n \notin Entries(l),
         NEW l2, Apart(l2), Entries(l2) \subseteq Entries(l) \cup {n},
         \A c, d : Joins("ring", l2, c, d) =>
              \/ c = b /\ d = n
              \/ c = n /\ d = e
              \/ Joins("ring", l, c, d) /\ c \notin {b, old} /\ d \notin {old, e},
         NEW a, Puts(a, m, b, n, e)
  PROVE  Leads("ring", m, l, a, l2, {n})
<1>1. "ring" \in Kinds /\ n \in Cells /\ ~On(l, n)
  BY OnNodes DEF Kinds, Cells
<1>2. b \in Cells /\ On(l, b) /\ e \in Cells /\ On(l, e) /\ b # n /\ e # n
  BY <1>1, JoinFacts
<1>3. /\ a \in Memories
      /\ \A c \in Cells : /\ a.next[c] = IF c = b THEN n ELSE IF c = n THEN e ELSE m.next[c]
                          /\ a.prev[c] = IF c = n THEN b ELSE IF c = e THEN n ELSE m.prev[c]
  BY DEF Puts
<1>4. ASSUME NEW c, NEW d, Joins("ring", l2, c, d) PROVE a.next[c] = d /\ a.prev[d] = c
  <2>1. CASE c = b /\ d = n
    BY <2>1, <1>1, <1>2, <1>3
  <2>2. CASE c = n /\ d = e
    BY <2>2, <1>1, <1>2, <1>3
  <2>3. CASE Joins("ring", l, c, d) /\ c \notin {b, old} /\ d \notin {old, e}
    <3>1. c \in Cells /\ On(l, c) /\ d \in Cells /\ On(l, d) /\ d # Null
      BY <2>3, <1>1, JoinFacts
    <3>2. m.next[c] = d /\ m.prev[d] = c
      BY <3>1, <2>3 DEF Follows
    <3>3. c # n /\ d # n
      BY <3>1, <1>1
    <3> QED BY <3>1, <3>2, <3>3, <2>3, <1>3
  <2> QED BY <1>4, <2>1, <2>2, <2>3
<1>5. Follows("ring", a, l2)
  BY <1>4 DEF Follows
<1>6. \A c \in Nodes \ (Entries(l) \cup {n}) : a.next[c] = m.next[c] /\ a.prev[c] = m.prev[c]
  <2>1. \A c \in Nodes \ (Entries(l) \cup {n}) : c \in Cells /\ ~On(l, c)
    BY OnNodes DEF Cells
  <2> QED BY <2>1, <1>2, <1>3
<1> QED BY <1>3, <1>5, <1>6 DEF Leads

\* list_replace of an entry.
LEMMA ReplaceEntryKeeps ==
  ASSUME IInv, NEW old \in Linked \cap Nodes, NEW n \in Loose,
         NEW l, l = Without(InsertAfter(lists, old, <<n>>), old),
         NEW a, a = list_replace(mem, old, n),
         \/ RingCall(a, l, {})
         \/ RingCall(INIT_LIST_HEAD(a, old), l, {old})
  PROVE  IInv'
<1>1. Types /\ Walking /\ kind \in Kinds /\ Apart(lists) /\ mem \in Memories /\ Follows(kind, mem, lists)
  BY DEF IInv, Types
<1>2. kind = "ring"
  BY DEF RingCall
<1>3. n \in Nodes /\ n \notin Entries(lists) /\ n \notin fake /\ n \in Cells
  BY <1>1, CallerFacts DEF Cells
<1>4. /\ old \in Nodes /\ old \in Cells /\ old \in Entries(lists) /\ On(lists, old) /\ old \notin fake
      /\ Home(lists, old) \in Calm
  BY <1>1, CallerFacts
<1> DEFINE g == Home(lists, old)
           i == At(lists, old)
           b == mem.prev[old]
           e == mem.next[old]
           l1 == InsertAfter(lists, old, <<n>>)
<1>5. /\ g \in DOMAIN lists /\ i \in 1..Len(lists[g]) /\ lists[g][i] = old
      /\ Place("ring", g, lists[g], i - 1) = b /\ Place("ring", g, lists[g], i + 1) = e
      /\ b \in Cells /\ e \in Cells /\ mem.next[b] = old /\ On(lists, b)
  BY <1>1, <1>2, <1>4, EntryLinks
<1>6. Changes(l1, lists, g, Spliced(lists[g], i, <<n>>))
  BY <1>1, <1>4, AfterChanges
<1> HIDE DEF g, i, b, e, l1
<1>7. /\ Apart(l) /\ n \in Entries(l) /\ Entries(l) \subseteq Entries(lists) \cup {n} /\ ~On(l, old)
      /\ DOMAIN l = DOMAIN lists /\ \A h \in DOMAIN lists \ {g} : l[h] = lists[h]
      /\ \A c, d : Joins("ring", l, c, d) =>
              \/ c = b /\ d = n
              \/ c = n /\ d = e
              \/ Joins("ring", lists, c, d) /\ c \notin {b, old} /\ d \notin {old, e}
  <2>1. /\ old = lists[g][i] /\ b = Place("ring", g, lists[g], i - 1) /\ e = Place("ring", g, lists[g], i + 1)
        /\ Apart(lists) /\ g \in DOMAIN lists /\ i \in 1..Len(lists[g]) /\ n \in Nodes /\ n \notin Entries(lists)
        /\ Changes(l1, lists, g, Spliced(lists[g], i, <<n>>))
    BY <1>1, <1>3, <1>5, <1>6
  <2>4. Replaces(l1, lists, g, i, old, n, b, e) /\ Apart(lists)
    BY <2>1 DEF Replaces
  <2>2. l = Without(l1, old)
    BY DEF l1
  <2>3. /\ Apart(Without(l1, old)) /\ n \in Entries(Without(l1, old))
        /\ Entries(Without(l1, old)) \subseteq Entries(lists) \cup {n} /\ ~On(Without(l1, old), old)
        /\ DOMAIN Without(l1, old) = DOMAIN lists
        /\ \A h \in DOMAIN lists \ {g} : Without(l1, old)[h] = lists[h]
        /\ \A c, d : Joins("ring", Without(l1, old), c, d) =>
              \/ c = b /\ d = n
              \/ c = n /\ d = e
              \/ Joins("ring", lists, c, d) /\ c \notin {b, old} /\ d \notin {old, e}
    BY <2>4, ReplaceJoins
  <2> QED BY <2>2, <2>3
<1>8. Joins("ring", lists, b, old) /\ Joins("ring", lists, old, e)
  <2>1. (\E c : Joins(kind, lists, c, old)) /\ (\E d : Joins(kind, lists, old, d))
    BY <1>1, <1>4, HasNeighbours
  <2>2. PICK c : Joins(kind, lists, c, old)
    BY <2>1
  <2>3. PICK d : Joins(kind, lists, old, d)
    BY <2>1
  <2>4. old # Null
    BY <1>4, CellsAssumption
  <2>5. mem.prev[old] = c /\ mem.next[old] = d
    BY <2>2, <2>3, <2>4, <1>1 DEF Follows
  <2> QED BY <2>2, <2>3, <2>5, <1>2 DEF b, e
<1>9. e # old
  <2>1. ASSUME e = old PROVE FALSE
    <3>1. Joins("ring", lists, old, old)
      BY <2>1, <1>8
    <3>2. i + 1 \in 1..Len(lists[g]) \/ i = Len(lists[g])
      BY <1>1, <1>5, EntryAt
    <3>3. Len(lists[g]) \in Nat
      BY <1>1, <1>5, EntryAt
    <3>4. CASE i + 1 \in 1..Len(lists[g])
      <4>1. lists[g][i + 1] = lists[g][i]
        BY <3>4, <2>1, <1>5 DEF Place
      <4>2. i + 1 = i
        BY <4>1, <3>4, <1>1, <1>5, SameEntry
      <4> QED BY <4>2, <3>3, <1>5
    <3>5. CASE i = Len(lists[g])
      <4>1. i + 1 \notin 1..Len(lists[g])
        BY <3>3, <3>5
      <4>2. e = g
        BY <4>1, <1>5 DEF Place
      <4> QED BY <4>2, <2>1, <1>1, <1>4, <1>5, EntryAt, CellsAssumption
    <3> QED BY <3>2, <3>4, <3>5
  <2> QED BY <2>1
<1>10. Puts(a, mem, b, n, e)
  <2>1. n # old
    BY <1>3, <1>4
  <2> QED BY <2>1, <1>1, <1>3, <1>4, <1>5, <1>9, ReplaceStores DEF b, e
<1>11. Leads(kind, mem, lists, a, l, {n})
  BY <1>1, <1>2, <1>3, <1>4, <1>7, <1>8, <1>10, ReplaceEntryLeads
<1>12. \A w : walk = <<w>> => Spares(lists, l, w)
  <2>1. g \in Calm
    BY <1>4 DEF g
  <2>2. \A w : walk = <<w>> => w.head \in DOMAIN lists /\ w.head # g
    BY <2>1, <1>1, CallerFacts
  <2> QED BY <2>2, <1>7 DEF Spares
<1>13. CASE RingCall(a, l, {})
  <2>1. Sound(a, l, {})
    BY <1>3, <1>7, <1>11, <1>12 DEF Sound
  <2> QED BY <2>1, <1>13, CallKeeps
<1>14. CASE RingCall(INIT_LIST_HEAD(a, old), l, {old})
  <2> DEFINE a2 == INIT_LIST_HEAD(a, old)
  <2>1. a \in Memories /\ Follows(kind, a, l)
    BY <1>11 DEF Leads
  <2>2. /\ a2 \in Memories /\ \A c \in Cells \ {old} : a2.next[c] = a.next[c] /\ a2.prev[c] = a.prev[c]
        /\ a2.next[old] = old /\ a2.prev[old] = old
    BY <2>1, <1>4, InitStores
  <2> HIDE DEF a2
  <2>3. Leads(kind, a, l, a2, l, {old})
    BY <2>1, <2>2, <1>1, <1>7, ElsewhereLeads
  <2>4. Leads(kind, mem, lists, a2, l, {n} \cup {old})
    BY <2>3, <1>11, LeadsOn
  <2>5. Stays(kind, a2, old)
    BY <2>2, <1>2 DEF Stays
  <2>6. Sound(a2, l, {old})
    <3>1. {n} \cup {old} \in SUBSET Nodes /\ ({n} \cup {old}) \cap fake \subseteq {old}
          /\ {n} \cup {old} \subseteq Entries(lists) \cup Entries(l) \cup {old}
      BY <1>3, <1>4, <1>7
    <3> QED BY <3>1, <2>4, <2>5, <1>4, <1>12 DEF Sound
  <2> QED BY <2>6, <1>14, CallKeeps DEF a2
<1> QED BY <1>13, <1>14

\* Nothing spliced in, or spliced into nothing.
LEMMA SplicedNothing ==
  ASSUME NEW S, NEW s \in Seq(S)
  PROVE  /\ \A i \in 0..Len(s) : Spliced(s, i, <<>>) = s
         /\ Spliced(<<>>, 0, s) = s
<1>1. <<>> \in Seq(S) /\ Len(<<>>) = 0 /\ Len(s) \in Nat /\ 0 \in 0..0
  OBVIOUS
<1>2. ASSUME NEW i \in 0..Len(s) PROVE Spliced(s, i, <<>>) = s
  <2> DEFINE v == Spliced(s, i, <<>>)
             x == <<>>
  <2>1. x \in Seq(S) /\ Len(x) = 0
    OBVIOUS
  <2> HIDE DEF x
  <2>2. /\ Spliced(s, i, x) \in Seq(S) /\ Len(Spliced(s, i, x)) = Len(s) + Len(x)
        /\ \A j \in 1..Len(s) + Len(x) : Spliced(s, i, x)[j] =
              IF j <= i THEN s[j] ELSE IF j <= i + Len(x) THEN x[j - i] ELSE s[j - Len(x)]
    <3>1. s \in Seq(S) /\ x \in Seq(S) /\ i \in 0..Len(s)
      BY <2>1
    <3> HIDE DEF v
    <3> QED BY ONLY <3>1, SplicedFacts
  <2>3. v = Spliced(s, i, x)
    BY DEF x
  <2> HIDE DEF v
  <2>4. v \in Seq(S) /\ Len(v) = Len(s)
    BY <2>1, <2>2, <2>3, <1>1
  <2>5. ASSUME NEW j \in 1..Len(s) PROVE v[j] = s[j]
    <3>1. j \in 1..Len(s) + Len(x) /\ j - Len(x) = j /\ (j <= i + Len(x) => j <= i)
      BY <2>1, <1>1
    <3> QED BY <3>1, <2>2, <2>3
  <2>6. v = s
    BY <2>4, <2>5, SameSeq
  <2> QED BY <2>6 DEF v
<1>3. Spliced(<<>>, 0, s) = s
  <2> DEFINE v == Spliced(<<>>, 0, s)
             x == <<>>
             i == 0
  <2>1. x \in Seq(S) /\ Len(x) = 0 /\ i \in 0..Len(x) /\ i = 0
    OBVIOUS
  <2> HIDE DEF x, i
  <2>2. /\ Spliced(x, i, s) \in Seq(S) /\ Len(Spliced(x, i, s)) = Len(x) + Len(s)
        /\ \A j \in 1..Len(x) + Len(s) : Spliced(x, i, s)[j] =
              IF j <= i THEN x[j] ELSE IF j <= i + Len(s) THEN s[j - i] ELSE x[j - Len(s)]
    <3>1. x \in Seq(S) /\ s \in Seq(S) /\ i \in 0..Len(x)
      BY <2>1
    <3> HIDE DEF v
    <3> QED BY ONLY <3>1, SplicedFacts
  <2>3. v = Spliced(x, i, s)
    BY DEF x, i
  <2> HIDE DEF v
  <2>4. v \in Seq(S) /\ Len(v) = Len(s)
    BY <2>1, <2>2, <2>3, <1>1
  <2>5. ASSUME NEW j \in 1..Len(s) PROVE v[j] = s[j]
    <3>1. j \in 1..Len(x) + Len(s) /\ j - i = j /\ ~(j <= i) /\ j <= i + Len(s)
      BY <2>1, <1>1
    <3> QED BY <3>1, <2>2, <2>3
  <2>6. v = s
    BY <2>4, <2>5, SameSeq
  <2> QED BY <2>6 DEF v
<1> QED BY <1>2, <1>3

\* list_replace of the head of a list.
LEMMA ReplaceHeadLeads ==
  ASSUME Types, Follows(kind, mem, lists), kind = "ring", NEW old \in DOMAIN lists, NEW h \in Heads \ DOMAIN lists,
         NEW l, l = Gain(Lose(lists, old), h, lists[old]), NEW a, a = list_replace(mem, old, h)
  PROVE  Leads(kind, mem, lists, a, l, {})
<1> DEFINE x == lists[old]
<1>1. kind \in Kinds /\ Apart(lists) /\ mem \in Memories /\ h \in Cells /\ h # old
  BY DEF Types, Cells
<1>2. /\ old \in Heads /\ old \in Cells /\ x \in Seq(Nodes) /\ Len(x) \in Nat
      /\ x = <<>> => mem.next[old] = old /\ mem.prev[old] = old
      /\ x # <<>> => /\ Len(x) >= 1 /\ mem.next[old] = x[1] /\ mem.prev[old] = x[Len(x)]
                     /\ x[1] \in Nodes /\ x[Len(x)] \in Nodes
  BY RingEnds
<1>3. /\ DOMAIN l = (DOMAIN lists \ {old}) \cup {h} /\ l[h] = x
      /\ \A f \in DOMAIN lists \ {old} : f # h /\ l[f] = lists[f]
  BY DEF Gain, Lose
<1> HIDE DEF x
<1>4. CASE x = <<>>
  <2> DEFINE l0 == Lose(lists, old)
             m0 == [mem EXCEPT !.prev[old] = h]
  <2>1. /\ a \in Memories
        /\ \A c \in Cells \ {h} : a.next[c] = mem.next[c]
        /\ \A c \in Cells \ {h, old} : a.prev[c] = mem.prev[c]
        /\ a.next[h] = h /\ a.prev[h] = h
    BY <1>1, <1>2, <1>4, ReplaceStores
  <2>2. a.prev[old] = h
    <3>1. a.prev[old] = [[mem.prev EXCEPT ![old] = h] EXCEPT ![h] = h][old]
      BY <1>1, <1>2, <1>4 DEF list_replace, Memories
    <3> QED BY <3>1, <1>1, <1>2 DEF Memories
  <2>3. /\ m0 \in Memories /\ \A c \in Cells : m0.next[c] = mem.next[c]
        /\ \A c \in Cells : m0.prev[c] = IF c = old THEN h ELSE mem.prev[c]
    BY <1>1, <1>2 DEF Memories
  <2>4. DOMAIN l0 = DOMAIN lists \ {old} /\ \A f \in DOMAIN lists \ {old} : l0[f] = lists[f]
    BY DEF Lose
  <2> HIDE DEF l0, m0
  <2>5. Drops(l0, lists, old) /\ old \notin DOMAIN l0
    BY <2>4 DEF Drops
  <2>6. Leads(kind, mem, lists, m0, l0, {})
    BY <2>3, <2>5, <1>1, <1>2, DropLeads
  <2>7. Apart(l0) /\ Follows(kind, m0, l0)
    BY <2>6 DEF Leads
  <2>8. Drops(l, l0, h)
    BY <2>4, <1>1, <1>3, <1>4 DEF Drops
  <2>9. \A c \in Cells \ {h} : a.next[c] = m0.next[c] /\ a.prev[c] = m0.prev[c]
    BY <2>1, <2>2, <2>3
  <2>10. Leads(kind, m0, l0, a, l, {})
    BY <2>1, <2>7, <2>8, <2>9, <1>1, DropLeads
  <2>11. Leads(kind, mem, lists, a, l, {} \cup {})
    BY <2>6, <2>10, LeadsOn
  <2> QED BY <2>11
<1>5. CASE x # <<>>
  <2>1. x[1] # old /\ x[1] \in Cells /\ x[Len(x)] \in Cells /\ x[1] # h /\ x[Len(x)] # h
    BY <1>2, <1>5, CellsAssumption DEF Cells
  <2>2. Puts(a, mem, x[Len(x)], h, x[1])
    <3>1. mem.next[old] # old /\ mem.next[old] \in Cells /\ mem.prev[old] \in Cells
      BY <2>1, <1>2, <1>5
    <3>2. Puts(a, mem, mem.prev[old], h, mem.next[old])
      BY <3>1, <1>1, <1>2, ReplaceStores
    <3> QED BY <3>2, <1>2, <1>5
  <2>3. Takeover(a, mem, x, h, h, old)
    BY <2>1, <2>2, <1>1 DEF Takeover, Puts
  <2> DEFINE t == Target(lists, h)
  <2>4. t = <<>> /\ 0 \in 0..Len(t)
    BY <1>1 DEF Target
  <2>5. h = Place(kind, h, t, 0) /\ h = Place(kind, h, t, 0 + 1)
    BY <2>4 DEF Place
  <2>6. Spliced(t, 0, x) = x
    BY <2>4, <1>2, SplicedNothing
  <2> HIDE DEF t
  <2>7. Pours(l, lists, old, h, Spliced(t, 0, x)) /\ old \notin DOMAIN l
    BY <2>6, <1>1, <1>2, <1>3 DEF Pours
  <2>8. x = lists[old] /\ t = Target(lists, h)
    BY DEF x, t
  <2> QED BY <2>3, <2>4, <2>5, <2>7, <2>8, <1>1, <1>5, PourLeads
<1> QED BY <1>4, <1>5

\* list_replace of a head.
LEMMA ReplaceHeadKeeps ==
  ASSUME IInv, NEW old \in Calm, NEW h \in Unused,
         NEW l, l = Gain(Lose(lists, old), h, lists[old]), NEW a, a = list_replace(mem, old, h),
         \/ RingCall(a, l, {})
         \/ RingCall(INIT_LIST_HEAD(a, old), Gain(l, old, <<>>), {})
  PROVE  IInv'
<1>1. Types /\ Walking /\ kind \in Kinds /\ Apart(lists) /\ mem \in Memories /\ Follows(kind, mem, lists)
  BY DEF IInv, Types
<1>2. kind = "ring"
  BY DEF RingCall
<1>3. /\ old \in DOMAIN lists /\ old \in Heads /\ old \in Cells /\ h \in Heads \ DOMAIN lists /\ h # old
      /\ \A w : walk = <<w>> => w.head \in DOMAIN lists /\ w.head # old /\ w.head # h
  BY <1>1, CallerFacts DEF Cells
<1>4. Leads(kind, mem, lists, a, l, {})
  BY <1>1, <1>2, <1>3, ReplaceHeadLeads
<1>5. DOMAIN l = (DOMAIN lists \ {old}) \cup {h} /\ \A f \in DOMAIN lists \ {old} : l[f] = lists[f]
  BY <1>3 DEF Gain, Lose
<1>6. CASE RingCall(a, l, {})
  <2>1. \A w : walk = <<w>> => Spares(lists, l, w)
    BY <1>3, <1>5 DEF Spares
  <2>2. Sound(a, l, {})
    BY <2>1, <1>4 DEF Sound
  <2> QED BY <2>2, <1>6, CallKeeps
<1>7. CASE RingCall(INIT_LIST_HEAD(a, old), Gain(l, old, <<>>), {})
  <2> DEFINE a2 == INIT_LIST_HEAD(a, old)
             l2 == Gain(l, old, <<>>)
  <2>1. DOMAIN l2 = DOMAIN l \cup {old} /\ l2[old] = <<>> /\ \A f \in DOMAIN l \ {old} : l2[f] = l[f]
    BY DEF Gain
  <2>2. a \in Memories /\ Apart(l) /\ Follows(kind, a, l)
    BY <1>4 DEF Leads
  <2>3. /\ a2 \in Memories /\ \A c \in Cells \ {old} : a2.next[c] = a.next[c] /\ a2.prev[c] = a.prev[c]
        /\ a2.next[old] = old /\ a2.prev[old] = old
    <3>1. a \in Memories /\ old \in Cells
      BY <2>2, <1>3
    <3> HIDE DEF l2
    <3> QED BY ONLY <3>1, InitStores
  <2> HIDE DEF a2, l2
  <2>4. Drops(l2, l, old)
    BY <2>1 DEF Drops
  <2>5. Leads(kind, a, l, a2, l2, {})
    BY <2>2, <2>3, <2>4, <1>1, <1>2, <1>3, DropLeads
  <2>6. Leads(kind, mem, lists, a2, l2, {} \cup {})
    BY <2>5, <1>4, LeadsOn
  <2>7. \A w : walk = <<w>> => Spares(lists, l2, w)
    BY <2>1, <1>3, <1>5 DEF Spares
  <2>8. Sound(a2, l2, {})
    BY <2>6, <2>7 DEF Sound
  <2> QED BY <2>8, <1>7, CallKeeps DEF a2, l2
<1> QED BY <1>6, <1>7

\* list_replace, list_replace_init.
LEMMA RingReplaceKeeps ==
  ASSUME IInv, RingReplace
  PROVE  IInv'
<1>1. CASE \E old \in Linked \cap Nodes, n \in Loose :
             LET l == Without(InsertAfter(lists, old, <<n>>), old)
             IN  \/ RingCall(list_replace(mem, old, n), l, {})
                 \/ RingCall(INIT_LIST_HEAD(list_replace(mem, old, n), old), l, {old})
  <2>1. PICK old \in Linked \cap Nodes, n \in Loose :
             \/ RingCall(list_replace(mem, old, n), Without(InsertAfter(lists, old, <<n>>), old), {})
             \/ RingCall(INIT_LIST_HEAD(list_replace(mem, old, n), old),
                         Without(InsertAfter(lists, old, <<n>>), old), {old})
    BY <1>1
  <2> QED BY <2>1, ReplaceEntryKeeps
<1>2. CASE \E old \in Calm, h \in Unused :
             LET l == Gain(Lose(lists, old), h, lists[old])
             IN  \/ RingCall(list_replace(mem, old, h), l, {})
                 \/ RingCall(INIT_LIST_HEAD(list_replace(mem, old, h), old), Gain(l, old, <<>>), {})
  <2>1. PICK old \in Calm, h \in Unused :
             \/ RingCall(list_replace(mem, old, h), Gain(Lose(lists, old), h, lists[old]), {})
             \/ RingCall(INIT_LIST_HEAD(list_replace(mem, old, h), old),
                         Gain(Gain(Lose(lists, old), h, lists[old]), old, <<>>), {})
    BY <1>2
  <2> QED BY <2>1, ReplaceHeadKeeps
<1> QED BY <1>1, <1>2 DEF RingReplace

----------------------------------------------------------------------------
(* Lists joined and handed over *)

\* A full list goes behind index i of another ring; its head is left as it
\* was, or initialised.
LEMMA SpliceLeads ==
  ASSUME Types, Follows(kind, mem, lists), kind = "ring", NEW h \in DOMAIN lists, NEW g \in DOMAIN lists, g # h,
         NEW i \in 0..Len(lists[g]), NEW x, x = lists[h], x # <<>>,
         NEW l, Pours(l, lists, h, g, Spliced(lists[g], i, x)),
         NEW b, b = Place(kind, g, lists[g], i), NEW e, e = Place(kind, g, lists[g], i + 1),
         NEW a, \/ a = list_splice_between(mem, h, b, e) /\ h \notin DOMAIN l
                \/ a = INIT_LIST_HEAD(list_splice_between(mem, h, b, e), h)
  PROVE  Leads(kind, mem, lists, a, l, {})
<1> DEFINE a0 == list_splice_between(mem, h, b, e)
           y == x[1]
           z == x[Len(x)]
<1>1. kind \in Kinds /\ Apart(lists) /\ mem \in Memories /\ g \in Heads /\ g \notin Nodes /\ g \in Cells
  BY CellsAssumption DEF Types, Cells, Apart
<1>2. /\ h \in Heads /\ h \in Cells /\ h \notin Nodes /\ x \in Seq(Nodes) /\ Len(x) >= 1 /\ Len(x) \in Nat
      /\ mem.next[h] = y /\ mem.prev[h] = z /\ y \in Nodes /\ z \in Nodes /\ y \in Cells /\ z \in Cells
      /\ ~list_empty(mem, h)
  BY RingEnds, CellsAssumption DEF Cells
<1>3. b \in Cells /\ e \in Cells /\ mem.next[b] = e /\ mem.prev[e] = b
  BY <1>1, Neighbours
<1>4. b # h /\ e # h
  <2>1. /\ lists[g] \in Seq(Nodes) /\ Len(lists[g]) \in Nat
        /\ \A j \in 1..Len(lists[g]) : lists[g][j] \in Nodes
    BY <1>1, EntryAt DEF Apart
  <2>2. i = 0 \/ i \in 1..Len(lists[g])
    BY <2>1
  <2> QED BY <2>1, <2>2, <1>2 DEF Place
<1> HIDE DEF y, z
<1>5. a0 = [mem EXCEPT !.prev[y] = b, !.next[b] = y, !.next[z] = e, !.prev[e] = z]
  BY <1>2 DEF list_splice_between
<1> HIDE DEF a0
<1>6. /\ a0 \in Memories
      /\ a0.next = [[mem.next EXCEPT ![b] = y] EXCEPT ![z] = e]
      /\ a0.prev = [[mem.prev EXCEPT ![y] = b] EXCEPT ![e] = z]
  BY <1>1, <1>2, <1>3, <1>5 DEF Memories
<1>7. mem.next \in [Cells -> Cells \cup {Null}] /\ mem.prev \in [Cells -> Cells \cup {Null}]
  BY <1>1 DEF Memories
<1>8. /\ \A c \in Cells : a0.next[c] = IF c = z THEN e ELSE IF c = b THEN y ELSE mem.next[c]
      /\ \A c \in Cells : a0.prev[c] = IF c = e THEN z ELSE IF c = y THEN b ELSE mem.prev[c]
  BY <1>2, <1>3, <1>6, <1>7
<1>9. /\ a \in Memories /\ \A c \in Cells \ {h} : a.next[c] = a0.next[c] /\ a.prev[c] = a0.prev[c]
      /\ h \in DOMAIN l => a.next[h] = h /\ a.prev[h] = h
  <2>1. CASE a = a0 /\ h \notin DOMAIN l
    BY <2>1, <1>6
  <2>2. CASE a = INIT_LIST_HEAD(a0, h)
    <3>1. a0 \in Memories /\ h \in Cells
      BY <1>2, <1>6
    <3> DEFINE f == INIT_LIST_HEAD(a0, h)
    <3>2. /\ f \in Memories /\ \A c \in Cells \ {h} : f.next[c] = a0.next[c] /\ f.prev[c] = a0.prev[c]
          /\ f.next[h] = h /\ f.prev[h] = h
      BY <3>1, InitStores
    <3> QED BY <3>2, <2>2
  <2> QED BY <2>1, <2>2 DEF a0
<1>10. b # z /\ e # y
  <2>1. /\ \A c \in Nodes : c = b \/ c = e \/ c \in ToSet(x) => c \in Entries(lists)
        /\ b \notin ToSet(x) /\ e \notin ToSet(x) /\ x[1] \in ToSet(x) /\ x[Len(x)] \in ToSet(x)
    <3> DEFINE t == Target(lists, g)
    <3>1. t = lists[g] /\ t = Target(lists, g)
      BY DEF Target
    <3> HIDE DEF t
    <3>2. /\ kind \in Kinds /\ Apart(lists) /\ i \in 0..Len(t) /\ Pours(l, lists, h, g, Spliced(t, i, x))
          /\ b = Place(kind, g, t, i) /\ e = Place(kind, g, t, i + 1) /\ x = lists[h] /\ x # <<>>
      BY <3>1, <1>1
    <3>3. t = Target(lists, g)
      BY <3>1
    <3> HIDE DEF y, z
    <3> QED BY <3>2, <3>3, PourJoins
  <2> QED BY <2>1 DEF y, z
<1>11. y # h /\ z # h
  BY <1>2
<1>12. /\ a.next[b] = y /\ a.prev[y] = b /\ a.next[z] = e /\ a.prev[e] = z
       /\ \A c \in Cells \ {b, z, h} : a.next[c] = mem.next[c]
       /\ \A c \in Cells \ {y, e, h} : a.prev[c] = mem.prev[c]
  BY <1>2, <1>3, <1>4, <1>8, <1>9, <1>10, <1>11
<1>13. Takeover(a, mem, x, b, e, h)
  BY <1>9, <1>12 DEF Takeover, y, z
<1> DEFINE t == Target(lists, g)
<1>14. t = lists[g]
  BY DEF Target
<1>15. /\ i \in 0..Len(t) /\ Pours(l, lists, h, g, Spliced(t, i, x))
       /\ b = Place(kind, g, t, i) /\ e = Place(kind, g, t, i + 1) /\ t = Target(lists, g)
  BY <1>14
<1> HIDE DEF t
<1>16. h \in DOMAIN l => a.next[h] = (IF kind = "ring" THEN h ELSE Null) /\ (kind = "ring" => a.prev[h] = h)
  BY <1>9
<1> QED BY <1>1, <1>13, <1>15, <1>16, PourLeads

\* All that a splice may do.
LEMMA SpliceSound ==
  ASSUME Types, Walking, Follows(kind, mem, lists), kind = "ring", NEW h \in Calm, NEW g \in Calm, g # h,
         NEW i \in 0..Len(lists[g]), NEW after, Changes(after, lists, g, Spliced(lists[g], i, lists[h])),
         NEW a, a = list_splice_between(mem, h, Place(kind, g, lists[g], i), Place(kind, g, lists[g], i + 1))
  PROVE  /\ Sound(a, IF lists[h] = <<>> THEN lists ELSE Lose(after, h), {})
         /\ Sound(IF list_empty(mem, h) THEN a ELSE INIT_LIST_HEAD(a, h), [after EXCEPT ![h] = <<>>], {})
<1> DEFINE x == lists[h]
           l1 == Lose(after, h)
           l2 == [after EXCEPT ![h] = <<>>]
<1>1. kind \in Kinds /\ Apart(lists) /\ mem \in Memories
  BY DEF Types
<1>2. /\ h \in DOMAIN lists /\ g \in DOMAIN lists /\ g \in Heads
      /\ \A w : walk = <<w>> => w.head \in DOMAIN lists /\ w.head # g /\ w.head # h
  BY CallerFacts
<1>3. /\ DOMAIN after = DOMAIN lists /\ after[g] = Spliced(lists[g], i, x)
      /\ \A f \in DOMAIN lists \ {g} : after[f] = lists[f]
  BY DEF Changes
<1>4. list_empty(mem, h) <=> x = <<>>
  BY <1>2, RingEnds
<1>5. /\ DOMAIN l1 = DOMAIN lists \ {h} /\ \A f \in DOMAIN lists \ {h} : l1[f] = after[f]
      /\ DOMAIN l2 = DOMAIN lists /\ l2[h] = <<>> /\ \A f \in DOMAIN lists \ {h} : l2[f] = after[f]
  BY <1>2, <1>3 DEF Lose
<1> HIDE DEF l1, l2, x
<1>6. \A w : walk = <<w>> => Spares(lists, l1, w) /\ Spares(lists, l2, w) /\ Spares(lists, lists, w)
  BY <1>2, <1>3, <1>5 DEF Spares
<1>7. CASE x = <<>>
  <2>1. a = mem
    BY <1>4, <1>7 DEF list_splice_between
  <2>2. after[g] = lists[g]
    <3>1. lists[g] \in Seq(Nodes)
      BY <1>1, <1>2 DEF Apart
    <3>2. Spliced(lists[g], i, <<>>) = lists[g]
      BY <3>1, SplicedNothing
    <3> QED BY <3>2, <1>3, <1>7
  <2>3. \A f \in DOMAIN lists : l2[f] = lists[f]
    BY <2>2, <1>3, <1>5, <1>7 DEF x
  <2>4. Leads(kind, mem, lists, mem, l2, {}) /\ Leads(kind, mem, lists, mem, lists, {})
    BY <2>3, <1>1, <1>5, ElsewhereLeads
  <2>5. Sound(a, l2, {}) /\ Sound(a, lists, {})
    BY <2>1, <2>4, <1>6 DEF Sound
  <2> QED BY <2>5, <1>4, <1>7 DEF x, l2
<1>8. CASE x # <<>>
  <2> DEFINE b == Place(kind, g, lists[g], i)
             e == Place(kind, g, lists[g], i + 1)
             a2 == INIT_LIST_HEAD(a, h)
             s == Spliced(lists[g], i, x)
  <2> HIDE DEF b, e, a2, s
  <2>1. Pours(l1, lists, h, g, s) /\ h \notin DOMAIN l1
    BY <1>2, <1>3, <1>5 DEF Pours, s
  <2>2. Pours(l2, lists, h, g, s)
    BY <1>2, <1>3, <1>5 DEF Pours, s
  <2>3. /\ a = list_splice_between(mem, h, b, e) /\ a2 = INIT_LIST_HEAD(list_splice_between(mem, h, b, e), h)
        /\ x = lists[h] /\ b = Place(kind, g, lists[g], i) /\ e = Place(kind, g, lists[g], i + 1)
    BY DEF b, e, a2, x
  <2>4. Leads(kind, mem, lists, a, l1, {})
    BY <2>1, <2>3, <1>2, <1>8, SpliceLeads DEF s
  <2>5. Leads(kind, mem, lists, a2, l2, {})
    BY <2>2, <2>3, <1>2, <1>8, SpliceLeads DEF s
  <2>6. Sound(a, l1, {}) /\ Sound(a2, l2, {})
    BY <2>4, <2>5, <1>6 DEF Sound
  <2> QED BY <2>6, <1>4, <1>8 DEF x, l1, l2, a2
<1> QED BY <1>7, <1>8

\* list_splice and its variants.
LEMMA RingSpliceKeeps ==
  ASSUME IInv, RingSplice
  PROVE  IInv'
<1>1. Types /\ Walking /\ kind \in Kinds /\ Apart(lists) /\ mem \in Memories /\ Follows(kind, mem, lists)
  BY DEF IInv, Types
<1>2. PICK h \in Calm, c \in Linked : Home(lists, c) # h /\
        LET Joined(l) == IF lists[h] = <<>> THEN lists ELSE Lose(l, h)
            Filled(m) == IF list_empty(mem, h) THEN m ELSE INIT_LIST_HEAD(m, h)
            after  == InsertAfter(lists, c, lists[h])
            before == InsertBefore(lists, c, lists[h])
        IN  \/ RingCall(list_splice(mem, h, c), Joined(after), {})
            \/ RingCall(list_splice_tail(mem, h, c), Joined(before), {})
            \/ RingCall(Filled(list_splice(mem, h, c)), [after EXCEPT ![h] = <<>>], {})
            \/ RingCall(Filled(list_splice_tail(mem, h, c)), [before EXCEPT ![h] = <<>>], {})
  BY DEF RingSplice
<1> DEFINE x == lists[h]
           g == Home(lists, c)
           i == At(lists, c)
           after == InsertAfter(lists, c, x)
           before == InsertBefore(lists, c, x)
           Does(l, a) ==
             \/ RingCall(a, IF x = <<>> THEN lists ELSE Lose(l, h), {})
             \/ RingCall(IF list_empty(mem, h) THEN a ELSE INIT_LIST_HEAD(a, h), [l EXCEPT ![h] = <<>>], {})
<1>3. Does(after, list_splice(mem, h, c)) \/ Does(before, list_splice_tail(mem, h, c))
  BY <1>2
<1>4. kind = "ring"
  BY <1>2 DEF RingCall
<1>5. /\ h \in DOMAIN lists /\ h \in Calm /\ g # h
      /\ c \in Cells /\ On(lists, c) /\ g \in Calm /\ c # Null
  BY <1>1, <1>2, CallerFacts, CellsAssumption
<1>6. /\ g \in DOMAIN lists /\ i \in 0..Len(lists[g])
      /\ Place(kind, g, lists[g], i) = c /\ Place(kind, g, lists[g], i + 1) = mem.next[c]
  BY <1>1, <1>5, CellLinks
<1>7. x \in Seq(Nodes)
  BY <1>1, <1>5 DEF Apart
<1> HIDE DEF g, i, x
<1>8. ASSUME NEW l, NEW a, Does(l, a),
             NEW j \in 0..Len(lists[g]), Changes(l, lists, g, Spliced(lists[g], j, x)),
             a = list_splice_between(mem, h, Place(kind, g, lists[g], j), Place(kind, g, lists[g], j + 1))
      PROVE  IInv'
  <2>1. /\ Sound(a, IF lists[h] = <<>> THEN lists ELSE Lose(l, h), {})
        /\ Sound(IF list_empty(mem, h) THEN a ELSE INIT_LIST_HEAD(a, h), [l EXCEPT ![h] = <<>>], {})
    BY <1>1, <1>4, <1>5, <1>8, SpliceSound DEF x
  <2>2. CASE RingCall(a, IF lists[h] = <<>> THEN lists ELSE Lose(l, h), {})
    BY <2>1, <2>2, CallKeeps
  <2>3. CASE RingCall(IF list_empty(mem, h) THEN a ELSE INIT_LIST_HEAD(a, h), [l EXCEPT ![h] = <<>>], {})
    BY <2>1, <2>3, CallKeeps
  <2> QED BY <2>2, <2>3, <1>8 DEF x
<1>9. /\ Changes(after, lists, g, Spliced(lists[g], i, x))
      /\ list_splice(mem, h, c) = list_splice_between(mem, h, Place(kind, g, lists[g], i), Place(kind, g, lists[g], i + 1))
  <2>1. Changes(after, lists, g, Spliced(lists[g], i, x))
    BY <1>1, <1>5, AfterChanges DEF g, i
  <2> QED BY <2>1, <1>6 DEF list_splice
<1>10. \E j \in 0..Len(lists[g]) :
         /\ Changes(before, lists, g, Spliced(lists[g], j, x))
         /\ list_splice_tail(mem, h, c) =
              list_splice_between(mem, h, Place(kind, g, lists[g], j), Place(kind, g, lists[g], j + 1))
  <2>1. PICK j \in 0..Len(lists[g]) :
           /\ Place(kind, g, lists[g], j + 1) = c
           /\ Changes(before, lists, g, Spliced(lists[g], j, x))
    BY <1>1, <1>4, <1>5, <1>7, BeforeChanges DEF g
  <2>2. mem.prev[c] = Place(kind, g, lists[g], j)
    BY <2>1, <1>1, <1>5, <1>6, Neighbours
  <2> QED BY <2>1, <2>2 DEF list_splice_tail
<1> HIDE DEF after, before, Does
<1> QED BY <1>3, <1>6, <1>8, <1>9, <1>10

\* list_cut_position.
LEMMA RingCutKeeps ==
  ASSUME IInv, RingCut
  PROVE  IInv'
<1>1. Types /\ Walking /\ kind \in Kinds /\ Apart(lists) /\ mem \in Memories /\ Follows(kind, mem, lists)
  BY DEF IInv, Types
<1>2. PICK h \in Calm, list \in Calm \cup Unused : list # h /\
        \E c \in {h} \cup ToSet(lists[h]) :
          RingCall(list_cut_position(mem, list, h, c),
             IF lists[h] = <<>> THEN lists
             ELSE Gain([lists EXCEPT ![h] = SubSeq(@, At(lists, c) + 1, Len(@))],
                       list, SubSeq(lists[h], 1, At(lists, c))), {})
  BY DEF RingCut
<1> DEFINE s == lists[h]
           N == Len(s)
           L(c) == IF s = <<>> THEN lists
                   ELSE Gain([lists EXCEPT ![h] = SubSeq(@, At(lists, c) + 1, Len(@))],
                             list, SubSeq(s, 1, At(lists, c)))
<1>3. PICK c \in {h} \cup ToSet(s) : RingCall(list_cut_position(mem, list, h, c), L(c), {})
  BY <1>2
<1> DEFINE a == list_cut_position(mem, list, h, c)
           i == At(lists, c)
           l == L(c)
<1>4. kind = "ring"
  BY <1>3 DEF RingCall
<1>5. /\ h \in DOMAIN lists /\ h \in Heads /\ h \in Cells /\ list \in Heads /\ list \in Cells /\ list # h
      /\ \A w : walk = <<w>> => w.head \in DOMAIN lists /\ w.head # h /\ w.head # list
  BY <1>1, <1>2, CallerFacts DEF Cells
<1>6. /\ s \in Seq(Nodes) /\ N \in Nat
      /\ s # <<>> => N >= 1 /\ mem.next[h] = s[1] /\ mem.prev[h] = s[N]
      /\ list_empty(mem, h) <=> s = <<>>
  BY <1>1, <1>4, <1>5, RingEnds
<1>7. CASE s = <<>>
  <2>1. a = mem /\ l = lists
    BY <1>6, <1>7 DEF list_cut_position
  <2>2. Leads(kind, mem, lists, mem, lists, {})
    BY <1>1, ElsewhereLeads
  <2>3. \A w : walk = <<w>> => Spares(lists, lists, w)
    BY <1>5 DEF Spares
  <2>4. Sound(mem, lists, {})
    BY <2>2, <2>3 DEF Sound
  <2>5. RingCall(mem, lists, {})
    BY <2>1, <1>3
  <2> QED BY <2>4, <2>5, CallKeeps
<1>8. CASE s # <<>>
  <2>1. /\ DOMAIN l = DOMAIN lists \cup {list} /\ l[list] = SubSeq(s, 1, i)
        /\ l[h] = SubSeq(s, i + 1, N) /\ \A f \in DOMAIN lists \ {list, h} : l[f] = lists[f]
    BY <1>5, <1>8 DEF Gain
  <2>2. \A w : walk = <<w>> => Spares(lists, l, w)
    BY <2>1, <1>5 DEF Spares
  <2>3. ~list_empty(mem, h)
    BY <1>6, <1>8
  <2>4. c \in ToSet(s) => i \in 1..N /\ s[i] = c
    <3>1. ASSUME c \in ToSet(s) PROVE i \in 1..N /\ s[i] = c
      <4>1. \E j \in 1..Len(lists[h]) : lists[h][j] = c
        BY <3>1, <1>1, <1>5, EntryAt
      <4>2. PICK j \in 1..Len(lists[h]) : lists[h][j] = c
        BY <4>1
      <4>3. At(lists, lists[h][j]) = j
        BY <4>2, <1>1, <1>5, HomeAt
      <4> QED BY <4>2, <4>3
    <3> QED BY <3>1
  <2>5. list_is_singular(mem, h) => c \in {mem.next[h], h}
    <3> SUFFICES ASSUME list_is_singular(mem, h), c # h PROVE c = mem.next[h]
      OBVIOUS
    <3>1. s[1] = s[N] /\ 1 \in 1..N /\ N \in 1..N
      BY <1>6, <1>8 DEF list_is_singular
    <3>2. 1 = N
      BY <3>1, <1>1, <1>5, SameEntry
    <3>3. i \in 1..1 /\ s[i] = c
      BY <3>2, <2>4
    <3>4. i = 1
      BY <3>3
    <3> QED BY <3>3, <3>4, <1>6, <1>8
  <2>6. CASE c = h
    <3>1. a = INIT_LIST_HEAD(mem, list)
      BY <2>3, <2>5, <2>6 DEF list_cut_position
    <3>2. i = 0
      BY <2>6, <1>5 DEF At
    <3>3. l[list] = <<>> /\ l[h] = s
      <4>1. SubSeq(s, 1, N) = s /\ SubSeq(s, 1, 0) = <<>>
        BY <1>6, EmptyConcat
      <4>2. i + 1 = 1
        BY <3>2
      <4> HIDE DEF l, i, a
      <4> QED BY <4>1, <4>2, <3>2, <2>1
    <3> DEFINE f == INIT_LIST_HEAD(mem, list)
    <3>4. /\ f \in Memories /\ \A x \in Cells \ {list} : f.next[x] = mem.next[x] /\ f.prev[x] = mem.prev[x]
          /\ f.next[list] = list /\ f.prev[list] = list
      BY <1>1, <1>5, InitStores
    <3>5. a = f
      BY <3>1
    <3> HIDE DEF f, l, a
    <3>6. Drops(l, lists, list)
      <4>1. \A x \in DOMAIN lists \ {list} : l[x] = lists[x]
        BY <3>3, <2>1
      <4> QED BY <4>1, <3>3, <2>1 DEF Drops
    <3>7. Leads(kind, mem, lists, f, l, {})
      BY <3>4, <3>6, <1>1, <1>4, <1>5, DropLeads
    <3>8. Sound(a, l, {})
      BY <3>5, <3>7, <2>2 DEF Sound
    <3> QED BY <3>8, <1>3, CallKeeps DEF a, l
  <2>7. CASE c # h
    <3>1. i \in 1..N /\ s[i] = c
      BY <2>4, <2>7
    <3>2. a = [mem EXCEPT !.next[list] = mem.next[h], !.prev[mem.next[h]] = list,
                          !.prev[list] = c, !.next[c] = list,
                          !.next[h] = mem.next[c], !.prev[mem.next[c]] = h]
      BY <2>3, <2>5, <2>7 DEF list_cut_position
    <3> HIDE DEF a, l, i
    <3>3. a = [mem EXCEPT !.next[list] = mem.next[h], !.prev[mem.next[h]] = list,
                          !.prev[list] = lists[h][i], !.next[lists[h][i]] = list,
                          !.next[h] = mem.next[lists[h][i]], !.prev[mem.next[lists[h][i]]] = h]
      BY <3>1, <3>2
    <3>4. Cuts(l, lists, h, list, i)
      BY <3>1, <2>1, <1>5 DEF Cuts
    <3>5. Leads(kind, mem, lists, a, l, {})
      BY <3>3, <3>4, <1>1, <1>4, CutLeads
    <3>6. Sound(a, l, {})
      BY <3>5, <2>2 DEF Sound
    <3> QED BY <3>6, <1>3, CallKeeps DEF a, l
  <2> QED BY <2>6, <2>7
<1> QED BY <1>7, <1>8

\* hlist_move_list.
LEMMA ChainMoveKeeps ==
  ASSUME IInv, ChainMove
  PROVE  IInv'
<1>1. Types /\ Walking /\ kind \in Kinds /\ Apart(lists) /\ mem \in Memories /\ Follows(kind, mem, lists)
  BY DEF IInv, Types
<1>2. PICK h \in Calm, g \in Unused \cup {x \in Calm : lists[x] = <<>>} : h # g /\
        ChainCall(hlist_move_list(mem, h, g), Gain(Gain(lists, g, lists[h]), h, <<>>), {})
  BY DEF ChainMove
<1> DEFINE a == hlist_move_list(mem, h, g)
           l == Gain(Gain(lists, g, lists[h]), h, <<>>)
           x == lists[h]
           N == Len(x)
<1>3. kind = "chain"
  BY <1>2 DEF ChainCall
<1>4. /\ h \in DOMAIN lists /\ h \in Heads /\ h \in Cells /\ g \in Heads /\ g \in Cells /\ g # h /\ g # Null
      /\ g \notin Nodes /\ h \notin Nodes
      /\ g \in DOMAIN lists => lists[g] = <<>>
      /\ \A w : walk = <<w>> => w.head \in DOMAIN lists /\ w.head # h /\ w.head # g
  BY <1>1, <1>2, CallerFacts, CellsAssumption DEF Cells
<1>5. /\ DOMAIN l = DOMAIN lists \cup {g} /\ l[h] = <<>> /\ l[g] = x
      /\ \A f \in DOMAIN lists \ {g, h} : l[f] = lists[f]
  BY <1>4 DEF Gain
<1>6. x \in Seq(Nodes) /\ N \in Nat
  BY <1>1, <1>4 DEF Apart
<1>7. \A w : walk = <<w>> => Spares(lists, l, w)
  BY <1>4, <1>5 DEF Spares
<1>8. mem.next \in [Cells -> Cells \cup {Null}] /\ mem.prev \in [Cells -> Cells \cup {Null}]
  BY <1>1 DEF Memories
<1>9. /\ Place(kind, h, x, 0) = h /\ Place(kind, h, x, N + 1) = Null
      /\ \A j \in 1..N : Place(kind, h, x, j) = x[j]
  BY <1>1, <1>3, <1>4, PlaceFacts
<1>10. \A j \in 0..N : mem.next[Place(kind, h, x, j)] = Place(kind, h, x, j + 1)
  BY <1>1, <1>4, Neighbours
<1>11. x = <<>> <=> N = 0
  BY <1>6
<1> HIDE DEF l, x, N
<1>12. Leads(kind, mem, lists, a, l, {})
  <2>1. CASE x = <<>>
    <3>1. mem.next[h] = Null
      <4>1. N = 0 /\ 0 \in 0..N /\ 0 + 1 = N + 1
        BY <2>1, <1>11
      <4> QED BY <4>1, <1>9, <1>10
    <3>2. a = [[mem EXCEPT !.next[g] = Null] EXCEPT !.next[h] = Null]
      BY <3>1 DEF hlist_move_list, pprev_fixup
    <3> HIDE DEF a
    <3>3. a \in Memories /\ a.next = [[mem.next EXCEPT ![g] = Null] EXCEPT ![h] = Null] /\ a.prev = mem.prev
      BY <3>2, <1>1, <1>4 DEF Memories
    <3>4. a.next[g] = Null /\ \A c \in Cells \ {g} : a.next[c] = mem.next[c] /\ a.prev[c] = mem.prev[c]
      BY <3>1, <3>3, <1>4, <1>8
    <3>5. Drops(l, lists, g)
      <4>1. \A f \in DOMAIN lists \ {g} : l[f] = lists[f]
        BY <2>1, <1>5 DEF x
      <4> QED BY <4>1, <2>1, <1>5 DEF Drops
    <3> QED BY <3>3, <3>4, <3>5, <1>1, <1>3, <1>4, DropLeads
  <2>2. CASE x # <<>>
    <3>1. N >= 1 /\ 1 \in 1..N /\ N \in 1..N /\ 0 \in 0..N /\ N \in 0..N /\ 0 + 1 = 1
      BY <2>2, <1>6, <1>11
    <3>2. x[1] \in Nodes /\ x[N] \in Nodes /\ x[1] \in Cells /\ x[N] \in Cells
      BY <3>1, <1>6 DEF Cells, N
    <3>3. mem.next[h] = x[1] /\ mem.next[x[N]] = Null
      BY <3>1, <1>9, <1>10
    <3>4. x[1] # Null /\ x[N] # h /\ x[N] # g
      BY <3>2, <1>4, CellsAssumption
    <3>5. a = [[[mem EXCEPT !.next[g] = x[1]] EXCEPT !.prev[x[1]] = g] EXCEPT !.next[h] = Null]
      BY <3>3, <3>4 DEF hlist_move_list, pprev_fixup
    <3> HIDE DEF a
    <3>6. /\ a \in Memories /\ a.next = [[mem.next EXCEPT ![g] = x[1]] EXCEPT ![h] = Null]
          /\ a.prev = [mem.prev EXCEPT ![x[1]] = g]
      BY <3>2, <3>5, <1>1, <1>4 DEF Memories
    <3>7. /\ \A c \in Cells : a.next[c] = IF c = h THEN Null ELSE IF c = g THEN x[1] ELSE mem.next[c]
          /\ \A c \in Cells : a.prev[c] = IF c = x[1] THEN g ELSE mem.prev[c]
      BY <3>2, <3>6, <1>4, <1>8
    <3>8. Takeover(a, mem, x, g, Null, h)
      BY <3>2, <3>3, <3>4, <3>6, <3>7, <1>4 DEF Takeover, N
    <3> DEFINE t == Target(lists, g)
               z == 0
    <3>9. t = <<>> /\ z \in 0..Len(t) /\ g = Place(kind, g, t, z) /\ Null = Place(kind, g, t, z + 1)
      <4>1. t = <<>>
        BY <1>4 DEF Target
      <4> QED BY <4>1, <1>3 DEF Place
    <3>10. Spliced(t, z, x) = x
      BY <3>9, <1>6, SplicedNothing
    <3>11. t = Target(lists, g) /\ x = lists[h]
      BY DEF x
    <3> HIDE DEF t, z
    <3>12. Pours(l, lists, h, g, Spliced(t, z, x))
      BY <3>10, <1>4, <1>5 DEF Pours
    <3>13. a.next[h] = (IF kind = "ring" THEN h ELSE Null) /\ (kind = "ring" => a.prev[h] = h)
      BY <3>7, <1>3, <1>4
    <3> QED BY <3>8, <3>9, <3>11, <3>12, <3>13, <2>2, <1>1, PourLeads
  <2> QED BY <2>1, <2>2
<1>13. Sound(a, l, {})
  BY <1>7, <1>12 DEF Sound
<1> QED BY <1>13, <1>2, CallKeeps DEF l

----------------------------------------------------------------------------
(* The steps of a walk *)

\* A walk that has just come to j is on its course.
LEMMA WalkAt ==
  ASSUME Types, Follows(kind, mem, lists), NEW w \in Walks(lists), kind = "chain" => w.dir = "next",
         NEW j \in 1..(Len(Course(lists, w)) + 1), w.pos = Stop(kind, lists, w, j),
         w.todo = SubSeq(Course(lists, w), j, Len(Course(lists, w))), w.n = Save(w.safe, w.dir, w.pos)
  PROVE  OnCourse(kind, lists, w)
<1> DEFINE C == Course(lists, w)
<1>1. kind \in Kinds /\ Apart(lists)
  BY DEF Types
<1>2. /\ C \in Seq(Nodes) /\ Len(C) \in Nat /\ \A x : x \in ToSet(C) <=> \E p \in 1..Len(C) : C[p] = x
  BY <1>1, CourseFacts
<1>3. /\ j # Len(C) + 1 => w.pos = C[j] /\ w.pos \in Nodes /\ j \in 1..Len(C) /\ j + 1 \in 1..(Len(C) + 1)
      /\ j = Len(C) + 1 => w.pos = Rim(kind, w.head)
  BY <1>1, StopFacts
<1>4. \A k \in 1..Len(C) : mem[w.dir][C[k]] = Stop(kind, lists, w, k + 1)
  BY <1>1, CourseLinks
<1>5. /\ w.todo = <<>> <=> j = Len(C) + 1
      /\ j # Len(C) + 1 => w.todo = <<C[j]>> \o SubSeq(C, j + 1, Len(C))
  <2>1. C \in Seq(Nodes) /\ j \in 1..(Len(C) + 1) /\ w.todo = SubSeq(C, j, Len(C))
    BY <1>2
  <2> HIDE DEF C
  <2>2. LET r == SubSeq(C, j, Len(C))
        IN  /\ r = <<>> <=> j = Len(C) + 1
            /\ j # Len(C) + 1 => r = <<C[j]>> \o SubSeq(C, j + 1, Len(C))
    BY <2>1, RestFacts
  <2> QED BY <2>1, <2>2
<1>6. CASE ~w.safe
  <2>1. \E p \in 1..(Len(C) + 1) : w.pos = Stop(kind, lists, w, p) /\ w.todo = SubSeq(C, p, Len(C))
    OBVIOUS
  <2> QED BY <2>1, <1>6 DEF OnCourse
<1>7. CASE w.safe /\ j = Len(C) + 1
  BY <1>3, <1>5, <1>7 DEF OnCourse
<1>8. CASE w.safe /\ j # Len(C) + 1
  <2>1. w.pos = C[j] /\ w.pos \in Nodes /\ j \in 1..Len(C) /\ j + 1 \in 1..(Len(C) + 1) /\ w.pos # Null
    BY <1>3, <1>8, CellsAssumption DEF Cells
  <2>2. w.n = Stop(kind, lists, w, j + 1)
    BY <2>1, <1>4, <1>8 DEF Save, Peek
  <2>3. (j + 1) - 1 = j /\ j + 1 # 1
    BY <2>1, <1>2
  <2>4. w.todo = <<w.pos>> \o SubSeq(C, j + 1, Len(C))
    BY <2>1, <1>5, <1>8
  <2>5. w.pos \in ToSet(C) => j + 1 # 1 /\ C[(j + 1) - 1] = w.pos
    BY <2>1, <2>3
  <2>6. \E p \in 1..(Len(C) + 1) :
          /\ w.pos \in Nodes /\ w.n = Stop(kind, lists, w, p)
          /\ w.todo = <<w.pos>> \o SubSeq(C, p, Len(C))
          /\ w.pos \in ToSet(C) => p # 1 /\ C[p - 1] = w.pos
    BY <2>1, <2>2, <2>4, <2>5
  <2> QED BY <2>6, <1>8 DEF OnCourse
<1> QED BY <1>6, <1>7, <1>8

\* What a walk reads is a pointer.
LEMMA ReadsPointers ==
  ASSUME Types, NEW dir \in {"next", "prev"}
  PROVE  /\ \A c \in Cells : mem[dir][c] \in Cells \cup {Null}
         /\ \A c \in Cells \cup {Null}, safe \in BOOLEAN :
              Peek(dir, c) \in Cells \cup {Null} /\ Save(safe, dir, c) \in Cells \cup {Null}
<1>1. \A c \in Cells : mem[dir][c] \in Cells \cup {Null}
  BY DEF Types, Memories
<1> QED BY <1>1 DEF Peek, Save

\* Steps of a walk leave the rest alone.
LEMMA WalksKeep ==
  ASSUME IInv, UNCHANGED <<kind, mem, lists, idle, fake>>,
         walk' = <<>> \/ \E w \in Walks(lists) :
           walk' = <<w>> /\ (kind = "chain" => w.dir = "next") /\ OnCourse(kind, lists, w)
  PROVE  IInv'
<1>1. Types' /\ Follows(kind, mem, lists)'
  BY DEF IInv, Types
<1>2. OutsideKnown'
  BY DEF IInv, OutsideKnown
<1>3. Walking'
  BY DEF Walking
<1> QED BY <1>1, <1>2, <1>3 DEF IInv

\* The body of a loop ends and the walk goes on.
LEMMA WalkStepKeeps ==
  ASSUME IInv, WalkStep
  PROVE  IInv'
<1>1. Types /\ Walking /\ kind \in Kinds /\ Apart(lists) /\ Follows(kind, mem, lists)
  BY DEF IInv, Types
<1>2. PICK w \in ToSet(walk) :
        LET pos == IF w.safe THEN w.n ELSE Peek(w.dir, w.pos)
        IN  /\ w.pos # End(w.head)
            /\ walk' = << [w EXCEPT !.pos = pos, !.n = Save(w.safe, w.dir, pos), !.todo = Tail(@)] >>
            /\ UNCHANGED <<kind, mem, lists, idle, fake>>
  BY DEF WalkStep
<1>3. w \in Walks(lists) /\ (kind = "chain" => w.dir = "next") /\ OnCourse(kind, lists, w)
  <2>1. walk # <<>>
    BY DEF ToSet
  <2>2. PICK v \in Walks(lists) : walk = <<v>> /\ (kind = "chain" => v.dir = "next") /\ OnCourse(kind, lists, v)
    BY <2>1, <1>1 DEF Walking
  <2>3. v = w
    BY <2>2 DEF ToSet
  <2> QED BY <2>2, <2>3
<1> DEFINE C == Course(lists, w)
           pos == IF w.safe THEN w.n ELSE Peek(w.dir, w.pos)
           v == [w EXCEPT !.pos = pos, !.n = Save(w.safe, w.dir, pos), !.todo = Tail(@)]
<1>4. w.pos # Rim(kind, w.head)
  BY <1>2 DEF End, Rim
<1>5. /\ C \in Seq(Nodes) /\ Len(C) \in Nat /\ w.dir \in {"next", "prev"} /\ w.safe \in BOOLEAN
      /\ w.todo \in Seq(Nodes) /\ w.pos \in Cells \cup {Null} /\ w.n \in Cells \cup {Null} /\ w.head \in DOMAIN lists
  BY <1>1, <1>3, CourseFacts DEF Walks
<1>6. \A k \in 1..Len(C) : mem[w.dir][C[k]] = Stop(kind, lists, w, k + 1)
  BY <1>1, <1>3, CourseLinks
<1> HIDE DEF C
<1>7. PICK j \in 1..(Len(C) + 1) : pos = Stop(kind, lists, w, j) /\ Tail(w.todo) = SubSeq(C, j, Len(C)) /\ w.todo # <<>>
  <2>1. PICK j \in 1..(Len(C) + 1) :
          IF w.safe
          THEN /\ w.pos \in Nodes /\ w.n = Stop(kind, lists, w, j)
               /\ w.todo = <<w.pos>> \o SubSeq(C, j, Len(C))
               /\ w.pos \in ToSet(C) => j # 1 /\ C[j - 1] = w.pos
          ELSE w.pos = Stop(kind, lists, w, j) /\ w.todo = SubSeq(C, j, Len(C))
    BY <1>3, <1>4 DEF OnCourse, C
  <2> DEFINE r == SubSeq(C, j, Len(C))
  <2>2. /\ r \in Seq(Nodes)
        /\ r = <<>> <=> j = Len(C) + 1
        /\ j # Len(C) + 1 => Tail(r) = SubSeq(C, j + 1, Len(C))
    BY <1>5, RestFacts
  <2>3. CASE w.safe
    <3>1. w.pos \in Nodes /\ w.todo = <<w.pos>> \o r
      BY <2>1, <2>3
    <3> HIDE DEF r
    <3>2. Tail(<<w.pos>> \o r) = r /\ <<w.pos>> \o r # <<>>
      BY <2>2, <3>1
    <3> QED BY <3>1, <3>2, <2>1, <2>3 DEF r
  <2>4. CASE ~w.safe
    <3>1. w.pos = Stop(kind, lists, w, j) /\ w.todo = r
      BY <2>1, <2>4
    <3>2. j # Len(C) + 1
      BY <3>1, <1>1, <1>3, <1>4, StopFacts DEF C
    <3>3. w.pos = C[j] /\ w.pos \in Nodes /\ j \in 1..Len(C) /\ j + 1 \in 1..(Len(C) + 1)
      BY <3>1, <3>2, <1>1, <1>3, StopFacts DEF C
    <3>4. w.pos # Null
      BY <3>3, CellsAssumption DEF Cells
    <3>5. pos = Stop(kind, lists, w, j + 1)
      BY <3>3, <3>4, <2>4, <1>6 DEF Peek
    <3> HIDE DEF r, pos
    <3> QED BY <3>1, <3>2, <3>3, <3>5, <2>2
  <2> QED BY <2>3, <2>4
<1>8. pos \in Cells \cup {Null}
  BY <1>1, <1>5, ReadsPointers
<1>9. Save(w.safe, w.dir, pos) \in Cells \cup {Null}
  BY <1>1, <1>5, <1>8, ReadsPointers
<1> HIDE DEF pos
<1>10. Tail(w.todo) \in Seq(Nodes)
  BY <1>5, <1>7
<1>11. /\ v \in Walks(lists) /\ v.head = w.head /\ v.dir = w.dir /\ v.safe = w.safe /\ v.pos = pos
       /\ v.n = Save(w.safe, w.dir, pos) /\ v.todo = Tail(w.todo)
  BY <1>3, <1>8, <1>9, <1>10 DEF Walks
<1>12. walk' = <<v>> /\ UNCHANGED <<kind, mem, lists, idle, fake>>
  BY <1>2 DEF pos
<1> HIDE DEF v
<1>13. Course(lists, v) = C /\ Stop(kind, lists, v, j) = Stop(kind, lists, w, j)
  BY <1>11 DEF Course, Stop, C
<1>14. OnCourse(kind, lists, v)
  <2>1. /\ j \in 1..(Len(Course(lists, v)) + 1) /\ v.pos = Stop(kind, lists, v, j)
        /\ v.todo = SubSeq(Course(lists, v), j, Len(Course(lists, v))) /\ v.n = Save(v.safe, v.dir, v.pos)
        /\ kind = "chain" => v.dir = "next"
    BY <1>3, <1>7, <1>11, <1>13
  <2> QED BY <2>1, <1>1, <1>11, WalkAt
<1>15. kind = "chain" => v.dir = "next"
  BY <1>3, <1>11
<1> QED BY <1>11, <1>12, <1>14, <1>15, WalksKeep

\* A walk ends.
LEMMA WalkEndKeeps ==
  ASSUME IInv, WalkEnd
  PROVE  IInv'
BY WalksKeep DEF WalkEnd

\* A walk begins, at a head or from an entry.
LEMMA WalkBeginKeeps ==
  ASSUME IInv, WalkBegin
  PROVE  IInv'
<1>1. Types /\ Walking /\ kind \in Kinds /\ Apart(lists) /\ Follows(kind, mem, lists)
  BY DEF IInv, Types
<1>2. PICK h \in Calm, c \in Linked, dir \in {"next", "prev"}, safe \in BOOLEAN, from \in BOOLEAN :
        LET pos  == IF from THEN c ELSE mem[dir][c]
            rest == SubSeq(lists[h], At(lists, c) + 1, Len(lists[h]))
            back == IF c = h THEN lists[h] ELSE SubSeq(lists[h], 1, At(lists, c) - 1)
        IN  /\ walk = <<>> /\ Home(lists, c) = h
            /\ from => c # h /\ dir = "next"
            /\ safe /\ (dir = "prev" \/ kind = "chain") => c = h
            /\ kind = "chain" => dir = "next"
            /\ walk' = << [head |-> h, dir |-> dir, safe |-> safe, pos |-> pos,
                           n |-> Save(safe, dir, pos),
                           todo |-> IF from THEN <<c>> \o rest
                                    ELSE IF dir = "next" THEN rest ELSE Reverse(back)] >>
            /\ UNCHANGED <<kind, mem, lists, idle, fake>>
  BY DEF WalkBegin
<1> DEFINE s == lists[h]
           N == Len(s)
           i == At(lists, c)
           pos  == IF from THEN c ELSE mem[dir][c]
           rest == SubSeq(s, i + 1, N)
           back == IF c = h THEN s ELSE SubSeq(s, 1, i - 1)
           todo == IF from THEN <<c>> \o rest ELSE IF dir = "next" THEN rest ELSE Reverse(back)
           v == [head |-> h, dir |-> dir, safe |-> safe, pos |-> pos, n |-> Save(safe, dir, pos), todo |-> todo]
           C == IF dir = "next" THEN s ELSE Reverse(s)
<1>3. /\ walk' = <<v>> /\ UNCHANGED <<kind, mem, lists, idle, fake>>
      /\ Home(lists, c) = h /\ (from => c # h /\ dir = "next") /\ (kind = "chain" => dir = "next")
      /\ v.head = h /\ v.dir = dir /\ v.safe = safe /\ v.pos = pos /\ v.n = Save(safe, dir, pos) /\ v.todo = todo
  BY <1>2
<1>4. h \in DOMAIN lists /\ h \in Heads /\ h \notin Nodes /\ c \in Cells /\ On(lists, c)
  BY <1>1, CallerFacts, CellsAssumption DEF Cells
<1>5. s \in Seq(Nodes) /\ N \in Nat
  BY <1>1, <1>4 DEF Apart
<1>6. c = h => i = 0
  BY <1>4 DEF At
<1>7. c # h => c \in Nodes /\ i \in 1..N /\ s[i] = c
  <2>1. ASSUME c # h PROVE c \in Nodes /\ i \in 1..N /\ s[i] = c
    <3>1. c \notin Heads
      BY <2>1, <1>3 DEF Home
    <3>2. c \in Nodes /\ c \in Entries(lists)
      BY <3>1, <1>1, <1>4, OnNodes DEF Cells
    <3>3. At(lists, c) \in 1..Len(lists[Home(lists, c)]) /\ lists[Home(lists, c)][At(lists, c)] = c
      BY <3>2, <1>1, HomeAt
    <3> QED BY <3>2, <3>3, <1>3
  <2> QED BY <2>1
<1>8. i \in 0..N
  BY <1>5, <1>6, <1>7
<1>9. rest \in Seq(Nodes) /\ back \in Seq(Nodes)
  BY <1>5, <1>6, <1>7
<1>10. pos \in Cells \cup {Null} /\ Save(safe, dir, pos) \in Cells \cup {Null} /\ todo \in Seq(Nodes)
  <2>1. pos \in Cells \cup {Null}
    BY <1>1, <1>4, ReadsPointers
  <2>2. Save(safe, dir, pos) \in Cells \cup {Null}
    <3> HIDE DEF pos
    <3> QED BY <2>1, <1>1, ReadsPointers
  <2>3. Reverse(back) \in Seq(Nodes)
    <3> HIDE DEF back
    <3> QED BY <1>9, ReverseFacts
  <2>4. from => <<c>> \o rest \in Seq(Nodes)
    <3> HIDE DEF rest
    <3> QED BY <1>3, <1>7, <1>9
  <2> HIDE DEF rest, back
  <2> QED BY <2>1, <2>2, <2>3, <2>4, <1>9
<1> HIDE DEF todo, pos
<1>11. v \in Walks(lists)
  BY <1>4, <1>10 DEF Walks
<1> HIDE DEF v
<1>12. Course(lists, v) = C
  BY <1>3 DEF Course
<1>13. C \in Seq(Nodes) /\ Len(C) = N
  BY <1>5, ReverseFacts
<1> HIDE DEF C
<1>14. /\ mem[dir][h] = Stop(kind, lists, v, 1)
       /\ \A j \in 1..N : mem[dir][C[j]] = Stop(kind, lists, v, j + 1)
       /\ \A j \in 1..N : Stop(kind, lists, v, j) = C[j]
  <2>1. \A j \in 1..N : Stop(kind, lists, v, j) = C[j]
    BY <1>12, <1>13 DEF Stop
  <2> QED BY <2>1, <1>1, <1>3, <1>11, <1>12, <1>13, CourseLinks
<1>15. ASSUME NEW j \in 1..(N + 1), pos = Stop(kind, lists, v, j), todo = SubSeq(C, j, N)
       PROVE  OnCourse(kind, lists, v)
  <2>1. /\ j \in 1..(Len(Course(lists, v)) + 1) /\ v.pos = Stop(kind, lists, v, j)
        /\ v.todo = SubSeq(Course(lists, v), j, Len(Course(lists, v))) /\ v.n = Save(v.safe, v.dir, v.pos)
        /\ kind = "chain" => v.dir = "next"
    BY <1>3, <1>12, <1>13, <1>15
  <2> QED BY <2>1, <1>1, <1>11, WalkAt
<1>16. ASSUME from
       PROVE  OnCourse(kind, lists, v)
  <2>1. C = s /\ dir = "next" /\ c \in Nodes /\ i \in 1..N /\ s[i] = c /\ pos = c /\ todo = <<c>> \o SubSeq(C, i + 1, N)
    BY <1>3, <1>7, <1>16 DEF C, pos, todo
  <2>2. i + 1 \in 1..(N + 1) /\ i \in 1..(N + 1) /\ i # N + 1 /\ (i + 1) - 1 = i /\ i + 1 # 1
    BY <2>1, <1>5
  <2>3. CASE safe
    <3>1. v.n = Stop(kind, lists, v, i + 1)
      <4>1. c # Null
        BY <2>1, CellsAssumption DEF Cells
      <4> QED BY <4>1, <2>1, <2>3, <1>3, <1>14 DEF Save, Peek
    <3>2. v.pos = c /\ v.todo = <<c>> \o SubSeq(C, i + 1, N)
      BY <2>1, <1>3
    <3>3. \E j \in 1..(Len(C) + 1) :
            /\ v.pos \in Nodes /\ v.n = Stop(kind, lists, v, j)
            /\ v.todo = <<v.pos>> \o SubSeq(C, j, Len(C))
            /\ v.pos \in ToSet(C) => j # 1 /\ C[j - 1] = v.pos
      BY <3>1, <3>2, <2>1, <2>2, <1>13
    <3> QED BY <3>3, <2>3, <1>3, <1>12 DEF OnCourse
  <2>4. CASE ~safe
    <3>1. SubSeq(C, i, N) = <<C[i]>> \o SubSeq(C, i + 1, N)
      <4>1. i \in 1..(Len(C) + 1) /\ i # Len(C) + 1
        BY <2>2, <1>13
      <4>2. C \in Seq(Nodes) /\ Len(C) = N
        BY <1>13
      <4> HIDE DEF C, N
      <4>3. SubSeq(C, i, Len(C)) = <<C[i]>> \o SubSeq(C, i + 1, Len(C))
        BY ONLY <4>1, <4>2, RestFacts
      <4> QED BY <4>2, <4>3
    <3>2. todo = SubSeq(C, i, N) /\ pos = Stop(kind, lists, v, i)
      BY <3>1, <2>1, <1>14
    <3> QED BY <3>2, <2>2, <1>15
  <2> QED BY <2>3, <2>4
<1>17. ASSUME ~from, dir = "next"
       PROVE  OnCourse(kind, lists, v)
  <2>1. C = s /\ pos = mem[dir][c] /\ todo = SubSeq(C, i + 1, N)
    BY <1>17 DEF C, pos, todo
  <2>2. i + 1 \in 1..(N + 1)
    BY <1>5, <1>8
  <2>3. pos = Stop(kind, lists, v, i + 1)
    <3>1. CASE c = h
      <4>1. i + 1 = 1
        BY <3>1, <1>6
      <4> QED BY <4>1, <3>1, <2>1, <1>14
    <3>2. CASE c # h
      <4>1. i \in 1..N /\ C[i] = c
        BY <3>2, <2>1, <1>7
      <4> QED BY <4>1, <2>1, <1>14
    <3> QED BY <3>1, <3>2
  <2> QED BY <2>1, <2>2, <2>3, <1>15
<1>18. ASSUME ~from, dir # "next"
       PROVE  OnCourse(kind, lists, v)
  <2>1. C = Reverse(s) /\ pos = mem[dir][c] /\ todo = Reverse(back) /\ dir = "prev"
    BY <1>18 DEF C, pos, todo
  <2>2. CASE c = h
    <3>1. todo = C /\ pos = Stop(kind, lists, v, 1)
      BY <2>1, <2>2, <1>14
    <3>2. SubSeq(C, 1, Len(C)) = C
      BY <1>13, EmptyConcat
    <3>3. 1 \in 1..(N + 1)
      BY <1>5
    <3> QED BY <3>1, <3>2, <3>3, <1>13, <1>15
  <2>3. CASE c # h
    <3> DEFINE j == N - i + 1
    <3>1. c \in Nodes /\ i \in 1..N /\ s[i] = c
      BY <2>3, <1>7
    <3>2. j \in 1..N /\ j + 1 = N - i + 2 /\ j + 1 \in 1..(N + 1) /\ N - j + 1 = i
      <4>1. N \in Nat /\ i \in Nat /\ i >= 1 /\ i <= N
        BY <3>1, <1>5
      <4> HIDE DEF N, i
      <4> QED BY <4>1
    <3>3. C[j] = c
      <4>1. \A k \in 1..Len(s) : Reverse(s)[k] = s[Len(s) - k + 1]
        BY <1>5, ReverseFacts
      <4> QED BY <4>1, <3>1, <3>2, <2>1
    <3> HIDE DEF j
    <3>4. pos = Stop(kind, lists, v, j + 1)
      BY <3>2, <3>3, <2>1, <1>14
    <3>5. todo = SubSeq(C, j + 1, N)
      <4>1. SubSeq(Reverse(s), N - i + 2, N) = Reverse(SubSeq(s, 1, i - 1))
        BY <3>1, <1>5, ReverseRest
      <4> QED BY <4>1, <3>2, <2>1, <2>3
    <3> QED BY <3>2, <3>4, <3>5, <1>15
  <2> QED BY <2>2, <2>3
<1>19. OnCourse(kind, lists, v)
  BY <1>16, <1>17, <1>18
<1> QED BY <1>3, <1>11, <1>19, WalksKeep

----------------------------------------------------------------------------
(* The theorems *)

\* Nothing is initialised at first.
LEMMA InitIInv == Init => IInv
<1> SUFFICES ASSUME Init PROVE IInv
  OBVIOUS
<1>1. /\ kind \in {"ring", "chain"} /\ lists = <<>> /\ idle = {} /\ fake = {} /\ walk = <<>>
      /\ \E g \in Cells : mem = [next |-> [c \in Cells |-> g], prev |-> [c \in Cells |-> g]]
  BY DEF Init
<1>2. DOMAIN lists = {}
  BY <1>1
<1>3. Apart(lists) /\ Entries(lists) = {}
  BY <1>2 DEF Apart, Entries
<1>4. mem \in Memories
  BY <1>1 DEF Memories
<1>5. Types
  BY <1>1, <1>3, <1>4 DEF Types, Kinds
<1>6. Follows(kind, mem, lists)
  BY <1>2 DEF Follows, Joins
<1>7. OutsideKnown
  BY <1>1 DEF OutsideKnown
<1>8. Walking
  BY <1>1 DEF Walking
<1> QED BY <1>5, <1>6, <1>7, <1>8 DEF IInv

\* Every step keeps the invariant: one lemma per action.
LEMMA NextIInv == IInv /\ [Next]_vars => IInv'
<1> SUFFICES ASSUME IInv, [Next]_vars PROVE IInv'
  OBVIOUS
<1>1. CASE UNCHANGED vars
  BY <1>1 DEF vars, IInv, Types, OutsideKnown, Walking
<1>2. CASE Next
  BY <1>2, InitHeadKeeps, InitEntryKeeps, RingAddKeeps, RingDelKeeps, RingReplaceKeeps, RingMoveKeeps,
     RingRotateKeeps, RingCutKeeps, RingSpliceKeeps, ChainAddKeeps, ChainDelKeeps, ChainFakeKeeps,
     ChainMoveKeeps, WalkBeginKeeps, WalkStepKeeps, WalkEndKeeps DEF Next
<1> QED BY <1>1, <1>2

\* The invariant holds of every state.
LEMMA Invariance == Spec => []IInv
BY InitIInv, NextIInv, PTL DEF Spec

\* The links of a list, written as the properties do.
LEMMA FollowsLists ==
  ASSUME NEW k \in Kinds, NEW m, NEW l, Apart(l), Follows(k, m, l), NEW h \in DOMAIN l
  PROVE  IF k = "ring" THEN Ring(m, h, l[h]) ELSE Chain(m, h, l[h])
<1> DEFINE s == l[h]
           N == Len(s)
<1>1. /\ h \in Heads /\ h # Null /\ N \in Nat /\ \A i \in 1..N : s[i] \in Nodes /\ s[i] # Null
  BY EntryAt, CellsAssumption DEF Cells
<1>2. \A i \in 0..N : /\ m.next[Place(k, h, s, i)] = Place(k, h, s, i + 1)
                      /\ Place(k, h, s, i + 1) # Null => m.prev[Place(k, h, s, i + 1)] = Place(k, h, s, i)
  BY Neighbours
<1>3. /\ Place(k, h, s, 0) = h /\ Place(k, h, s, N + 1) = (IF k = "ring" THEN h ELSE Null)
      /\ \A i \in 1..N : Place(k, h, s, i) = s[i]
  BY PlaceFacts
<1>4. \A i \in 0..N : /\ i = 0 \/ i \in 1..N
                      /\ i = N \/ (i # N /\ i + 1 \in 1..N)
                      /\ N + 1 \notin 1..N /\ 0 \notin 1..N
  BY <1>1
<1>5. \A i \in 0..N : Cell(h, s, i) = Place(k, h, s, i)
  BY <1>3, <1>4 DEF Cell
<1> HIDE DEF s, N
<1>6. CASE k = "ring"
  <2>1. \A i \in 0..N : Cell(h, s, i + 1) = Place(k, h, s, i + 1) /\ Place(k, h, s, i + 1) # Null
    BY <1>1, <1>3, <1>4, <1>6 DEF Cell, N
  <2>2. Ring(m, h, s)
    BY <2>1, <1>2, <1>5 DEF Ring, N
  <2> QED BY <2>2, <1>6 DEF s
<1>7. CASE k = "chain"
  <2>1. ASSUME NEW i \in 0..N
        PROVE  m.next[Cell(h, s, i)] = IF i = N THEN Null ELSE s[i + 1]
    <3>1. Place(k, h, s, i + 1) = IF i = N THEN Null ELSE s[i + 1]
      BY <1>3, <1>4, <1>7
    <3> QED BY <3>1, <1>2, <1>5
  <2>2. ASSUME NEW i \in 0..N, i > 0
        PROVE  m.prev[s[i]] = Cell(h, s, i - 1)
    <3>1. i \in 1..N /\ i - 1 \in 0..N /\ (i - 1) + 1 = i
      BY <2>2, <1>1
    <3>2. Place(k, h, s, (i - 1) + 1) = s[i] /\ s[i] # Null
      BY <3>1, <1>1, <1>3
    <3> QED BY <3>1, <3>2, <1>2, <1>5
  <2>3. Chain(m, h, s)
    BY <2>1, <2>2 DEF Chain, N
  <2> QED BY <2>3, <1>7 DEF s
<1> QED BY <1>6, <1>7 DEF Kinds

\* A ring holds its entries in the sense of the lemmas about one list.
LEMMA RingHolds ==
  ASSUME Types, Follows(kind, mem, lists), kind = "ring", NEW h \in DOMAIN lists
  PROVE  Holds(mem, h, lists[h])
<1>1. kind \in Kinds /\ Apart(lists) /\ mem \in Memories
  BY DEF Types
<1>2. Ring(mem, h, lists[h])
  BY <1>1, FollowsLists
<1>3. h \in Heads /\ lists[h] \in Seq(Nodes) /\ \A i, j \in 1..Len(lists[h]) : lists[h][i] = lists[h][j] => i = j
  BY <1>1 DEF Apart
<1> QED BY <1>1, <1>2, <1>3 DEF Holds

\* Entries are on one list at most, once, and only then neither idle nor faked.
THEOREM TypeCorrect == Spec => []TypeOK
<1>1. IInv => TypeOK
  <2> SUFFICES ASSUME IInv PROVE TypeOK
    OBVIOUS
  <2>1. Types /\ Apart(lists) /\ mem \in Memories
    BY DEF IInv, Types
  <2>2. DOMAIN mem = {"next", "prev"} /\ \A p \in DOMAIN mem : mem[p] \in [Cells -> Cells \cup {Null}]
    BY <2>1 DEF Memories
  <2>3. DOMAIN lists \subseteq Heads /\ \A h \in DOMAIN lists : lists[h] \in Seq(Nodes) /\ DOMAIN lists[h] = 1..Len(lists[h])
    BY <2>1 DEF Apart
  <2>4. \A h \in DOMAIN lists : IsInjective(lists[h])
    BY <2>1, <2>3, SameEntry DEF IsInjective
  <2>5. \A h, g \in DOMAIN lists : h # g => ToSet(lists[h]) \cap ToSet(lists[g]) = {}
    BY <2>1, OneList
  <2> QED BY <2>1, <2>2, <2>3, <2>4, <2>5 DEF TypeOK, Types, Kinds
<1> QED BY <1>1, Invariance, PTL

\* list.h:49 to 357 and 588 to 677: after any calls, through whatever stale
\* pointers, the pointers of every list are those of the promised sequence.
THEOREM PointersCorrect == Spec => []PointersFollowLists
<1>1. IInv => PointersFollowLists
  BY FollowsLists DEF IInv, Types, PointersFollowLists
<1> QED BY <1>1, Invariance, PTL

\* list.h:157, 621 and 661: initialised entries on no list, and faked nodes,
\* are recognised.
THEOREM IdleKnown == Spec => []IdleEntriesKnown
<1>1. IInv => IdleEntriesKnown
  <2> SUFFICES ASSUME IInv PROVE IdleEntriesKnown
    OBVIOUS
  <2>1. Types /\ Follows(kind, mem, lists) /\ OutsideKnown /\ fake \subseteq Nodes
    BY DEF IInv, Types
  <2>2. kind = "ring" \/ kind = "chain"
    BY <2>1 DEF Types, Kinds
  <2>3. \A n \in Entries(lists) \cup fake : mem.prev[n] \in Cells \/ (n \in fake /\ n \in Cells)
    BY <2>1, EntryLinks DEF Cells
  <2>4. CASE kind = "ring"
    BY <2>1, <2>4 DEF OutsideKnown, IdleEntriesKnown, list_empty_careful
  <2>5. CASE kind = "chain"
    <3>1. \A n \in fake : mem.prev[n] = n
      BY <2>1, <2>5 DEF OutsideKnown
    <3>2. \A n \in Entries(lists) \cup fake : mem.prev[n] # Null
      BY <2>3, <3>1, CellsAssumption
    <3> QED BY <3>2, <2>1, <2>5 DEF OutsideKnown, IdleEntriesKnown, hlist_unhashed
  <2> QED BY <2>2, <2>4, <2>5
<1> QED BY <1>1, Invariance, PTL

\* The tests of a ring, and get_fifo.
LEMMA RingTests ==
  ASSUME Types, Follows(kind, mem, lists), kind = "ring", NEW h \in DOMAIN lists
  PROVE  /\ list_empty(mem, h) <=> lists[h] = <<>>
         /\ list_empty_careful(mem, h) <=> lists[h] = <<>>
         /\ list_is_singular(mem, h) <=> Len(lists[h]) = 1
         /\ \A n \in ToSet(lists[h]) : list_is_last(mem, n, h) <=> n = Last(lists[h])
         /\ LET g == get_fifo(mem, h)
            IN  IF lists[h] = <<>> THEN g.elem = Null
                ELSE g.elem = Head(lists[h]) /\ Ring(g.mem, h, Tail(lists[h]))
<1> DEFINE s == lists[h]
           N == Len(s)
<1>1. kind \in Kinds /\ Apart(lists)
  BY DEF Types
<1>2. /\ h \in Heads /\ h \notin Nodes /\ s \in Seq(Nodes) /\ N \in Nat
      /\ s = <<>> => mem.next[h] = h /\ mem.prev[h] = h
      /\ s # <<>> => N >= 1 /\ mem.next[h] = s[1] /\ mem.prev[h] = s[N] /\ s[1] \in Nodes
      /\ list_empty(mem, h) <=> s = <<>>
  BY RingEnds, CellsAssumption
<1>3. list_empty_careful(mem, h) <=> s = <<>>
  BY <1>2 DEF list_empty_careful, list_empty
<1>4. list_is_singular(mem, h) <=> N = 1
  <2>1. CASE s = <<>>
    <3>1. N = 0
      BY <2>1
    <3> QED BY <2>1, <3>1, <1>2 DEF list_is_singular
  <2>2. CASE s # <<>>
    <3>1. 1 \in 1..N /\ N \in 1..N
      BY <2>2, <1>2
    <3>2. s[1] = s[N] <=> 1 = N
      BY <3>1, <1>1, SameEntry
    <3> QED BY <2>2, <3>2, <1>2 DEF list_is_singular
  <2> QED BY <2>1, <2>2
<1>5. ASSUME NEW n \in ToSet(s) PROVE list_is_last(mem, n, h) <=> n = Last(s)
  <2>1. \E i \in 1..Len(lists[h]) : lists[h][i] = n
    BY <1>1, EntryAt
  <2>2. PICK i \in 1..N : s[i] = n
    BY <2>1
  <2>3. Last(s) = s[N] /\ N \in 1..N /\ i \in 0..N
    BY <2>2, <1>2 DEF Last
  <2>4. mem.next[n] = Place(kind, h, s, i + 1)
    <3>1. Place(kind, h, s, i) = n
      BY <2>2, <1>1, PlaceFacts
    <3>2. mem.next[Place(kind, h, s, i)] = Place(kind, h, s, i + 1)
      BY <2>3, <1>1, Neighbours
    <3> QED BY <3>1, <3>2
  <2>5. i = N <=> s[i] = s[N]
    BY <2>3, <1>1, SameEntry
  <2>6. CASE i = N
    <3>1. Place(kind, h, s, N + 1) = h
      BY <1>1, PlaceFacts
    <3> QED BY <2>2, <2>3, <2>4, <2>6, <3>1 DEF list_is_last
  <2>7. CASE i # N
    <3>1. i + 1 \in 1..N
      BY <2>2, <2>7, <1>2
    <3>2. Place(kind, h, s, i + 1) = s[i + 1] /\ s[i + 1] \in Nodes
      BY <3>1, <1>1, <1>2, PlaceFacts
    <3> QED BY <3>2, <2>2, <2>3, <2>4, <2>5, <2>7, <1>2 DEF list_is_last
  <2> QED BY <2>6, <2>7
<1>6. Holds(mem, h, s)
  BY RingHolds
<1>7. /\ s = <<>> => get_fifo(mem, h).elem = Null
      /\ s # <<>> => get_fifo(mem, h).elem = Head(s) /\ Holds(get_fifo(mem, h).mem, h, Tail(s))
  <2> HIDE DEF s
  <2> QED BY <1>6, QueueIsFifo
<1>8. \A m, t : Holds(m, h, t) => Ring(m, h, t)
  BY DEF Holds
<1> QED BY <1>2, <1>3, <1>4, <1>5, <1>7, <1>8

\* list.h:191 to 246 and 597, queue.h:23: the tests answer for the promised
\* sequence, and get_fifo takes its first entry and leaves the others.
THEOREM TestsCorrect == Spec => []TestsAgree
<1>1. IInv => TestsAgree
  <2> SUFFICES ASSUME IInv PROVE TestsAgree
    OBVIOUS
  <2>1. Types /\ Follows(kind, mem, lists) /\ kind \in Kinds /\ Apart(lists)
    BY DEF IInv, Types
  <2>2. CASE kind = "ring"
    BY <2>1, <2>2, RingTests DEF TestsAgree
  <2>3. CASE kind = "chain"
    <3>1. ASSUME NEW h \in DOMAIN lists PROVE hlist_empty(mem, h) <=> lists[h] = <<>>
      <4> DEFINE s == lists[h]
      <4>1. Len(s) \in Nat /\ \A i \in 1..Len(s) : s[i] \in Nodes
        BY <2>1, EntryAt
      <4>2. 0 \in 0..Len(s) /\ 0 + 1 = 1 /\ (s = <<>> <=> Len(s) = 0)
        BY <2>1, <4>1 DEF Apart
      <4>3. mem.next[Place(kind, h, s, 0)] = Place(kind, h, s, 0 + 1)
        BY <2>1, <4>2, Neighbours
      <4>4. Place(kind, h, s, 0) = h
        BY <2>1, PlaceFacts
      <4>5. Place(kind, h, s, 1) = IF s = <<>> THEN Null ELSE s[1]
        BY <2>3, <4>1, <4>2 DEF Place
      <4>6. s # <<>> => s[1] # Null
        BY <4>1, <4>2, CellsAssumption DEF Cells
      <4> HIDE DEF s
      <4> QED BY <4>2, <4>3, <4>4, <4>5, <4>6 DEF hlist_empty, s
    <3> QED BY <2>3, <3>1 DEF TestsAgree
  <2> QED BY <2>1, <2>2, <2>3 DEF Kinds
<1> QED BY <1>1, Invariance, PTL

\* list.h:384 to 577 and 681 to 737: a loop visits every entry that was on the
\* list when it began, once and in order, and then stops.
THEOREM WalksComplete == Spec => []WalkVisitsAll
<1>1. IInv => WalkVisitsAll
  <2> SUFFICES ASSUME IInv, NEW w \in ToSet(walk)
               PROVE  w.pos = IF w.todo = <<>> THEN End(w.head) ELSE Head(w.todo)
    BY DEF WalkVisitsAll
  <2>1. Types /\ Walking /\ kind \in Kinds /\ Apart(lists) /\ Follows(kind, mem, lists)
    BY DEF IInv, Types
  <2>2. w \in Walks(lists) /\ OnCourse(kind, lists, w)
    <3>1. walk # <<>>
      BY DEF ToSet
    <3>2. PICK v \in Walks(lists) : walk = <<v>> /\ OnCourse(kind, lists, v)
      BY <3>1, <2>1 DEF Walking
    <3>3. v = w
      BY <3>2 DEF ToSet
    <3> QED BY <3>2, <3>3
  <2> DEFINE C == Course(lists, w)
  <2>3. End(w.head) = Rim(kind, w.head)
    BY DEF End, Rim
  <2>4. C \in Seq(Nodes) /\ Len(C) \in Nat
    BY <2>1, <2>2, CourseFacts
  <2> HIDE DEF C
  <2>5. CASE w.pos = Rim(kind, w.head) /\ w.todo = <<>>
    BY <2>3, <2>5
  <2>6. CASE \E j \in 1..(Len(C) + 1) :
               IF w.safe
               THEN w.pos \in Nodes /\ w.todo = <<w.pos>> \o SubSeq(C, j, Len(C))
               ELSE w.pos = Stop(kind, lists, w, j) /\ w.todo = SubSeq(C, j, Len(C))
    <3>1. PICK j \in 1..(Len(C) + 1) :
               IF w.safe
               THEN w.pos \in Nodes /\ w.todo = <<w.pos>> \o SubSeq(C, j, Len(C))
               ELSE w.pos = Stop(kind, lists, w, j) /\ w.todo = SubSeq(C, j, Len(C))
      BY <2>6
    <3> DEFINE r == SubSeq(C, j, Len(C))
    <3>2. /\ r \in Seq(Nodes)
          /\ r = <<>> <=> j = Len(C) + 1
          /\ j # Len(C) + 1 => Head(r) = C[j]
      BY <2>4, RestFacts
    <3> HIDE DEF r
    <3>3. CASE w.safe
      <4>1. w.pos \in Nodes /\ w.todo = <<w.pos>> \o r
        BY <3>1, <3>3 DEF r
      <4>2. <<w.pos>> \o r # <<>> /\ Head(<<w.pos>> \o r) = w.pos
        BY <3>2, <4>1
      <4> QED BY <4>1, <4>2
    <3>4. CASE ~w.safe
      <4>1. w.pos = Stop(kind, lists, w, j) /\ w.todo = r
        BY <3>1, <3>4 DEF r
      <4>2. /\ j # Len(C) + 1 => Stop(kind, lists, w, j) = C[j]
            /\ j = Len(C) + 1 => Stop(kind, lists, w, j) = Rim(kind, w.head)
        BY <2>1, <2>2, StopFacts DEF C
      <4> QED BY <4>1, <4>2, <3>2, <2>3
    <3> QED BY <3>3, <3>4
  <2> QED BY <2>2, <2>5, <2>6 DEF OnCourse, C
<1> QED BY <1>1, Invariance, PTL
====
