--------------------------- MODULE SequenceLemmas ---------------------------
(***************************************************************************)
(* What the queues, chains and arrays of the other modules rely on: how    *)
(* adding and removing an element changes the contents of a sequence, and  *)
(* that a set of numbers has a least element.                              *)
(***************************************************************************)
EXTENDS Naturals, SequencesExt, WellFoundedInduction, TLAPS

Below == {p \in Nat \X Nat : p[1] < p[2]}

\* Every set of numbers has a least element: the first index with a property.
LEMMA LeastOf ==
  ASSUME NEW S \in SUBSET Nat, S # {}
  PROVE  Min(S) \in S /\ \A m \in S : Min(S) <= m
<1>1. IsWellFoundedOn(Below, Nat)
  BY NatLessThanWellFounded DEF OpToRel, Below
<1>2. PICK l \in S : \A m \in S : <<m, l>> \notin Below
  BY <1>1, WFMin, Zenon
<1>3. ASSUME NEW m \in S, ~(l <= m)
      PROVE  FALSE
  <2>1. m \in Nat /\ l \in Nat /\ m < l
    BY <1>3
  <2>2. <<m, l>> \in Nat \X Nat /\ <<m, l>>[1] < <<m, l>>[2]
    BY <2>1
  <2> QED BY <1>2, <2>2 DEF Below
<1> QED BY <1>3 DEF Min

\* An element that is put at the end stays unique if it was not there.
LEMMA AppendContents ==
  ASSUME NEW S, NEW q \in Seq(S), NEW e \in S
  PROVE  /\ Append(q, e) \in Seq(S) /\ Len(Append(q, e)) = Len(q) + 1
         /\ ToSet(Append(q, e)) = ToSet(q) \cup {e}
         /\ IsInjective(q) /\ e \notin ToSet(q) => IsInjective(Append(q, e))
<1>1. /\ Append(q, e) \in Seq(S) /\ Len(Append(q, e)) = Len(q) + 1 /\ Len(q) \in Nat
      /\ DOMAIN Append(q, e) = 1..Len(q) + 1 /\ DOMAIN q = 1..Len(q)
  OBVIOUS
<1>2. Append(q, e)[Len(q) + 1] = e /\ \A i \in 1..Len(q) : Append(q, e)[i] = q[i]
  OBVIOUS
<1>3. 1..(Len(q) + 1) = (1..Len(q)) \cup {Len(q) + 1}
  BY <1>1
<1>4. ToSet(Append(q, e)) = ToSet(q) \cup {e}
  BY <1>1, <1>2, <1>3 DEF ToSet
<1>5. ASSUME IsInjective(q), e \notin ToSet(q)
      PROVE  IsInjective(Append(q, e))
  BY <1>1, <1>2, <1>3, <1>5 DEF IsInjective, ToSet
<1> QED BY <1>1, <1>4, <1>5

\* So does an element that is put at the front.
LEMMA PrependContents ==
  ASSUME NEW S, NEW q \in Seq(S), NEW e \in S
  PROVE  /\ <<e>> \o q \in Seq(S) /\ Len(<<e>> \o q) = Len(q) + 1
         /\ (<<e>> \o q)[1] = e /\ \A i \in 1..Len(q) : (<<e>> \o q)[i + 1] = q[i]
         /\ ToSet(<<e>> \o q) = ToSet(q) \cup {e}
         /\ IsInjective(q) /\ e \notin ToSet(q) => IsInjective(<<e>> \o q)
<1> DEFINE p == <<e>> \o q
<1>1. /\ p \in Seq(S) /\ Len(p) = Len(q) + 1 /\ Len(q) \in Nat
      /\ DOMAIN p = 1..Len(q) + 1 /\ DOMAIN q = 1..Len(q)
  OBVIOUS
<1>2. p[1] = e /\ \A i \in 1..Len(q) : p[i + 1] = q[i]
  OBVIOUS
<1>3. \A i \in 1..Len(q) + 1 : i # 1 => i - 1 \in 1..Len(q) /\ p[i] = q[i - 1]
  <2>1. \A i \in 1..Len(q) + 1 : i # 1 => i - 1 \in 1..Len(q) /\ (i - 1) + 1 = i
    BY <1>1
  <2> QED BY <1>2, <2>1
<1>4. \A i \in 1..Len(q) : i + 1 \in 1..Len(q) + 1
  BY <1>1
<1>5. 1 \in 1..Len(q) + 1
  BY <1>1
<1> HIDE DEF p
<1>6. ToSet(p) = ToSet(q) \cup {e}
  <2>1. ASSUME NEW x \in ToSet(p) PROVE x \in ToSet(q) \cup {e}
    <3>1. PICK i \in 1..Len(q) + 1 : x = p[i]
      BY <1>1 DEF ToSet
    <3>2. i # 1 => i - 1 \in DOMAIN q /\ q[i - 1] = x
      BY <3>1, <1>1, <1>3
    <3> QED BY <3>1, <3>2, <1>2 DEF ToSet
  <2>2. ASSUME NEW x \in ToSet(q) PROVE x \in ToSet(p)
    <3>1. PICK i \in 1..Len(q) : x = q[i]
      BY <1>1 DEF ToSet
    <3>2. i + 1 \in DOMAIN p /\ p[i + 1] = x
      BY <3>1, <1>1, <1>2, <1>4
    <3> QED BY <3>2 DEF ToSet
  <2>3. e \in ToSet(p)
    BY <1>1, <1>2, <1>5 DEF ToSet
  <2> QED BY <2>1, <2>2, <2>3
<1>7. ASSUME IsInjective(q), e \notin ToSet(q)
      PROVE  IsInjective(p)
  <2> SUFFICES ASSUME NEW i \in 1..Len(q) + 1, NEW j \in 1..Len(q) + 1, p[i] = p[j]
               PROVE  i = j
    BY <1>1 DEF IsInjective
  <2>1. ASSUME i # 1, j # 1 PROVE i = j
    <3>1. i - 1 = j - 1
      BY <2>1, <1>1, <1>3, <1>7 DEF IsInjective
    <3> QED BY <3>1
  <2>2. i = 1 => j = 1
    BY <1>1, <1>2, <1>3, <1>7 DEF ToSet
  <2>3. j = 1 => i = 1
    BY <1>1, <1>2, <1>3, <1>7 DEF ToSet
  <2> QED BY <2>1, <2>2, <2>3
<1> QED BY <1>1, <1>2, <1>6, <1>7 DEF p

\* What is left when the first element leaves.
LEMMA TailContents ==
  ASSUME NEW S, NEW q \in Seq(S), q # <<>>
  PROVE  /\ Head(q) \in S /\ Head(q) \in ToSet(q) /\ Tail(q) \in Seq(S)
         /\ IsInjective(q) => IsInjective(Tail(q)) /\ ToSet(Tail(q)) = ToSet(q) \ {Head(q)}
<1>1. Len(q) \in Nat \ {0} /\ Head(q) = q[1] /\ DOMAIN q = 1..Len(q)
  OBVIOUS
<1>2. Tail(q) \in Seq(S) /\ Len(Tail(q)) = Len(q) - 1 /\ DOMAIN Tail(q) = 1..Len(q) - 1
  BY <1>1
<1>3. \A i \in 1..(Len(q) - 1) : Tail(q)[i] = q[i + 1] /\ i + 1 \in 1..Len(q) /\ i + 1 # 1
  BY <1>1
<1>4. Head(q) \in S /\ 1 \in 1..Len(q)
  BY <1>1
<1>5. ASSUME IsInjective(q)
      PROVE  IsInjective(Tail(q)) /\ ToSet(Tail(q)) = ToSet(q) \ {Head(q)}
  <2>1. IsInjective(Tail(q))
    <3> SUFFICES ASSUME NEW i \in 1..(Len(q) - 1), NEW j \in 1..(Len(q) - 1),
                        q[i + 1] = q[j + 1]
                 PROVE  i = j
      BY <1>2, <1>3 DEF IsInjective
    <3> QED BY <1>1, <1>3, <1>5 DEF IsInjective
  <2>2. ASSUME NEW x \in ToSet(Tail(q)) PROVE x \in ToSet(q) \ {Head(q)}
    BY <1>1, <1>2, <1>3, <1>4, <1>5 DEF ToSet, IsInjective
  <2>3. ASSUME NEW x \in ToSet(q) \ {Head(q)} PROVE x \in ToSet(Tail(q))
    <3>1. PICK k \in 1..Len(q) : x = q[k]
      BY <1>1 DEF ToSet
    <3>2. k - 1 \in 1..(Len(q) - 1) /\ (k - 1) + 1 = k
      BY <1>1, <3>1
    <3> QED BY <1>2, <1>3, <3>1, <3>2 DEF ToSet
  <2> QED BY <2>1, <2>2, <2>3
<1> QED BY <1>1, <1>2, <1>4, <1>5 DEF ToSet

\* What is left when the element at position k leaves.
LEMMA RemoveFacts ==
  ASSUME NEW S, NEW s \in Seq(S), NEW k \in 1..Len(s)
  PROVE  /\ RemoveAt(s, k) \in Seq(S)
         /\ Len(RemoveAt(s, k)) = Len(s) - 1
         /\ \A i \in 1..Len(s) - 1 : RemoveAt(s, k)[i] = IF i < k THEN s[i] ELSE s[i + 1]
<1> DEFINE u == SubSeq(s, 1, k - 1)
           v == SubSeq(s, k + 1, Len(s))
<1>1. u \in Seq(S) /\ Len(u) = k - 1 /\ \A i \in 1..k - 1 : u[i] = s[i]
  OBVIOUS
<1>2. v \in Seq(S) /\ Len(v) = Len(s) - k /\ \A i \in 1..Len(s) - k : v[i] = s[k + i]
  OBVIOUS
<1>3. RemoveAt(s, k) = u \o v
  BY DEF RemoveAt
<1> HIDE DEF u, v
<1>4. /\ u \o v \in Seq(S) /\ Len(u \o v) = Len(u) + Len(v)
      /\ \A i \in 1..Len(u) + Len(v) : (u \o v)[i] = IF i <= Len(u) THEN u[i] ELSE v[i - Len(u)]
  <2>1. u \in Seq(S) /\ v \in Seq(S)
    BY <1>1, <1>2
  <2> QED BY <2>1
<1>5. Len(u) + Len(v) = Len(s) - 1 /\ Len(s) \in Nat
  BY <1>1, <1>2
<1>6. ASSUME NEW i \in 1..Len(s) - 1
      PROVE  (u \o v)[i] = IF i < k THEN s[i] ELSE s[i + 1]
  <2>1. i \in 1..Len(u) + Len(v)
    BY <1>5
  <2>2. CASE i < k
    BY <1>1, <1>4, <2>1, <2>2
  <2>3. CASE i >= k
    <3>1. i - Len(u) \in 1..Len(s) - k /\ k + (i - Len(u)) = i + 1 /\ ~(i <= Len(u))
      BY <1>1, <1>5, <2>3
    <3> QED BY <1>2, <1>4, <2>1, <2>3, <3>1
  <2>4. i < k \/ i >= k
    BY <1>5
  <2> QED BY <2>2, <2>3, <2>4
<1> QED BY <1>3, <1>4, <1>5, <1>6

\* Removing a unique element removes nothing else.
LEMMA RemoveContents ==
  ASSUME NEW S, NEW s \in Seq(S), NEW k \in 1..Len(s), IsInjective(s)
  PROVE  /\ RemoveAt(s, k) \in Seq(S) /\ IsInjective(RemoveAt(s, k))
         /\ s[k] \in ToSet(s) /\ ToSet(RemoveAt(s, k)) = ToSet(s) \ {s[k]}
<1> DEFINE r == RemoveAt(s, k)
           At(i) == IF i < k THEN i ELSE i + 1
           N == Len(s)
<1>1. /\ r \in Seq(S) /\ DOMAIN r = 1..N - 1 /\ DOMAIN s = 1..N /\ N \in Nat
      /\ \A i \in 1..N - 1 : r[i] = s[At(i)]
  <2>1. /\ r \in Seq(S) /\ Len(r) = N - 1 /\ N \in Nat
        /\ \A i \in 1..N - 1 : r[i] = IF i < k THEN s[i] ELSE s[i + 1]
    BY RemoveFacts
  <2> HIDE DEF r
  <2>2. DOMAIN r = 1..Len(r)
    BY <2>1
  <2> QED BY <2>1, <2>2
<1>2. \A i \in 1..N - 1 : At(i) \in 1..N /\ At(i) # k
  BY <1>1
<1>3. \A i, j \in 1..N - 1 : At(i) = At(j) => i = j
  BY <1>1
<1>4. \A m \in 1..N : m # k => \E i \in 1..N - 1 : At(i) = m
  <2> SUFFICES ASSUME NEW m \in 1..N, m # k PROVE \E i \in 1..N - 1 : At(i) = m
    OBVIOUS
  <2>1. CASE m < k
    <3>1. m \in 1..N - 1 /\ At(m) = m
      BY <1>1, <2>1
    <3> QED BY <3>1
  <2>2. CASE m > k
    <3>1. m - 1 \in 1..N - 1 /\ At(m - 1) = m
      BY <1>1, <2>2
    <3> QED BY <3>1
  <2>3. m < k \/ m > k
    BY <1>1
  <2> QED BY <2>1, <2>2, <2>3
<1> HIDE DEF r, At, N
<1>5. k \in 1..N
  BY DEF N
<1>6. IsInjective(r)
  BY <1>1, <1>2, <1>3 DEF IsInjective
<1>7. ASSUME NEW x \in ToSet(r) PROVE x \in ToSet(s) \ {s[k]}
  <2>1. PICK i \in 1..N - 1 : x = r[i]
    BY <1>1 DEF ToSet
  <2>2. At(i) \in 1..N /\ At(i) # k /\ x = s[At(i)]
    BY <1>1, <1>2, <2>1
  <2>3. s[At(i)] # s[k]
    BY <1>1, <1>5, <2>2 DEF IsInjective
  <2> QED BY <1>1, <2>2, <2>3 DEF ToSet
<1>8. ASSUME NEW x \in ToSet(s) \ {s[k]} PROVE x \in ToSet(r)
  <2>1. PICK m \in 1..N : x = s[m]
    BY <1>1 DEF ToSet
  <2>2. PICK i \in 1..N - 1 : At(i) = m
    BY <1>4, <2>1
  <2> QED BY <1>1, <2>1, <2>2 DEF ToSet
<1> QED BY <1>1, <1>5, <1>6, <1>7, <1>8 DEF r, ToSet
=============================================================================
