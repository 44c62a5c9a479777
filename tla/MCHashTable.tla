---------------------------- MODULE MCHashTable ----------------------------
(* Instances of HashTable for TLC. *)
EXTENDS HashTable, TLC
CONSTANTS t1, t2, t3, e1, e2, e3

Symm == Permutations(Threads) \cup Permutations(Entries)

\* Keys 1 and 3 collide in two buckets.
KeyHash == [k \in Keys |-> k]
Collide == [k \in Keys |-> 0]
\* Each key points to a word of eight bytes with a low half of its own ...
OwnWord == [k \in Keys |-> <<k, 0>>]
\* ... or to different words with the same low half.
SameWord == [k \in Keys |-> <<0, k>>]

\* With Threshold 1: two buckets for ever; or 1, 3 and then, beyond the last of
\* the sizes, 5.  With Threshold 2: three buckets, then 5.
TwoBuckets == <<2>>
ThreeBuckets == <<3>>
Grow == <<1, 3>>
==============================================================================
