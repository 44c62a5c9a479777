----------------------------- MODULE EntryTable -----------------------------
(***************************************************************************)
(* What the hash table promises: it tracks entries under keys; inserting   *)
(* adds an entry, deleting a key takes one entry with that key out and     *)
(* returns it, and looking a key up returns such an entry and changes      *)
(* nothing.  HashTable.tla relates hashtbl.c to this module.               *)
(***************************************************************************)
CONSTANTS
  Threads, Entries, Keys,
  NoEntry   \* NULL

VARIABLES
  tracked,  \* entries in the table
  key,      \* the key each entry was last given
  found     \* the key of each thread's last delete or lookup and its result

vars == <<tracked, key, found>>

Init ==
  /\ tracked = {}
  /\ key \in [Entries -> Keys]
  /\ found \in [Threads -> Keys \X {NoEntry}]

Under(k) == {e \in tracked : key[e] = k}

\* A client gives an entry of its own a key, then links it.
SetKey(e, k) ==
  /\ e \notin tracked
  /\ key' = [key EXCEPT ![e] = k]
  /\ UNCHANGED <<tracked, found>>

Link(e) ==
  /\ e \notin tracked
  /\ tracked' = tracked \cup {e}
  /\ UNCHANGED <<key, found>>

\* Both at once.
Insert(e, k) ==
  /\ e \notin tracked
  /\ key' = [key EXCEPT ![e] = k]
  /\ tracked' = tracked \cup {e}
  /\ UNCHANGED found

Remove(t, k) ==
  /\ \/ \E e \in Under(k) : /\ tracked' = tracked \ {e}
                            /\ found' = [found EXCEPT ![t] = <<k, e>>]
     \/ /\ Under(k) = {}
        /\ found' = [found EXCEPT ![t] = <<k, NoEntry>>]
        /\ UNCHANGED tracked
  /\ UNCHANGED key

Find(t, k) ==
  /\ \/ \E e \in Under(k) : found' = [found EXCEPT ![t] = <<k, e>>]
     \/ Under(k) = {} /\ found' = [found EXCEPT ![t] = <<k, NoEntry>>]
  /\ UNCHANGED <<tracked, key>>

Next ==
  \/ \E e \in Entries : Link(e) \/ \E k \in Keys : SetKey(e, k) \/ Insert(e, k)
  \/ \E t \in Threads, k \in Keys : Remove(t, k) \/ Find(t, k)

Spec == Init /\ [][Next]_vars
=============================================================================
