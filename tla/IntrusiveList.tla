--------------------------- MODULE IntrusiveList ---------------------------
(***************************************************************************)
(* include/milutil/list/list.h: doubly linked lists threaded through their *)
(* entries.  The header has two families that share nothing: rings         *)
(* (struct list_head) and hash chains (struct hlist_head, hlist_node).     *)
(* kind says which one a behaviour exercises.                              *)
(*                                                                         *)
(* Memory is one record of two functions.  A pointer is the cell it points *)
(* to; a chain's head->first is its cell's next, and pprev, the address of *)
(* the pointer to a node, is the cell that holds this pointer.  Every      *)
(* function of the header is an operator from memory to memory that makes  *)
(* the same stores in the same order.                                      *)
(*                                                                         *)
(* Beside the memory, lists holds what the calls promise: the sequence of  *)
(* entries behind every initialised head.                                  *)
(***************************************************************************)
EXTENDS Naturals, SequencesExt

CONSTANTS
  Heads, Nodes,  \* list heads; structs' embedded entries
  Null

Cells == Heads \cup Nodes
ASSUME CellsAssumption == Heads \cap Nodes = {} /\ Null \notin Cells

VARIABLES
  kind,    \* "ring" or "chain"
  mem,     \* next and prev (first, next and pprev) of every cell
  lists,   \* entries behind each initialised head, in order
  idle,    \* entries on no list that have been initialised since they left
  fake,    \* hash chain nodes that pretend to be on a list
  walk     \* the iteration in progress, or <<>>

vars == <<kind, mem, lists, idle, fake, walk>>

----------------------------------------------------------------------------
(* struct list_head *)

INIT_LIST_HEAD(m, h) == [m EXCEPT !.next[h] = h, !.prev[h] = h]

list_add_between(m, e, prev, next) ==
  [m EXCEPT !.prev[next] = e, !.next[e] = next, !.prev[e] = prev, !.next[prev] = e]

list_add(m, e, head) == list_add_between(m, e, head, m.next[head])
list_add_tail(m, e, head) == list_add_between(m, e, m.prev[head], head)

\* __list_del_entry
list_unlink(m, e) == [m EXCEPT !.prev[m.next[e]] = m.prev[e], !.next[m.prev[e]] = m.next[e]]

list_del(m, e) == [list_unlink(m, e) EXCEPT !.next[e] = Null, !.prev[e] = Null]

\* Mutant: the entry keeps its pointers.
list_del_init_not(m, e) == list_unlink(m, e)
list_del_init(m, e) == INIT_LIST_HEAD(list_unlink(m, e), e)

list_move(m, e, head) == list_add(list_unlink(m, e), e, head)
list_move_tail(m, e, head) == list_add_tail(list_unlink(m, e), e, head)

\* Mutant: old->prev is read before the first stores.
list_replace_early(m, old, e) ==
  [m EXCEPT !.next[e] = m.next[old], !.prev[m.next[old]] = e,
            !.prev[e] = m.prev[old], !.next[m.prev[old]] = e]

\* elem->prev is read from old after elem->next->prev was written: if old was
\* empty these are the same pointer, and elem becomes an empty list.
list_replace(m, old, e) ==
  LET n == [m EXCEPT !.next[e] = m.next[old], !.prev[m.next[old]] = e]
  IN  [n EXCEPT !.prev[e] = n.prev[old], !.next[n.prev[old]] = e]

list_empty(m, h) == m.next[h] = h
list_empty_careful(m, h) == m.next[h] = h /\ m.next[h] = m.prev[h]
list_is_last(m, e, h) == m.next[e] = h

\* Mutant: an empty list is not excluded.
list_is_singular_loose(m, h) == m.next[h] = m.prev[h]
list_is_singular(m, h) == ~list_empty(m, h) /\ m.next[h] = m.prev[h]

list_rotate_left(m, h) == IF list_empty(m, h) THEN m ELSE list_move_tail(m, m.next[h], h)

\* new_first is read before the stores; list->next after its own.
list_cut_position(m, list, head, e) ==
  IF list_empty(m, head) \/ (list_is_singular(m, head) /\ e \notin {m.next[head], head}) THEN m
  ELSE IF e = head THEN INIT_LIST_HEAD(m, list)
  ELSE [m EXCEPT !.next[list] = m.next[head], !.prev[m.next[head]] = list,
                 !.prev[list] = e, !.next[e] = list,
                 !.next[head] = m.next[e], !.prev[m.next[e]] = head]

list_splice_between(m, list, prev, next) ==
  IF list_empty(m, list) THEN m
  ELSE [m EXCEPT !.prev[m.next[list]] = prev, !.next[prev] = m.next[list],
                 !.next[m.prev[list]] = next, !.prev[next] = m.prev[list]]

list_splice(m, list, head) == list_splice_between(m, list, head, m.next[head])
list_splice_tail(m, list, head) == list_splice_between(m, list, m.prev[head], head)

----------------------------------------------------------------------------
(* struct hlist_head, struct hlist_node *)

INIT_HLIST_HEAD(m, h) == [m EXCEPT !.next[h] = Null]
INIT_HLIST_NODE(m, n) == [m EXCEPT !.next[n] = Null, !.prev[n] = Null]

hlist_empty(m, h) == m.next[h] = Null
hlist_unhashed(m, n) == m.prev[n] = Null

\* if(p) p->pprev = &c->next
pprev_fixup(m, p, c) == IF p = Null THEN m ELSE [m EXCEPT !.prev[p] = c]

\* __hlist_del, then both pointers NULL.
hlist_del(m, n) ==
  INIT_HLIST_NODE(pprev_fixup([m EXCEPT !.next[m.prev[n]] = m.next[n]], m.next[n], m.prev[n]), n)

hlist_del_init(m, n) == IF hlist_unhashed(m, n) THEN m ELSE hlist_del(m, n)

hlist_add_head(m, n, h) ==
  [pprev_fixup([m EXCEPT !.next[n] = m.next[h]], m.next[h], n) EXCEPT !.next[h] = n, !.prev[n] = h]

hlist_add_before(m, n, next) ==
  [m EXCEPT !.prev[n] = m.prev[next], !.next[n] = next, !.prev[next] = n, !.next[m.prev[next]] = n]

\* The second argument is the new node.
hlist_add_after(m, n, next) ==
  pprev_fixup([m EXCEPT !.next[next] = m.next[n], !.next[n] = next, !.prev[next] = n], m.next[n], next)

hlist_add_fake(m, n) == [m EXCEPT !.prev[n] = n]

hlist_move_list(m, old, e) ==
  [pprev_fixup([m EXCEPT !.next[e] = m.next[old]], m.next[old], e) EXCEPT !.next[old] = Null]

----------------------------------------------------------------------------
(* include/milutil/queue/queue.h: a ring behind a mutex.  Both functions   *)
(* hold the mutex for their whole body.                                    *)

put_fifo(m, q, e) == list_add_tail(m, e, q)
get_fifo(m, q) ==
  IF list_empty(m, q) THEN [elem |-> Null, mem |-> m]
  ELSE [elem |-> m.next[q], mem |-> list_del(m, m.next[q])]

----------------------------------------------------------------------------
(* What callers may do *)

Entries(l) == UNION {ToSet(l[h]) : h \in DOMAIN l}
Home(l, c) == IF c \in Heads THEN c ELSE CHOOSE h \in DOMAIN l : c \in ToSet(l[h])
At(l, c)   == IF c \in Heads THEN 0 ELSE CHOOSE i \in DOMAIN l[Home(l, c)] : l[Home(l, c)][i] = c

\* Sequence s in l behind cell c, or before it.
InsertAfter(l, c, s) ==
  [l EXCEPT ![Home(l, c)] = SubSeq(@, 1, At(l, c)) \o s \o SubSeq(@, At(l, c) + 1, Len(@))]
InsertBefore(l, c, s) ==
  IF c \in Heads THEN [l EXCEPT ![c] = @ \o s]
  ELSE LET i == At(l, c) - 1
       IN  [l EXCEPT ![Home(l, c)] = SubSeq(@, 1, i) \o s \o SubSeq(@, i + 1, Len(@))]
Without(l, n) == [h \in DOMAIN l |-> IF n \in ToSet(l[h]) THEN RemoveAt(l[h], At(l, n)) ELSE l[h]]
Lose(l, h) == [g \in DOMAIN l \ {h} |-> l[g]]
Gain(l, h, s) == [g \in DOMAIN l \cup {h} |-> IF g = h THEN s ELSE l[g]]

\* The list being walked is changed only by the removal of the entry the loop
\* stands on, and only in the safe loops.
Calm == DOMAIN lists \ {walk[i].head : i \in DOMAIN walk}
Linked == Calm \cup Entries([h \in Calm |-> lists[h]])
Loose == Nodes \ (Entries(lists) \cup fake)
Removable == (Linked \cap Nodes)
  \cup {walk[i].pos : i \in {j \in DOMAIN walk : walk[j].safe /\ walk[j].pos \in ToSet(lists[walk[j].head])}}
Unused == Heads \ DOMAIN lists

\* A call leaves memory m; lists should now be l, and entries q are initialised.
Call(m, l, q) ==
  /\ mem' = m /\ lists' = l
  /\ idle' = (idle \cup q) \ Entries(l)
  /\ UNCHANGED <<kind, walk>>
RingCall(m, l, q) == kind = "ring" /\ Call(m, l, q) /\ UNCHANGED fake
ChainCall(m, l, q) == kind = "chain" /\ Call(m, l, q) /\ fake' = fake \ q

InitHead == \E h \in Unused :
  \/ RingCall(INIT_LIST_HEAD(mem, h), Gain(lists, h, <<>>), {})
  \/ ChainCall(INIT_HLIST_HEAD(mem, h), Gain(lists, h, <<>>), {})

InitEntry == \E n \in Loose :
  \/ RingCall(INIT_LIST_HEAD(mem, n), lists, {n})
  \/ ChainCall(INIT_HLIST_NODE(mem, n), lists, {n})

RingAdd == \E n \in Loose, c \in Linked :
  \/ RingCall(list_add(mem, n, c), InsertAfter(lists, c, <<n>>), {})
  \/ RingCall(list_add_tail(mem, n, c), InsertBefore(lists, c, <<n>>), {})

\* list_del_init may be called again on an entry it has initialised.
RingDel ==
  \/ \E n \in Removable : RingCall(list_del(mem, n), Without(lists, n), {})
  \/ \E n \in Removable \cup idle : RingCall(list_del_init(mem, n), Without(lists, n), {n})

\* An entry, or a head (full or empty) whose list another head takes over; the
\* _init variant initialises the one replaced.
RingReplace ==
  \/ \E old \in Linked \cap Nodes, n \in Loose :
       LET l == Without(InsertAfter(lists, old, <<n>>), old)
       IN  \/ RingCall(list_replace(mem, old, n), l, {})
           \/ RingCall(INIT_LIST_HEAD(list_replace(mem, old, n), old), l, {old})
  \/ \E old \in Calm, h \in Unused :
       LET l == Gain(Lose(lists, old), h, lists[old])
       IN  \/ RingCall(list_replace(mem, old, h), l, {})
           \/ RingCall(INIT_LIST_HEAD(list_replace(mem, old, h), old), Gain(l, old, <<>>), {})

\* Mutant: the entry is not taken off its list first.
RingMoveCopy == \E n \in Removable : \E c \in Linked \ {n} :
  RingCall(list_add(mem, n, c), InsertAfter(lists, c, <<n>>), {})

RingMove == \E n \in Removable : \E c \in Linked \ {n} :
  \/ RingCall(list_move(mem, n, c), InsertAfter(Without(lists, n), c, <<n>>), {})
  \/ RingCall(list_move_tail(mem, n, c), InsertBefore(Without(lists, n), c, <<n>>), {})

RingRotate == \E h \in Calm :
  RingCall(list_rotate_left(mem, h),
           [lists EXCEPT ![h] = IF @ = <<>> THEN @ ELSE Append(Tail(@), Head(@))], {})

\* What list held before is given up, except that an empty head is not cut.
RingCut == \E h \in Calm, list \in Calm \cup Unused : list # h /\
  \E c \in {h} \cup ToSet(lists[h]) :
    RingCall(list_cut_position(mem, list, h, c),
             IF lists[h] = <<>> THEN lists
             ELSE Gain([lists EXCEPT ![h] = SubSeq(@, At(lists, c) + 1, Len(@))],
                       list, SubSeq(lists[h], 1, At(lists, c))), {})

\* Without _init the head of a list that was not empty is left dangling.
RingSplice == \E h \in Calm, c \in Linked : Home(lists, c) # h /\
  LET Joined(l) == IF lists[h] = <<>> THEN lists ELSE Lose(l, h)
      Init(m)   == IF list_empty(mem, h) THEN m ELSE INIT_LIST_HEAD(m, h)
      after  == InsertAfter(lists, c, lists[h])
      before == InsertBefore(lists, c, lists[h])
  IN  \/ RingCall(list_splice(mem, h, c), Joined(after), {})
      \/ RingCall(list_splice_tail(mem, h, c), Joined(before), {})
      \/ RingCall(Init(list_splice(mem, h, c)), [after EXCEPT ![h] = <<>>], {})
      \/ RingCall(Init(list_splice_tail(mem, h, c)), [before EXCEPT ![h] = <<>>], {})

ChainAdd == \E n \in Loose :
  \/ \E h \in Calm : ChainCall(hlist_add_head(mem, n, h), InsertAfter(lists, h, <<n>>), {})
  \/ \E c \in Linked \cap Nodes :
       \/ ChainCall(hlist_add_before(mem, n, c), InsertBefore(lists, c, <<n>>), {})
       \/ ChainCall(hlist_add_after(mem, c, n), InsertAfter(lists, c, <<n>>), {})

ChainDel ==
  \/ \E n \in Removable \cup fake : ChainCall(hlist_del(mem, n), Without(lists, n), {n})
  \/ \E n \in Removable \cup fake \cup idle :
       ChainCall(hlist_del_init(mem, n), Without(lists, n), {n})

ChainFake == \E n \in idle :
  /\ kind = "chain"
  /\ mem' = hlist_add_fake(mem, n)
  /\ idle' = idle \ {n} /\ fake' = fake \cup {n}
  /\ UNCHANGED <<kind, lists, walk>>

ChainMove == \E h \in Calm, g \in Unused \cup {x \in Calm : lists[x] = <<>>} : h # g /\
  ChainCall(hlist_move_list(mem, h, g), Gain(Gain(lists, g, lists[h]), h, <<>>), {})

----------------------------------------------------------------------------
(* The iteration macros.  A safe loop keeps the cell behind the one it     *)
(* stands on in n; todo is what it promised to visit when it began.        *)

End(h) == IF kind = "ring" THEN h ELSE Null
Peek(dir, c) == IF c = Null THEN Null ELSE mem[dir][c]

\* Mutant: the next entry is read when the loop moves on, not in advance.
SaveNot(safe, dir, pos) == Null
Save(safe, dir, pos) == IF safe THEN Peek(dir, pos) ELSE Null

\* list_for_each and its variants: forward or backward, safe or not, from a
\* head, continued behind an entry or started on it.
WalkBegin == \E h \in Calm, c \in Linked, dir \in {"next", "prev"}, safe, from \in BOOLEAN :
  LET pos  == IF from THEN c ELSE mem[dir][c]
      rest == SubSeq(lists[h], At(lists, c) + 1, Len(lists[h]))
      back == IF c = h THEN lists[h] ELSE SubSeq(lists[h], 1, At(lists, c) - 1)
  IN  /\ walk = <<>> /\ Home(lists, c) = h
      /\ from => c # h /\ dir = "next"
      /\ safe /\ (dir = "prev" \/ kind = "chain") => c = h
      /\ kind = "chain" => dir = "next"
      /\ walk' = << [head |-> h, dir |-> dir, safe |-> safe, pos |-> pos,
                     n |-> Save(safe, dir, pos),
                     todo |-> IF from THEN <<c>> \o rest
                              ELSE IF dir = "next" THEN rest ELSE Reverse(back)] >>
      /\ UNCHANGED <<kind, mem, lists, idle, fake>>

WalkStep == \E w \in ToSet(walk) :
  LET pos == IF w.safe THEN w.n ELSE Peek(w.dir, w.pos)
  IN  /\ w.pos # End(w.head)
      /\ walk' = << [w EXCEPT !.pos = pos, !.n = Save(w.safe, w.dir, pos), !.todo = Tail(@)] >>
      /\ UNCHANGED <<kind, mem, lists, idle, fake>>

WalkEnd == \E w \in ToSet(walk) :
  /\ w.pos = End(w.head)
  /\ walk' = <<>>
  /\ UNCHANGED <<kind, mem, lists, idle, fake>>

----------------------------------------------------------------------------
\* Nothing is initialised; every pointer is garbage.
Init ==
  /\ kind \in {"ring", "chain"}
  /\ \E g \in Cells : mem = [next |-> [c \in Cells |-> g], prev |-> [c \in Cells |-> g]]
  /\ lists = <<>> /\ idle = {} /\ fake = {} /\ walk = <<>>

Next ==
  \/ InitHead \/ InitEntry
  \/ RingAdd \/ RingDel \/ RingReplace \/ RingMove \/ RingRotate \/ RingCut \/ RingSplice
  \/ ChainAdd \/ ChainDel \/ ChainFake \/ ChainMove
  \/ WalkBegin \/ WalkStep \/ WalkEnd

Spec == Init /\ [][Next]_vars

----------------------------------------------------------------------------
\* An entry is on one list at most, and only then neither idle nor faked.
TypeOK ==
  /\ kind \in {"ring", "chain"}
  /\ DOMAIN mem = {"next", "prev"}
  /\ \A p \in DOMAIN mem : mem[p] \in [Cells -> Cells \cup {Null}]
  /\ DOMAIN lists \subseteq Heads
  /\ \A h \in DOMAIN lists : lists[h] \in Seq(Nodes) /\ IsInjective(lists[h])
  /\ \A h, g \in DOMAIN lists : h # g => ToSet(lists[h]) \cap ToSet(lists[g]) = {}
  /\ idle \subseteq Nodes \ (Entries(lists) \cup fake) /\ fake \subseteq Nodes \ Entries(lists)

\* The i-th cell of the list with head h and entries s; the head closes a ring.
Cell(h, s, i) == IF i \in 1..Len(s) THEN s[i] ELSE h

Ring(m, h, s) == \A i \in 0..Len(s) :
  /\ m.next[Cell(h, s, i)] = Cell(h, s, i + 1)
  /\ m.prev[Cell(h, s, i + 1)] = Cell(h, s, i)

Chain(m, h, s) == \A i \in 0..Len(s) :
  /\ m.next[Cell(h, s, i)] = IF i = Len(s) THEN Null ELSE s[i + 1]
  /\ i > 0 => m.prev[s[i]] = Cell(h, s, i - 1)

\* Whatever calls came before, also through entries and heads whose stale
\* pointers still lead into a list, the pointers of every list are those of the
\* sequence the calls promise (list.h:49 to 357 and 588 to 677).
PointersFollowLists == \A h \in DOMAIN lists :
  IF kind = "ring" THEN Ring(mem, h, lists[h]) ELSE Chain(mem, h, lists[h])

\* An initialised entry that is on no list says so until it is added to one:
\* deleting it again changes no list (list.h:157 and 621).  A faked node can be
\* deleted (list.h:661).
IdleEntriesKnown ==
  /\ \A n \in idle : IF kind = "ring" THEN list_empty_careful(mem, n) ELSE hlist_unhashed(mem, n)
  /\ kind = "chain" => \A n \in Entries(lists) \cup fake : ~hlist_unhashed(mem, n)

\* The tests answer for the promised sequence (list.h:191 to 246 and 597), and
\* get_fifo takes its first entry and leaves the others (queue.h:23).
TestsAgree == \A h \in DOMAIN lists :
  IF kind = "chain" THEN hlist_empty(mem, h) <=> lists[h] = <<>>
  ELSE /\ list_empty(mem, h) <=> lists[h] = <<>>
       /\ list_empty_careful(mem, h) <=> lists[h] = <<>>
       /\ list_is_singular(mem, h) <=> Len(lists[h]) = 1
       /\ \A n \in ToSet(lists[h]) : list_is_last(mem, n, h) <=> n = Last(lists[h])
       /\ LET g == get_fifo(mem, h)
          IN  IF lists[h] = <<>> THEN g.elem = Null
              ELSE g.elem = Head(lists[h]) /\ Ring(g.mem, h, Tail(lists[h]))

\* A loop visits every entry that was on the list when it began, once and in
\* order, and then stops, even if the entries it stands on are deleted, moved
\* to other lists or added to them again (list.h:384 to 577 and 681 to 737).
WalkVisitsAll == \A w \in ToSet(walk) :
  w.pos = IF w.todo = <<>> THEN End(w.head) ELSE Head(w.todo)
=============================================================================
