# Verification of milu

milu is a library that interposes `malloc`, `calloc`, `realloc` and `free`,
records every allocation in a hash table and reports the leaks at exit. This
directory holds TLA+ models of it, the TLC runs that check them and the proofs
that TLAPS checks. Paths and line numbers are those of the repository, whose
root is `src/` here.

## The system

| component | state | operations | used by |
|---|---|---|---|
| list (`include/milutil/list/list.h`) | links | add, delete, splice, iterate | everything |
| queue (`include/milutil/queue/queue.h`) | a list and a mutex | `get_fifo`, `put_fifo` | pool |
| pool (`src/milutil/pool.c`) | a block of objects, one `pool_entry` each, the queues `pool_q` and `avail_q`, the counter `_n_q` | `create_pool`, `destroy_pool`, `pool_get_ptr`, `pool_put_ptr` | bank |
| bank (`src/milutil/poolbank.c`) | an array of pools | `create_bank`, `add_pool`, `bank_get_ptr`, `bank_put_ptr`, `destroy_bank` | milu |
| hash table (`src/milutil/hashtbl.c`, `include/milutil/hashtbl/hashtbl.h`) | bucket array, bucket locks, `h->lock`, `_used_buckets`, `_resize_threshold` | insert, look up and delete, each safe (locking) or not, resize | milu |
| hash (`include/milutil/hash/hash.h`) | none | `hash_ptr`, `hash64_cmp` | hash table |
| initialisation (`src/milu/milu.c` 30-182) | `milu_enabled`, `init_mutex`, `_milu_htable`, `_milu_pools` | `init_milu` at the start of every call | the handlers |
| accounting (`src/milu/milu.c` 161-417) | table, bank, `stats` | `malloc`, `calloc`, `realloc`, `free` | the program |
| report (`src/milu/milu.c` 419-471) | reads table and stats | `mem_report`, `milu_cleanup` | `free`, process exit |

All of it runs in the threads of the host program: every function may be in
progress in several threads. Components interact by direct calls and through
shared memory; there are no messages and nothing persists, so there is nothing
to crash and recover. What is hard is

- the pool: an object comes back under another entry than the one it left
  under, with only the two queues locked;
- the lists: calls leave stale pointers behind that lead into other lists, and
  loops delete or move the entry they stand on;
- the bank: its pools are searched one after the other while others get and put,
  and its creation can fail half way;
- the hash table: bucket locks are members of the arrays that a resize
  replaces, and most fields of the table are read without a lock;
- initialisation: double-checked, with a mutex, allocating memory through the
  functions it initialises, with partial failures;
- boundaries: two 16 bit counters, comparison lengths, a bank whose only pool could
  not be created, lists of no and of one entry.

`PROJECT.json` lists these hazards at their lines, each with the properties that
cover it or the reason why none does.

What would make each component correct: the **pool** never lends an object twice and
loses none; the **bank** finds a free object if there is one; a **list** stays a
circular doubly linked list; the **table** holds each entry once, where it is
looked up, through resizes, and answers with entries of the key asked for;
**initialisation** happens once and enables accounting only when table and bank
are usable; **accounting** tracks exactly the live allocations; the **report**
visits each entry once.

## Modules

| module | models | kind |
|---|---|---|
| `ObjectPool` | what a pool promises: one first-in first-out queue, `Take`, `Give` | abstract |
| `IntrusiveList` | `list.h` and `queue.h`, store by store | detailed, carries the sequences it promises |
| `SequenceLemmas` | what adding and removing an element does to a sequence; least elements | lemmas |
| `IntrusiveListProofs` | theorems about rings of any length | proofs |
| `IntrusiveListInvariant` | theorems about all rings or chains together, and walks | proofs |
| `Pool` | `pool_get_ptr` and `pool_put_ptr` of `pool.c` on top of `queue.h` | detailed, implements `ObjectPool` |
| `PoolProofs` | theorems about `Pool` | proofs |
| `PoolBank` | `poolbank.c`, with `create_pool` and `destroy_pool` | detailed, on top of what `ObjectPool` promises |
| `PoolBankProofs` | theorems about `PoolBank` | proofs |
| `EntryTable` | what the table promises: a set of entries with keys | abstract |
| `HashTable` | `hashtbl.c`, `hashtbl.h`, `hash64_cmp` | detailed, implements `EntryTable` |
| `HashTableProofs` | what holds of `HashTable` while resizes overlap other calls | proofs |
| `HashTableAtomic` | what holds while no resize overlaps another call | proofs |
| `MiluInit` | the initialisation in `milu.c` and the skeleton of the handlers | detailed |
| `MiluInitProofs` | theorems about `MiluInit` | proofs |
| `MCIntrusiveList`, `MCPool`, `MCPoolBank`, `MCHashTable`, `MCMiluInit` | instances for TLC | |

The layers rest on each other: `IntrusiveListProofs` shows that a ring behaves as
a sequence, which is what the queues of `Pool` and the chains of `HashTable` are;
`Pool` implements `ObjectPool`, an atomic queue of objects, which is what each
pool of `PoolBank` is; and the ways `create_bank` can end in `PoolBank` are the
ones `MiluInit` starts from.

Operators marked "Mutant" stand before the definition they vary. They are
plausible mistakes that show what each property can detect, and are not part of
any specification.

### IntrusiveList

Memory is one record of two functions, `next` and `prev`, over the heads and the entries.
Each function of `list.h` is an operator from memory to memory that makes the stores of the
C function in its order. Beside the memory, `lists` holds the sequences the calls promise,
computed without looking at a pointer, so that `PointersFollowLists` compares two
independent accounts. A behaviour exercises rings (`list_head`) or hash chains
(`hlist_head`), which share nothing. Initially every pointer is garbage (the same cell
everywhere, any cell), and entries and heads keep whatever the calls leave in them. The
actions make each call whenever its documented arguments are legal: an entry to be added is
on no list, a list to be spliced in is another one, `list_del_init` may be repeated.
`WalkBegin`, `WalkStep` and `WalkEnd` are the iteration macros, and while one is in progress
the entry it stands on may be removed if the macro is a safe one. `hlist_del` differs from
`list_del` in the same way as in the code: its result counts as initialised.

### Pool

`pool_q` and `avail_q` are sequences of entries, `ptr` is the object field of each entry;
`ent`, `obj` and `tmp` are the locals of each thread's call, `pc` its position and `ret`
what its last call returned. `get_fifo` and `put_fifo` hold a mutex for their whole body, so
each is one step; `_n_q--` is a load and a store. `pool_get_ptr` is `GetTake`, `GetPtr`, `GetLoad`, `GetStore`,
and `pool_put_ptr` is `Put`, `PutTake`, `PutPtr`, `PutLoad`, `PutStore`. `held` is what
clients have: they put back what they hold, once, or offer a foreign address, as
`bank_put_ptr` does with each of its pools in turn. `Init` is the result of a successful
`create_pool`. Addresses count objects, so an address inside an object does not occur: milu
only puts back what it got.

### PoolBank

A bank is the array `pools` (FALSE is a NULL pool), the queue of free objects of
each, and `count`, its `_allocd_pools`. `heap` holds the blocks that are
allocated, each known by its bank and its role, and any allocation may be
refused. `CreateBank` and `FillBank` are `create_bank`, one step for the struct and the array
and one for each round of the loop: the first failed pool is counted and left NULL, because
the loop that should clean up has no round; a later one ends in `free(NULL)`,
`free(b)` and `return NULL`. `AddPool` and `DestroyBank` run while no other call
does: nothing in the code makes them safe against one, and nothing calls them
while others run. Gets and puts of the threads interleave between any two pools
they look at. `overlap` notes the threads that were looking for an object when
one came back, for the property `NullMeansEmpty`.

### HashTable

Each step is one access to shared state (the header of the module says which). A
*generation* is a bucket array with its locks. `h` gives, for each field of the C struct,
the generation its value comes from: during lines 288-293 of `hashtbl.c` the fields
disagree, and other threads see that. `RsInstall` assigns them in any order, because nothing
orders plain stores to other threads. Undefined behaviour (use of freed arrays, an index out
of range, iterating through an entry that has left its chain) sets `fault`, after which
nothing happens. The plain operations are not thread-safe and say so, so a client that uses
them keeps all other calls out (`Alone`). `th` is the record of each thread's position and
locals.

Locking a bucket is two steps, as in `hash_table_bucket_lock`: `BucketRead` reads
`h->bucket_locks` and `BucketLock` waits for the mutex of the array it has read, which a
resize may have destroyed by then. `BucketUnlock` reads the field again: after a resize it
unlocks a mutex of the new array, whoever has it, and the one this call has locked stays
locked when it returns (`Release`). A mutex that is freed while it is locked, or while a
call waits for it, is not a fault by itself: the call stays where it is, which `WaitsEnd`
excludes.

The operations called `_i` and `_s` differ in the kind of key only and are one action.
`Content` is what the comparison finds at each key, in pieces of four bytes: the word behind
a pointer is two of them, a string any number. `hash64_cmp` takes keys of any other size
than a word for equal and compares the low halves of two words (it returns a 64 bit
difference as an `int`); `memcmp` compares as much as the stored key has. `LongKeys` are the
keys that `hash_entry_init` refuses and `Strings` those it copies. Its result is ignored, so
`KeyLeft` says under which key an insertion goes on: the one asked for, the one the entry
had before (a refused key), or NULL (a failed copy). Lookups and deletions by a key that is
too long return at once (`TooLong`).

`cur` holds the locals of a resize: the place of its iteration, the entry saved ahead, the
entry it has unlinked and `want`, the key it deletes by, which `hash_table_resize` reads
before the deletion waits for the bucket's mutex.

Clients may keep to a schedule. `OrderlySpec` has the steps of `Spec` in which no call is in
a bucket when a resize frees and replaces the arrays (`ReplacedAlone`) or has computed one
it is about to lock (`SlotsKept`), and in which the increments of `_used_buckets` do not
overlap (`StoresApart`); until the arrays are replaced, entries move beside other calls. The
code enforces none of these, and the theorems have them as hypotheses, or the stronger
`ResizesAlone`: no call runs beside a resize that moves entries.

The sizes of the generations follow from `Threshold` as in `hash_table_init`:
`SizeFor` divides by the load factor, rounds, and takes the next size of the
table of primes (`Sizes`), or the number itself beyond the last one; every resize
doubles the threshold. Abstracted: the hash function is any function of the key;
the linked lists are sequences; `_factor` is never read.

### MiluInit

`Begin` is the unlocked test of `milu_enabled`; `Lock` to `Unlock` are the critical section
of `init_mutex`, with `init_milu`, `_init_htable`, `hash_table_init` (`InitTable`,
`InitArrays`) and `_init_pools`; `Real` and `RealCalloc` are the real allocator and
`RecordAlloc`, `RecordRealloc` and `RecordFree` what follows `if(likely(milu_enabled))`.
`Exit` is the destructor. Any allocation may be refused where `MayFail` is TRUE, and
`refused` remembers that an allocation of an initialisation has been.

`htable` is "null", "raw" (allocated, not initialised or being overwritten),
"broken" (an array is missing) or "ready"; `pools` is "null", "hollow" (a bank
with a NULL pool) or "ready". A use of a NULL pointer ends the `process`, one of a
broken table may.

`interposed` says what the `malloc` of `hash_table_init` is. It is chosen once
for each behaviour:

- TRUE: the function of this file, when the library is preloaded or linked
  first. The nested call waits for the mutex that its own thread holds (pc
  "nested"); `PTHREAD_MUTEX_INITIALIZER` is not recursive, so the thread has no
  further step.
- FALSE: the C library's, when a process opens milu with `dlopen` and calls it
  through the handle. It also tells what the code would do if the allocation did
  not re-enter.

`_calloc` looks up the symbol "realloc" (`milu.c` 62) and calls it with the number of
elements for a pointer: undefined unless that number is 0, so `RealCalloc` may end the
process. What a record does to a table that holds something is left out: accounting is only
ever enabled without a bank (`EnabledWithoutBank`, proved as `NoBankWhenEnabled`), and then
`malloc`, `calloc` and `realloc` end in a use of NULL before they insert anything. (Were the
result of `init_milu` corrected, the first record would call `backtrace_symbols`, which
allocates, which makes a record.)

## Runs

| run | instance | distinct states | checks |
|---|---|---|---|
| `lists` | 2 heads, 4 entries | 259,356 | `TypeOK`, `PointersFollowLists`, `IdleEntriesKnown`, `TestsAgree`, `WalkVisitsAll` |
| `pool_threads` | 3 threads, 2 objects, 2 foreign addresses, a count mod 2 | 2,449,451 | `TypeOK`, `IInv`, `NoDoubleLending`, `NoLeak`, `PutNeverWeird`, `ImplementsObjectPool` |
| `bank` | 2 threads, up to 2 pools at creation, 2 objects each, 2 banks, a count mod 3 | 163,965 | `TypeOK`, `ObjectsInOnePlace`, `PutAnswersRight`, `BlocksAccounted`, `NullMeansEmpty`, `OnlyLateFailureLeaks` |
| `table_threads` | 2 threads, 2 entries, 2 keys that collide, resizes fail | 678,720 | `TypeOK`, `EachEntryOnce`, `ImplementsEntryTable`, `SomeCallReturns` |
| `table_grow` | 1 thread, 3 entries, 3 keys (one refused), generations of 1, 3 and 5 buckets | 312,480 | `NoFault`, `EachEntryOnce`, `Placement`, `ImplementsEntryTable`, `SomeCallReturns` |
| `table_orderly` | 2 threads, 2 entries, 3 and then 5 buckets, on `OrderlySpec` | 1,096,882 | `WaitsEnd`, `CountCoversOccupied`, `ChangesUnderLock` |
| `table_resize_loss` | 2 threads and a resize | | `EachEntryOnce` is violated |
| `table_resize_misplaced` | 2 threads and a resize | | `Placement` is violated |
| `table_pointed_word` | 2 keys that point to words with equal low halves | | `AnswersItsKey` is violated |
| `init_threads` | 3 threads, interposed or not, failing allocations | 237,477 | `TypeOK`, `HeaderBankOnce`, `EnabledWithoutBank`, `EnabledNeedsRefusal`, `ReportFindsTable`, `OnlyFailureReturns`, `EnabledStays`, `SomeCallReturns` |
| `init_hangs` | 3 threads, no failure | | `TableCreated` is violated |
| `init_enables` | 3 threads, failing allocations | | `DisabledWithoutTable` is violated |

What the runs show:

- **The lists are right**: every function keeps the pointers of all lists in
  order after any legal calls, whatever stale pointers lead into them
  (`PointersFollowLists`); repeated deletions are harmless (`IdleEntriesKnown`);
  the tests and `get_fifo` answer for the promised sequence (`TestsAgree`); and a safe loop
  visits all its entries while they are deleted, moved or added again
  (`WalkVisitsAll`).
- **The pool is right** under any use by clients that return what they got.
  `_n_q` is not: it starts at the size of an object and loses updates. As long as updates
  do not overlap it follows the number of free objects at that distance, wrapping below zero
  (`CountFollowsHeld`, proved as `CountWithoutRaces`). Nothing reads it.
- **The bank is right** as far as its pools are counted: objects find back to the pool they
  were made for, no object of a client is refused, and nothing is leaked but by
  `create_bank` when a pool after the first cannot be created. It also has two
  surprises, which `PutAnswersRight` and `NullMeansEmpty` spell out: a bank
  without pools takes any pointer, and NULL does not mean that the bank is
  empty if an object came back meanwhile. The properties end where
  `_allocd_pools` wraps (`Counted`): the bank then forgets its pools.
- **The table is right without concurrent resizes**: concurrent safe operations
  are atomic operations on a set of keyed entries, and one thread may resize.
  A deletion computes its bucket twice, once to lock it and once to search it; without a
  resize in between it changes only the bucket it has locked, also after resizes
  that went before (`ChangesUnderLock`). Failed resizes are harmless.
- **The locks are taken in an order that cannot block**: a resize takes bucket locks under
  `h->lock`, and other calls take one after the other, but a call that has a bucket locked
  waits for nothing (`WaitsEnd`). This holds while a resize moves entries and
  other calls run beside it. It ends where the resize replaces the arrays while a
  call is in a bucket: `pthread_mutex_destroy` and `free` (`hashtbl.c` 282 to 286) take the
  mutex from under a call that waits for it, and a call that has one locked unlocks another
  and leaves it locked for ever.
- **A resize is not thread-safe**, against the comment in `hashtbl.c` 47. In
  `table_resize_loss` a second thread inserts into an old bucket after the
  iteration has left it and before `free(h->table)`. In `table_resize_misplaced`
  an insertion keeps the bucket number it computed before the resize.
- **The count of used buckets loses increments**, as insertions into different buckets share
  no lock (`hashtbl.c` 69): the table then grows late. While they do not
  overlap it counts every occupied bucket (`CountCoversOccupied`).
- **A refused key is not reported.** `hash_entry_init` returns -1 for a key longer than a
  pointer, for a NULL string, and for a string it cannot copy; the insertions ignore it and
  link the entry under the key it had before, or under NULL (`KeyLeft`). The table stays right
  for the key it has taken (`table_grow`, `table_orderly`). Milu only inserts pointers, which
  are never refused.
- **Keys are compared by what they point to**, when the pointers hash to the same bucket.
  `milu.h` 49 wants the pointer itself to be the key. The comparison looks at the low
  halves of two words only, so words that differ by a multiple of 2^32 are
  equal. (The safe lookup also leaves out the comparison of the
  lengths, `hashtbl.c` 156 against 112, so with string keys it returns an entry
  whose key is a prefix. Milu has keys of one length only.)
- **Initialisation has its result the wrong way round** (`milu.c` 152-157):
  success leaves milu disabled, so that every later call initialises the table
  again (and drops its arrays: `InitTable` overwrites a table that is ready),
  and a refused allocation enables it without a bank (`EnabledNeedsRefusal`,
  `EnabledWithoutBank`). No allocation is ever recorded: without a bank the attempt ends in
  a use of NULL.
- **The report at exit finds a table** unless an allocation was refused or some
  thread is inside `hash_table_init` at that moment (`ReportFindsTable`): the
  destructor takes no lock, and in a process that has never called milu
  there is no table.
- **When malloc is interposed the first call never returns**, unless the
  allocation of the table's struct fails.

### Bounds

- Lists: two heads and four entries allow an entry between two others on a list that is cut,
  joined or walked while another list has entries. Walks are one at a time. Entries and
  heads are symmetric.
- Pool: `CountMod` = 2 is the least width with which the racing counter starts at another
  value than the number of objects (two of size one) and wraps below zero. Two
  objects and three threads give every combination of an empty `pool_q`, an
  empty `avail_q`, and calls that have an entry or an object in their hands.
- Bank: `CountMod` = 3 lets the count wrap with the third pool. `MaxBanks` = 2 bounds the
  calls of `create_bank`, so that the second bank is created after the first has been
  destroyed or given up. Two pools of two objects are the least with which a get can pass an
  object coming back.
- Table: `MaxUsed` bounds `_used_buckets`, which the code lets grow for ever
  because deletions do not count down. Insertions stop at the bound, deletions
  and lookups go on. `Threshold` is at most `MaxUsed` - 1, so attempted resizes
  occur. `MaxGens` bounds the number of generations: a resize of the last one fails,
  as it does when memory is exhausted, and any earlier one may fail too.
  The sizes are small ones in place of the primes from 97 on, so that keys collide
  and a walk over all buckets is short. `table_orderly` has more buckets than keys, and a
  threshold of two, so that both entries are in buckets of their own before the first
  resize; with three entries and one more increment the run's properties hold as well.
- Symmetry is used in runs of safety properties only.
- Initialisation: `MiluInit` is finite as it is; three threads are one inside
  and two waiting.

In the passing runs every action of every module fires. The branches of a resize for an entry
that another call has deleted beside it fire in `table_orderly`, where an iteration that goes on
from such an entry ends in `fault`; `NoFault` excludes it where resizes run alone.

Deadlock is checked in the runs of the pool and the bank, and in `table_threads` and
`table_grow`. It is not checked where the system really stops: after undefined
behaviour in the violated runs with two threads, after exit, a crash and in the
self-deadlock of `MiluInit`; nor in `lists`, where stopping means that clients
make no more calls; nor in `table_orderly`, where the schedule may leave a call no step it
allows and `WaitsEnd` says instead what no call ever waits for.

### Fairness

`FairSpec` assumes weak fairness of the steps of each thread inside a call: the
scheduler runs runnable threads. Nobody is obliged to make a call, and mutexes
are not fair, so a single thread may wait for ever while others overtake it.
`SomeCallReturns` and `TableCreated` are therefore about the system, never about
one thread.

## Proofs

The proof modules establish, for any number of threads, pools, objects, entries,
keys and generations, any widths of the counters, any hash and comparison
functions and lists of any length, what the runs check on small instances. They
assume the constants' assumptions (`SizeAssumption`, `ForeignAssumption`,
`CellsAssumption`, `BankAssumption`, `TableAssumption`, `InitAssumption`), and
where a theorem needs more it says so in its `ASSUME`. Every inductive invariant
was checked with TLC before it was proved.

**Pool.** `NoDoubleLending` is not inductive: a put could store its object in an
entry that another call has in its hands. `IInv` adds `EntriesApart` (an entry is
in one queue, once, or in one call's hands). `PutNeverWeird` needs `Balance`:
`avail_q` is as long as there are objects out. Steps that move an entry between
a queue and a call change both sides together, which is what lemmas about `Head`, `Tail`
and `Append` (`TailFacts`, `AppendFacts`) and about cardinalities give. From
`IInv` follow `TypeCorrect`, `LentOnce`, `WeirdIsDead`, `NothingLeaks`
and `Refinement`: `GetTake` maps to `Take`, `PutPtr` to `Give`, every other step to a stutter.

`CountWithoutRaces` takes `UpdatesApart` as a hypothesis
about the behaviour: no two threads are between the load and the store of `_n_q` at once,
which `pool.c` does not see to (with overlaps the counter drifts without a bound). It proves
that `CountFollowsHeld` holds in every state: when no call is under way `_n_q` is the number
it started with, `o_sz`, less the number of objects that are out, modulo its width. The
invariant behind it (`CountInv`) counts the puts on their way and follows the value through
the load and the store; lemmas about remainders (`ModUnique`, `DecStep`, `IncStep`) do the
arithmetic of the wrap. `CountCorrect` is the case of a single thread.

**Lists.** `Holds(m, h, s)` says that memory m has a ring with head h for the
sequence s, without repetitions. `EmptyTest`, `AddTailAppends`, `AddPrepends` and
`DelRemoves` say what the operations the other modules rely on do to s, and
`OtherRings` that they do nothing to another ring; `BetweenStores` and `DelStores` are the
stores, and `Cell` numbers the cells of a ring so that its head is both before
the first and behind the last entry. `QueueIsFifo` puts them together for
`get_fifo` and `put_fifo`: Head, Tail and Append, which is how `Pool` models its
queues.

**Lists, all calls together.** `IntrusiveListInvariant` proves of the whole state
machine, for any number of heads and entries, rings and hash chains, what the run
`lists` checks. The argument is about links, the pairs of neighbouring cells of all lists
together: `Joins(k, l, c, d)` says that d follows c on a list of l (NULL follows the last
cell of a chain), and `Follows` that the memory has the pointers of every link. It has
four layers:

- what a change of the sequences does to the links (`InsertJoins`, `RemoveJoins`,
  `DropJoins`, `ReplaceJoins`, `CutJoins`, ...): a few links are replaced by
  others. Neighbours are unique (`JoinFacts`), so all other links stay, those of the
  other lists among them, whatever stale pointers lead into them;
- what the stores of a function do to the pointers (`RingPuts`, `ChainPuts`,
  `RingTakes`, `ChainTakes`, ...): they make exactly those links;
- both together: `Leads(k, m, l, a, l2, S)` says that a call may turn memory m and
  lists l into a and l2, writing outside the lists only to entries of S. There is
  such a lemma for each kind of call;
- one lemma for each action (`RingAddKeeps`, `RingSpliceKeeps`, `WalkStepKeeps`, ...), most
  of them by `CallKeeps`, which says what a call has to meet.

`PointersFollowLists` is not inductive: `list_del_init` on an idle entry and `hlist_del` on
a faked one store through pointers of an entry on no list, so `IInv` adds
`OutsideKnown` (where these point). `WalkVisitsAll` says nothing of where a walk is on its list,
so `IInv` adds `Walking`: `OnCourse` gives the index the walk has reached, and for a safe loop
the entry behind the one it stands on, which may have left the list meanwhile
(`Spares`, `WalkGoesOn`). From `IInv` follow `TypeCorrect`, `PointersCorrect`, `IdleKnown`,
`TestsCorrect` and `WalksComplete`. `IInv` held in all 259,356 states of the run `lists`
before it was proved.

**Bank.** The properties are not inductive by themselves; `BInv` says what makes
them so. `Counting` ties the counter to the stages of a bank's life (a bank that
is being filled is counted, and nobody calls it), `Loops` keeps the loop indices
at most one behind the counter, `Queues` says that a queue holds objects of its
own pool, once. `ObjectsInOnePlace` is split: `AtMostOne` (an object is never in
two places) holds even after the counter has wrapped, `AtLeastOne` (it is
somewhere, and a put that carries it has not passed its pool) only as long as it
has not. `Looked` is what a search that no put has overtaken knows: the pools
behind it are empty. Each action of the life of a bank has a lemma
(`EnterKeeps`, `FillBankKeeps`, `AddPoolKeeps`, `GoneKeeps`, ...) and so has each step
of a call. For the heap, `CreatePoolFacts` shows that a failed `create_pool` leaves
what it found, and `BlockFacts` that the blocks of different roles are apart. From `BInv`
follow `TypeCorrect`, `OneForEachObject`, `PutAnswers`, `NoBlockAstray`, and the action
properties `NullIsEmpty` and `LeaksOnlyWhenLate`.

**Hash table, racing.** `HashTableProofs` is about resizes that overlap other calls.
`TypeCorrect` is `TypeOK`, with `TInv` about the locals of the calls. `AnswersRight` assumes
`KeysTold` (keys that the comparison takes for equal are equal; the run `table_pointed_word`
shows what happens otherwise) and proves `AnswersItsKey`. `NoDeadlock` proves `WaitsEnd`:
`WaitsFor(t, u)` says that u has the mutex that t needs next, and `WaitsEnd` allows no chain
of three waiting calls, which excludes circles of any length, no waiting for a call that has
returned, and no waiting for a mutex that has been destroyed. Its hypothesis is
`ReplacedAlone`: no call is in a bucket while a resize frees and replaces the arrays.
Without it the theorem is false, as a call may be waiting for a mutex that the resize
destroys; resizes that move entries while other calls run satisfy it. The invariant is `MutexInv`: a call that is in a bucket has the mutex
of the array `h->bucket_locks` points to (`HoldsApart`: no two calls the same one), the
arrays in use are not freed, and a bucket's mutex is held only between the step that locks
it and the one that unlocks it; with `LockInv` (the same for `h->lock`) it gives
`WaitsEndHere`.

**Hash table, without a race.** The runs `table_resize_loss` and `table_resize_misplaced`
show that little more holds when a resize overlaps other calls. `HashTableAtomic` therefore
takes `ResizesAlone` as a hypothesis about the behaviour: while a thread moves entries every
other one is idle. This is a condition on the clients, and states that satisfy it include
resizes, failed ones overlapping anything, and all interleavings of safe calls. `AInv` is
inductive under it: `SlotInv` (the bucket a thread computed is still that of its key, the
array whose locks it has read is still the table's, it holds the lock it thinks it holds,
and the key of its entry is the one it hashed, whatever `hash_entry_init` has left there),
`WalkInv` (an iteration that deletes what it iterates over is always at the head of a
chain, and deletes by the key of the entry there), `EmptyInv` (the buckets it has passed, and arrays not in use, are empty) and
`HashInv` (an entry is where its key's hash says). They give `NothingUndefined`,
`NoEntryLost`, `InTheirBuckets`, `LockedChanges` and `TableRefines`: the linearisation
points are the store that links an entry, the one that unlinks it, and the look at the chain
under the lock; a resize maps to stutters. `SafeWithoutRaces` and `AtomicWithoutRaces`
discharge `ResizesAlone` for one thread (`FewThreads`) and for tables that cannot grow
(`NoGrowth`), which are the instances of `table_grow` and `table_threads`.

`UsedWithoutRaces` does for `_used_buckets` what `CountWithoutRaces` does for `_n_q`. Its
hypothesis `StoresApart` is that no two insertions are between the load and the store of
`h->_used_buckets++` at once, which the bucket locks do not see to; resizes may race. Then
the counter is an upper bound of the occupied buckets until the first resize
(`CountCoversOccupied`). The invariant behind it (`CountInv`) counts the buckets that
insertions have counted and not filled yet; a bucket may be emptied meanwhile, but it is
counted already. The plain operations are excluded, because they do not count. The run
`table_orderly` checks it with two threads; `CountIsEnough` is the case of a
single thread.

**Initialisation.** `IInv` adds to the checked invariants that a thread past the second
check still sees `milu_enabled` 0, because it can only be written under the mutex it holds;
that the bank is created after the struct; that the table is ready outside `hash_table_init`
unless an allocation was refused; and where a thread may be when malloc is interposed. From
it follow `CreatedOnce`, `NoBankWhenEnabled`, `RefusalEnables`, `ReportIsSafe`,
`ReturnsByFailure` and, as an action property, `StaysEnabled`.

Only model-checked: liveness (`SomeCallReturns`), which is out of reach of the prover, and
the reachability of the states the `violation` runs show.

## Not modelled

- The accounting and the report on a table with entries (`milu.c` 191-215,
  306-361, 393-412, 434-464 in detail). Accounting is only ever enabled without a bank
  (`NoBankWhenEnabled`), and without one a record ends in a use of NULL, so there are no states
  from which to model it.
- The values of pointers, sizes and backtraces, formatting and output, and
  what `fprintf` allocates in the report.
- `custom_b_allocator` and `custom_p_allocator`: which function allocates makes
  no difference to a model in which any allocation may fail.
- `add_pool` and `destroy_bank` against other calls, and the number that
  `destroy_bank` returns.
- The blocks of the hash table on the heap: what `hash_table_init` leaks when its
  second allocation fails, or when it is called again.
- `hash_table_finit`, `hash_entry_finit`, `hash_table_for_each` and
  `list_safe_reset_next`: unused.
- Tests and build files, which have no state.

## What could come next

- The blocks of the hash table on the heap, in the way `PoolBank` has them: what
  `hash_table_init` leaks would become a property.
- A resize that other calls may overlap, once the code has one: `ResizesAlone` is the
  hypothesis it would discharge.
