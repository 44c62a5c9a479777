------------------------------ MODULE MiluInit ------------------------------
(***************************************************************************)
(* src/milu/milu.c: how the interposed malloc, calloc, realloc and free    *)
(* initialise the library on their first call, what that makes of the      *)
(* accounting at the end of every call, and the report at exit.            *)
(*                                                                         *)
(* milu_enabled is read without the mutex; init_milu runs under            *)
(* init_mutex, and writes milu_enabled before the mutex is released.       *)
(* hash_table_init calls malloc.  Whether that is the malloc of this file  *)
(* depends on how the process resolves the symbol.  It is when the library *)
(* is preloaded or linked to interpose malloc, which is what it is for     *)
(* (interposed); it is the C library's when the process has opened milu    *)
(* with dlopen and calls it through the handle.                            *)
(***************************************************************************)
EXTENDS Naturals, FiniteSets

CONSTANTS
  Threads,
  NoThread,
  MayFail    \* the real allocator may return NULL

ASSUME InitAssumption == NoThread \notin Threads /\ MayFail \in BOOLEAN

VARIABLES
  interposed,  \* malloc inside hash_table_init enters the handler of this file
  milu_enabled,
  init_mutex,  \* its owner
  htable,      \* _milu_htable: null, not initialised, without arrays, or usable
  pools,       \* _milu_pools: null, with a NULL pool in it, or usable
  headers,     \* times the hash_table struct has been allocated
  banks,       \* banks that have been created
  refused,     \* an allocation of an initialisation has been refused
  pc,
  call,        \* the function each thread is in
  process      \* runs, has exited, or has died of undefined behaviour

parts == <<htable, pools, headers, banks, refused>>
calls == <<call, process, interposed>>
vars  == <<milu_enabled, init_mutex, parts, pc, calls>>

Tables == {"null", "raw", "broken", "ready"}
Banks  == {"null", "hollow", "ready"}
Calls  == {"malloc", "calloc", "realloc", "free"}
PCs    == {"idle", "lock", "init", "header", "table", "nested", "arrays", "pools",
           "unlock", "real", "body"}

Init ==
  /\ interposed \in BOOLEAN
  /\ milu_enabled = 0
  /\ init_mutex = NoThread
  /\ htable = "null" /\ pools = "null"
  /\ headers = 0 /\ banks = 0 /\ refused = FALSE
  /\ pc = [t \in Threads |-> "idle"]
  /\ call = [t \in Threads |-> "free"]
  /\ process = "runs"

Goto(t, l) == pc' = [pc EXCEPT ![t] = l]

\* free does its accounting first and calls the real free last.
Enter(c) == IF c = "free" THEN "body" ELSE "real"

\* if(unlikely(!milu_enabled))
Begin(t, c) ==
  /\ pc[t] = "idle"
  /\ call' = [call EXCEPT ![t] = c]
  /\ Goto(t, IF milu_enabled = 0 THEN "lock" ELSE Enter(c))
  /\ UNCHANGED <<milu_enabled, init_mutex, parts, process, interposed>>

\* Mutant: init_mutex is not taken.
LockNot(t) ==
  /\ pc[t] = "lock"
  /\ init_mutex' = t
  /\ Goto(t, "init")
  /\ UNCHANGED <<milu_enabled, parts, calls>>

\* pthread_mutex_lock( &init_mutex )
Lock(t) ==
  /\ pc[t] = "lock" /\ init_mutex = NoThread
  /\ init_mutex' = t
  /\ Goto(t, "init")
  /\ UNCHANGED <<milu_enabled, parts, calls>>

----------------------------------------------------------------------------
(* init_milu, with init_mutex held *)

\* Mutant: the errors' -1 is stored in the uint8_t.
ResultErrno(t, r) ==
  /\ milu_enabled' = IF r = 1 THEN 255 ELSE 0
  /\ Goto(t, "unlock")

\* milu_enabled = init_milu(): 0 if everything went well, else 1.
Result(t, r) ==
  /\ milu_enabled' = r
  /\ Goto(t, "unlock")

\* Mutant: another thread's initialisation is not noticed.
RecheckNot(t) ==
  /\ pc[t] = "init"
  /\ Goto(t, "header")
  /\ UNCHANGED <<milu_enabled, init_mutex, parts, calls>>

\* !milu_enabled is checked again.
Recheck(t) ==
  /\ pc[t] = "init"
  /\ IF milu_enabled # 0
     THEN Result(t, 1)
     ELSE Goto(t, "header") /\ UNCHANGED milu_enabled
  /\ UNCHANGED <<init_mutex, parts, calls>>

\* Mutants: a failed allocation of the struct is not an error; hash_table_init
\* is left out.
InitHeaderUnreported(t) ==
  /\ pc[t] = "header"
  /\ \/ htable # "null" /\ Goto(t, "table") /\ UNCHANGED <<htable, headers, refused>>
     \/ htable = "null" /\ htable' = "raw" /\ headers' = headers + 1 /\ Goto(t, "table")
        /\ UNCHANGED refused
     \/ htable = "null" /\ MayFail /\ refused' = TRUE /\ Goto(t, "pools")
        /\ UNCHANGED <<htable, headers>>
  /\ UNCHANGED <<milu_enabled, init_mutex, pools, banks, calls>>

InitHeaderOnly(t) ==
  /\ pc[t] = "header"
  /\ htable' = IF htable = "null" THEN "raw" ELSE htable
  /\ headers' = IF htable = "null" THEN headers + 1 ELSE headers
  /\ Goto(t, "pools")
  /\ UNCHANGED <<milu_enabled, init_mutex, pools, banks, refused, calls>>

\* _init_htable: the struct is allocated once, with the real malloc.
InitHeader(t) ==
  /\ pc[t] = "header"
  /\ \/ /\ htable # "null"
        /\ Goto(t, "table")
        /\ UNCHANGED <<htable, headers, refused, milu_enabled>>
     \/ /\ htable = "null"
        /\ htable' = "raw"
        /\ headers' = headers + 1
        /\ Goto(t, "table")
        /\ UNCHANGED <<refused, milu_enabled>>
     \/ /\ htable = "null" /\ MayFail
        /\ refused' = TRUE
        /\ Result(t, 1)
        /\ UNCHANGED <<htable, headers>>
  /\ UNCHANGED <<init_mutex, pools, banks, calls>>

\* hash_table_init, on every call that gets here: its fields are overwritten,
\* then it allocates.  A nested malloc finds milu_enabled 0 and waits for
\* init_mutex, which its own caller holds; PTHREAD_MUTEX_INITIALIZER is not
\* recursive, and the thread has no step from there.
InitTable(t) ==
  /\ pc[t] = "table"
  /\ htable' = "raw"
  /\ Goto(t, IF interposed THEN "nested" ELSE "arrays")
  /\ UNCHANGED <<milu_enabled, init_mutex, pools, headers, banks, refused, calls>>

\* The arrays and their list heads.  _init_htable ignores the result.
InitArrays(t) ==
  /\ pc[t] = "arrays"
  /\ \/ htable' = "ready" /\ UNCHANGED refused
     \/ MayFail /\ htable' = "broken" /\ refused' = TRUE
  /\ Goto(t, "pools")
  /\ UNCHANGED <<milu_enabled, init_mutex, pools, headers, banks, calls>>

\* Mutant: every result of create_bank is taken for a failure.
InitPoolsIgnored(t) ==
  /\ pc[t] = "pools"
  /\ \/ pools # "null" /\ UNCHANGED <<pools, banks>>
     \/ pools = "null" /\ pools' = "ready" /\ banks' = banks + 1
  /\ Result(t, 1)
  /\ UNCHANGED <<init_mutex, htable, headers, refused, calls>>

\* _init_pools: create_bank(1, 1, POOLSIZE, ...) unless there is a bank.  When
\* its only create_pool fails, create_bank counts the NULL pool and succeeds.
InitPools(t) ==
  /\ pc[t] = "pools"
  /\ \/ /\ pools # "null"
        /\ Result(t, 0)
        /\ UNCHANGED <<pools, banks, refused>>
     \/ /\ pools = "null"
        /\ \/ pools' = "ready" /\ UNCHANGED refused
           \/ MayFail /\ pools' = "hollow" /\ refused' = TRUE
        /\ banks' = banks + 1
        /\ Result(t, 0)
     \/ /\ pools = "null" /\ MayFail
        /\ refused' = TRUE
        /\ Result(t, 1)
        /\ UNCHANGED <<pools, banks>>
  /\ UNCHANGED <<init_mutex, htable, headers, calls>>

\* Mutant: the mutex is not released.
UnlockMissed(t) ==
  /\ pc[t] = "unlock"
  /\ Goto(t, Enter(call[t]))
  /\ UNCHANGED <<milu_enabled, init_mutex, parts, calls>>

\* pthread_mutex_unlock( &init_mutex )
Unlock(t) ==
  /\ pc[t] = "unlock"
  /\ init_mutex' = NoThread
  /\ Goto(t, Enter(call[t]))
  /\ UNCHANGED <<milu_enabled, parts, calls>>

----------------------------------------------------------------------------
(* The rest of the call *)

\* The real allocator; NULL is returned at once.
Real(t) ==
  /\ pc[t] = "real"
  /\ \/ Goto(t, "body")
     \/ MayFail /\ Goto(t, "idle")
  /\ UNCHANGED <<milu_enabled, init_mutex, parts, calls>>

\* The symbol _calloc looks up is "realloc", which takes nmemb for the address
\* of a block: undefined unless it is 0.
RealCalloc(t) ==
  /\ pc[t] = "real" /\ call[t] = "calloc"
  /\ process' = "crashed"
  /\ UNCHANGED <<milu_enabled, init_mutex, parts, pc, call, interposed>>

\* What an operation on the table may do to the process.
TableUse == CASE htable = "ready" -> {"runs"}
              [] htable = "null"  -> {"crashed"}
              [] OTHER            -> {"runs", "crashed"}

\* bank_get_ptr answers NULL without a bank or a pool, or when all objects are
\* lent, and the NULL is dereferenced; then hash_table_insert_safe_i and the
\* statistics.
Record == {"crashed"} \cup (IF pools = "ready" THEN TableUse ELSE {})

\* if(likely(milu_enabled)) of malloc and calloc.
RecordAlloc(t) ==
  /\ pc[t] = "body" /\ call[t] \in {"malloc", "calloc"}
  /\ Goto(t, "idle")
  /\ process' \in (IF milu_enabled # 0 THEN Record ELSE {"runs"})
  /\ UNCHANGED <<milu_enabled, init_mutex, parts, call, interposed>>

\* realloc starts with hash_table_del_key_safe_i.
RecordRealloc(t) ==
  /\ pc[t] = "body" /\ call[t] = "realloc"
  /\ Goto(t, "idle")
  /\ process' \in (CASE milu_enabled = 0      -> {"runs"}
                     [] "runs" \in TableUse   -> Record
                     [] OTHER                 -> {"crashed"})
  /\ UNCHANGED <<milu_enabled, init_mutex, parts, call, interposed>>

\* free deletes the entry.  Without one it reports and cleans up, which with
\* nothing recorded finds an empty table; then the real free.
RecordFree(t) ==
  /\ pc[t] = "body" /\ call[t] = "free"
  /\ Goto(t, "idle")
  /\ process' \in (IF milu_enabled # 0 THEN TableUse ELSE {"runs"})
  /\ UNCHANGED <<milu_enabled, init_mutex, parts, call, interposed>>

\* The destructor: mem_report and milu_cleanup go through _milu_htable, whether
\* or not there is one and whether or not another thread is initialising it.
Exit(t) ==
  /\ pc[t] = "idle"
  /\ \E r \in TableUse : process' = IF r = "runs" THEN "exited" ELSE r
  /\ UNCHANGED <<milu_enabled, init_mutex, parts, pc, call, interposed>>

----------------------------------------------------------------------------
Step(t) ==
  \/ Lock(t) \/ Recheck(t) \/ InitHeader(t) \/ InitTable(t) \/ InitArrays(t)
  \/ InitPools(t) \/ Unlock(t) \/ Real(t) \/ RealCalloc(t)
  \/ RecordAlloc(t) \/ RecordRealloc(t) \/ RecordFree(t)

Next ==
  /\ process = "runs"
  /\ \E t \in Threads : Step(t) \/ Exit(t) \/ \E c \in Calls : Begin(t, c)

Spec == Init /\ [][Next]_vars

\* A call in progress goes on; nobody is obliged to call or to exit.
FairSpec == Spec /\ \A t \in Threads : WF_vars(process = "runs" /\ Step(t))

----------------------------------------------------------------------------
Critical == {"init", "header", "table", "nested", "arrays", "pools", "unlock"}

\* In particular milu_enabled is only ever 0 or 1 (milu.c:142 to 159).
TypeOK ==
  /\ milu_enabled \in {0, 1}
  /\ init_mutex \in Threads \cup {NoThread}
  /\ htable \in Tables /\ pools \in Banks
  /\ headers \in Nat /\ banks \in Nat
  /\ pc \in [Threads -> PCs]
  /\ call \in [Threads -> Calls]
  /\ process \in {"runs", "crashed", "exited"}
  /\ refused \in BOOLEAN /\ interposed \in BOOLEAN

\* One thread at a time initialises, however many find milu_enabled 0 together,
\* and the table's struct and the bank are created at most once however often
\* initialisation is repeated: neither is leaked or replaced while in use.
HeaderBankOnce ==
  /\ \A t \in Threads : pc[t] \in Critical => init_mutex = t
  /\ headers <= 1 /\ banks <= 1
  /\ headers = 0 <=> htable = "null"
  /\ banks = 0 <=> pools = "null"

\* init_milu's results are the wrong way round (milu.c, lines 152 to 157): the
\* accounting is only ever enabled when the bank it takes its objects from
\* does not exist.
EnabledWithoutBank == milu_enabled = 1 => pools = "null"

\* For the same reason it takes a refused allocation to enable it: however the
\* first calls of any number of threads overlap, an initialisation that goes
\* well leaves milu disabled (milu.c:152 and 171).
EnabledNeedsRefusal == milu_enabled = 1 => refused

\* The destructor reads the table without init_mutex (milu.c:467).  Once there
\* is one it finds it usable, although every call overwrites it, unless an
\* allocation was refused or a thread is inside hash_table_init.
ReportFindsTable ==
  (headers = 1 /\ ~refused /\ \A t \in Threads : pc[t] \notin {"table", "nested", "arrays"})
    => htable = "ready"

\* A thread that found the library disabled and waited for init_mutex never
\* disables what another thread has enabled meanwhile.
EnabledStays == [][milu_enabled = 1 => milu_enabled' = 1]_vars

\* Where malloc is interposed, a call gets past initialisation only if the
\* real allocator has refused the table's struct.
OnlyFailureReturns ==
  interposed => \A t \in Threads : pc[t] \in {"real", "body"} => milu_enabled = 1

\* Where malloc is not interposed, the threads are never all stuck in a first
\* call, unless the process ends.
SomeCallReturns ==
  (~interposed /\ \A t \in Threads : pc[t] # "idle")
    ~> (process # "runs" \/ \E t \in Threads : pc[t] = "idle")

\* "The first time MILU is called we need to make sure we create the
\* hashtables" (milu.c, line 25).
TableCreated ==
  (\E t \in Threads : pc[t] # "idle") ~> (htable = "ready" \/ process # "runs")

\* "If we fail to init the hashtable, milu remains disabled" (milu.c, line 150).
DisabledWithoutTable == milu_enabled = 1 => htable = "ready"
=============================================================================
