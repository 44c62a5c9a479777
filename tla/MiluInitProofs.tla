--------------------------- MODULE MiluInitProofs ---------------------------
(***************************************************************************)
(* The safety properties of MiluInit for any set of threads, whether or    *)
(* not malloc is interposed and whether or not allocations may fail.       *)
(***************************************************************************)
EXTENDS MiluInit, TLAPS

\* Every action of one thread leaves the types alone.
LEMMA NextTypeOK == TypeOK /\ [Next]_vars => TypeOK'
<1> SUFFICES ASSUME TypeOK, [Next]_vars PROVE TypeOK'
  OBVIOUS
<1> USE DEF TypeOK, Goto, Result, PCs, Tables, Banks, Calls, Enter, parts, calls
<1>1. ASSUME NEW t \in Threads, NEW c \in Calls, Begin(t, c) PROVE TypeOK'
  BY <1>1 DEF Begin
<1>2. ASSUME NEW t \in Threads, Lock(t) PROVE TypeOK'
  BY <1>2 DEF Lock
<1>3. ASSUME NEW t \in Threads, Recheck(t) PROVE TypeOK'
  BY <1>3 DEF Recheck
<1>4. ASSUME NEW t \in Threads, InitHeader(t) PROVE TypeOK'
  <2>1. refused' \in BOOLEAN
    BY <1>4, Zenon DEF InitHeader
  <2> QED
    BY <1>4, <2>1 DEF InitHeader
<1>5. ASSUME NEW t \in Threads, InitTable(t) PROVE TypeOK'
  BY <1>5 DEF InitTable
<1>6. ASSUME NEW t \in Threads, InitArrays(t) PROVE TypeOK'
  BY <1>6 DEF InitArrays
<1>7. ASSUME NEW t \in Threads, InitPools(t) PROVE TypeOK'
  <2>1. refused' \in BOOLEAN
    BY <1>7, Zenon DEF InitPools
  <2> QED
    BY <1>7, <2>1 DEF InitPools
<1>8. ASSUME NEW t \in Threads, Unlock(t) PROVE TypeOK'
  BY <1>8 DEF Unlock
<1>9. ASSUME NEW t \in Threads, Real(t) \/ RealCalloc(t) PROVE TypeOK'
  BY <1>9 DEF Real, RealCalloc
<1>10. ASSUME NEW t \in Threads, RecordAlloc(t) PROVE TypeOK'
  BY <1>10 DEF RecordAlloc, Record, TableUse
<1>11. ASSUME NEW t \in Threads, RecordRealloc(t) PROVE TypeOK'
  BY <1>11 DEF RecordRealloc, Record, TableUse
<1>12. ASSUME NEW t \in Threads, RecordFree(t) PROVE TypeOK'
  BY <1>12 DEF RecordFree, TableUse
<1>13. ASSUME NEW t \in Threads, Exit(t) PROVE TypeOK'
  BY <1>13 DEF Exit, TableUse
<1>14. CASE UNCHANGED vars
  BY <1>14 DEF vars
<1> QED
  BY <1>1, <1>2, <1>3, <1>4, <1>5, <1>6, <1>7, <1>8, <1>9, <1>10, <1>11, <1>12, <1>13,
     <1>14 DEF Next, Step

\* The static initialisers have the right types.
LEMMA InitTypeOK == Init => TypeOK
<1> SUFFICES ASSUME Init PROVE TypeOK
  OBVIOUS
<1>1. pc \in [Threads -> PCs] /\ call \in [Threads -> Calls]
  BY DEF Init, PCs, Calls
<1>2. refused \in BOOLEAN /\ interposed \in BOOLEAN
  BY Zenon DEF Init
<1>3. htable \in Tables /\ pools \in Banks
  BY DEF Init, Tables, Banks
<1>4. /\ milu_enabled \in {0, 1} /\ init_mutex \in Threads \cup {NoThread}
      /\ headers \in Nat /\ banks \in Nat /\ process \in {"runs", "crashed", "exited"}
  BY DEF Init
<1> QED
  BY <1>1, <1>2, <1>3, <1>4, Zenon DEF TypeOK

\* The variables of MiluInit always have their types.
THEOREM TypeCorrect == Spec => []TypeOK
BY InitTypeOK, NextTypeOK, PTL DEF Spec

(***************************************************************************)
(* HeaderBankOnce needs the struct to be there wherever pools are created, *)
(* and the rest needs two facts of the protocol: a thread past the second  *)
(* check has found milu_enabled 0, and holding the mutex it knows that it  *)
(* still is; and with an interposed malloc nothing lies beyond "nested".   *)
(***************************************************************************)
Initialising == {"header", "table", "nested", "arrays", "pools"}

IInv ==
  /\ TypeOK
  /\ HeaderBankOnce
  /\ htable = "null" => pools = "null"
  /\ \A t \in Threads : pc[t] \in {"table", "nested", "arrays", "pools"} => htable # "null"
  /\ EnabledWithoutBank
  /\ EnabledNeedsRefusal
  /\ ReportFindsTable
  /\ \A t \in Threads : pc[t] \in Initialising => milu_enabled = 0
  /\ \A t \in Threads : interposed => pc[t] \notin {"arrays", "pools"}
  /\ \A t \in Threads : interposed /\ pc[t] = "unlock" => milu_enabled = 1
  /\ OnlyFailureReturns

\* The invariant holds before the first call.
LEMMA InitIInv == Init => IInv
<1> SUFFICES ASSUME Init PROVE IInv
  OBVIOUS
<1>1. TypeOK
  BY InitTypeOK
<1> QED
  BY <1>1 DEF Init, IInv, HeaderBankOnce, EnabledWithoutBank, EnabledNeedsRefusal,
    ReportFindsTable, Critical, Initialising, OnlyFailureReturns

\* Every step of every thread preserves the invariant.
LEMMA NextIInv == IInv /\ [Next]_vars => IInv'
<1> SUFFICES ASSUME IInv, [Next]_vars PROVE IInv'
  OBVIOUS
<1>0. TypeOK'
  BY NextTypeOK DEF IInv
<1> USE <1>0, InitAssumption DEF IInv, HeaderBankOnce, EnabledWithoutBank,
      EnabledNeedsRefusal, ReportFindsTable, OnlyFailureReturns,
      Critical, Initialising, parts, calls
<1>1. ASSUME NEW t \in Threads, NEW c \in Calls, Begin(t, c) PROVE IInv'
  BY <1>1 DEF Begin, Enter, Goto, TypeOK
<1>2. ASSUME NEW t \in Threads, Lock(t) PROVE IInv'
  BY <1>2 DEF Lock, Goto, TypeOK
<1>3. ASSUME NEW t \in Threads, Recheck(t) PROVE IInv'
  BY <1>3 DEF Recheck, Result, Goto, TypeOK
<1>4. ASSUME NEW t \in Threads, InitHeader(t) PROVE IInv'
  <2>1. pc[t] = "header" /\ init_mutex = t /\ milu_enabled = 0
    BY <1>4 DEF InitHeader
  <2>2. CASE htable # "null" /\ Goto(t, "table") /\ UNCHANGED <<htable, headers, refused, milu_enabled>>
    BY <1>4, <2>1, <2>2 DEF InitHeader, Goto, TypeOK
  <2>3. CASE /\ htable = "null" /\ htable' = "raw" /\ headers' = headers + 1
             /\ Goto(t, "table") /\ UNCHANGED <<refused, milu_enabled>>
    <3>1. headers = 0
      BY <2>3
    <3> QED
      BY <1>4, <2>1, <2>3, <3>1 DEF InitHeader, Goto, TypeOK
  <2>4. CASE /\ htable = "null" /\ refused' = TRUE /\ Result(t, 1)
             /\ UNCHANGED <<htable, headers>>
    <3>1. pools = "null"
      BY <2>4
    <3> QED
      BY <1>4, <2>1, <2>4, <3>1 DEF InitHeader, Result, Goto, TypeOK
  <2> QED
    BY <1>4, <2>2, <2>3, <2>4 DEF InitHeader
<1>5. ASSUME NEW t \in Threads, InitTable(t) PROVE IInv'
  <2>1. pc[t] = "table" /\ init_mutex = t /\ milu_enabled = 0
    BY <1>5 DEF InitTable
  <2>2. htable # "null" /\ htable' = "raw"
    BY <1>5, <2>1 DEF InitTable
  <2>3. pc'[t] \in {"nested", "arrays"} /\ (interposed => pc'[t] = "nested")
    BY <1>5 DEF InitTable, Goto, TypeOK
  <2>4. \A u \in Threads : u # t => pc'[u] = pc[u]
    BY <1>5 DEF InitTable, Goto, TypeOK
  <2> QED
    BY <1>5, <2>1, <2>2, <2>3, <2>4 DEF InitTable
<1>6. ASSUME NEW t \in Threads, InitArrays(t) PROVE IInv'
  <2>1. pc[t] = "arrays" /\ init_mutex = t /\ milu_enabled = 0 /\ ~interposed
    BY <1>6 DEF InitArrays
  <2>2. htable # "null" /\ htable' # "null"
    BY <1>6, <2>1 DEF InitArrays
  <2>3. (htable' = "ready" /\ refused' = refused) \/ refused' = TRUE
    BY <1>6 DEF InitArrays
  <2>4. pc'[t] = "pools" /\ \A u \in Threads : u # t => pc'[u] = pc[u]
    BY <1>6 DEF InitArrays, Goto, TypeOK
  <2> QED
    BY <1>6, <2>1, <2>2, <2>3, <2>4 DEF InitArrays
<1>7. ASSUME NEW t \in Threads, InitPools(t) PROVE IInv'
  BY <1>7 DEF InitPools, Result, Goto, TypeOK
<1>8. ASSUME NEW t \in Threads, Unlock(t) PROVE IInv'
  BY <1>8 DEF Unlock, Enter, Goto, TypeOK
<1>9. ASSUME NEW t \in Threads, Real(t) PROVE IInv'
  BY <1>9 DEF Real, Goto, TypeOK
<1>10. ASSUME NEW t \in Threads, RealCalloc(t) PROVE IInv'
  BY <1>10 DEF RealCalloc, TypeOK
<1>11. ASSUME NEW t \in Threads, RecordAlloc(t) PROVE IInv'
  BY <1>11 DEF RecordAlloc, Goto, TypeOK
<1>12. ASSUME NEW t \in Threads, RecordRealloc(t) PROVE IInv'
  BY <1>12 DEF RecordRealloc, Goto, TypeOK
<1>13. ASSUME NEW t \in Threads, RecordFree(t) PROVE IInv'
  BY <1>13 DEF RecordFree, Goto, TypeOK
<1>14. ASSUME NEW t \in Threads, Exit(t) PROVE IInv'
  BY <1>14 DEF Exit, TypeOK
<1>15. CASE UNCHANGED vars
  BY <1>15 DEF vars, TypeOK
<1> QED
  BY <1>1, <1>2, <1>3, <1>4, <1>5, <1>6, <1>7, <1>8, <1>9, <1>10, <1>11, <1>12, <1>13,
     <1>14, <1>15 DEF Next, Step

\* The inductive invariant behind the results below.
THEOREM Invariant == Spec => []IInv
BY InitIInv, NextIInv, PTL DEF Spec

\* However many threads make a first call, the struct and the bank are created
\* at most once and by one thread at a time.
THEOREM CreatedOnce == Spec => []HeaderBankOnce
<1>1. IInv => HeaderBankOnce
  BY DEF IInv
<1> QED
  BY <1>1, Invariant, PTL

\* Accounting is enabled only without a bank.
THEOREM NoBankWhenEnabled == Spec => []EnabledWithoutBank
<1>1. IInv => EnabledWithoutBank
  BY DEF IInv
<1> QED
  BY <1>1, Invariant, PTL

\* It is enabled only by a failure of the real allocator.
THEOREM RefusalEnables == Spec => []EnabledNeedsRefusal
<1>1. IInv => EnabledNeedsRefusal
  BY DEF IInv
<1> QED
  BY <1>1, Invariant, PTL

\* The destructor finds a usable table unless an allocation was refused or an
\* initialisation is under way.
THEOREM ReportIsSafe == Spec => []ReportFindsTable
<1>1. IInv => ReportFindsTable
  BY DEF IInv
<1> QED
  BY <1>1, Invariant, PTL

\* With malloc interposed, no call returns from initialisation except by its
\* failure.
THEOREM ReturnsByFailure == Spec => []OnlyFailureReturns
<1>1. IInv => OnlyFailureReturns
  BY DEF IInv
<1> QED
  BY <1>1, Invariant, PTL

\* A late initialiser never takes back what another has enabled.
THEOREM StaysEnabled == Spec => EnabledStays
<1>1. ASSUME IInv, [Next]_vars, milu_enabled = 1 PROVE milu_enabled' = 1
  <2> USE <1>1 DEF IInv, Initialising
  <2>1. ASSUME NEW t \in Threads, Step(t) \/ Exit(t) PROVE milu_enabled' = 1
    BY <2>1 DEF Step, Lock, Recheck, InitHeader, InitTable, InitArrays, InitPools,
      Unlock, Real, RealCalloc, RecordAlloc, RecordRealloc, RecordFree, Exit, Result
  <2>2. ASSUME NEW t \in Threads, NEW c \in Calls, Begin(t, c) PROVE milu_enabled' = 1
    BY <2>2 DEF Begin
  <2> QED
    BY <1>1, <2>1, <2>2 DEF Next, vars
<1>2. IInv /\ [Next]_vars => [milu_enabled = 1 => milu_enabled' = 1]_vars
  BY <1>1
<1> QED
  BY <1>2, Invariant, PTL DEF Spec, EnabledStays
=============================================================================
