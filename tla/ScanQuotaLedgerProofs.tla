----------------------- MODULE ScanQuotaLedgerProofs -----------------------
(***************************************************************************)
(* The ledger's safety for every set of scans, keys, limits and locks.     *)
(*                                                                         *)
(* QuotaNeverExceeded is not inductive: it needs that the transaction that *)
(* is about to insert holds its lock alone (LockInv) and that the counts   *)
(* it took are still upper bounds when it decides (SnapInv): other         *)
(* reservations of its key wait for the lock and everything else only      *)
(* removes ledger rows.                                                    *)
(***************************************************************************)
EXTENDS ScanQuotaLedger, FiniteSetTheorems, TLAPS

\* A transaction in progress holds the lock of its key.
LockInv == \A s \in Scans : pc[s] \in TxPhases => lock[LockOf(s)] = s

\* A POST holds no credit before its transaction commits.
FreshInv == \A s \in Scans : pc[s] \in TxPhases \cup {"idle", "waiting"} => s \notin ledger

LedgerSnapInv ==
    \A s \in Scans :
        pc[s] \in {"ledgerCounted", "inFlightCounted", "extraCounted", "counted"}
            => Cardinality(LedgerOf(KeyOf[s])) <= snap[s].ledger

WindowSnapInv ==
    \A s \in Scans :
        pc[s] \in {"inFlightCounted", "extraCounted"}
            => Cardinality(InFlight(KeyOf[s]) \ slipped) <= snap[s].inFlight

ActiveSnapInv ==
    \A s \in Scans :
        pc[s] = "counted"
            => Cardinality(Active(KeyOf[s]) \ slipped) <= snap[s].inFlight + snap[s].open

IInv ==
    /\ TypeOK
    /\ LockInv
    /\ FreshInv
    /\ LedgerSnapInv
    /\ WindowSnapInv
    /\ ActiveSnapInv
    /\ QuotaNeverExceeded
    /\ ParallelCapExceptSlipped

-----------------------------------------------------------------------------
(* Cardinalities of subsets of the finite set Scans.                       *)

\* A subset of a set of scans has at most as many elements.
LEMMA SubsetCard ==
    ASSUME NEW T \in SUBSET Scans, NEW S \in SUBSET T
    PROVE  /\ Cardinality(S) \in Nat
           /\ Cardinality(T) \in Nat
           /\ Cardinality(S) <= Cardinality(T)
<1>1. IsFiniteSet(T) BY ScansFinite, FS_Subset
<1>2. IsFiniteSet(S) BY <1>1, FS_Subset
<1> QED BY <1>1, <1>2, FS_Subset, FS_CardinalityType

\* Adding one scan adds at most one to the count.
LEMMA AddCard ==
    ASSUME NEW T \in SUBSET Scans, NEW x \in Scans, NEW S \in SUBSET (T \cup {x})
    PROVE  Cardinality(S) <= Cardinality(T) + 1
<1>1. IsFiniteSet(T) BY ScansFinite, FS_Subset
<1>2. /\ Cardinality(T) \in Nat
      /\ Cardinality(T \cup {x}) = IF x \in T THEN Cardinality(T) ELSE Cardinality(T) + 1
  BY <1>1, FS_AddElement, FS_CardinalityType
<1>3. Cardinality(T \cup {x}) <= Cardinality(T) + 1 BY <1>2
<1>4. T \cup {x} \in SUBSET Scans OBVIOUS
<1>5. /\ Cardinality(S) \in Nat
      /\ Cardinality(T \cup {x}) \in Nat
      /\ Cardinality(S) <= Cardinality(T \cup {x})
  BY <1>4, SubsetCard
<1> QED BY <1>2, <1>3, <1>5

\* Two counts together bound the count of the union.
LEMMA UnionCard ==
    ASSUME NEW S \in SUBSET Scans, NEW T \in SUBSET Scans
    PROVE  Cardinality(S \cup T) <= Cardinality(S) + Cardinality(T)
<1>1. IsFiniteSet(S) /\ IsFiniteSet(T) BY ScansFinite, FS_Subset
<1>2. IsFiniteSet(S \cap T) BY <1>1, FS_Subset
<1>3. /\ Cardinality(S) \in Nat /\ Cardinality(T) \in Nat
      /\ Cardinality(S \cap T) \in Nat
      /\ Cardinality(S \cup T) = Cardinality(S) + Cardinality(T) - Cardinality(S \cap T)
  BY <1>1, <1>2, FS_Union, FS_CardinalityType
<1> QED BY <1>3

\* The sets of the counts are sets of scans.
LEMMA CountSets ==
    ASSUME NEW k
    PROVE  /\ Of(k) \in SUBSET Scans
           /\ LedgerOf(k) \in SUBSET Scans
           /\ InFlight(k) \in SUBSET Scans
           /\ OpenReservations(k) \in SUBSET Scans
           /\ Active(k) \in SUBSET Scans
BY DEF Of, LedgerOf, InFlight, OpenReservations, Active

-----------------------------------------------------------------------------
(* The types.                                                              *)

\* Every action of the ledger keeps every variable in its type.
LEMMA TypeStep ==
    ASSUME TypeOK, [Next]_vars
    PROVE  TypeOK'
<1> USE NoScanFresh, KeyOfType, LockKeyType DEF TypeOK
<1>0. CASE UNCHANGED vars BY <1>0 DEF vars
<1>1. SUFFICES ASSUME NEW s \in Scans, HandlerStep(s) \/ PersistenceStep(s)
               PROVE  TypeOK'
  BY <1>0, <1>1 DEF Next
<1>2. EmptySnapshot \in Snapshots BY DEF EmptySnapshot, Snapshots
<1>3. \A k : /\ Cardinality(LedgerOf(k)) \in Nat
             /\ Cardinality(InFlight(k)) \in Nat
             /\ Cardinality(InFlightWithoutLedger(k)) \in Nat
             /\ Cardinality(OpenReservations(k)) \in Nat
  BY CountSets, SubsetCard DEF InFlightWithoutLedger
<1>4. LockOf(s) \in LockIds BY DEF LockOf
<1>5. CASE ReserveScanUsage(s) \/ LockUserKindQuota(s)
  BY <1>5, <1>4 DEF ReserveScanUsage, LockUserKindQuota, Goto, UnchangedStores, Phases, TxPhases
<1>6. CASE CountLedger(s)
  <2>1. snap' \in [Scans -> Snapshots] BY <1>6, <1>3 DEF CountLedger, Snapshots
  <2> QED BY <1>6, <2>1 DEF CountLedger, Goto, UnchangedStores, Phases, TxPhases
<1>7. CASE CountInFlight(s)
  <2>1. snap' \in [Scans -> Snapshots] BY <1>7, <1>3 DEF CountInFlight, Snapshots
  <2> QED BY <1>7, <2>1 DEF CountInFlight, Goto, UnchangedStores, Phases, TxPhases
<1>8. CASE CountInFlightWithoutLedger(s)
  <2>1. snap' \in [Scans -> Snapshots] BY <1>8, <1>3 DEF CountInFlightWithoutLedger, Snapshots
  <2> QED BY <1>8, <2>1 DEF CountInFlightWithoutLedger, Goto, UnchangedStores, Phases, TxPhases
<1>9. CASE CountOpenReservations(s)
  <2>1. snap' \in [Scans -> Snapshots] BY <1>9, <1>3 DEF CountOpenReservations, Snapshots
  <2> QED BY <1>9, <2>1 DEF CountOpenReservations, Goto, UnchangedStores, Phases, TxPhases
<1>10. CASE DenyQuota(s) \/ DenyParallel(s) \/ RecordSuccessUsage(s) \/ AbortTransaction(s)
  <2>1. EndTransaction(s) /\ lock' \in [LockIds -> Scans \cup {NoScan}]
                          /\ snap' \in [Scans -> Snapshots]
    BY <1>10, <1>2, <1>4 DEF DenyQuota, DenyParallel, RecordSuccessUsage, AbortTransaction,
         EndTransaction
  <2> QED BY <1>10, <2>1 DEF DenyQuota, DenyParallel, RecordSuccessUsage, AbortTransaction,
         Goto, UnchangedStores, Phases, TxPhases
<1>11. CASE \/ Publish(s) \/ PublishError(s) \/ ReleaseSuccessUsageByScanID(s)
            \/ ReleaseError(s) \/ CrashBeforeAnswer(s)
  BY <1>11 DEF Publish, PublishError, ReleaseSuccessUsageByScanID, ReleaseError,
       CrashBeforeAnswer, Goto, UnchangedStores, Phases, TxPhases
<1>12. CASE PersistenceStep(s)
  BY <1>12 DEF PersistenceStep, ScanStarted, ScanCompleted, ScanFailed, DeleteScan, WriteRow,
       RowStates, StoredStates, TerminalStates, RUNNING, SUCCESS, FAILED
<1> QED
  BY <1>1, <1>5, <1>6, <1>7, <1>8, <1>9, <1>10, <1>11, <1>12 DEF HandlerStep, TxStep

-----------------------------------------------------------------------------
(* The lock and the freshness of a scan.                                   *)

\* The transaction lock: a lock changes hands only through a free lock, and
\* only its holder frees it.
LEMMA LockStep ==
    ASSUME TypeOK, LockInv, [Next]_vars
    PROVE  LockInv'
<1> USE NoScanFresh, KeyOfType, LockKeyType DEF TypeOK, LockInv, LockOf
<1>0. CASE UNCHANGED vars BY <1>0 DEF vars
<1>1. SUFFICES ASSUME NEW s \in Scans, HandlerStep(s) \/ PersistenceStep(s)
               PROVE  LockInv'
  BY <1>0, <1>1 DEF Next
<1>2. CASE ReserveScanUsage(s)
  BY <1>2 DEF ReserveScanUsage, Goto, TxPhases
<1>3. CASE LockUserKindQuota(s)
  BY <1>3 DEF LockUserKindQuota, Goto, TxPhases
<1>4. CASE \/ CountLedger(s) \/ CountInFlight(s)
           \/ CountInFlightWithoutLedger(s) \/ CountOpenReservations(s)
  BY <1>4 DEF CountLedger, CountInFlight, CountInFlightWithoutLedger, CountOpenReservations,
       Goto, TxPhases
<1>5. CASE DenyQuota(s) \/ DenyParallel(s) \/ RecordSuccessUsage(s) \/ AbortTransaction(s)
  <2>1. pc[s] \in TxPhases /\ pc' = [pc EXCEPT ![s] = pc'[s]] /\ pc'[s] \notin TxPhases
    BY <1>5 DEF DenyQuota, DenyParallel, RecordSuccessUsage, AbortTransaction, Goto, TxPhases
  <2>2. lock' = [lock EXCEPT ![LockOf(s)] = NoScan]
    BY <1>5 DEF DenyQuota, DenyParallel, RecordSuccessUsage, AbortTransaction, EndTransaction
  <2> QED BY <2>1, <2>2
<1>6. CASE \/ Publish(s) \/ PublishError(s) \/ ReleaseSuccessUsageByScanID(s)
           \/ ReleaseError(s) \/ CrashBeforeAnswer(s)
  BY <1>6 DEF Publish, PublishError, ReleaseSuccessUsageByScanID, ReleaseError,
       CrashBeforeAnswer, Goto, TxPhases
<1>7. CASE PersistenceStep(s)
  BY <1>7 DEF PersistenceStep, ScanStarted, ScanCompleted, ScanFailed, DeleteScan, WriteRow
<1> QED
  BY <1>1, <1>2, <1>3, <1>4, <1>5, <1>6, <1>7 DEF HandlerStep, TxStep

\* Only the commit of its own transaction gives a scan a ledger row.
LEMMA FreshStep ==
    ASSUME TypeOK, FreshInv, [Next]_vars
    PROVE  FreshInv'
<1> USE DEF TypeOK, FreshInv
<1>0. CASE UNCHANGED vars BY <1>0 DEF vars
<1>1. SUFFICES ASSUME NEW s \in Scans, HandlerStep(s) \/ PersistenceStep(s)
               PROVE  FreshInv'
  BY <1>0, <1>1 DEF Next
<1>2. CASE ReserveScanUsage(s) \/ LockUserKindQuota(s)
  BY <1>2 DEF ReserveScanUsage, LockUserKindQuota, Goto, UnchangedStores, TxPhases
<1>3. CASE TxStep(s)
  BY <1>3 DEF TxStep, CountLedger, CountInFlight, CountInFlightWithoutLedger,
       CountOpenReservations, DenyQuota, DenyParallel, RecordSuccessUsage, AbortTransaction,
       Goto, UnchangedStores, TxPhases
<1>4. CASE \/ Publish(s) \/ PublishError(s) \/ ReleaseSuccessUsageByScanID(s)
           \/ ReleaseError(s) \/ CrashBeforeAnswer(s)
  BY <1>4 DEF Publish, PublishError, ReleaseSuccessUsageByScanID, ReleaseError,
       CrashBeforeAnswer, Goto, UnchangedStores, TxPhases
<1>5. CASE PersistenceStep(s)
  BY <1>5 DEF PersistenceStep, ScanStarted, ScanCompleted, ScanFailed, DeleteScan, WriteRow
<1> QED
  BY <1>1, <1>2, <1>3, <1>4, <1>5 DEF HandlerStep

-----------------------------------------------------------------------------
(* What a step does to the counted sets.                                   *)

\* Outside the commit of a reservation, the billed scans and the active
\* scans that did not slip only shrink.
LEMMA CountsShrink ==
    ASSUME TypeOK, NEW s \in Scans, HandlerStep(s) \/ PersistenceStep(s),
           ~RecordSuccessUsage(s), NEW k
    PROVE  /\ LedgerOf(k)' \subseteq LedgerOf(k)
           /\ (Active(k) \ slipped)' \subseteq Active(k) \ slipped
<1> USE DEF TypeOK, Of, LedgerOf, Active, InFlight, OpenReservations
<1>1. CASE UNCHANGED <<ledger, row, deleted, slipped>> BY <1>1
<1>2. CASE ReleaseSuccessUsageByScanID(s)
  BY <1>2 DEF ReleaseSuccessUsageByScanID, InFlightStatuses, NoRow, PENDING, RUNNING
<1>3. CASE ScanStarted(s)
  BY <1>3 DEF ScanStarted, WriteRow, InFlightStatuses, NoRow, PENDING, RUNNING
<1>4. CASE ScanCompleted(s)
  BY <1>4 DEF ScanCompleted, WriteRow, InFlightStatuses, NoRow, PENDING, RUNNING, SUCCESS
<1>5. CASE ScanFailed(s)
  BY <1>5 DEF ScanFailed, WriteRow, InFlightStatuses, NoRow, PENDING, RUNNING, FAILED
<1>6. CASE DeleteScan(s)
  BY <1>6 DEF DeleteScan
<1>7. CASE HandlerStep(s) /\ ~ReleaseSuccessUsageByScanID(s)
  <2>1. UNCHANGED <<ledger, row, deleted, slipped>>
    BY <1>7 DEF HandlerStep, TxStep, ReserveScanUsage, LockUserKindQuota, CountLedger,
         CountInFlight, CountInFlightWithoutLedger, CountOpenReservations, DenyQuota,
         DenyParallel, AbortTransaction, Publish, PublishError, ReleaseError,
         CrashBeforeAnswer, UnchangedStores
  <2> QED BY <1>1, <2>1
<1> QED
  BY <1>2, <1>3, <1>4, <1>5, <1>6, <1>7 DEF PersistenceStep

\* The commit of a reservation adds its scan and nothing else.
LEMMA CommitAddsOne ==
    ASSUME TypeOK, NEW s \in Scans, RecordSuccessUsage(s), NEW k
    PROVE  /\ LedgerOf(k)' \subseteq LedgerOf(k) \cup {s}
           /\ (Active(k) \ slipped)' \subseteq (Active(k) \ slipped) \cup {s}
           /\ KeyOf[s] # k => /\ LedgerOf(k)' = LedgerOf(k)
                              /\ (Active(k) \ slipped)' = Active(k) \ slipped
BY DEF TypeOK, RecordSuccessUsage, Of, LedgerOf, Active, InFlight, OpenReservations

\* While a reservation of the key is between its two counts, every row that
\* newly counts as in flight is recorded as slipped.
LEMMA WindowShrinks ==
    ASSUME TypeOK, NEW s \in Scans, HandlerStep(s) \/ PersistenceStep(s),
           NEW t \in Scans, pc[t] \in {"inFlightCounted", "extraCounted"}
    PROVE  (InFlight(KeyOf[t]) \ slipped)' \subseteq InFlight(KeyOf[t]) \ slipped
<1> USE KeyOfType DEF TypeOK, Of, InFlight
<1>1. CASE ScanStarted(s)
  <2>1. KeyOf[s] = KeyOf[t] => InSnapshotWindow(s) BY DEF InSnapshotWindow
  <2> QED BY <1>1, <2>1 DEF ScanStarted, WriteRow, InFlightStatuses, NoRow, PENDING, RUNNING
<1>2. CASE ScanCompleted(s)
  BY <1>2 DEF ScanCompleted, WriteRow, InFlightStatuses, NoRow, PENDING, RUNNING, SUCCESS
<1>3. CASE ScanFailed(s)
  BY <1>3 DEF ScanFailed, WriteRow, InFlightStatuses, NoRow, PENDING, RUNNING, FAILED
<1>4. CASE DeleteScan(s) BY <1>4 DEF DeleteScan
<1>5. CASE HandlerStep(s)
  <2>1. UNCHANGED <<row, deleted, slipped>>
    BY <1>5 DEF HandlerStep, TxStep, ReserveScanUsage, LockUserKindQuota, CountLedger,
         CountInFlight, CountInFlightWithoutLedger, CountOpenReservations, DenyQuota,
         DenyParallel, RecordSuccessUsage, AbortTransaction, Publish, PublishError,
         ReleaseSuccessUsageByScanID, ReleaseError, CrashBeforeAnswer, UnchangedStores
  <2> QED BY <2>1
<1> QED BY <1>1, <1>2, <1>3, <1>4, <1>5 DEF PersistenceStep

\* A POST's phase and snapshot are its own.
LEMMA OthersUnchanged ==
    ASSUME TypeOK, NEW s \in Scans, HandlerStep(s) \/ PersistenceStep(s),
           NEW t \in Scans, t # s
    PROVE  pc'[t] = pc[t] /\ snap'[t] = snap[t]
<1> USE DEF TypeOK
<1>1. CASE HandlerStep(s)
  BY <1>1 DEF HandlerStep, TxStep, ReserveScanUsage, LockUserKindQuota, CountLedger,
       CountInFlight, CountInFlightWithoutLedger, CountOpenReservations, DenyQuota,
       DenyParallel, RecordSuccessUsage, AbortTransaction, Publish, PublishError,
       ReleaseSuccessUsageByScanID, ReleaseError, CrashBeforeAnswer, Goto, EndTransaction
<1>2. CASE PersistenceStep(s)
  BY <1>2 DEF PersistenceStep, ScanStarted, ScanCompleted, ScanFailed, DeleteScan, WriteRow
<1> QED BY <1>1, <1>2

\* A POST reaches a counting phase only by the count of that phase; a step
\* of cafe-persistence moves no POST.
LEMMA OwnPhase ==
    ASSUME TypeOK, NEW s \in Scans, HandlerStep(s) \/ PersistenceStep(s),
           pc'[s] \in TxPhases \ {"locked"}
    PROVE  \/ CountLedger(s) /\ pc'[s] = "ledgerCounted"
           \/ CountInFlight(s) /\ pc'[s] = "inFlightCounted"
           \/ CountInFlightWithoutLedger(s) /\ pc'[s] = "extraCounted"
           \/ CountOpenReservations(s) /\ pc'[s] = "counted"
           \/ PersistenceStep(s) /\ UNCHANGED <<pc, snap>>
<1> USE DEF TypeOK, TxPhases
<1>1. CASE HandlerStep(s)
  BY <1>1 DEF HandlerStep, TxStep, ReserveScanUsage, LockUserKindQuota, CountLedger,
       CountInFlight, CountInFlightWithoutLedger, CountOpenReservations, DenyQuota,
       DenyParallel, RecordSuccessUsage, AbortTransaction, Publish, PublishError,
       ReleaseSuccessUsageByScanID, ReleaseError, CrashBeforeAnswer, Goto
<1>2. CASE PersistenceStep(s)
  BY <1>2 DEF PersistenceStep, ScanStarted, ScanCompleted, ScanFailed, DeleteScan, WriteRow
<1> QED BY <1>1, <1>2

\* Two reservations of one key are never in their transactions together.
LEMMA Exclusive ==
    ASSUME LockInv, NEW s \in Scans, NEW t \in Scans,
           pc[s] \in TxPhases, pc[t] \in TxPhases, KeyOf[s] = KeyOf[t]
    PROVE  s = t
BY DEF LockInv, LockOf

-----------------------------------------------------------------------------
(* The snapshots stay upper bounds until the decision.                     *)

\* The ledger count: other reservations of the key are locked out, and
\* everything else only removes rows.
LEMMA LedgerSnapStep ==
    ASSUME TypeOK, LockInv, LedgerSnapInv, NEW s \in Scans,
           HandlerStep(s) \/ PersistenceStep(s), TypeOK'
    PROVE  LedgerSnapInv'
<1>1. SUFFICES ASSUME NEW t \in Scans,
                      pc'[t] \in {"ledgerCounted", "inFlightCounted", "extraCounted", "counted"}
               PROVE  Cardinality(LedgerOf(KeyOf[t])') <= snap'[t].ledger
  BY DEF LedgerSnapInv, LedgerOf, Of
<1> DEFINE k == KeyOf[t]
<1>2. /\ snap[t].ledger \in Nat /\ snap'[t].ledger \in Nat
      /\ Cardinality(LedgerOf(k)) \in Nat
  BY CountSets, SubsetCard DEF TypeOK, Snapshots
<1>3. ASSUME LedgerOf(k)' \subseteq LedgerOf(k),
             snap'[t].ledger = snap[t].ledger,
             pc[t] \in {"ledgerCounted", "inFlightCounted", "extraCounted", "counted"}
      PROVE  Cardinality(LedgerOf(k)') <= snap'[t].ledger
  <2>1. Cardinality(LedgerOf(k)') \in Nat /\ Cardinality(LedgerOf(k)') <= Cardinality(LedgerOf(k))
    BY <1>3, CountSets, SubsetCard
  <2>2. Cardinality(LedgerOf(k)) <= snap[t].ledger BY <1>3 DEF LedgerSnapInv
  <2> QED BY <1>2, <1>3, <2>1, <2>2
<1>4. CASE t # s
  <2>1. pc'[t] = pc[t] /\ snap'[t] = snap[t] BY <1>4, OthersUnchanged
  <2>2. LedgerOf(k)' \subseteq LedgerOf(k)
    <3>1. CASE RecordSuccessUsage(s)
      <4>1. pc[s] \in TxPhases BY <3>1 DEF RecordSuccessUsage, Goto, TxPhases
      <4>2. pc[t] \in TxPhases BY <1>1, <2>1 DEF TxPhases
      <4>3. KeyOf[s] # k BY <1>4, <4>1, <4>2, Exclusive
      <4> QED BY <3>1, <4>3, CommitAddsOne
    <3>2. CASE ~RecordSuccessUsage(s) BY <3>2, CountsShrink
    <3> QED BY <3>1, <3>2
  <2> QED BY <1>1, <1>3, <2>1, <2>2
<1>5. CASE t = s
  <2>1. pc'[s] \in TxPhases \ {"locked"} BY <1>1, <1>5 DEF TxPhases
  <2>2. CASE CountLedger(s)
    <3>1. LedgerOf(k)' = LedgerOf(k) BY <2>2 DEF CountLedger, UnchangedStores, LedgerOf, Of
    <3>2. snap'[s].ledger = Cardinality(LedgerOf(KeyOf[s]))
      BY <2>2 DEF CountLedger, TypeOK, Snapshots
    <3> QED BY <1>2, <1>5, <3>1, <3>2
  <2>3. CASE CountInFlight(s) \/ CountInFlightWithoutLedger(s) \/ CountOpenReservations(s)
    <3>1. LedgerOf(k)' = LedgerOf(k)
      BY <2>3 DEF CountInFlight, CountInFlightWithoutLedger, CountOpenReservations,
           UnchangedStores, LedgerOf, Of
    <3>2. /\ pc[s] \in {"ledgerCounted", "inFlightCounted", "extraCounted", "counted"}
          /\ snap'[s].ledger = snap[s].ledger
      BY <2>3 DEF CountInFlight, CountInFlightWithoutLedger, CountOpenReservations, Goto,
           TypeOK, Snapshots
    <3> QED BY <1>3, <1>5, <3>1, <3>2
  <2>4. CASE PersistenceStep(s) /\ UNCHANGED <<pc, snap>>
    <3>1. ~RecordSuccessUsage(s)
      BY <2>1, <2>4 DEF RecordSuccessUsage, Goto, TxPhases, TypeOK
    <3>2. LedgerOf(k)' \subseteq LedgerOf(k) BY <3>1, CountsShrink
    <3> QED BY <1>1, <1>3, <1>5, <2>4, <3>2
  <2> QED BY <2>1, <2>2, <2>3, <2>4, OwnPhase
<1> QED BY <1>4, <1>5

\* The in-flight count: rows that appear after it are slipped.
LEMMA WindowSnapStep ==
    ASSUME TypeOK, WindowSnapInv, NEW s \in Scans,
           HandlerStep(s) \/ PersistenceStep(s), TypeOK'
    PROVE  WindowSnapInv'
<1>1. SUFFICES ASSUME NEW t \in Scans, pc'[t] \in {"inFlightCounted", "extraCounted"}
               PROVE  Cardinality((InFlight(KeyOf[t]) \ slipped)') <= snap'[t].inFlight
  BY DEF WindowSnapInv, InFlight, Of
<1> DEFINE D == InFlight(KeyOf[t]) \ slipped
<1>2. /\ snap[t].inFlight \in Nat /\ snap'[t].inFlight \in Nat
      /\ D \in SUBSET Scans /\ Cardinality(D) \in Nat
      /\ Cardinality(InFlight(KeyOf[t])) \in Nat
      /\ Cardinality(D) <= Cardinality(InFlight(KeyOf[t]))
  BY CountSets, SubsetCard DEF TypeOK, Snapshots
<1>3. ASSUME pc[t] \in {"inFlightCounted", "extraCounted"},
             snap'[t].inFlight = snap[t].inFlight
      PROVE  Cardinality(D') <= snap'[t].inFlight
  <2>1. D' \subseteq D BY <1>3, WindowShrinks
  <2>2. Cardinality(D') \in Nat /\ Cardinality(D') <= Cardinality(D)
    BY <1>2, <2>1, SubsetCard
  <2>3. Cardinality(D) <= snap[t].inFlight BY <1>3 DEF WindowSnapInv
  <2> QED BY <1>2, <1>3, <2>2, <2>3
<1>4. CASE t # s
  <2>1. pc'[t] = pc[t] /\ snap'[t] = snap[t] BY <1>4, OthersUnchanged
  <2> QED BY <1>1, <1>3, <2>1
<1>5. CASE t = s
  <2>1. pc'[s] \in TxPhases \ {"locked"} BY <1>1, <1>5 DEF TxPhases
  <2>2. CASE CountInFlight(s)
    <3>1. D' = D BY <2>2 DEF CountInFlight, UnchangedStores, InFlight, Of
    <3>2. snap'[s].inFlight = Cardinality(InFlight(KeyOf[s]))
      BY <2>2 DEF CountInFlight, TypeOK, Snapshots
    <3> QED BY <1>2, <1>5, <3>1, <3>2
  <2>3. CASE CountInFlightWithoutLedger(s)
    <3>1. pc[s] = "inFlightCounted" /\ snap'[s].inFlight = snap[s].inFlight
      BY <2>3 DEF CountInFlightWithoutLedger, Goto, TypeOK, Snapshots
    <3> QED BY <1>3, <1>5, <3>1
  <2>4. CASE PersistenceStep(s) /\ UNCHANGED <<pc, snap>>
    BY <1>1, <1>3, <1>5, <2>4
  <2> QED BY <1>1, <1>5, <2>1, <2>2, <2>3, <2>4, OwnPhase
<1> QED BY <1>4, <1>5

\* Both counts together: they bound the active scans that did not slip when
\* the second is taken, and those only shrink until the decision.
LEMMA ActiveSnapStep ==
    ASSUME TypeOK, LockInv, WindowSnapInv, ActiveSnapInv, NEW s \in Scans,
           HandlerStep(s) \/ PersistenceStep(s), TypeOK'
    PROVE  ActiveSnapInv'
<1>1. SUFFICES ASSUME NEW t \in Scans, pc'[t] = "counted"
               PROVE  Cardinality((Active(KeyOf[t]) \ slipped)')
                        <= snap'[t].inFlight + snap'[t].open
  BY DEF ActiveSnapInv, Active, InFlight, OpenReservations, LedgerOf, Of
<1> DEFINE k == KeyOf[t]
<1> DEFINE A == Active(k) \ slipped
<1>2. /\ snap[t].inFlight \in Nat /\ snap[t].open \in Nat
      /\ A \in SUBSET Scans /\ Cardinality(A) \in Nat
  BY CountSets, SubsetCard DEF TypeOK, Snapshots
<1>3. ASSUME A' \subseteq A, pc[t] = "counted", snap'[t] = snap[t]
      PROVE  Cardinality(A') <= snap'[t].inFlight + snap'[t].open
  <2>1. Cardinality(A') \in Nat /\ Cardinality(A') <= Cardinality(A)
    BY <1>2, <1>3, SubsetCard
  <2>2. Cardinality(A) <= snap[t].inFlight + snap[t].open BY <1>3 DEF ActiveSnapInv
  <2> QED BY <1>2, <1>3, <2>1, <2>2
<1>4. CASE t # s
  <2>1. pc'[t] = pc[t] /\ snap'[t] = snap[t] BY <1>4, OthersUnchanged
  <2>2. A' \subseteq A
    <3>1. CASE RecordSuccessUsage(s)
      <4>1. pc[s] \in TxPhases BY <3>1 DEF RecordSuccessUsage, Goto, TxPhases
      <4>2. pc[t] \in TxPhases BY <1>1, <2>1 DEF TxPhases
      <4>3. KeyOf[s] # k BY <1>4, <4>1, <4>2, Exclusive
      <4> QED BY <3>1, <4>3, CommitAddsOne
    <3>2. CASE ~RecordSuccessUsage(s) BY <3>2, CountsShrink
    <3> QED BY <3>1, <3>2
  <2> QED BY <1>1, <1>3, <2>1, <2>2
<1>5. CASE t = s
  <2>1. pc'[s] \in TxPhases \ {"locked"} BY <1>1, <1>5 DEF TxPhases
  <2>2. CASE CountOpenReservations(s)
    <3>1. A' = A
      BY <2>2 DEF CountOpenReservations, UnchangedStores, Active, InFlight,
           OpenReservations, LedgerOf, Of
    <3>2. /\ snap'[s].open = Cardinality(OpenReservations(KeyOf[s]))
          /\ snap'[s].inFlight = snap[s].inFlight
          /\ pc[s] = "extraCounted"
      BY <2>2 DEF CountOpenReservations, Goto, TypeOK, Snapshots
    <3> DEFINE D == InFlight(k) \ slipped
    <3>3. Cardinality(D) <= snap[s].inFlight BY <1>5, <3>2 DEF WindowSnapInv
    <3>4. /\ D \in SUBSET Scans /\ OpenReservations(k) \in SUBSET Scans
          /\ D \cup OpenReservations(k) \in SUBSET Scans
          /\ A \subseteq D \cup OpenReservations(k)
      BY CountSets DEF Active
    <3>5. /\ Cardinality(A) <= Cardinality(D \cup OpenReservations(k))
          /\ Cardinality(D) \in Nat /\ Cardinality(OpenReservations(k)) \in Nat
          /\ Cardinality(D \cup OpenReservations(k)) \in Nat
      BY <3>4, SubsetCard
    <3>6. Cardinality(D \cup OpenReservations(k))
            <= Cardinality(D) + Cardinality(OpenReservations(k))
      BY <3>4, UnionCard
    <3>7. Cardinality(A) <= snap'[t].inFlight + snap'[t].open
      <4> HIDE DEF A, D
      <4> QED BY <1>2, <1>5, <3>2, <3>3, <3>5, <3>6
    <3> QED BY <3>1, <3>7
  <2>3. CASE PersistenceStep(s) /\ UNCHANGED <<pc, snap>>
    <3>1. ~RecordSuccessUsage(s)
      BY <2>1, <2>3 DEF RecordSuccessUsage, Goto, TxPhases, TypeOK
    <3>2. A' \subseteq A BY <3>1, CountsShrink
    <3> QED BY <1>1, <1>3, <1>5, <2>3, <3>2
  <2> QED BY <1>1, <1>5, <2>1, <2>2, <2>3, OwnPhase
<1> QED BY <1>4, <1>5

-----------------------------------------------------------------------------
(* The two limits.                                                         *)

\* A commit passed the quota check with a ledger count that is still an
\* upper bound, so one more row stays within the limit.
LEMMA QuotaStep ==
    ASSUME IInv, NEW s \in Scans, HandlerStep(s) \/ PersistenceStep(s)
    PROVE  QuotaNeverExceeded'
<1>1. SUFFICES ASSUME NEW k \in Keys, Limit[k] > 0
               PROVE  Cardinality(LedgerOf(k)') <= Limit[k]
  BY DEF QuotaNeverExceeded, LedgerOf, Of
<1>2. Limit[k] \in Int BY LimitType
<1>3. Cardinality(LedgerOf(k)) <= Limit[k] BY <1>1 DEF IInv, QuotaNeverExceeded
<1>4. LedgerOf(k) \in SUBSET Scans /\ Cardinality(LedgerOf(k)) \in Nat
  BY CountSets, SubsetCard
<1>5. TypeOK BY DEF IInv
<1>6. CASE ~RecordSuccessUsage(s) \/ KeyOf[s] # k
  <2>1. LedgerOf(k)' \subseteq LedgerOf(k) BY <1>5, <1>6, CountsShrink, CommitAddsOne
  <2>2. Cardinality(LedgerOf(k)') \in Nat /\ Cardinality(LedgerOf(k)') <= Cardinality(LedgerOf(k))
    BY <1>4, <2>1, SubsetCard
  <2> QED BY <1>2, <1>3, <1>4, <2>2
<1>7. CASE RecordSuccessUsage(s) /\ KeyOf[s] = k
  <2>1. LedgerOf(k)' \subseteq LedgerOf(k) \cup {s} BY <1>5, <1>7, CommitAddsOne
  <2>2. Cardinality(LedgerOf(k)') <= Cardinality(LedgerOf(k)) + 1
    BY <1>4, <2>1, AddCard
  <2>3. LedgerOf(k)' \subseteq Scans BY <1>4, <2>1
  <2>4. Cardinality(LedgerOf(k)') \in Nat BY <2>3, SubsetCard
  <2>5. Cardinality(LedgerOf(k)) <= snap[s].ledger
    BY <1>7 DEF IInv, LedgerSnapInv, RecordSuccessUsage, Goto
  <2>6. snap[s].ledger + snap[s].extra < Limit[k] /\ snap[s].ledger \in Nat /\ snap[s].extra \in Nat
    BY <1>1, <1>2, <1>5, <1>7 DEF RecordSuccessUsage, OverQuota, TypeOK, Snapshots
  <2> QED BY <1>2, <1>4, <2>2, <2>4, <2>5, <2>6
<1> QED BY <1>6, <1>7

\* A commit passed the parallel check with counts that still bound the
\* active scans that did not slip.
LEMMA ParallelStep ==
    ASSUME IInv, NEW s \in Scans, HandlerStep(s) \/ PersistenceStep(s)
    PROVE  ParallelCapExceptSlipped'
<1>1. SUFFICES ASSUME NEW k \in Keys
               PROVE  Cardinality((Active(k) \ slipped)') <= PlanParallelScanCap(Limit[k])
  BY DEF ParallelCapExceptSlipped, Active, InFlight, OpenReservations, LedgerOf, Of
<1> DEFINE A == Active(k) \ slipped
<1>2. PlanParallelScanCap(Limit[k]) \in Int BY LimitType DEF PlanParallelScanCap
<1>3. Cardinality(A) <= PlanParallelScanCap(Limit[k]) BY DEF IInv, ParallelCapExceptSlipped
<1>4. A \in SUBSET Scans /\ Cardinality(A) \in Nat BY CountSets, SubsetCard
<1>5. TypeOK BY DEF IInv
<1>6. CASE ~RecordSuccessUsage(s) \/ KeyOf[s] # k
  <2>1. A' \subseteq A BY <1>5, <1>6, CountsShrink, CommitAddsOne
  <2>2. Cardinality(A') \in Nat /\ Cardinality(A') <= Cardinality(A)
    BY <1>4, <2>1, SubsetCard
  <2> QED BY <1>2, <1>3, <1>4, <2>2
<1>7. CASE RecordSuccessUsage(s) /\ KeyOf[s] = k
  <2>1. A' \subseteq A \cup {s} BY <1>5, <1>7, CommitAddsOne
  <2>2. Cardinality(A') <= Cardinality(A) + 1 BY <1>4, <2>1, AddCard
  <2>3. A' \subseteq Scans BY <1>4, <2>1
  <2>4. Cardinality(A') \in Nat BY <2>3, SubsetCard
  <2>5. Cardinality(A) <= snap[s].inFlight + snap[s].open
    BY <1>7 DEF IInv, ActiveSnapInv, RecordSuccessUsage, Goto
  <2>6. /\ snap[s].inFlight \in Nat /\ snap[s].open \in Nat
        /\ snap[s].inFlight + snap[s].open < PlanParallelScanCap(Limit[k])
    BY <1>2, <1>5, <1>7 DEF RecordSuccessUsage, OverParallel, TypeOK, Snapshots
  <2> QED BY <1>2, <1>4, <2>2, <2>4, <2>5, <2>6
<1> QED BY <1>6, <1>7

-----------------------------------------------------------------------------
(* The inductive invariant and the theorems.                               *)

\* The empty ledger satisfies the inductive invariant.
LEMMA InitInv == Init => IInv
<1> SUFFICES ASSUME Init PROVE IInv OBVIOUS
<1>1. TypeOK
  BY DEF Init, TypeOK, Phases, RowStates, Snapshots, EmptySnapshot
<1>2. LockInv /\ FreshInv /\ LedgerSnapInv /\ WindowSnapInv /\ ActiveSnapInv
  BY DEF Init, LockInv, FreshInv, LedgerSnapInv, WindowSnapInv, ActiveSnapInv, TxPhases
<1>3. \A k : LedgerOf(k) = {} /\ Active(k) \ slipped = {}
  BY DEF Init, LedgerOf, Active, InFlight, OpenReservations, Of, InFlightStatuses,
       NoRow, PENDING, RUNNING
<1>4. Cardinality({}) = 0 BY FS_EmptySet
<1>5. QuotaNeverExceeded /\ ParallelCapExceptSlipped
  BY <1>3, <1>4, LimitType DEF QuotaNeverExceeded, ParallelCapExceptSlipped, PlanParallelScanCap
<1> QED BY <1>1, <1>2, <1>5 DEF IInv

\* Every step of a POST or of cafe-persistence keeps the inductive invariant.
LEMMA NextInv == IInv /\ [Next]_vars => IInv'
<1> SUFFICES ASSUME IInv, [Next]_vars PROVE IInv' OBVIOUS
<1>1. TypeOK' /\ LockInv' /\ FreshInv'
  BY TypeStep, LockStep, FreshStep DEF IInv
<1>2. CASE UNCHANGED vars
  BY <1>1, <1>2 DEF vars, IInv, LedgerSnapInv, WindowSnapInv, ActiveSnapInv,
       QuotaNeverExceeded, ParallelCapExceptSlipped, LedgerOf, InFlight, OpenReservations,
       Active, Of
<1>3. CASE Next
  <2>1. PICK s \in Scans : HandlerStep(s) \/ PersistenceStep(s) BY <1>3 DEF Next
  <2>2. LedgerSnapInv' /\ WindowSnapInv' /\ ActiveSnapInv'
    BY <1>1, <2>1, LedgerSnapStep, WindowSnapStep, ActiveSnapStep DEF IInv
  <2>3. QuotaNeverExceeded' /\ ParallelCapExceptSlipped'
    BY <2>1, QuotaStep, ParallelStep
  <2> QED BY <1>1, <2>2, <2>3 DEF IInv
<1> QED BY <1>2, <1>3

\* The inductive invariant holds in every state of the ledger.
THEOREM Invariance == Spec => []IInv
BY InitInv, NextInv, PTL DEF Spec

\* Type correctness of the ledger.
THEOREM TypeCorrect == Spec => []TypeOK
<1>1. IInv => TypeOK BY DEF IInv
<1> QED BY <1>1, Invariance, PTL

\* ReserveScanUsage: for any number of POSTs, users, limits and lock
\* collisions, a limited plan never holds more ledger rows than its limit.
THEOREM QuotaSafe == Spec => []QuotaNeverExceeded
<1>1. IInv => QuotaNeverExceeded BY DEF IInv
<1> QED BY <1>1, Invariance, PTL

\* loadScanQuotaSnapshot: the parallel cap can only be passed by scans whose
\* row appeared unseen by the two counts.
THEOREM ParallelSafe == Spec => []ParallelCapExceptSlipped
<1>1. IInv => ParallelCapExceptSlipped BY DEF IInv
<1> QED BY <1>1, Invariance, PTL

-----------------------------------------------------------------------------
(* Refinement.                                                             *)

\* Every step of the transactional ledger is a step of the abstract one or
\* leaves the ledger as it is.
LEMMA RefinementStep == IInv /\ [Next]_vars => [Abstract!Next]_ledger
<1> SUFFICES ASSUME IInv, [Next]_vars, ledger' # ledger
             PROVE  Abstract!Next
  OBVIOUS
<1>1. PICK s \in Scans : HandlerStep(s) \/ PersistenceStep(s)
  BY DEF Next, vars
<1>2. CASE RecordSuccessUsage(s)
  <2>1. s \notin ledger BY <1>2 DEF IInv, FreshInv, RecordSuccessUsage, Goto, TxPhases
  <2>2. Abstract!UsedBy(KeyOf[s]) = LedgerOf(KeyOf[s])
    BY DEF Abstract!UsedBy, LedgerOf, Of, IInv, TypeOK
  <2>3. Limit[KeyOf[s]] > 0 => Cardinality(LedgerOf(KeyOf[s])) < Limit[KeyOf[s]]
    <3>1. /\ Cardinality(LedgerOf(KeyOf[s])) <= snap[s].ledger
          /\ snap[s].ledger \in Nat /\ snap[s].extra \in Nat /\ Limit[KeyOf[s]] \in Int
          /\ Cardinality(LedgerOf(KeyOf[s])) \in Nat
      BY <1>2, KeyOfType, LimitType, CountSets, SubsetCard
         DEF IInv, LedgerSnapInv, TypeOK, Snapshots, RecordSuccessUsage, Goto
    <3>2. ~OverQuota(s) BY <1>2 DEF RecordSuccessUsage
    <3> QED BY <3>1, <3>2 DEF OverQuota
  <2>4. ledger' = ledger \cup {s} BY <1>2 DEF RecordSuccessUsage
  <2>5. Abstract!Cardinality(LedgerOf(KeyOf[s])) = Cardinality(LedgerOf(KeyOf[s]))
    BY DEF Abstract!Cardinality, Cardinality
  <2>6. Abstract!Take(s) BY <2>1, <2>2, <2>3, <2>4, <2>5 DEF Abstract!Take
  <2> QED BY <2>6 DEF Abstract!Next
<1>3. CASE ~RecordSuccessUsage(s)
  <2>1. ledger' = ledger \ {s}
    BY <1>1, <1>3 DEF HandlerStep, TxStep, ReserveScanUsage, LockUserKindQuota, CountLedger,
         CountInFlight, CountInFlightWithoutLedger, CountOpenReservations, DenyQuota,
         DenyParallel, AbortTransaction, Publish, PublishError, ReleaseSuccessUsageByScanID,
         ReleaseError, CrashBeforeAnswer, PersistenceStep, ScanStarted, ScanCompleted,
         ScanFailed, DeleteScan, UnchangedStores
  <2>2. s \in ledger BY <2>1
  <2>3. Abstract!GiveBack(s) BY <2>1, <2>2 DEF Abstract!GiveBack
  <2> QED BY <2>3 DEF Abstract!Next
<1> QED BY <1>2, <1>3

\* The reservation transaction implements the atomic ledger.
THEOREM Refinement == Spec => ImplementsAbstract
<1>1. Init => Abstract!Init BY DEF Init, Abstract!Init
<1> QED BY <1>1, Invariance, RefinementStep, PTL DEF Spec, ImplementsAbstract, Abstract!Spec
=============================================================================
