-------------------------- MODULE ScanQuotaLedger --------------------------
(***************************************************************************)
(* The scan quota ledger (scan_usage_events): the reservation transaction  *)
(* of POST /discovery/v1/scan, its release when the request is not         *)
(* published, and the scan rows that cafe-persistence writes meanwhile.    *)
(*                                                                         *)
(* A reservation is one READ COMMITTED transaction under a per-(user,      *)
(* kind) advisory lock.  Its four counts are four statements, each with a  *)
(* snapshot of its own, so cafe-persistence, which takes no lock, may      *)
(* write a row between any two of them.  One POST is one element of Scans: *)
(* the handler gives every request a fresh scan id.                        *)
(***************************************************************************)
EXTENDS Integers, FiniteSets, ScanStates

CONSTANTS Scans,    \* scan identifiers, one for each POST
          Keys,     \* (user, scan kind) pairs
          KeyOf,    \* the key each scan is billed to
          LockIds,  \* values of userKindAdvisoryLockKey
          LockKey,  \* the lock of each key; two keys may share one
          Limit,    \* the plan limit of each key; <= 0 is unlimited
          NoScan    \* the owner of a free lock

ASSUME ScansFinite   == IsFiniteSet(Scans)
ASSUME NoScanFresh   == NoScan \notin Scans
ASSUME KeyOfType     == KeyOf \in [Scans -> Keys]
ASSUME LockKeyType   == LockKey \in [Keys -> LockIds]
ASSUME LimitType     == Limit \in [Keys -> Int]

VARIABLES ledger,     \* scans with a row in scan_usage_events
          row,        \* status of each scan's result row
          deleted,    \* scans whose result row is soft-deleted
          published,  \* scans whose request the SCAN_REQUESTED stream stored
          lock,       \* holder of each advisory lock
          pc,         \* where each POST is
          snap,       \* scanQuotaSnapshot of each POST
          slipped     \* history: scans whose row appeared unseen (see WriteRow)

vars == <<ledger, row, deleted, published, lock, pc, snap, slipped>>

\* The phases inside the transaction, in order.
TxPhases == {"locked", "ledgerCounted", "inFlightCounted", "extraCounted", "counted"}

Phases == {"idle", "waiting"} \cup TxPhases \cup
          {"reserved", "refusedQuota", "refusedParallel", "txError",
           "accepted", "rollback", "rolledBack", "crashed"}

Snapshots == [ledger : Nat, inFlight : Nat, extra : Nat, open : Nat]

EmptySnapshot == [ledger |-> 0, inFlight |-> 0, extra |-> 0, open |-> 0]

LockOf(s) == LockKey[KeyOf[s]]

Of(k) == {s \in Scans : KeyOf[s] = k}

-----------------------------------------------------------------------------
(* The counts.  gorm hides soft-deleted rows unless the query is Unscoped. *)

LedgerOf(k) == {s \in Of(k) : s \in ledger}

InFlight(k) == {s \in Of(k) : row[s] \in InFlightStatuses /\ s \notin deleted}

InFlightWithoutLedger(k) == InFlight(k) \ ledger

\* countOpenReservations is Unscoped: a soft-deleted row still counts as present.
OpenReservations(k) == {s \in LedgerOf(k) : row[s] = NoRow}

VisibleSuccess(k) == {s \in Of(k) : row[s] = SUCCESS /\ s \notin deleted}

PlanParallelScanCap(limit) == IF limit > 0 /\ limit < 3 THEN limit ELSE 3

\* The figures of GET /plans/usage for one kind.
GetPlanUsage(k) ==
    LET used    == Cardinality(LedgerOf(k))
        visible == Cardinality(VisibleSuccess(k))
    IN  [used |-> used, visible |-> visible, deletedByUser |-> used - visible,
         inFlight |-> Cardinality(InFlight(k)),
         left |-> IF Limit[k] = 0 THEN -1
                  ELSE IF Limit[k] < used THEN 0 ELSE Limit[k] - used]

-----------------------------------------------------------------------------
Init ==
    /\ ledger = {}
    /\ row = [s \in Scans |-> NoRow]
    /\ deleted = {}
    /\ published = {}
    /\ lock = [l \in LockIds |-> NoScan]
    /\ pc = [s \in Scans |-> "idle"]
    /\ snap = [s \in Scans |-> EmptySnapshot]
    /\ slipped = {}

Goto(s, from, to) == pc[s] = from /\ pc' = [pc EXCEPT ![s] = to]

UnchangedStores == UNCHANGED <<ledger, row, deleted, published, slipped>>

\* reserveScanQuota opens the transaction and asks for the lock.
ReserveScanUsage(s) ==
    /\ Goto(s, "idle", "waiting")
    /\ UnchangedStores /\ UNCHANGED <<lock, snap>>

\* Variant: the dialect without advisory locks.
LockUserKindQuotaNoLock(s) ==
    /\ Goto(s, "waiting", "locked")
    /\ lock' = [lock EXCEPT ![LockOf(s)] = s]
    /\ UnchangedStores /\ UNCHANGED snap

LockUserKindQuota(s) ==
    /\ Goto(s, "waiting", "locked")
    /\ lock[LockOf(s)] = NoScan
    /\ lock' = [lock EXCEPT ![LockOf(s)] = s]
    /\ UnchangedStores /\ UNCHANGED snap

CountLedger(s) ==
    /\ Goto(s, "locked", "ledgerCounted")
    /\ snap' = [snap EXCEPT ![s].ledger = Cardinality(LedgerOf(KeyOf[s]))]
    /\ UnchangedStores /\ UNCHANGED lock

CountInFlight(s) ==
    /\ Goto(s, "ledgerCounted", "inFlightCounted")
    /\ snap' = [snap EXCEPT ![s].inFlight = Cardinality(InFlight(KeyOf[s]))]
    /\ UnchangedStores /\ UNCHANGED lock

CountInFlightWithoutLedger(s) ==
    /\ Goto(s, "inFlightCounted", "extraCounted")
    /\ snap' = [snap EXCEPT ![s].extra = Cardinality(InFlightWithoutLedger(KeyOf[s]))]
    /\ UnchangedStores /\ UNCHANGED lock

CountOpenReservations(s) ==
    /\ Goto(s, "extraCounted", "counted")
    /\ snap' = [snap EXCEPT ![s].open = Cardinality(OpenReservations(KeyOf[s]))]
    /\ UnchangedStores /\ UNCHANGED lock

\* Variant: the limit itself still passes.
OverQuotaOffByOne(s) ==
    /\ Limit[KeyOf[s]] > 0
    /\ snap[s].ledger + snap[s].extra > Limit[KeyOf[s]]

OverQuota(s) ==
    /\ Limit[KeyOf[s]] > 0
    /\ snap[s].ledger + snap[s].extra >= Limit[KeyOf[s]]

OverParallel(s) ==
    snap[s].inFlight + snap[s].open >= PlanParallelScanCap(Limit[KeyOf[s]])

\* The commit or the rollback of the transaction frees its lock and drops its snapshot.
EndTransaction(s) ==
    /\ lock' = [lock EXCEPT ![LockOf(s)] = NoScan]
    /\ snap' = [snap EXCEPT ![s] = EmptySnapshot]

DenyQuota(s) ==
    /\ Goto(s, "counted", "refusedQuota")
    /\ OverQuota(s)
    /\ EndTransaction(s)
    /\ UnchangedStores

DenyParallel(s) ==
    /\ Goto(s, "counted", "refusedParallel")
    /\ ~OverQuota(s) /\ OverParallel(s)
    /\ EndTransaction(s)
    /\ UnchangedStores

RecordSuccessUsage(s) ==
    /\ Goto(s, "counted", "reserved")
    /\ ~OverQuota(s) /\ ~OverParallel(s)
    /\ ledger' = ledger \cup {s}
    /\ EndTransaction(s)
    /\ UNCHANGED <<row, deleted, published, slipped>>

\* Variant: a session lock, which the end of the transaction does not free.
AbortTransactionKeepLock(s) ==
    /\ pc[s] \in TxPhases
    /\ pc' = [pc EXCEPT ![s] = "txError"]
    /\ UnchangedStores /\ UNCHANGED <<lock, snap>>

\* A statement fails, or the process or its connection dies inside the transaction.
AbortTransaction(s) ==
    /\ pc[s] \in TxPhases
    /\ pc' = [pc EXCEPT ![s] = "txError"]
    /\ EndTransaction(s)
    /\ UnchangedStores

-----------------------------------------------------------------------------
(* The rest of the POST handler: publish, or give the credit back.         *)

Publish(s) ==
    /\ Goto(s, "reserved", "accepted")
    /\ published' = published \cup {s}
    /\ UNCHANGED <<ledger, row, deleted, lock, snap, slipped>>

\* PublishJetStream answers an error; the stream may have stored the request all the same.
PublishError(s) ==
    /\ Goto(s, "reserved", "rollback")
    /\ published' \in {published, published \cup {s}}
    /\ UNCHANGED <<ledger, row, deleted, lock, snap, slipped>>

\* Variant: the statement does not name the scan.
ReleaseSuccessUsageOfUser(s) ==
    /\ Goto(s, "rollback", "rolledBack")
    /\ ledger' = {}
    /\ UNCHANGED <<row, deleted, published, lock, snap, slipped>>

ReleaseSuccessUsageByScanID(s) ==
    /\ Goto(s, "rollback", "rolledBack")
    /\ ledger' = ledger \ {s}
    /\ UNCHANGED <<row, deleted, published, lock, snap, slipped>>

\* The release fails; the handler logs it and answers all the same.
ReleaseError(s) ==
    /\ Goto(s, "rollback", "rolledBack")
    /\ UnchangedStores /\ UNCHANGED <<lock, snap>>

CrashBeforeAnswer(s) ==
    /\ pc[s] \in {"reserved", "rollback"}
    /\ pc' = [pc EXCEPT ![s] = "crashed"]
    /\ UnchangedStores /\ UNCHANGED <<lock, snap>>

-----------------------------------------------------------------------------
(* cafe-persistence (external): it writes the row of a scan when a         *)
(* lifecycle event arrives, and on a failure also deletes the ledger row.  *)

\* A reservation of the same key that has counted rows but not yet reservations.
InSnapshotWindow(s) ==
    \E t \in Of(KeyOf[s]) : pc[t] \in {"inFlightCounted", "extraCounted"}

\* A row moves to status st.  A first in-flight row no reservation could count is recorded.
WriteRow(s, st) ==
    /\ row' = [row EXCEPT ![s] = st]
    /\ slipped' = IF /\ row[s] = NoRow /\ st \in InFlightStatuses
                     /\ InSnapshotWindow(s) \/ s \notin ledger
                  THEN slipped \cup {s} ELSE slipped
    /\ UNCHANGED <<deleted, published, lock, pc, snap>>

ScanStarted(s) ==
    /\ s \in published /\ row[s] = NoRow
    /\ WriteRow(s, RUNNING)
    /\ UNCHANGED ledger

ScanCompleted(s) ==
    /\ s \in published /\ row[s] \in {NoRow, RUNNING}
    /\ WriteRow(s, SUCCESS)
    /\ UNCHANGED ledger

\* From a scanner, or from the abandoner for a reservation that left the queue.
ScanFailed(s) ==
    /\ \/ s \in published
       \/ s \in ledger /\ pc[s] \in {"crashed", "rolledBack"}
    /\ row[s] \in {NoRow, RUNNING}
    /\ WriteRow(s, FAILED)
    /\ ledger' = ledger \ {s}

\* DELETE /discovery/v1/.../scans/:id
DeleteScan(s) ==
    /\ row[s] # NoRow /\ s \notin deleted
    /\ deleted' = deleted \cup {s}
    /\ UNCHANGED <<ledger, row, published, lock, pc, snap, slipped>>

-----------------------------------------------------------------------------
TxStep(s) ==
    \/ CountLedger(s) \/ CountInFlight(s)
    \/ CountInFlightWithoutLedger(s) \/ CountOpenReservations(s)
    \/ DenyQuota(s) \/ DenyParallel(s) \/ RecordSuccessUsage(s)
    \/ AbortTransaction(s)

HandlerStep(s) ==
    \/ ReserveScanUsage(s) \/ LockUserKindQuota(s) \/ TxStep(s)
    \/ Publish(s) \/ PublishError(s)
    \/ ReleaseSuccessUsageByScanID(s) \/ ReleaseError(s) \/ CrashBeforeAnswer(s)

PersistenceStep(s) ==
    ScanStarted(s) \/ ScanCompleted(s) \/ ScanFailed(s) \/ DeleteScan(s)

Next == \E s \in Scans : HandlerStep(s) \/ PersistenceStep(s)

Spec == Init /\ [][Next]_vars

\* A transaction in progress moves on or is aborted; Postgres queues the
\* waiters of a lock, so one that is freed again and again is granted.
Fairness == \A s \in Scans : WF_vars(TxStep(s)) /\ SF_vars(LockUserKindQuota(s))

FairSpec == Spec /\ Fairness

-----------------------------------------------------------------------------
(* Properties.                                                             *)

TypeOK ==
    /\ ledger \subseteq Scans
    /\ row \in [Scans -> RowStates]
    /\ deleted \subseteq Scans
    /\ published \subseteq Scans
    /\ lock \in [LockIds -> Scans \cup {NoScan}]
    /\ pc \in [Scans -> Phases]
    /\ snap \in [Scans -> Snapshots]
    /\ slipped \subseteq Scans

\* ReserveScanUsage: however reservations, releases, failures and crashes
\* interleave, a limited plan never holds more ledger rows than its limit.
QuotaNeverExceeded ==
    \A k \in Keys : Limit[k] > 0 => Cardinality(LedgerOf(k)) <= Limit[k]

\* Scans of the key that a reservation should see as running or about to run.
Active(k) == InFlight(k) \cup OpenReservations(k)

\* loadScanQuotaSnapshot: the only scans that run beyond the parallel cap are
\* those whose first row was written between the in-flight count and the open
\* count of a reservation, or without a ledger row.
ParallelCapExceptSlipped ==
    \A k \in Keys : Cardinality(Active(k) \ slipped) <= PlanParallelScanCap(Limit[k])

\* GetPlanUsage, as the README describes its figures: deleted_by_user is the
\* number of billed successes that the user has deleted.
DeletedByUserCountsDeletes ==
    \A k \in Keys : GetPlanUsage(k).deletedByUser =
        Cardinality({s \in LedgerOf(k) : row[s] = SUCCESS /\ s \in deleted})

\* The advisory lock: every reservation that asks for the lock is decided or
\* aborted, so no transaction keeps the others of its user waiting for ever.
EveryReservationDecided ==
    \A s \in Scans : pc[s] = "waiting" ~> pc[s] \notin TxPhases \cup {"waiting"}

Abstract == INSTANCE ScanQuotaAbstract WITH used <- ledger

\* The transaction implements the abstract ledger: seen from outside, a
\* credit is taken in one step and only while one is left.
ImplementsAbstract == Abstract!Spec
=============================================================================
