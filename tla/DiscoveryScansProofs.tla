------------------------ MODULE DiscoveryScansProofs ------------------------
(***************************************************************************)
(* Safety of POST and DELETE for any number of scans and addresses, any    *)
(* plan and any faults.                                                    *)
(*                                                                         *)
(* None of the properties is inductive.  PhaseInv says what each phase of  *)
(* a POST has taken so far, ClaimInv that an address belongs to its scan   *)
(* until the scan is settled or deleted, EraseInv what each phase of a     *)
(* DELETE has found and removed.                                           *)
(***************************************************************************)
EXTENDS DiscoveryScans, TLAPS

\* The phases of a POST that has taken nothing yet.
Early == {"idle", "pendingRead", "dropStale", "checkRows", "cpm", "reserve"}

TypeInv ==
    /\ pending \subseteq Scans /\ ledger \subseteq Scans /\ queue \subseteq Scans
    /\ reservation \in [Addresses -> Scans \cup {NoScan}]
    /\ row \in [Scans -> {NoRow, RUNNING, SUCCESS, FAILED}]
    /\ deleted \subseteq Scans /\ referenced \subseteq Scans
    /\ pc \in [Scans -> PostPhases] /\ rec \in [Scans -> Scans \cup {NoScan}]
    /\ resp \in [Scans -> Statuses]
    /\ dpc \in [Scans -> DeletePhases] /\ dresp \in [Scans -> Statuses]
    /\ hurt \subseteq Scans /\ missed \subseteq Scans /\ late \subseteq Scans

\* What a POST has taken in each phase, and what it may leave behind.
PhaseInv ==
    \A s \in Scans :
        /\ pc[s] \in Early => s \notin ledger \cup queue \cup pending
        /\ pc[s] = "quota" => s \in pending /\ s \notin ledger \cup queue
        /\ pc[s] = "publish" => s \in pending \cap ledger /\ s \notin queue
        /\ pc[s] \in Early \cup {"quota", "publish"} => row[s] = NoRow
        /\ pc[s] \in {"releaseQuota", "deletePending"} /\ s \notin hurt =>
              s \notin queue /\ row[s] = NoRow
        /\ pc[s] = "deletePending" /\ s \notin hurt => s \notin ledger
        /\ Refused(s) /\ s \notin hurt =>
              s \notin ledger \cup queue \cup pending /\ row[s] = NoRow
        /\ resp[s] = "200" => pc[s] = "done"
        /\ pc[s] = "crashed" => s \in hurt
        /\ Accepted(s) => s \in queue \/ row[s] # NoRow
        /\ dpc[s] # "idle" => resp[s] = "200"
        /\ row[s] = RUNNING => s \in queue

\* A reserved address has a pending record, and a scan that is not settled and
\* not touched by a DELETE keeps its address and its record.
ClaimInv ==
    /\ \A a \in Addresses : reservation[a] # NoScan =>
          reservation[a] \in pending /\ Address[reservation[a]] = a
    /\ \A u \in Scans : pc[u] = "dropStale" => rec[u] \in Scans /\ IsTerminal(row[rec[u]])
    /\ \A s \in Scans :
          \/ pc[s] \in {"quota", "publish"}
          \/ Accepted(s) /\ dpc[s] = "idle" /\ ~IsTerminal(row[s])
          => s \in pending /\ (Family[s] = "wallet" => reservation[Address[s]] = s)

\* What a DELETE knows in each phase.
EraseInv ==
    \A s \in Scans :
        /\ s \in deleted => dpc[s] # "idle" /\ row[s] # NoRow
        /\ s \in deleted /\ s \notin hurt => dpc[s] = "clearPending" \/ s \notin pending
        /\ dpc[s] \in {"hasRow", "deleteRow", "clearPending"} => s \notin missed
        /\ dpc[s] \in {"findPending", "pendingOnly", "deletePendingOnly"} => s \in missed
        /\ dpc[s] = "clearPending" => s \in deleted
        /\ dpc[s] = "done" /\ dresp[s] = "204" =>
              s \notin pending /\ (s \notin missed => s \in deleted)
        /\ dpc[s] = "deleteRow" /\ s \in referenced => s \in late

IInv == TypeInv /\ PhaseInv /\ ClaimInv /\ EraseInv /\ RunsAreBilled /\ BlockedExplained
        /\ ReferencedIsKept

-----------------------------------------------------------------------------
\* The statuses of the model, and the word GET shows for each.
LEMMA StatusFacts ==
    /\ RUNNING # NoRow /\ SUCCESS # NoRow /\ FAILED # NoRow
    /\ RUNNING # SUCCESS /\ RUNNING # FAILED /\ SUCCESS # FAILED
    /\ IsTerminal(SUCCESS) /\ IsTerminal(FAILED) /\ ~IsTerminal(NoRow) /\ ~IsTerminal(RUNNING)
    /\ LifecycleStatus(RUNNING) = "started" /\ LifecycleStatus(NoRow) = "started"
    /\ LifecycleStatus(SUCCESS) = "completed" /\ LifecycleStatus(FAILED) = "failed"
BY DEF LifecycleStatus, TerminalStates, IsTerminal, SUCCESS, FAILED, TIMEOUT,
   UNREACHABLE, RUNNING, PENDING, NoRow

\* Every step keeps the types.
LEMMA TypeStep == TypeInv /\ [Next]_vars => TypeInv'
<1> USE TargetsKnown, StatusFacts DEF postVars, deleteVars, stores, rows, history,
   Goto, DGoto, DAnswer, Early, HoldsPending, TypeInv, PostPhases, DeletePhases,
   Statuses
<1>1. SUFFICES ASSUME TypeInv, [Next]_vars PROVE TypeInv'
  OBVIOUS
<1>2. CASE \E s \in Scans : PrepareRefused(s)
  BY <1>2, <1>1 DEF PrepareRefused, Answer
<1>3. CASE \E s \in Scans : GetWalletByOwnerAddress(s)
  BY <1>3, <1>1 DEF GetWalletByOwnerAddress, Answer
<1>4. CASE \E s \in Scans : PendingWalletReservationState(s)
  BY <1>4, <1>1 DEF PendingWalletReservationState, Answer
<1>5. CASE \E s \in Scans : DropStale(s)
  BY <1>5, <1>1 DEF DropStale, FreeReservation
<1>6. CASE \E s \in Scans : CheckRows(s)
  BY <1>6, <1>1 DEF CheckRows, Answer
<1>7. CASE \E s \in Scans : CheckWalletCPMContext(s)
  BY <1>7, <1>1 DEF CheckWalletCPMContext, Answer
<1>8. CASE \E s \in Scans : ReserveWallet(s)
  BY <1>8, <1>1 DEF ReserveWallet, Answer, Hurt
<1>9. CASE \E s \in Scans : PutTLS(s)
  BY <1>9, <1>1 DEF PutTLS, Answer, Hurt
<1>10. CASE \E s \in Scans : ReserveScanQuota(s)
  BY <1>10, <1>1 DEF ReserveScanQuota, Answer
<1>11. CASE \E s \in Scans : PublishScanRequested(s)
  BY <1>11, <1>1 DEF PublishScanRequested, Answer, Hurt
<1>12. CASE \E s \in Scans : RollbackQuota(s)
  BY <1>12, <1>1 DEF RollbackQuota, Hurt
<1>13. CASE \E s \in Scans : RollbackPending(s)
  BY <1>13, <1>1 DEF RollbackPending, PendingDelete, FreeReservation, Hurt
<1>14. CASE \E s \in Scans : CrashPost(s)
  BY <1>14, <1>1 DEF CrashPost, Hurt
<1>15. CASE \E s \in Scans : DeleteFindScan(s)
  BY <1>15, <1>1 DEF DeleteFindScan
<1>16. CASE \E s \in Scans : DeleteFindPending(s)
  BY <1>16, <1>1 DEF DeleteFindPending
<1>17. CASE \E s \in Scans : DeleteCheckPolicy(s)
  BY <1>17, <1>1 DEF DeleteCheckPolicy
<1>18. CASE \E s \in Scans : DeleteRow(s)
  BY <1>18, <1>1 DEF DeleteRow, Hurt
<1>19. CASE \E s \in Scans : ClearPending(s)
  BY <1>19, <1>1 DEF ClearPending, PendingDelete, FreeReservation, Hurt
<1>20. CASE \E s \in Scans : DeletePendingOnly(s)
  BY <1>20, <1>1 DEF DeletePendingOnly, PendingDelete, FreeReservation
<1>21. CASE \E s \in Scans : CrashDelete(s)
  BY <1>21, <1>1 DEF CrashDelete, Hurt
<1>22. CASE \E s \in Scans : ScanStarted(s)
  BY <1>22, <1>1 DEF ScanStarted, WriteRow
<1>23. CASE \E s \in Scans : ScanCompleted(s)
  BY <1>23, <1>1 DEF ScanCompleted, WriteRow
<1>24. CASE \E s \in Scans : ScanFailed(s)
  BY <1>24, <1>1 DEF ScanFailed, WriteRow
<1>25. CASE \E s \in Scans : PersistenceDropsPending(s)
  BY <1>25, <1>1 DEF PersistenceDropsPending, PendingDelete, FreeReservation
<1>26. CASE \E s \in Scans : PolicyCreated(s)
  BY <1>26, <1>1 DEF PolicyCreated
<1>27. CASE \E s \in Scans : PolicyDeleted(s)
  BY <1>27, <1>1 DEF PolicyDeleted
<1>28. CASE UNCHANGED vars
  BY <1>28, <1>1, SMTT(30) DEF vars
<1> HIDE DEF TypeInv, PostPhases, DeletePhases, Statuses
<1>. QED
  BY <1>1, <1>2, <1>3, <1>4, <1>5, <1>6, <1>7, <1>8, <1>9, <1>10, <1>11, <1>12, <1>13,
     <1>14, <1>15, <1>16, <1>17, <1>18, <1>19, <1>20, <1>21, <1>22, <1>23, <1>24,
     <1>25, <1>26, <1>27, <1>28 DEF Next, PostStep, DeleteStep, ExternalStep

\* Every step keeps what the phases of a POST have taken.
LEMMA PhaseStep == IInv /\ [Next]_vars => PhaseInv'
<1> USE TargetsKnown, StatusFacts DEF postVars, deleteVars, stores, rows, history,
   Goto, DGoto, DAnswer, Early, HoldsPending, IInv, TypeInv, PhaseInv, ClaimInv,
   Accepted, Refused, VisibleRow
<1>1. SUFFICES ASSUME IInv, [Next]_vars PROVE PhaseInv'
  OBVIOUS
<1>2. CASE \E s \in Scans : PrepareRefused(s)
  BY <1>2, <1>1 DEF PrepareRefused, Answer
<1>3. CASE \E s \in Scans : GetWalletByOwnerAddress(s)
  BY <1>3, <1>1 DEF GetWalletByOwnerAddress, Answer
<1>4. CASE \E s \in Scans : PendingWalletReservationState(s)
  BY <1>4, <1>1 DEF PendingWalletReservationState, Answer
<1>5. CASE \E s \in Scans : DropStale(s)
  BY <1>5, <1>1 DEF DropStale, FreeReservation
<1>6. CASE \E s \in Scans : CheckRows(s)
  BY <1>6, <1>1 DEF CheckRows, Answer
<1>7. CASE \E s \in Scans : CheckWalletCPMContext(s)
  BY <1>7, <1>1 DEF CheckWalletCPMContext, Answer
<1>8. CASE \E s \in Scans : ReserveWallet(s)
  BY <1>8, <1>1 DEF ReserveWallet, Answer, Hurt
<1>9. CASE \E s \in Scans : PutTLS(s)
  BY <1>9, <1>1 DEF PutTLS, Answer, Hurt
<1>10. CASE \E s \in Scans : ReserveScanQuota(s)
  BY <1>10, <1>1 DEF ReserveScanQuota, Answer
<1>11. CASE \E s \in Scans : PublishScanRequested(s)
  BY <1>11, <1>1 DEF PublishScanRequested, Answer, Hurt
<1>12. CASE \E s \in Scans : RollbackQuota(s)
  BY <1>12, <1>1 DEF RollbackQuota, Hurt
<1>13. CASE \E s \in Scans : RollbackPending(s)
  BY <1>13, <1>1 DEF RollbackPending, PendingDelete, FreeReservation, Hurt
<1>14. CASE \E s \in Scans : CrashPost(s)
  BY <1>14, <1>1 DEF CrashPost, Hurt
<1>15. CASE \E s \in Scans : DeleteFindScan(s)
  BY <1>15, <1>1 DEF DeleteFindScan
<1>16. CASE \E s \in Scans : DeleteFindPending(s)
  BY <1>16, <1>1 DEF DeleteFindPending
<1>17. CASE \E s \in Scans : DeleteCheckPolicy(s)
  BY <1>17, <1>1 DEF DeleteCheckPolicy
<1>18. CASE \E s \in Scans : DeleteRow(s)
  BY <1>18, <1>1 DEF DeleteRow, Hurt
<1>19. CASE \E s \in Scans : ClearPending(s)
  BY <1>19, <1>1 DEF ClearPending, PendingDelete, FreeReservation, Hurt
<1>20. CASE \E s \in Scans : DeletePendingOnly(s)
  BY <1>20, <1>1 DEF DeletePendingOnly, PendingDelete, FreeReservation
<1>21. CASE \E s \in Scans : CrashDelete(s)
  BY <1>21, <1>1 DEF CrashDelete, Hurt
<1>22. CASE \E s \in Scans : ScanStarted(s)
  BY <1>22, <1>1 DEF ScanStarted, WriteRow
<1>23. CASE \E s \in Scans : ScanCompleted(s)
  BY <1>23, <1>1 DEF ScanCompleted, WriteRow
<1>24. CASE \E s \in Scans : ScanFailed(s)
  BY <1>24, <1>1 DEF ScanFailed, WriteRow
<1>25. CASE \E s \in Scans : PersistenceDropsPending(s)
  BY <1>25, <1>1 DEF PersistenceDropsPending, PendingDelete, FreeReservation
<1>26. CASE \E s \in Scans : PolicyCreated(s)
  BY <1>26, <1>1 DEF PolicyCreated
<1>27. CASE \E s \in Scans : PolicyDeleted(s)
  BY <1>27, <1>1 DEF PolicyDeleted
<1>28. CASE UNCHANGED vars
  BY <1>28, <1>1, SMTT(30) DEF vars
<1> HIDE DEF IInv, TypeInv, PhaseInv, ClaimInv, Accepted, Refused, VisibleRow
<1>. QED
  BY <1>1, <1>2, <1>3, <1>4, <1>5, <1>6, <1>7, <1>8, <1>9, <1>10, <1>11, <1>12, <1>13,
     <1>14, <1>15, <1>16, <1>17, <1>18, <1>19, <1>20, <1>21, <1>22, <1>23, <1>24,
     <1>25, <1>26, <1>27, <1>28 DEF Next, PostStep, DeleteStep, ExternalStep

\* Every step keeps the claims on addresses and records.
LEMMA ClaimStep == IInv /\ [Next]_vars => ClaimInv'
<1> USE TargetsKnown, StatusFacts DEF postVars, deleteVars, stores, rows, history,
   Goto, DGoto, DAnswer, Early, HoldsPending, IInv, TypeInv, PhaseInv, ClaimInv,
   Accepted
<1>1. SUFFICES ASSUME IInv, [Next]_vars PROVE ClaimInv'
  OBVIOUS
<1>2. CASE \E s \in Scans : PrepareRefused(s)
  BY <1>2, <1>1 DEF PrepareRefused, Answer
<1>3. CASE \E s \in Scans : GetWalletByOwnerAddress(s)
  BY <1>3, <1>1 DEF GetWalletByOwnerAddress, Answer
<1>4. CASE \E s \in Scans : PendingWalletReservationState(s)
  BY <1>4, <1>1 DEF PendingWalletReservationState, Answer, VisibleRow, IsInFlight
<1>5. CASE \E s \in Scans : DropStale(s)
  BY <1>5, <1>1 DEF DropStale, FreeReservation
<1>6. CASE \E s \in Scans : CheckRows(s)
  BY <1>6, <1>1 DEF CheckRows, Answer
<1>7. CASE \E s \in Scans : CheckWalletCPMContext(s)
  BY <1>7, <1>1 DEF CheckWalletCPMContext, Answer
<1>8. CASE \E s \in Scans : ReserveWallet(s)
  BY <1>8, <1>1 DEF ReserveWallet, Answer, Hurt
<1>9. CASE \E s \in Scans : PutTLS(s)
  BY <1>9, <1>1 DEF PutTLS, Answer, Hurt
<1>10. CASE \E s \in Scans : ReserveScanQuota(s)
  BY <1>10, <1>1 DEF ReserveScanQuota, Answer
<1>11. CASE \E s \in Scans : PublishScanRequested(s)
  BY <1>11, <1>1 DEF PublishScanRequested, Answer, Hurt
<1>12. CASE \E s \in Scans : RollbackQuota(s)
  BY <1>12, <1>1 DEF RollbackQuota, Hurt
<1>13. CASE \E s \in Scans : RollbackPending(s)
  BY <1>13, <1>1 DEF RollbackPending, PendingDelete, FreeReservation, Hurt
<1>14. CASE \E s \in Scans : CrashPost(s)
  BY <1>14, <1>1 DEF CrashPost, Hurt
<1>15. CASE \E s \in Scans : DeleteFindScan(s)
  BY <1>15, <1>1 DEF DeleteFindScan
<1>16. CASE \E s \in Scans : DeleteFindPending(s)
  BY <1>16, <1>1 DEF DeleteFindPending
<1>17. CASE \E s \in Scans : DeleteCheckPolicy(s)
  BY <1>17, <1>1 DEF DeleteCheckPolicy
<1>18. CASE \E s \in Scans : DeleteRow(s)
  BY <1>18, <1>1 DEF DeleteRow, Hurt
<1>19. CASE \E s \in Scans : ClearPending(s)
  BY <1>19, <1>1 DEF ClearPending, PendingDelete, FreeReservation, Hurt
<1>20. CASE \E s \in Scans : DeletePendingOnly(s)
  BY <1>20, <1>1 DEF DeletePendingOnly, PendingDelete, FreeReservation
<1>21. CASE \E s \in Scans : CrashDelete(s)
  BY <1>21, <1>1 DEF CrashDelete, Hurt
<1>22. CASE \E s \in Scans : ScanStarted(s)
  BY <1>22, <1>1 DEF ScanStarted, WriteRow
<1>23. CASE \E s \in Scans : ScanCompleted(s)
  BY <1>23, <1>1 DEF ScanCompleted, WriteRow
<1>24. CASE \E s \in Scans : ScanFailed(s)
  BY <1>24, <1>1 DEF ScanFailed, WriteRow
<1>25. CASE \E s \in Scans : PersistenceDropsPending(s)
  BY <1>25, <1>1 DEF PersistenceDropsPending, PendingDelete, FreeReservation
<1>26. CASE \E s \in Scans : PolicyCreated(s)
  BY <1>26, <1>1 DEF PolicyCreated
<1>27. CASE \E s \in Scans : PolicyDeleted(s)
  BY <1>27, <1>1 DEF PolicyDeleted
<1>28. CASE UNCHANGED vars
  BY <1>28, <1>1, SMTT(30) DEF vars
<1> HIDE DEF IInv, TypeInv, PhaseInv, ClaimInv, Accepted
<1>. QED
  BY <1>1, <1>2, <1>3, <1>4, <1>5, <1>6, <1>7, <1>8, <1>9, <1>10, <1>11, <1>12, <1>13,
     <1>14, <1>15, <1>16, <1>17, <1>18, <1>19, <1>20, <1>21, <1>22, <1>23, <1>24,
     <1>25, <1>26, <1>27, <1>28 DEF Next, PostStep, DeleteStep, ExternalStep

\* Every step keeps what the phases of a DELETE know.
LEMMA EraseStep == IInv /\ [Next]_vars => EraseInv'
<1> USE TargetsKnown, StatusFacts DEF postVars, deleteVars, stores, rows, history,
   Goto, DGoto, DAnswer, Early, HoldsPending, IInv, TypeInv, PhaseInv, EraseInv,
   VisibleRow
<1>1. SUFFICES ASSUME IInv, [Next]_vars PROVE EraseInv'
  OBVIOUS
<1>2. CASE \E s \in Scans : PrepareRefused(s)
  BY <1>2, <1>1 DEF PrepareRefused, Answer
<1>3. CASE \E s \in Scans : GetWalletByOwnerAddress(s)
  BY <1>3, <1>1 DEF GetWalletByOwnerAddress, Answer
<1>4. CASE \E s \in Scans : PendingWalletReservationState(s)
  BY <1>4, <1>1 DEF PendingWalletReservationState, Answer
<1>5. CASE \E s \in Scans : DropStale(s)
  BY <1>5, <1>1 DEF DropStale, FreeReservation
<1>6. CASE \E s \in Scans : CheckRows(s)
  BY <1>6, <1>1 DEF CheckRows, Answer
<1>7. CASE \E s \in Scans : CheckWalletCPMContext(s)
  BY <1>7, <1>1 DEF CheckWalletCPMContext, Answer
<1>8. CASE \E s \in Scans : ReserveWallet(s)
  BY <1>8, <1>1 DEF ReserveWallet, Answer, Hurt
<1>9. CASE \E s \in Scans : PutTLS(s)
  BY <1>9, <1>1 DEF PutTLS, Answer, Hurt
<1>10. CASE \E s \in Scans : ReserveScanQuota(s)
  BY <1>10, <1>1 DEF ReserveScanQuota, Answer
<1>11. CASE \E s \in Scans : PublishScanRequested(s)
  BY <1>11, <1>1 DEF PublishScanRequested, Answer, Hurt
<1>12. CASE \E s \in Scans : RollbackQuota(s)
  BY <1>12, <1>1 DEF RollbackQuota, Hurt
<1>13. CASE \E s \in Scans : RollbackPending(s)
  BY <1>13, <1>1 DEF RollbackPending, PendingDelete, FreeReservation, Hurt
<1>14. CASE \E s \in Scans : CrashPost(s)
  BY <1>14, <1>1 DEF CrashPost, Hurt
<1>15. CASE \E s \in Scans : DeleteFindScan(s)
  BY <1>15, <1>1 DEF DeleteFindScan
<1>16. CASE \E s \in Scans : DeleteFindPending(s)
  BY <1>16, <1>1 DEF DeleteFindPending
<1>17. CASE \E s \in Scans : DeleteCheckPolicy(s)
  BY <1>17, <1>1 DEF DeleteCheckPolicy
<1>18. CASE \E s \in Scans : DeleteRow(s)
  BY <1>18, <1>1 DEF DeleteRow, Hurt
<1>19. CASE \E s \in Scans : ClearPending(s)
  BY <1>19, <1>1 DEF ClearPending, PendingDelete, FreeReservation, Hurt
<1>20. CASE \E s \in Scans : DeletePendingOnly(s)
  BY <1>20, <1>1 DEF DeletePendingOnly, PendingDelete, FreeReservation
<1>21. CASE \E s \in Scans : CrashDelete(s)
  BY <1>21, <1>1 DEF CrashDelete, Hurt
<1>22. CASE \E s \in Scans : ScanStarted(s)
  BY <1>22, <1>1 DEF ScanStarted, WriteRow
<1>23. CASE \E s \in Scans : ScanCompleted(s)
  BY <1>23, <1>1 DEF ScanCompleted, WriteRow
<1>24. CASE \E s \in Scans : ScanFailed(s)
  BY <1>24, <1>1 DEF ScanFailed, WriteRow
<1>25. CASE \E s \in Scans : PersistenceDropsPending(s)
  BY <1>25, <1>1 DEF PersistenceDropsPending, PendingDelete, FreeReservation
<1>26. CASE \E s \in Scans : PolicyCreated(s)
  BY <1>26, <1>1 DEF PolicyCreated
<1>27. CASE \E s \in Scans : PolicyDeleted(s)
  BY <1>27, <1>1 DEF PolicyDeleted
<1>28. CASE UNCHANGED vars
  BY <1>28, <1>1, SMTT(30) DEF vars
<1> HIDE DEF IInv, TypeInv, PhaseInv, EraseInv, VisibleRow
<1>. QED
  BY <1>1, <1>2, <1>3, <1>4, <1>5, <1>6, <1>7, <1>8, <1>9, <1>10, <1>11, <1>12, <1>13,
     <1>14, <1>15, <1>16, <1>17, <1>18, <1>19, <1>20, <1>21, <1>22, <1>23, <1>24,
     <1>25, <1>26, <1>27, <1>28 DEF Next, PostStep, DeleteStep, ExternalStep

\* Every step keeps the credit of the scans that run.
LEMMA BilledStep == IInv /\ [Next]_vars => RunsAreBilled'
<1> USE TargetsKnown, StatusFacts DEF postVars, deleteVars, stores, rows, history,
   Goto, DGoto, DAnswer, Early, HoldsPending, IInv, TypeInv, PhaseInv, RunsAreBilled,
   Accepted
<1>1. SUFFICES ASSUME IInv, [Next]_vars PROVE RunsAreBilled'
  OBVIOUS
<1>2. CASE \E s \in Scans : PrepareRefused(s)
  BY <1>2, <1>1 DEF PrepareRefused, Answer
<1>3. CASE \E s \in Scans : GetWalletByOwnerAddress(s)
  BY <1>3, <1>1 DEF GetWalletByOwnerAddress, Answer
<1>4. CASE \E s \in Scans : PendingWalletReservationState(s)
  BY <1>4, <1>1 DEF PendingWalletReservationState, Answer
<1>5. CASE \E s \in Scans : DropStale(s)
  BY <1>5, <1>1 DEF DropStale, FreeReservation
<1>6. CASE \E s \in Scans : CheckRows(s)
  BY <1>6, <1>1 DEF CheckRows, Answer
<1>7. CASE \E s \in Scans : CheckWalletCPMContext(s)
  BY <1>7, <1>1 DEF CheckWalletCPMContext, Answer
<1>8. CASE \E s \in Scans : ReserveWallet(s)
  BY <1>8, <1>1 DEF ReserveWallet, Answer, Hurt
<1>9. CASE \E s \in Scans : PutTLS(s)
  BY <1>9, <1>1 DEF PutTLS, Answer, Hurt
<1>10. CASE \E s \in Scans : ReserveScanQuota(s)
  BY <1>10, <1>1 DEF ReserveScanQuota, Answer
<1>11. CASE \E s \in Scans : PublishScanRequested(s)
  BY <1>11, <1>1 DEF PublishScanRequested, Answer, Hurt
<1>12. CASE \E s \in Scans : RollbackQuota(s)
  BY <1>12, <1>1 DEF RollbackQuota, Hurt
<1>13. CASE \E s \in Scans : RollbackPending(s)
  BY <1>13, <1>1 DEF RollbackPending, PendingDelete, FreeReservation, Hurt
<1>14. CASE \E s \in Scans : CrashPost(s)
  BY <1>14, <1>1 DEF CrashPost, Hurt
<1>15. CASE \E s \in Scans : DeleteFindScan(s)
  BY <1>15, <1>1 DEF DeleteFindScan
<1>16. CASE \E s \in Scans : DeleteFindPending(s)
  BY <1>16, <1>1 DEF DeleteFindPending
<1>17. CASE \E s \in Scans : DeleteCheckPolicy(s)
  BY <1>17, <1>1 DEF DeleteCheckPolicy
<1>18. CASE \E s \in Scans : DeleteRow(s)
  BY <1>18, <1>1 DEF DeleteRow, Hurt
<1>19. CASE \E s \in Scans : ClearPending(s)
  BY <1>19, <1>1 DEF ClearPending, PendingDelete, FreeReservation, Hurt
<1>20. CASE \E s \in Scans : DeletePendingOnly(s)
  BY <1>20, <1>1 DEF DeletePendingOnly, PendingDelete, FreeReservation
<1>21. CASE \E s \in Scans : CrashDelete(s)
  BY <1>21, <1>1 DEF CrashDelete, Hurt
<1>22. CASE \E s \in Scans : ScanStarted(s)
  BY <1>22, <1>1 DEF ScanStarted, WriteRow
<1>23. CASE \E s \in Scans : ScanCompleted(s)
  BY <1>23, <1>1 DEF ScanCompleted, WriteRow
<1>24. CASE \E s \in Scans : ScanFailed(s)
  BY <1>24, <1>1 DEF ScanFailed, WriteRow
<1>25. CASE \E s \in Scans : PersistenceDropsPending(s)
  BY <1>25, <1>1 DEF PersistenceDropsPending, PendingDelete, FreeReservation
<1>26. CASE \E s \in Scans : PolicyCreated(s)
  BY <1>26, <1>1 DEF PolicyCreated
<1>27. CASE \E s \in Scans : PolicyDeleted(s)
  BY <1>27, <1>1 DEF PolicyDeleted
<1>28. CASE UNCHANGED vars
  BY <1>28, <1>1, SMTT(30) DEF vars
<1> HIDE DEF IInv, TypeInv, PhaseInv, RunsAreBilled, Accepted
<1>. QED
  BY <1>1, <1>2, <1>3, <1>4, <1>5, <1>6, <1>7, <1>8, <1>9, <1>10, <1>11, <1>12, <1>13,
     <1>14, <1>15, <1>16, <1>17, <1>18, <1>19, <1>20, <1>21, <1>22, <1>23, <1>24,
     <1>25, <1>26, <1>27, <1>28 DEF Next, PostStep, DeleteStep, ExternalStep

\* Every step keeps the explanation of a reserved address.
LEMMA BlockedStep == IInv /\ [Next]_vars => BlockedExplained'
<1> USE TargetsKnown, StatusFacts DEF postVars, deleteVars, stores, rows, history,
   Goto, DGoto, DAnswer, Early, HoldsPending, IInv, TypeInv, BlockedExplained,
   WillUnblock, VisibleRow, IsInFlight
<1>1. SUFFICES ASSUME IInv, [Next]_vars PROVE BlockedExplained'
  OBVIOUS
<1>2. CASE \E s \in Scans : PrepareRefused(s)
  BY <1>2, <1>1 DEF PrepareRefused, Answer
<1>3. CASE \E s \in Scans : GetWalletByOwnerAddress(s)
  BY <1>3, <1>1 DEF GetWalletByOwnerAddress, Answer
<1>4. CASE \E s \in Scans : PendingWalletReservationState(s)
  BY <1>4, <1>1 DEF PendingWalletReservationState, Answer
<1>5. CASE \E s \in Scans : DropStale(s)
  BY <1>5, <1>1 DEF DropStale, FreeReservation
<1>6. CASE \E s \in Scans : CheckRows(s)
  BY <1>6, <1>1 DEF CheckRows, Answer
<1>7. CASE \E s \in Scans : CheckWalletCPMContext(s)
  BY <1>7, <1>1 DEF CheckWalletCPMContext, Answer
<1>8. CASE \E s \in Scans : ReserveWallet(s)
  BY <1>8, <1>1 DEF ReserveWallet, Answer, Hurt
<1>9. CASE \E s \in Scans : PutTLS(s)
  BY <1>9, <1>1 DEF PutTLS, Answer, Hurt
<1>10. CASE \E s \in Scans : ReserveScanQuota(s)
  BY <1>10, <1>1 DEF ReserveScanQuota, Answer
<1>11. CASE \E s \in Scans : PublishScanRequested(s)
  BY <1>11, <1>1 DEF PublishScanRequested, Answer, Hurt
<1>12. CASE \E s \in Scans : RollbackQuota(s)
  BY <1>12, <1>1 DEF RollbackQuota, Hurt
<1>13. CASE \E s \in Scans : RollbackPending(s)
  BY <1>13, <1>1 DEF RollbackPending, PendingDelete, FreeReservation, Hurt, ClaimInv
<1>14. CASE \E s \in Scans : CrashPost(s)
  BY <1>14, <1>1 DEF CrashPost, Hurt
<1>15. CASE \E s \in Scans : DeleteFindScan(s)
  BY <1>15, <1>1 DEF DeleteFindScan
<1>16. CASE \E s \in Scans : DeleteFindPending(s)
  BY <1>16, <1>1 DEF DeleteFindPending
<1>17. CASE \E s \in Scans : DeleteCheckPolicy(s)
  BY <1>17, <1>1 DEF DeleteCheckPolicy
<1>18. CASE \E s \in Scans : DeleteRow(s)
  BY <1>18, <1>1 DEF DeleteRow, Hurt
<1>19. CASE \E s \in Scans : ClearPending(s)
  BY <1>19, <1>1 DEF ClearPending, PendingDelete, FreeReservation, Hurt, ClaimInv
<1>20. CASE \E s \in Scans : DeletePendingOnly(s)
  BY <1>20, <1>1 DEF DeletePendingOnly, PendingDelete, FreeReservation, ClaimInv
<1>21. CASE \E s \in Scans : CrashDelete(s)
  BY <1>21, <1>1 DEF CrashDelete, Hurt
<1>22. CASE \E s \in Scans : ScanStarted(s)
  BY <1>22, <1>1 DEF ScanStarted, WriteRow
<1>23. CASE \E s \in Scans : ScanCompleted(s)
  BY <1>23, <1>1 DEF ScanCompleted, WriteRow, ClaimInv, EraseInv
<1>24. CASE \E s \in Scans : ScanFailed(s)
  BY <1>24, <1>1 DEF ScanFailed, WriteRow, ClaimInv, EraseInv
<1>25. CASE \E s \in Scans : PersistenceDropsPending(s)
  BY <1>25, <1>1 DEF PersistenceDropsPending, PendingDelete, FreeReservation, ClaimInv
<1>26. CASE \E s \in Scans : PolicyCreated(s)
  BY <1>26, <1>1 DEF PolicyCreated
<1>27. CASE \E s \in Scans : PolicyDeleted(s)
  BY <1>27, <1>1 DEF PolicyDeleted
<1>28. CASE UNCHANGED vars
  BY <1>28, <1>1, SMTT(30) DEF vars
<1> HIDE DEF IInv, TypeInv, BlockedExplained, WillUnblock, VisibleRow, IsInFlight
<1>. QED
  BY <1>1, <1>2, <1>3, <1>4, <1>5, <1>6, <1>7, <1>8, <1>9, <1>10, <1>11, <1>12, <1>13,
     <1>14, <1>15, <1>16, <1>17, <1>18, <1>19, <1>20, <1>21, <1>22, <1>23, <1>24,
     <1>25, <1>26, <1>27, <1>28 DEF Next, PostStep, DeleteStep, ExternalStep

\* Every step keeps referenced rows, late references excepted.
LEMMA KeptStep == IInv /\ [Next]_vars => ReferencedIsKept'
<1> USE TargetsKnown, StatusFacts DEF postVars, deleteVars, stores, rows, history,
   Goto, DGoto, DAnswer, Early, HoldsPending, IInv, TypeInv, EraseInv,
   ReferencedIsKept, VisibleRow
<1>1. SUFFICES ASSUME IInv, [Next]_vars PROVE ReferencedIsKept'
  OBVIOUS
<1>2. CASE \E s \in Scans : PrepareRefused(s)
  BY <1>2, <1>1 DEF PrepareRefused, Answer
<1>3. CASE \E s \in Scans : GetWalletByOwnerAddress(s)
  BY <1>3, <1>1 DEF GetWalletByOwnerAddress, Answer
<1>4. CASE \E s \in Scans : PendingWalletReservationState(s)
  BY <1>4, <1>1 DEF PendingWalletReservationState, Answer
<1>5. CASE \E s \in Scans : DropStale(s)
  BY <1>5, <1>1 DEF DropStale, FreeReservation
<1>6. CASE \E s \in Scans : CheckRows(s)
  BY <1>6, <1>1 DEF CheckRows, Answer
<1>7. CASE \E s \in Scans : CheckWalletCPMContext(s)
  BY <1>7, <1>1 DEF CheckWalletCPMContext, Answer
<1>8. CASE \E s \in Scans : ReserveWallet(s)
  BY <1>8, <1>1 DEF ReserveWallet, Answer, Hurt
<1>9. CASE \E s \in Scans : PutTLS(s)
  BY <1>9, <1>1 DEF PutTLS, Answer, Hurt
<1>10. CASE \E s \in Scans : ReserveScanQuota(s)
  BY <1>10, <1>1 DEF ReserveScanQuota, Answer
<1>11. CASE \E s \in Scans : PublishScanRequested(s)
  BY <1>11, <1>1 DEF PublishScanRequested, Answer, Hurt
<1>12. CASE \E s \in Scans : RollbackQuota(s)
  BY <1>12, <1>1 DEF RollbackQuota, Hurt
<1>13. CASE \E s \in Scans : RollbackPending(s)
  BY <1>13, <1>1 DEF RollbackPending, PendingDelete, FreeReservation, Hurt
<1>14. CASE \E s \in Scans : CrashPost(s)
  BY <1>14, <1>1 DEF CrashPost, Hurt
<1>15. CASE \E s \in Scans : DeleteFindScan(s)
  BY <1>15, <1>1 DEF DeleteFindScan
<1>16. CASE \E s \in Scans : DeleteFindPending(s)
  BY <1>16, <1>1 DEF DeleteFindPending
<1>17. CASE \E s \in Scans : DeleteCheckPolicy(s)
  BY <1>17, <1>1 DEF DeleteCheckPolicy
<1>18. CASE \E s \in Scans : DeleteRow(s)
  BY <1>18, <1>1 DEF DeleteRow, Hurt
<1>19. CASE \E s \in Scans : ClearPending(s)
  BY <1>19, <1>1 DEF ClearPending, PendingDelete, FreeReservation, Hurt
<1>20. CASE \E s \in Scans : DeletePendingOnly(s)
  BY <1>20, <1>1 DEF DeletePendingOnly, PendingDelete, FreeReservation
<1>21. CASE \E s \in Scans : CrashDelete(s)
  BY <1>21, <1>1 DEF CrashDelete, Hurt
<1>22. CASE \E s \in Scans : ScanStarted(s)
  BY <1>22, <1>1 DEF ScanStarted, WriteRow
<1>23. CASE \E s \in Scans : ScanCompleted(s)
  BY <1>23, <1>1 DEF ScanCompleted, WriteRow
<1>24. CASE \E s \in Scans : ScanFailed(s)
  BY <1>24, <1>1 DEF ScanFailed, WriteRow
<1>25. CASE \E s \in Scans : PersistenceDropsPending(s)
  BY <1>25, <1>1 DEF PersistenceDropsPending, PendingDelete, FreeReservation
<1>26. CASE \E s \in Scans : PolicyCreated(s)
  BY <1>26, <1>1 DEF PolicyCreated
<1>27. CASE \E s \in Scans : PolicyDeleted(s)
  BY <1>27, <1>1 DEF PolicyDeleted
<1>28. CASE UNCHANGED vars
  BY <1>28, <1>1, SMTT(30) DEF vars
<1> HIDE DEF IInv, TypeInv, EraseInv, ReferencedIsKept, VisibleRow
<1>. QED
  BY <1>1, <1>2, <1>3, <1>4, <1>5, <1>6, <1>7, <1>8, <1>9, <1>10, <1>11, <1>12, <1>13,
     <1>14, <1>15, <1>16, <1>17, <1>18, <1>19, <1>20, <1>21, <1>22, <1>23, <1>24,
     <1>25, <1>26, <1>27, <1>28 DEF Next, PostStep, DeleteStep, ExternalStep

\* The initial state satisfies the invariant.
LEMMA InitInv == Init => IInv
BY TargetsKnown, StatusFacts DEF Init, IInv, TypeInv, PhaseInv, ClaimInv, EraseInv,
   RunsAreBilled, BlockedExplained, ReferencedIsKept, Accepted, Refused, PostPhases,
   DeletePhases, Statuses, Early, HoldsPending

\* Every step keeps the invariant.
LEMMA NextInv == IInv /\ [Next]_vars => IInv'
<1>1. SUFFICES ASSUME IInv, [Next]_vars PROVE IInv'
  OBVIOUS
<1>2. TypeInv'
  BY <1>1, TypeStep DEF IInv
<1>. QED
  BY <1>1, <1>2, PhaseStep, ClaimStep, EraseStep, BilledStep, BlockedStep, KeptStep DEF IInv

\* The invariant holds always.
LEMMA Invariance == Spec => []IInv
BY InitInv, NextInv, PTL DEF Spec

\* checkWalletScanInFlight with ReserveWallet: for any number of POSTs, DELETEs
\* and faults, one accepted scan of a wallet address is in progress.
THEOREM OneScanPerAddress == Spec => []OneInProgressPerAddress
<1>1. IInv => OneInProgressPerAddress
  BY TargetsKnown, StatusFacts DEF IInv, TypeInv, ClaimInv, EraseInv, OneInProgressPerAddress,
     InProgress, GetScan, VisibleRow
<1>. QED
  BY Invariance, <1>1, PTL

\* rollbackScanAccept: a refused POST leaves nothing behind, unless an answer or
\* the roll-back itself was lost.
THEOREM RefusalSafe == Spec => []RefusedLeavesNothing
<1>1. IInv => RefusedLeavesNothing
  BY TargetsKnown DEF IInv, TypeInv, PhaseInv, ClaimInv, RefusedLeavesNothing
<1>. QED
  BY Invariance, <1>1, PTL

\* PostDiscoveryScanV1: an accepted scan that nobody deletes can always be read.
THEOREM AcceptedReadable == Spec => []AcceptedIsReadable
<1>1. IInv => AcceptedIsReadable
  BY TargetsKnown, StatusFacts DEF IInv, TypeInv, PhaseInv, ClaimInv, EraseInv,
     AcceptedIsReadable, GetScan, VisibleRow, Accepted
<1>. QED
  BY Invariance, <1>1, PTL

\* ReserveScanQuota before PublishScanRequested: what runs is paid for.
THEOREM Billed == Spec => []RunsAreBilled
<1>1. IInv => RunsAreBilled
  BY DEF IInv
<1>. QED
  BY Invariance, <1>1, PTL

\* checkWalletScanInFlight: an address is blocked for a reason.
THEOREM BlockedJustified == Spec => []BlockedExplained
<1>1. IInv => BlockedExplained
  BY DEF IInv
<1>. QED
  BY Invariance, <1>1, PTL

\* DELETE answered 204: no record and no address is left.
THEOREM DeletedUnclaimed == Spec => []DeletedLeavesNoClaim
<1>1. IInv => DeletedLeavesNoClaim
  BY TargetsKnown DEF IInv, TypeInv, ClaimInv, EraseInv, DeletedLeavesNoClaim
<1>. QED
  BY Invariance, <1>1, PTL

\* DELETE answered 204: a scan whose row the DELETE had found stays gone.
THEOREM DeletedGone == Spec => []DeletedStaysGone
<1>1. IInv => DeletedStaysGone
  BY StatusFacts DEF IInv, TypeInv, EraseInv, DeletedStaysGone, GetScan, VisibleRow
<1>. QED
  BY Invariance, <1>1, PTL

\* PersistedPoliciesReferenceScan: only a policy persisted after the check can
\* lose its row.
THEOREM ReferencedKept == Spec => []ReferencedIsKept
<1>1. IInv => ReferencedIsKept
  BY DEF IInv
<1>. QED
  BY Invariance, <1>1, PTL

-----------------------------------------------------------------------------
(* POST, persistence and the scanners use the ledger as it may be used.    *)

Credits == INSTANCE ScanQuotaAbstract WITH
    used <- ledger, Keys <- {"wallet", "tls"}, KeyOf <- Family

\* The ledger changes by a reservation, a roll-back or a failed scan.
LEMMA LedgerSteps ==
    ASSUME NEW s \in Scans, PostStep(s) \/ DeleteStep(s) \/ ExternalStep(s)
    PROVE  \/ ledger' = ledger \/ ledger' = ledger \ {s}
           \/ pc[s] = "quota" /\ UnderLimit(s) /\ ledger' = ledger \cup {s}
<1>1. CASE ReserveScanQuota(s)
  BY <1>1, Zenon DEF ReserveScanQuota, Goto
<1>2. CASE RollbackQuota(s) \/ ScanFailed(s)
  BY <1>2, Zenon DEF RollbackQuota, ScanFailed
<1>3. CASE PrepareRefused(s) \/ GetWalletByOwnerAddress(s) \/ PendingWalletReservationState(s)
  BY <1>3, Zenon DEF PrepareRefused, GetWalletByOwnerAddress, PendingWalletReservationState, stores
<1>4. CASE DropStale(s) \/ CheckRows(s) \/ CheckWalletCPMContext(s)
  BY <1>4, Zenon DEF DropStale, CheckRows, CheckWalletCPMContext, stores
<1>5. CASE ReserveWallet(s) \/ PutTLS(s) \/ PublishScanRequested(s)
  BY <1>5, Zenon DEF ReserveWallet, PutTLS, PublishScanRequested, stores
<1>6. CASE RollbackPending(s) \/ CrashPost(s)
  BY <1>6, Zenon DEF RollbackPending, CrashPost, stores
<1>7. CASE DeleteFindScan(s) \/ DeleteFindPending(s) \/ DeleteCheckPolicy(s) \/ DeleteRow(s)
  BY <1>7, Zenon DEF DeleteFindScan, DeleteFindPending, DeleteCheckPolicy, DeleteRow, stores
<1>8. CASE ClearPending(s) \/ DeletePendingOnly(s) \/ CrashDelete(s)
  BY <1>8, Zenon DEF ClearPending, DeletePendingOnly, CrashDelete, stores
<1>9. CASE ScanStarted(s) \/ ScanCompleted(s) \/ PersistenceDropsPending(s)
  BY <1>9, Zenon DEF ScanStarted, ScanCompleted, PersistenceDropsPending
<1>10. CASE PolicyCreated(s) \/ PolicyDeleted(s)
  BY <1>10, Zenon DEF PolicyCreated, PolicyDeleted, stores
<1>. QED
  BY <1>1, <1>2, <1>3, <1>4, <1>5, <1>6, <1>7, <1>8, <1>9, <1>10, Zenon
     DEF PostStep, DeleteStep, ExternalStep

\* A reservation of a scan without a credit is a Take, and giving one back is a
\* GiveBack or changes nothing.
LEMMA CreditStep == IInv /\ [Next]_vars => [Credits!Next]_ledger
<1>1. SUFFICES ASSUME IInv, [Next]_vars PROVE [Credits!Next]_ledger
  OBVIOUS
<1>2. ASSUME NEW s \in Scans, PostStep(s) \/ DeleteStep(s) \/ ExternalStep(s)
      PROVE  [Credits!Next]_ledger
  <2>1. CASE ledger' = ledger
    BY <2>1, Zenon
  <2>2. CASE ledger' = ledger \ {s}
    <3>1. s \notin ledger => ledger' = ledger
      BY <2>2
    <3>. QED
      BY <2>2, <3>1, Zenon DEF Credits!Next, Credits!GiveBack
  <2>3. CASE pc[s] = "quota" /\ UnderLimit(s) /\ ledger' = ledger \cup {s}
    <3>1. s \notin ledger
      BY <1>1, <2>3, Zenon DEF IInv, PhaseInv
    <3>2. Limit[Family[s]] > 0 =>
              Credits!Cardinality(Credits!UsedBy(Family[s])) < Limit[Family[s]]
      BY <2>3, Zenon DEF UnderLimit, Credits!UsedBy, Credits!Cardinality, Cardinality
    <3>. QED
      BY <2>3, <3>1, <3>2, Zenon DEF Credits!Next, Credits!Take
  <2>. QED
    BY <1>2, <2>1, <2>2, <2>3, LedgerSteps, Zenon
<1>3. CASE UNCHANGED vars
  BY <1>3, Zenon DEF vars, stores
<1>. QED
  BY <1>1, <1>2, <1>3, Zenon DEF Next

\* ReserveScanQuota, rollbackScanAccept and the release on scan.failed: the
\* handlers and their surroundings, with every fault, take credits one at a
\* time, only while the plan has one left, and at most one for each scan.  This
\* is what ScanQuotaLedger implements transaction by transaction.
THEOREM CreditsRefine == Spec => Credits!Spec
<1>1. Init => Credits!Init
  BY Zenon DEF Init, Credits!Init
<1>. QED
  BY Invariance, CreditStep, <1>1, PTL DEF Spec, Credits!Spec
=============================================================================
