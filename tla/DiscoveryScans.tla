--------------------------- MODULE DiscoveryScans ---------------------------
(***************************************************************************)
(* POST /discovery/v1/scan, GET and DELETE .../scans/:scan_id for one user *)
(* and tenant: the handlers' calls to the pending store, the quota ledger, *)
(* the request stream, the scan rows and the policy service, one action    *)
(* for each call, so that requests interleave at every call.               *)
(*                                                                         *)
(* External, modelled from how the handlers use them: cafe-persistence     *)
(* (pending records, wallet reservations, scan rows), the scanners, the    *)
(* crypto policy manager.  Faults names the failures a run admits.         *)
(***************************************************************************)
EXTENDS Integers, FiniteSets, Sequences, ScanStates

CONSTANTS Scans,      \* scan ids, one for each POST
          Family,     \* "wallet" or "tls" for each scan
          Addresses,  \* normalised wallet addresses (and one place for TLS)
          Address,    \* the target of each scan
          Limit,      \* plan limit of each family; <= 0 is unlimited
          Faults,     \* for each scan, the faults its requests may meet
          Deletable,  \* scans their user may DELETE
          NoScan

\* call: a persistence call fails and has no effect; reply: it takes effect
\* and its answer is lost; db: a statement on Discovery's database fails;
\* publish: the stream does not store the request; ack: it does and the ack
\* is lost; crash: the process dies inside a request.
FaultKinds == {"call", "reply", "db", "publish", "ack", "crash"}

ASSUME FaultsKnown == Faults \in [Scans -> SUBSET FaultKinds]
ASSUME TargetsKnown ==
    /\ Family \in [Scans -> {"wallet", "tls"}] /\ Address \in [Scans -> Addresses]
    /\ NoScan \notin Scans

VARIABLES pending,     \* scans with a pending record
          reservation, \* scan that reserves each wallet address
          ledger,      \* scans with a ledger row
          queue,       \* scan requests the stream holds
          row, deleted,
          rowOrder,    \* scans in the order their rows were created
          referenced,  \* scans a persisted policy references
          pc,          \* where each POST is
          rec,         \* reservation record each POST read
          resp,        \* status each POST decided to answer
          dpc, dresp,  \* the same for the DELETE of each scan
          hurt,        \* history: scans whose POST or DELETE was left half done
          missed,      \* history: scans whose DELETE came before their row
          late         \* history: scans referenced after their DELETE had checked

postVars   == <<pc, rec, resp>>
deleteVars == <<dpc, dresp>>
stores     == <<pending, reservation, ledger, queue>>
rows       == <<row, deleted, rowOrder>>
history    == <<hurt, missed, late>>
vars       == <<postVars, deleteVars, stores, rows, referenced, history>>

Fault(s, f) == f \in Faults[s]

PostPhases == {"idle", "pendingRead", "dropStale", "checkRows", "cpm", "reserve", "quota",
               "publish", "releaseQuota", "deletePending", "done", "crashed"}

\* The phases of a POST that has a pending record.
HoldsPending == {"quota", "publish", "releaseQuota", "deletePending"}

DeletePhases == {"idle", "findPending", "hasRow", "pendingOnly", "deleteRow", "deletePendingOnly",
                 "clearPending", "done"}

Statuses == {"none", "200", "204", "400", "403", "404", "409", "500", "503"}

-----------------------------------------------------------------------------
(* What the handlers read.                                                 *)

VisibleRow(s) == row[s] # NoRow /\ s \notin deleted

IsInFlight(s) == LifecycleStatus(row[s]) \in {"requested", "started"}

\* ListOwnerWalletScansByAddress; the newest row is the last.
RowsByAddress(a) ==
    SelectSeq(rowOrder, LAMBDA s : /\ Family[s] = "wallet" /\ Address[s] = a
                                   /\ s \notin deleted)

\* GET .../scans/:scan_id
GetScan(s) ==
    IF VisibleRow(s) THEN LifecycleStatus(row[s])
    ELSE IF s \in pending THEN "requested" ELSE "404"

\* ActiveWalletCPMContextForTarget
PolicyCount(a) == Cardinality({s \in referenced : Family[s] = "wallet" /\ Address[s] = a})

-----------------------------------------------------------------------------
(* The pending store (external).                                           *)

FreeReservation(a, s) ==
    reservation' = IF reservation[a] = s THEN [reservation EXCEPT ![a] = NoScan]
                   ELSE reservation

\* DELETE /pending/{scan_id}: the record and the reservation it stands for.
PendingDelete(s) ==
    /\ pending' = pending \ {s}
    /\ FreeReservation(Address[s], s)

UnderLimit(s) ==
    LET billed == {t \in ledger : Family[t] = Family[s]}
    IN  Limit[Family[s]] > 0 => Cardinality(billed) < Limit[Family[s]]

-----------------------------------------------------------------------------
(* POST /discovery/v1/scan.                                                *)

Init ==
    /\ pending = {} /\ ledger = {} /\ queue = {} /\ referenced = {}
    /\ reservation = [a \in Addresses |-> NoScan]
    /\ row = [s \in Scans |-> NoRow] /\ deleted = {} /\ rowOrder = <<>>
    /\ pc = [s \in Scans |-> "idle"] /\ rec = [s \in Scans |-> NoScan]
    /\ resp = [s \in Scans |-> "none"]
    /\ dpc = [s \in Scans |-> "idle"] /\ dresp = [s \in Scans |-> "none"]
    /\ hurt = {} /\ missed = {} /\ late = {}

\* The request ends, or goes on, with part of its work undone or unanswered.
Hurt(s) == hurt' = hurt \cup {s} /\ UNCHANGED <<missed, late>>

Goto(s, from, to) == pc[s] = from /\ pc' = [pc EXCEPT ![s] = to]

\* The POST decides status st and goes on at phase to.
Answer(s, from, to, st) ==
    /\ Goto(s, from, to)
    /\ resp' = [resp EXCEPT ![s] = st]
    /\ UNCHANGED rec

\* The request body, the session, the scanner presence or the target is not acceptable.
PrepareRefused(s) ==
    /\ \E st \in {"400", "503"} : Answer(s, "idle", "done", st)
    /\ UNCHANGED <<deleteVars, stores, rows, referenced, history>>

\* checkWalletScanInFlight: the reservation of the address.
GetWalletByOwnerAddress(s) ==
    /\ Family[s] = "wallet"
    /\ \/ /\ Goto(s, "idle", "pendingRead")
          /\ rec' = [rec EXCEPT ![s] = reservation[Address[s]]]
          /\ UNCHANGED resp
       \/ Fault(s, "call") /\ Answer(s, "idle", "done", "503")
    /\ UNCHANGED <<deleteVars, stores, rows, referenced, history>>

\* pendingWalletReservationState: a reservation blocks unless its scan has a
\* visible row that is no longer in flight.
PendingWalletReservationState(s) ==
    LET r       == rec[s]
        settled == VisibleRow(r) /\ ~IsInFlight(r)
    IN  /\ \/ r = NoScan /\ Goto(s, "pendingRead", "checkRows") /\ UNCHANGED <<rec, resp>>
           \/ r # NoScan /\ settled /\ Goto(s, "pendingRead", "dropStale") /\ UNCHANGED <<rec, resp>>
           \/ r # NoScan /\ ~settled /\ Answer(s, "pendingRead", "done", "409")
           \/ r # NoScan /\ Fault(s, "db") /\ Answer(s, "pendingRead", "done", "500")
        /\ UNCHANGED <<deleteVars, stores, rows, referenced, history>>

\* Variant: the stale reservation is dropped whoever holds it by now.
DropStaleUnconditionally(s) ==
    /\ Goto(s, "dropStale", "checkRows")
    /\ reservation' = [reservation EXCEPT ![Address[s]] = NoScan]
    /\ UNCHANGED <<rec, resp, pending, ledger, queue, deleteVars, rows, referenced, history>>

\* DeleteWalletReservation names the scan it read; an error is ignored.
DropStale(s) ==
    /\ Goto(s, "dropStale", "checkRows")
    /\ \/ FreeReservation(Address[s], rec[s])
       \/ Fault(s, "call") /\ UNCHANGED reservation
    /\ UNCHANGED <<rec, resp, pending, ledger, queue, deleteVars, rows, referenced, history>>

\* The newest row of the address must not be in flight.
CheckRows(s) ==
    LET found == RowsByAddress(Address[s])
        busy  == found # <<>> /\ IsInFlight(found[Len(found)])
    IN  /\ \/ busy /\ Answer(s, "checkRows", "done", "409")
           \/ ~busy /\ Goto(s, "checkRows", "cpm") /\ UNCHANGED <<rec, resp>>
           \/ Fault(s, "db") /\ Answer(s, "checkRows", "done", "500")
        /\ UNCHANGED <<deleteVars, stores, rows, referenced, history>>

CheckWalletCPMContext(s) ==
    /\ \/ PolicyCount(Address[s]) = 0 /\ Goto(s, "cpm", "reserve") /\ UNCHANGED <<rec, resp>>
       \/ PolicyCount(Address[s]) > 0 /\ Answer(s, "cpm", "done", "409")
       \/ Fault(s, "call") /\ Answer(s, "cpm", "done", "503")
    /\ UNCHANGED <<deleteVars, stores, rows, referenced, history>>

\* Persistence grants the address to one scan at a time.
ReserveWallet(s) ==
    /\ \/ /\ reservation[Address[s]] = NoScan
          /\ reservation' = [reservation EXCEPT ![Address[s]] = s]
          /\ pending' = pending \cup {s}
          /\ \/ Goto(s, "reserve", "quota") /\ UNCHANGED <<rec, resp, history>>
             \/ Fault(s, "reply") /\ Answer(s, "reserve", "done", "503") /\ Hurt(s)
       \/ /\ reservation[Address[s]] # NoScan
          /\ Answer(s, "reserve", "done", "409")
          /\ UNCHANGED <<reservation, pending, history>>
       \/ /\ Fault(s, "call") /\ Answer(s, "reserve", "done", "503")
          /\ UNCHANGED <<reservation, pending, history>>
    /\ UNCHANGED <<ledger, queue, deleteVars, rows, referenced>>

PutTLS(s) ==
    /\ Family[s] = "tls"
    /\ \/ /\ pending' = pending \cup {s}
          /\ \/ Goto(s, "idle", "quota") /\ UNCHANGED <<rec, resp, history>>
             \/ Fault(s, "reply") /\ Answer(s, "idle", "done", "503") /\ Hurt(s)
       \/ /\ Fault(s, "call") /\ Answer(s, "idle", "done", "503")
          /\ UNCHANGED <<pending, history>>
    /\ UNCHANGED <<reservation, ledger, queue, deleteVars, rows, referenced>>

\* Variant: a ledger that cannot be read lets the scan pass.
ReserveScanQuotaFailOpen(s) ==
    /\ \/ /\ UnderLimit(s) /\ Goto(s, "quota", "publish")
          /\ ledger' = ledger \cup {s} /\ UNCHANGED <<rec, resp>>
       \/ ~UnderLimit(s) /\ Answer(s, "quota", "deletePending", "403") /\ UNCHANGED ledger
       \/ Fault(s, "db") /\ Goto(s, "quota", "publish") /\ UNCHANGED <<rec, resp, ledger>>
    /\ UNCHANGED <<pending, reservation, queue, deleteVars, rows, referenced, history>>

\* Variant: a POST that is refused its credit keeps the address.
ReserveScanQuotaKeepsAddress(s) ==
    /\ \/ /\ UnderLimit(s) /\ Goto(s, "quota", "publish")
          /\ ledger' = ledger \cup {s} /\ UNCHANGED <<rec, resp>>
       \/ ~UnderLimit(s) /\ Answer(s, "quota", "done", "403") /\ UNCHANGED ledger
    /\ UNCHANGED <<pending, reservation, queue, deleteVars, rows, referenced, history>>

\* The reservation transaction, in one step: ScanQuotaLedger justifies it.
ReserveScanQuota(s) ==
    /\ \/ /\ UnderLimit(s) /\ Goto(s, "quota", "publish")
          /\ ledger' = ledger \cup {s} /\ UNCHANGED <<rec, resp>>
       \/ ~UnderLimit(s) /\ Answer(s, "quota", "deletePending", "403") /\ UNCHANGED ledger
       \/ Fault(s, "db") /\ Answer(s, "quota", "deletePending", "500") /\ UNCHANGED ledger
    /\ UNCHANGED <<pending, reservation, queue, deleteVars, rows, referenced, history>>

\* Variant: a request that could not be stored is rolled back and answered as accepted.
PublishErrorAccepted(s) ==
    /\ \/ Answer(s, "publish", "done", "200") /\ queue' = queue \cup {s}
       \/ Fault(s, "publish") /\ Answer(s, "publish", "releaseQuota", "200") /\ UNCHANGED queue
    /\ UNCHANGED <<pending, reservation, ledger, deleteVars, rows, referenced, history>>

PublishScanRequested(s) ==
    /\ \/ Answer(s, "publish", "done", "200") /\ queue' = queue \cup {s} /\ UNCHANGED history
       \/ /\ Fault(s, "publish") /\ Answer(s, "publish", "releaseQuota", "500")
          /\ UNCHANGED <<queue, history>>
       \/ /\ Fault(s, "ack") /\ Answer(s, "publish", "releaseQuota", "500")
          /\ queue' = queue \cup {s} /\ Hurt(s)
    /\ UNCHANGED <<pending, reservation, ledger, deleteVars, rows, referenced>>

\* rollbackScanAccept: the credit first; an error is logged.
RollbackQuota(s) ==
    /\ Goto(s, "releaseQuota", "deletePending")
    /\ \/ ledger' = ledger \ {s} /\ UNCHANGED history
       \/ Fault(s, "db") /\ Hurt(s) /\ UNCHANGED ledger
    /\ UNCHANGED <<rec, resp, pending, reservation, queue, deleteVars, rows, referenced>>

\* Variant: the pending record of a refused scan is left behind.
RollbackPendingSkipped(s) ==
    /\ Goto(s, "deletePending", "done")
    /\ UNCHANGED <<rec, resp, stores, deleteVars, rows, referenced, history>>

\* rollbackScanAccept: then the pending record; an error is ignored.
RollbackPending(s) ==
    /\ Goto(s, "deletePending", "done")
    /\ \/ PendingDelete(s) /\ UNCHANGED history
       \/ Fault(s, "call") /\ Hurt(s) /\ UNCHANGED <<pending, reservation>>
    /\ UNCHANGED <<rec, resp, ledger, queue, deleteVars, rows, referenced>>

CrashPost(s) ==
    /\ Fault(s, "crash")
    /\ pc[s] \notin {"idle", "done", "crashed"}
    /\ pc' = [pc EXCEPT ![s] = "crashed"]
    /\ resp' = [resp EXCEPT ![s] = "none"] /\ Hurt(s)
    /\ UNCHANGED <<rec, deleteVars, stores, rows, referenced>>

-----------------------------------------------------------------------------
(* DELETE .../scans/:scan_id, for a scan id that a POST answered.          *)

DGoto(s, from, to) ==
    /\ dpc[s] = from /\ dpc' = [dpc EXCEPT ![s] = to]
    /\ UNCHANGED dresp

DAnswer(s, from, st) ==
    /\ dpc[s] = from /\ dpc' = [dpc EXCEPT ![s] = "done"]
    /\ dresp' = [dresp EXCEPT ![s] = st]

\* The row is looked for first.  A client may repeat a DELETE.
DeleteFindScan(s) ==
    /\ s \in Deletable /\ resp[s] = "200" /\ dpc[s] \in {"idle", "done"}
    /\ \/ VisibleRow(s) /\ DGoto(s, dpc[s], "hasRow") /\ missed' = missed \ {s}
       \/ ~VisibleRow(s) /\ DGoto(s, dpc[s], "findPending") /\ missed' = missed \cup {s}
       \/ Fault(s, "call") /\ DAnswer(s, dpc[s], "503") /\ UNCHANGED missed
    /\ UNCHANGED <<postVars, stores, rows, referenced, hurt, late>>

\* Then the pending record.
DeleteFindPending(s) ==
    /\ \/ s \in pending /\ DGoto(s, "findPending", "pendingOnly")
       \/ s \notin pending /\ DAnswer(s, "findPending", "404")
       \/ Fault(s, "call") /\ DAnswer(s, "findPending", "503")
    /\ UNCHANGED <<postVars, stores, rows, referenced, history>>

\* Variant: an unreachable policy manager counts as no reference.
DeleteCheckPolicyFailOpen(s) ==
    /\ \E p \in {<<"hasRow", "deleteRow">>, <<"pendingOnly", "deletePendingOnly">>} :
          \/ (s \notin referenced \/ Fault(s, "call")) /\ DGoto(s, p[1], p[2])
          \/ s \in referenced /\ DAnswer(s, p[1], "409")
    /\ UNCHANGED <<postVars, stores, rows, referenced, history>>

\* PersistedPoliciesReferenceScan
DeleteCheckPolicy(s) ==
    /\ \E p \in {<<"hasRow", "deleteRow">>, <<"pendingOnly", "deletePendingOnly">>} :
          \/ s \notin referenced /\ DGoto(s, p[1], p[2])
          \/ s \in referenced /\ DAnswer(s, p[1], "409")
          \/ Fault(s, "call") /\ DAnswer(s, p[1], "503")
    /\ UNCHANGED <<postVars, stores, rows, referenced, history>>

\* Variant: the error of a row that is not deleted is ignored.
DeleteRowIgnored(s) ==
    /\ DGoto(s, "deleteRow", "clearPending")
    /\ \/ VisibleRow(s) /\ deleted' = deleted \cup {s}
       \/ Fault(s, "call") /\ UNCHANGED deleted
    /\ UNCHANGED <<postVars, stores, row, rowOrder, referenced, history>>

\* DeleteWalletScan and DeleteTLSScan through doJSON, which sends the DELETE
\* again when the first answer is lost: the second then answers 404.
DeleteRow(s) ==
    /\ dpc[s] = "deleteRow"
    /\ \/ /\ VisibleRow(s) /\ deleted' = deleted \cup {s} /\ UNCHANGED history
          /\ DGoto(s, "deleteRow", "clearPending")
       \/ ~VisibleRow(s) /\ UNCHANGED <<deleted, history>> /\ DAnswer(s, "deleteRow", "404")
       \/ /\ Fault(s, "reply") /\ VisibleRow(s) /\ deleted' = deleted \cup {s} /\ Hurt(s)
          /\ \E st \in {"404", "503"} : DAnswer(s, "deleteRow", st)
       \/ Fault(s, "call") /\ UNCHANGED <<deleted, history>> /\ DAnswer(s, "deleteRow", "503")
    /\ UNCHANGED <<postVars, stores, row, rowOrder, referenced>>

\* Variant: the record stays.
ClearPendingSkipped(s) ==
    /\ DAnswer(s, "clearPending", "204")
    /\ UNCHANGED <<postVars, stores, rows, referenced, history>>

\* clearPendingV1ScanCorrelation: the record, and the wallet reservation.
ClearPending(s) ==
    /\ \/ /\ PendingDelete(s) /\ UNCHANGED history
          /\ \/ DAnswer(s, "clearPending", "204")
             \/ Fault(s, "reply") /\ DAnswer(s, "clearPending", "503")
       \/ /\ Fault(s, "call") /\ DAnswer(s, "clearPending", "503") /\ Hurt(s)
          /\ UNCHANGED <<pending, reservation>>
    /\ UNCHANGED <<postVars, ledger, queue, rows, referenced>>

\* A scan without a row: only its pending record is removed.
DeletePendingOnly(s) ==
    /\ \/ PendingDelete(s) /\ DAnswer(s, "deletePendingOnly", "204")
       \/ Fault(s, "reply") /\ PendingDelete(s) /\ DAnswer(s, "deletePendingOnly", "503")
       \/ /\ Fault(s, "call") /\ DAnswer(s, "deletePendingOnly", "503")
          /\ UNCHANGED <<pending, reservation>>
    /\ UNCHANGED <<postVars, ledger, queue, rows, referenced, history>>

CrashDelete(s) ==
    /\ Fault(s, "crash") /\ dpc[s] \notin {"idle", "done"}
    /\ DAnswer(s, dpc[s], "none") /\ Hurt(s)
    /\ UNCHANGED <<postVars, stores, rows, referenced>>

-----------------------------------------------------------------------------
(* Scanners, cafe-persistence and the policy manager (external).           *)

\* Persistence writes the row of a requested scan.
WriteRow(s, st) ==
    /\ s \in queue
    /\ row[s] \in {NoRow, RUNNING}
    /\ row' = [row EXCEPT ![s] = st]
    /\ rowOrder' = IF row[s] = NoRow THEN Append(rowOrder, s) ELSE rowOrder
    /\ UNCHANGED <<deleted, pending, reservation, postVars, deleteVars, referenced, history>>

ScanStarted(s) ==
    /\ row[s] = NoRow
    /\ WriteRow(s, RUNNING)
    /\ UNCHANGED <<ledger, queue>>

ScanCompleted(s) ==
    /\ WriteRow(s, SUCCESS)
    /\ queue' = queue \ {s}
    /\ UNCHANGED ledger

\* A failed scan gives its credit back.
ScanFailed(s) ==
    /\ WriteRow(s, FAILED)
    /\ queue' = queue \ {s}
    /\ ledger' = ledger \ {s}

\* Persistence may drop the pending record once the scan is settled.
PersistenceDropsPending(s) ==
    /\ s \in pending /\ IsTerminal(row[s])
    /\ PendingDelete(s)
    /\ UNCHANGED <<ledger, queue, postVars, deleteVars, rows, referenced, history>>

PolicyCreated(s) ==
    /\ VisibleRow(s) /\ row[s] = SUCCESS /\ s \notin referenced
    /\ referenced' = referenced \cup {s}
    /\ late' = IF dpc[s] = "deleteRow" THEN late \cup {s} ELSE late
    /\ UNCHANGED <<postVars, deleteVars, stores, rows, hurt, missed>>

PolicyDeleted(s) ==
    /\ s \in referenced
    /\ referenced' = referenced \ {s} /\ late' = late \ {s}
    /\ UNCHANGED <<postVars, deleteVars, stores, rows, hurt, missed>>

-----------------------------------------------------------------------------
PostStep(s) ==
    \/ PrepareRefused(s) \/ GetWalletByOwnerAddress(s) \/ PendingWalletReservationState(s)
    \/ DropStale(s) \/ CheckRows(s) \/ CheckWalletCPMContext(s)
    \/ ReserveWallet(s) \/ PutTLS(s) \/ ReserveScanQuota(s)
    \/ PublishScanRequested(s) \/ RollbackQuota(s) \/ RollbackPending(s) \/ CrashPost(s)

DeleteStep(s) ==
    \/ DeleteFindScan(s) \/ DeleteFindPending(s) \/ DeleteCheckPolicy(s) \/ DeleteRow(s)
    \/ ClearPending(s) \/ DeletePendingOnly(s) \/ CrashDelete(s)

ExternalStep(s) ==
    \/ ScanStarted(s) \/ ScanCompleted(s) \/ ScanFailed(s)
    \/ PersistenceDropsPending(s) \/ PolicyCreated(s) \/ PolicyDeleted(s)

Next == \E s \in Scans : PostStep(s) \/ DeleteStep(s) \/ ExternalStep(s)

Spec == Init /\ [][Next]_vars

-----------------------------------------------------------------------------
(* Properties.                                                             *)

Accepted(s) == pc[s] = "done" /\ resp[s] = "200"

Refused(s) == pc[s] = "done" /\ resp[s] # "200"

\* An accepted scan that GET shows as "requested" or "started" and that its
\* user never asked to delete.
InProgress(s) ==
    Accepted(s) /\ dpc[s] = "idle" /\ GetScan(s) \in {"requested", "started"}

\* checkWalletScanInFlight with ReserveWallet (rule W8): however POSTs for one
\* address race with each other, with the scanner and with DELETE, at most one
\* accepted wallet scan of the address is in progress.
OneInProgressPerAddress ==
    \A s, t \in Scans :
        /\ Family[s] = "wallet" /\ Family[t] = "wallet" /\ Address[s] = Address[t]
        /\ InProgress(s) /\ InProgress(t)
        => s = t

\* rollbackScanAccept: a POST that was refused leaves no credit taken, no
\* request queued, no pending record and no reserved address behind, unless
\* an answer or the roll-back itself was lost.
RefusedLeavesNothing ==
    \A s \in Scans : Refused(s) /\ s \notin hurt =>
        /\ s \notin ledger \cup queue \cup pending
        /\ reservation[Address[s]] # s

\* PostDiscoveryScanV1 then GET: an accepted scan can be read back from then
\* on, whichever of the pending record and the row is there, until its user
\* erases it.
AcceptedIsReadable ==
    \A s \in Scans : Accepted(s) /\ dpc[s] = "idle" => GetScan(s) # "404"

\* ReserveScanQuota before PublishScanRequested: a scan that may still run, or
\* that ran and did not fail, holds its credit.  The exception is a request
\* that the stream stored although its POST was told otherwise.
RunsAreBilled ==
    \A s \in Scans : s \in queue \/ row[s] \in {RUNNING, SUCCESS} =>
        s \in ledger \/ (s \in hurt /\ resp[s] # "200")

\* The scan is on its way, is being removed, or no longer blocks its address.
WillUnblock(s) ==
    \/ s \in queue \/ pc[s] \in HoldsPending \/ dpc[s] = "clearPending"
    \/ VisibleRow(s) /\ ~IsInFlight(s)

\* checkWalletScanInFlight: an address stays reserved for a scan that will
\* never be settled nor removed, so that every later POST is answered 409, only
\* when the POST or the DELETE of that scan was left half done.
BlockedExplained ==
    \A a \in Addresses :
        reservation[a] # NoScan /\ reservation[a] \notin hurt => WillUnblock(reservation[a])

\* DELETE answered 204: neither a pending record nor a reserved address
\* outlives the scan.
DeletedLeavesNoClaim ==
    \A s \in Scans : dpc[s] = "done" /\ dresp[s] = "204" =>
        s \notin pending /\ reservation[Address[s]] # s

\* DELETE answered 204: GET finds the scan again only if the DELETE had
\* looked for the row before persistence wrote it.
DeletedStaysGone ==
    \A s \in Scans : dpc[s] = "done" /\ dresp[s] = "204" /\ GetScan(s) # "404" =>
        s \in missed /\ s \notin deleted

\* PersistedPoliciesReferenceScan: a row that a policy references is deleted
\* only if the policy was persisted after the DELETE had asked.
ReferencedIsKept == referenced \cap deleted \subseteq late
=============================================================================
