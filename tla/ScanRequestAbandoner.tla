------------------------ MODULE ScanRequestAbandoner ------------------------
(***************************************************************************)
(* The abandoner: every 15s it lists the request stream, then the open     *)
(* reservations, and publishes scan.failed for a reservation that has been *)
(* missing from the stream for Grace, so that its credit comes back.       *)
(*                                                                         *)
(* Time passes in ticks.  The abandoner compares now.Sub(first) with Grace *)
(* only, so the model keeps ages, capped where they no longer matter,      *)
(* instead of clock values.  The POST handler, the scanners and            *)
(* cafe-persistence are reduced to what they do to the stream, the ledger  *)
(* and the rows, each within a bounded delay.                              *)
(***************************************************************************)
EXTENDS Integers, FiniteSets, ScanStates

CONSTANTS Scans,
          Kind,         \* "wallet" or "endpoint" for each scan
          Grace,        \* scanRequestMissingGrace, in ticks
          PublishDelay, \* longest time from the ledger row to the stored request
          ReportDelay,  \* longest time from the scanner's ack to the written row
          ListDelay,    \* longest time from the stream listing to Due
          PassEvery,    \* scanRequestAbandonEvery, in ticks
          MaxRestarts,  \* process restarts of a behaviour
          Faults,       \* subset of FaultKinds
          Deletable,    \* scans whose row their user may DELETE
          None          \* no age

\* list: a listing fails; address: a pending lookup fails; publish:
\* scan.failed is not stored and the publisher knows; core: a core NATS
\* publication is lost and the publisher does not know; crash: a POST dies
\* before it publishes; request: a request leaves the stream without a result.
FaultKinds == {"list", "address", "publish", "core", "crash", "request"}

ASSUME DelaysAreTicks ==
    /\ Grace \in Nat \ {0}
    /\ PublishDelay \in Nat /\ ReportDelay \in Nat /\ ListDelay \in Nat
    /\ PassEvery \in Nat
    /\ MaxRestarts \in Nat
ASSUME FaultsKnown == Faults \subseteq FaultKinds
ASSUME NoneIsNoAge == None \notin Nat

VARIABLES stage,      \* where each scan request is
          age,        \* ticks since the request entered its stage
          ledger, row, deleted,
          pending,    \* scans with a pending record, which holds the address
          missing,    \* age of missingSince of each scan, or None
          sent,       \* scans reported by this process
          pass,       \* "idle", "listed" or "due"
          queued,     \* ids of the stream listing
          listAge,    \* ticks since the pass started
          due,        \* what Due returned and is not published yet
          failedEvents, \* scan.failed events persistence has not applied
          reports,    \* history: events published for each scan by this process
          falseReports, \* history: scans reported although they were still served
          spoiled,    \* history: scans deleted, or watched while a listing failed
          lost,       \* history: scans whose report core NATS lost
          restarts

world  == <<stage, age, ledger, row, deleted, pending>>
memory == <<missing, sent>>
passes == <<pass, queued, listAge, due>>
history == <<reports, falseReports, spoiled, lost>>
vars == <<world, memory, passes, history, failedEvents, restarts>>

Stages == {"idle", "reserved", "queued", "reported", "orphan", "closed"}

Fault(f) == f \in Faults

MaxOf(a, b) == IF a > b THEN a ELSE b

AgeCap == MaxOf(PublishDelay, ReportDelay)

\* SCAN_REQUESTED: a request is in it from its publication to the scanner's ack.
Queue == {s \in Scans : stage[s] = "queued"}

\* ListOpenScanReservations: a soft-deleted result does not count.
OpenReservations == {s \in ledger : ~(IsTerminal(row[s]) /\ s \notin deleted)}

Init ==
    /\ stage = [s \in Scans |-> "idle"] /\ age = [s \in Scans |-> 0]
    /\ ledger = {} /\ row = [s \in Scans |-> NoRow] /\ deleted = {} /\ pending = {}
    /\ missing = [s \in Scans |-> None] /\ sent = {}
    /\ pass = "idle" /\ queued = {} /\ listAge = PassEvery /\ due = {}
    /\ failedEvents = {} /\ restarts = 0
    /\ reports = [s \in Scans |-> 0] /\ falseReports = {} /\ spoiled = {} /\ lost = {}

-----------------------------------------------------------------------------
(* One pass of publishMissing.                                             *)

\* ListStreamPayloads comes first.  Its stream.Info fixes which sequence
\* numbers it will ask for: a request stored later is not in the listing.
ListStream ==
    /\ pass = "idle" /\ listAge >= PassEvery
    /\ pass' = "listed" /\ queued' = Queue /\ listAge' = 0
    /\ UNCHANGED <<world, memory, due, history, failedEvents, restarts>>

\* GetMsg of a request that was acked meanwhile is ErrMsgNotFound.
MessageNotFound(s) ==
    /\ pass = "listed" /\ s \in queued \ Queue
    /\ queued' = queued \ {s}
    /\ UNCHANGED <<world, memory, pass, listAge, due, history, failedEvents, restarts>>

Watched == {s \in Scans : missing[s] # None}

\* Variant: the second pass that misses a request does not wait for Grace.
DueNow(open) == {s \in open \ (sent \cup queued) : s \in Watched}

\* The reservations that Due returns.
DueSet(open) == {s \in open \ (sent \cup queued) : s \in Watched /\ missing[s] >= Grace}

\* Variant: ids that are no longer open are forgotten, reported ones excepted.
ForgetUnsent(open) ==
    /\ missing' = [s \in Scans |->
          IF s \notin open THEN None
          ELSE IF s \in sent THEN missing[s]
          ELSE IF s \in queued THEN None
          ELSE IF missing[s] = None THEN 0 ELSE missing[s]]
    /\ UNCHANGED sent

\* What Due does to missingSince and sent: its loop over the open
\* reservations, then its loop over the ids it watches.
Track(open) ==
    /\ missing' = [s \in Scans |->
          IF s \notin open THEN None
          ELSE IF s \in sent THEN missing[s]
          ELSE IF s \in queued THEN None
          ELSE IF missing[s] = None THEN 0 ELSE missing[s]]
    /\ sent' = sent \ (Watched \ open)

\* ListOpenScanReservations and Due.
ListOpenAndDecide ==
    /\ pass = "listed"
    /\ Track(OpenReservations)
    /\ due' = DueSet(OpenReservations)
    /\ pass' = IF DueSet(OpenReservations) = {} THEN "idle" ELSE "due"
    /\ queued' = {}
    /\ UNCHANGED <<world, listAge, history, failedEvents, restarts>>

\* A listing fails: the pass ends.
ListingFails ==
    /\ Fault("list")
    /\ \/ pass = "idle" /\ listAge >= PassEvery /\ listAge' = 0
       \/ pass = "listed" /\ UNCHANGED listAge
    /\ pass' = "idle" /\ queued' = {}
    /\ spoiled' = spoiled \cup Watched
    /\ UNCHANGED <<world, memory, due, reports, falseReports, lost, failedEvents, restarts>>

Consumed(s) ==
    /\ due' = due \ {s}
    /\ pass' = IF due = {s} THEN "idle" ELSE "due"

\* The request has a result, is waiting for one, or is still to be published.
StillServed(s) == stage[s] \in {"reserved", "queued", "reported"} \/ row[s] = SUCCESS

CountReport(s) ==
    /\ reports' = [reports EXCEPT ![s] = IF @ < 2 THEN @ + 1 ELSE @]
    /\ falseReports' = IF StillServed(s) THEN falseReports \cup {s} ELSE falseReports
    /\ UNCHANGED spoiled

\* A wallet event needs the address of the pending record.
HasAddress(s) == Kind[s] = "wallet" => s \in pending

\* Variant: the scan is not marked.
PublishUnmarked(s) ==
    /\ s \in due /\ HasAddress(s)
    /\ failedEvents' = failedEvents \cup {s}
    /\ Consumed(s) /\ CountReport(s)
    /\ UNCHANGED <<world, memory, queued, listAge, lost, restarts>>

\* publishAbandonedScan succeeds and MarkSent follows.
PublishAbandonedScan(s) ==
    /\ s \in due /\ HasAddress(s)
    /\ failedEvents' = failedEvents \cup {s}
    /\ sent' = sent \cup {s}
    /\ Consumed(s) /\ CountReport(s)
    /\ UNCHANGED <<world, missing, queued, listAge, lost, restarts>>

\* Core NATS is at most once: a TLS event can be lost after Publish returned nil.
CorePublishLost(s) ==
    /\ Fault("core") /\ s \in due /\ Kind[s] = "endpoint"
    /\ sent' = sent \cup {s} /\ lost' = lost \cup {s}
    /\ Consumed(s) /\ CountReport(s)
    /\ UNCHANGED <<world, missing, queued, listAge, failedEvents, restarts>>

\* Variant: the scan is marked although nothing was published.
AddressMissingMarked(s) ==
    /\ s \in due /\ Kind[s] = "wallet"
    /\ s \notin pending \/ Fault("address")
    /\ sent' = sent \cup {s}
    /\ Consumed(s)
    /\ UNCHANGED <<world, missing, queued, listAge, history, failedEvents, restarts>>

\* The address of a wallet scan cannot be read: the pass goes on without it.
AddressMissing(s) ==
    /\ s \in due /\ Kind[s] = "wallet"
    /\ s \notin pending \/ Fault("address")
    /\ Consumed(s)
    /\ UNCHANGED <<world, memory, queued, listAge, history, failedEvents, restarts>>

\* A publication fails: the rest of the pass is given up.
PublishFails(s) ==
    /\ Fault("publish") /\ s \in due /\ HasAddress(s)
    /\ due' = {} /\ pass' = "idle"
    /\ UNCHANGED <<world, memory, queued, listAge, history, failedEvents, restarts>>

\* The process restarts: missingSince and sent start empty.
Restart ==
    /\ restarts < MaxRestarts
    /\ restarts' = restarts + 1
    /\ missing' = [s \in Scans |-> None] /\ sent' = {}
    /\ pass' = "idle" /\ queued' = {} /\ listAge' = PassEvery /\ due' = {}
    /\ reports' = [s \in Scans |-> 0]
    /\ UNCHANGED <<world, falseReports, spoiled, lost, failedEvents>>

-----------------------------------------------------------------------------
(* POST, scanner and persistence, as far as the abandoner sees them.       *)

Move(s, from, to) ==
    /\ stage[s] = from /\ stage' = [stage EXCEPT ![s] = to]
    /\ age' = [age EXCEPT ![s] = 0]

Outside == UNCHANGED <<memory, passes, history, restarts>>

\* The pending record, then the ledger row.
PostReserves(s) ==
    /\ Move(s, "idle", "reserved")
    /\ ledger' = ledger \cup {s} /\ pending' = pending \cup {s}
    /\ Outside /\ UNCHANGED <<row, deleted, failedEvents>>

PostPublishes(s) ==
    /\ Move(s, "reserved", "queued")
    /\ Outside /\ UNCHANGED <<ledger, row, deleted, pending, failedEvents>>

\* The publication fails: rollbackScanAccept.
PostRollsBack(s) ==
    /\ Fault("publish") /\ Move(s, "reserved", "closed")
    /\ ledger' = ledger \ {s} /\ pending' = pending \ {s}
    /\ Outside /\ UNCHANGED <<row, deleted, failedEvents>>

PostCrashes(s) ==
    /\ Fault("crash") /\ Move(s, "reserved", "orphan")
    /\ Outside /\ UNCHANGED <<ledger, row, deleted, pending, failedEvents>>

RequestLost(s) ==
    /\ Fault("request") /\ Move(s, "queued", "orphan")
    /\ Outside /\ UNCHANGED <<ledger, row, deleted, pending, failedEvents>>

\* The scanner publishes scan.completed and acks the request.
ScannerReports(s) ==
    /\ Move(s, "queued", "reported")
    /\ Outside /\ UNCHANGED <<ledger, row, deleted, pending, failedEvents>>

\* Persistence applies scan.completed; the first terminal state stays.
ApplyCompleted(s) ==
    /\ Move(s, "reported", "closed")
    /\ row' = IF IsTerminal(row[s]) THEN row ELSE [row EXCEPT ![s] = SUCCESS]
    /\ Outside /\ UNCHANGED <<ledger, deleted, pending, failedEvents>>

\* Persistence applies scan.failed and releases the credit.
ApplyFailed(s) ==
    /\ s \in failedEvents /\ failedEvents' = failedEvents \ {s}
    /\ row' = IF IsTerminal(row[s]) THEN row ELSE [row EXCEPT ![s] = FAILED]
    /\ ledger' = IF IsTerminal(row[s]) THEN ledger ELSE ledger \ {s}
    /\ Outside /\ UNCHANGED <<stage, age, deleted, pending>>

\* DELETE of a settled scan: the row is hidden, the pending record removed.
DeleteScan(s) ==
    /\ s \in Deletable /\ IsTerminal(row[s]) /\ s \notin deleted
    /\ deleted' = deleted \cup {s} /\ pending' = pending \ {s}
    /\ spoiled' = spoiled \cup {s}
    /\ UNCHANGED <<memory, passes, reports, falseReports, lost, restarts>>
    /\ UNCHANGED <<stage, age, ledger, row, failedEvents>>

\* A tick, unless something is due now.
Tick ==
    /\ \A s \in Scans : /\ stage[s] = "reserved" => age[s] < PublishDelay
                        /\ stage[s] = "reported" => age[s] < ReportDelay
    /\ pass = "listed" => listAge < ListDelay
    /\ pass = "idle" => listAge < PassEvery
    /\ pass # "due"
    /\ age' = [s \in Scans |-> IF age[s] < AgeCap THEN age[s] + 1 ELSE age[s]]
    /\ missing' = [s \in Scans |->
          IF missing[s] = None \/ missing[s] >= Grace THEN missing[s] ELSE missing[s] + 1]
    /\ listAge' = listAge + 1
    /\ UNCHANGED <<stage, ledger, row, deleted, pending, sent, pass, queued, due,
                   history, failedEvents, restarts>>

-----------------------------------------------------------------------------
PassStep(s) ==
    \/ MessageNotFound(s)
    \/ PublishAbandonedScan(s) \/ CorePublishLost(s) \/ AddressMissing(s) \/ PublishFails(s)

WorldStep(s) ==
    \/ PostReserves(s) \/ PostPublishes(s) \/ PostRollsBack(s) \/ PostCrashes(s)
    \/ RequestLost(s) \/ ScannerReports(s) \/ ApplyCompleted(s) \/ ApplyFailed(s) \/ DeleteScan(s)

Next ==
    \/ ListStream \/ ListOpenAndDecide \/ ListingFails \/ Restart \/ Tick
    \/ \E s \in Scans : PassStep(s) \/ WorldStep(s)

Spec == Init /\ [][Next]_vars

\* The ticker keeps passes and time going, an attempt that fails again and
\* again succeeds at last, a POST ends (its publication has a timeout), and
\* persistence applies the events it is given.
Fairness ==
    /\ WF_vars(Tick)
    /\ SF_vars(ListStream) /\ SF_vars(ListOpenAndDecide)
    /\ \A s \in Scans :
          /\ SF_vars(PublishAbandonedScan(s)) /\ WF_vars(AddressMissing(s))
          /\ WF_vars(PostPublishes(s))
          /\ WF_vars(ApplyFailed(s)) /\ WF_vars(ApplyCompleted(s))

FairSpec == Spec /\ Fairness

-----------------------------------------------------------------------------
(* Properties.                                                             *)

Ages == Nat \cup {None}

TypeOK ==
    /\ stage \in [Scans -> Stages] /\ age \in [Scans -> Nat]
    /\ ledger \subseteq Scans /\ row \in [Scans -> RowStates]
    /\ deleted \subseteq Scans /\ pending \subseteq Scans
    /\ missing \in [Scans -> Ages] /\ sent \subseteq Scans
    /\ pass \in {"idle", "listed", "due"} /\ queued \subseteq Scans
    /\ listAge \in Nat /\ due \subseteq Scans
    /\ failedEvents \subseteq Scans
    /\ reports \in [Scans -> 0 .. 2] /\ falseReports \subseteq Scans
    /\ spoiled \subseteq Scans /\ lost \subseteq Scans
    /\ restarts \in 0 .. MaxRestarts

\* Grace: as long as the delays of POST, the listing and the persistence write
\* stay below Grace, a scan whose request is on its way to the stream, in the
\* stream or answered by the scanner is declared failed only if it was watched
\* through a listing that failed, or if its result was deleted.
NoFalseReport == falseReports \subseteq spoiled

\* MarkSent: between two restarts a scan is reported at most once, with the
\* same exceptions.
ReportedOnce == \A s \in Scans \ spoiled : reports[s] <= 1

\* A credit whose request left the stream without a result, or never reached
\* it, comes back: the abandoner reports it and persistence releases it, unless
\* core NATS loses the report of a TLS scan.
CreditReturned ==
    \A s \in Scans : stage[s] = "orphan" /\ s \in ledger ~> s \notin ledger \ lost
=============================================================================
