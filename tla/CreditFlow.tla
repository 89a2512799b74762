----------------------------- MODULE CreditFlow -----------------------------
(***************************************************************************)
(* The way of a wallet scan's credit through both of its guardians: the    *)
(* abandoner, which stores scan.failed in SCAN_LIFECYCLE for a reservation *)
(* without a request, and the lifecycle consumer, which turns the events   *)
(* of that stream into transitions.  They share the ledger and the rows,   *)
(* and nothing bounds the time between an event and its transition: the    *)
(* abandoner may report a scan whose completion waits in the stream.       *)
(***************************************************************************)
EXTENDS Integers, FiniteSets, ScanStates

CONSTANTS Scans, Events, ScanOf, Subject, Workers, MaxAckPending,
          Grace, PublishDelay, ListDelay, PassEvery, MaxRestarts,
          AbandonFaults, LifecycleFaults, None, NoEvent

VARIABLES stage, age, ledger, row, deleted, pending,
          missing, sent, pass, queued, listAge, due,
          reports, falseReports, spoiled, lost, restarts,
          msg, deliveries, current, attempt, applied, ready

scanVars      == <<stage, age, deleted, pending>>
abandonerVars == <<missing, sent, pass, queued, listAge, due,
                   reports, falseReports, spoiled, lost, restarts>>
consumerVars  == <<msg, deliveries, current, attempt, applied, ready>>
vars == <<scanVars, abandonerVars, consumerVars, ledger, row>>

\* An event that is not in the stream yet.
Unpublished(e) == msg[e] = "none"

\* The scans with a scan.failed in the stream.
FailedInStream == {s \in Scans : \E e \in Events :
    ScanOf[e] = s /\ Subject[e] = "failed" /\ ~Unpublished(e)}

Abandoner == INSTANCE ScanRequestAbandoner WITH
    Kind <- [s \in Scans |-> "wallet"], ReportDelay <- 0, Deletable <- {},
    Faults <- AbandonFaults, failedEvents <- FailedInStream

Consumer == INSTANCE WalletLifecycle WITH
    credit <- ledger, Faults <- LifecycleFaults, Unready <- {}

\* The constants are as the two components assume them.
ASSUME ComponentsFit ==
    /\ Abandoner!DelaysAreTicks /\ Abandoner!FaultsKnown /\ Abandoner!NoneIsNoAge
    /\ Consumer!EventsFinite /\ Consumer!EventsTyped
    /\ Consumer!BoundsTyped /\ Consumer!FaultsKnown

\* Persistence knows an accepted wallet scan as PENDING.
Init ==
    /\ stage = [s \in Scans |-> "idle"] /\ age = [s \in Scans |-> 0]
    /\ ledger = {} /\ row = [s \in Scans |-> PENDING] /\ deleted = {} /\ pending = {}
    /\ missing = [s \in Scans |-> None] /\ sent = {}
    /\ pass = "idle" /\ queued = {} /\ listAge = PassEvery /\ due = {}
    /\ reports = [s \in Scans |-> 0] /\ falseReports = {} /\ spoiled = {} /\ lost = {}
    /\ restarts = 0
    /\ msg = [e \in Events |-> "none"] /\ deliveries = [e \in Events |-> 0]
    /\ current = [w \in Workers |-> NoEvent] /\ attempt = [w \in Workers |-> 0]
    /\ applied = {} /\ ready = {}

-----------------------------------------------------------------------------
\* The stream stores the next event of a scan and a subject.
Store(s, subject) ==
    /\ \E e \in Events :
          /\ ScanOf[e] = s /\ Subject[e] = subject /\ Unpublished(e)
          /\ \A f \in Events : ScanOf[f] = s /\ Subject[f] = subject /\ Unpublished(f) => e <= f
          /\ msg' = [msg EXCEPT ![e] = "ready"]
    /\ UNCHANGED <<deliveries, current, attempt, applied, ready>>

\* publishAbandonedScan stores the event before MarkSent.
Report(s) == Store(s, "failed") /\ Abandoner!PublishAbandonedScan(s)

\* The steps of a pass that store nothing, restarts and time.  Listings do not
\* fail here: a pass without a listing changes nothing of what is shared.
AbandonerStep ==
    /\ UNCHANGED consumerVars
    /\ \/ Abandoner!ListStream \/ Abandoner!ListOpenAndDecide
       \/ Abandoner!Restart \/ Abandoner!Tick
       \/ \E s \in Scans : \/ Abandoner!MessageNotFound(s) \/ Abandoner!AddressMissing(s)
                           \/ Abandoner!PublishFails(s)

\* POST until its request is in SCAN_REQUESTED, or is lost.
RequestStep(s) ==
    /\ UNCHANGED consumerVars
    /\ \/ Abandoner!PostReserves(s) \/ Abandoner!PostPublishes(s)
       \/ Abandoner!PostRollsBack(s) \/ Abandoner!PostCrashes(s)
       \/ Abandoner!RequestLost(s)

\* The scanner stores its outcome and acks the request.
ScannerStep(s) ==
    /\ Store(s, "completed") \/ Store(s, "failed")
    /\ Abandoner!Move(s, "queued", "closed")
    /\ UNCHANGED <<deleted, pending, abandonerVars, ledger, row>>

Alone == UNCHANGED <<scanVars, abandonerVars>>

ConsumerStep == Consumer!Next /\ Alone

Next ==
    \/ AbandonerStep \/ ConsumerStep
    \/ \E s \in Scans : Report(s) \/ RequestStep(s) \/ ScannerStep(s)

Spec == Init /\ [][Next]_vars

\* Time, passes, POST and the scanner go on, JetStream delivers and redelivers,
\* and what is repeated for ever, a report or a post, succeeds at last.
Fairness ==
    /\ WF_vars(AbandonerStep /\ restarts' = restarts)
    /\ \A s \in Scans :
          /\ SF_vars(Report(s))
          /\ WF_vars(RequestStep(s) /\ stage[s] = "reserved") /\ WF_vars(ScannerStep(s))
    /\ WF_vars((\E w \in Workers, e \in Events : Consumer!Deliver(w, e)) /\ Alone)
    /\ WF_vars((\E e \in Events : Consumer!AckWaitExpires(e)) /\ Alone)
    /\ \A w \in Workers :
          /\ WF_vars(Consumer!Settle(w) /\ Alone)
          /\ SF_vars(Consumer!Post(w) /\ Alone
                       /\ \E e \in Events : current[w] = e /\ Consumer!Settled(e)')

FairSpec == Spec /\ Fairness

-----------------------------------------------------------------------------
(* Properties.                                                             *)

RolledBack(s) == stage[s] = "closed" /\ s \notin pending

\* Ledger and rows agree although two parts release credits on different
\* knowledge: an accepted scan holds its credit exactly until its row is
\* FAILED, also when the abandoner reports a scan that the scanner completed.
CreditFollowsOutcome ==
    \A s \in Scans : stage[s] # "idle" /\ ~RolledBack(s) => (s \in ledger <=> row[s] # FAILED)

\* Every reservation is closed at last, by the scanner's event, by the
\* abandoner's or by the rollback of POST, unless persistence rejects the
\* abandoner's report: a lost request, a crash or a rejected completion leaves
\* no scan pending with its credit held.
EveryScanSettles ==
    \A s \in Scans : s \in ledger ~>
        \/ IsTerminal(row[s]) \/ s \notin ledger
        \/ \E e \in Events : ScanOf[e] = s /\ Subject[e] = "failed" /\ msg[e] = "terminated"

\* Due forgets what is settled: once a scan has its outcome, the abandoner
\* does not keep it in missingSince and sent.
SettledIsForgotten ==
    \A s \in Scans : IsTerminal(row[s]) ~> s \notin Abandoner!Watched \cup sent
=============================================================================
