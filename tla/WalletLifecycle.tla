--------------------------- MODULE WalletLifecycle ---------------------------
(***************************************************************************)
(* The consumer discovery-wallet-lifecycle: JetStream delivers scan.started,*)
(* scan.completed and scan.failed at least once and in any order of        *)
(* redelivery; the settler turns each event into a transition command,     *)
(* posts it to cafe-persistence at most twice and acks, naks or terminates *)
(* the delivery.  Persistence and JetStream are modelled from how the      *)
(* settler and the consumer configuration use them.                        *)
(***************************************************************************)
EXTENDS Integers, FiniteSets, ScanStates

CONSTANTS Scans,
          Events,      \* stream sequence numbers; the transition ids
          ScanOf,      \* the scan an event is about
          Subject,     \* "started", "completed", "failed", "tls" or "invalid"
          Workers,     \* replicas bound to the durable consumer
          MaxAckPending,
          Faults,      \* subset of FaultKinds
          Unready,     \* scans whose projection never becomes ready
          NoEvent

\* metadata: a delivery has no metadata; call: a post is not executed;
\* reply: it is executed but its answer is lost; retry: persistence answers
\* retryable_error; reject: persistence rejects a command; ack: an ack, nak
\* or term is lost.
FaultKinds == {"metadata", "call", "reply", "retry", "reject", "ack"}

ASSUME EventsFinite == IsFiniteSet(Events) /\ NoEvent \notin Events
ASSUME EventsTyped ==
    /\ ScanOf \in [Events -> Scans]
    /\ Subject \in [Events -> {"started", "completed", "failed", "tls", "invalid"}]
ASSUME BoundsTyped == MaxAckPending \in Nat \ {0}
ASSUME FaultsKnown == Faults \subseteq FaultKinds

VARIABLES msg,        \* JetStream's view of each event
          deliveries, \* deliveries of each event, counted up to DeliveryCap
          current,    \* the event each worker is settling, or NoEvent
          attempt,    \* posts already made for it
          row,        \* wallet row of each scan at persistence
          credit,     \* scans whose ledger row is kept
          applied,    \* transition ids persistence has applied
          ready       \* scans whose projection is ready

consumer == <<msg, deliveries>>
settler  == <<current, attempt>>
store    == <<row, credit, applied, ready>>
vars == <<consumer, settler, store>>

MsgStates == {"ready", "outstanding", "acked", "terminated"}

Fault(f) == f \in Faults

walletLifecycleAttempts == 2

\* Bound of the delivery counters: only a first delivery is told from a later one.
DeliveryCap == 1

\* -1: a message is delivered until it is settled.
walletLifecycleMaxDeliver == -1

\* Every event is in the stream: one that is not published yet cannot be told
\* from one that is not delivered yet.
Init ==
    /\ msg = [e \in Events |-> "ready"] /\ deliveries = [e \in Events |-> 0]
    /\ current = [w \in Workers |-> NoEvent] /\ attempt = [w \in Workers |-> 0]
    /\ row = [s \in Scans |-> PENDING] /\ credit = Scans
    /\ applied = {} /\ ready = {}

-----------------------------------------------------------------------------
(* WalletTransitionCommand.                                                *)

IsCommand(e) == Subject[e] \in {"started", "completed", "failed"}

\* The wallet events that can be settled: their projections get built.
SettleableEvents ==
    {e \in Events : IsCommand(e) /\ ScanOf[e] \notin Unready}

\* Variant: a failure also replaces a success.
SourceStatesAny(e) ==
    IF Subject[e] = "started" THEN {PENDING} ELSE {PENDING, RUNNING, SUCCESS}

SourceStates(e) == IF Subject[e] = "started" THEN {PENDING} ELSE {PENDING, RUNNING}

TargetState(e) ==
    CASE Subject[e] = "started"   -> RUNNING
      [] Subject[e] = "completed" -> SUCCESS
      [] OTHER                    -> FAILED

\* Variant: a failure keeps its credit.
QuotaActionKeep(e) == IF Subject[e] = "started" THEN "none" ELSE "keep"

QuotaAction(e) ==
    CASE Subject[e] = "started"   -> "none"
      [] Subject[e] = "completed" -> "keep"
      [] OTHER                    -> "release"

-----------------------------------------------------------------------------
(* cafe-persistence, external.                                             *)

\* ApplyWalletTransition: idempotent in the transition id, and a command
\* whose source states do not hold the row's status changes nothing.  The
\* answer says whether the projection of the scan is ready.
Outcome(e) ==
    LET s == ScanOf[e] IN
    IF e \in applied                   THEN "already_applied"
    ELSE IF row[s] \in SourceStates(e) THEN "applied"
    ELSE IF IsTerminal(row[s])         THEN "already_terminal"
    ELSE "already_running"

ApplyWalletTransition(e) ==
    LET s == ScanOf[e] IN
    IF Outcome(e) = "applied"
    THEN /\ row' = [row EXCEPT ![s] = TargetState(e)]
         /\ credit' = IF QuotaAction(e) = "release" THEN credit \ {s} ELSE credit
         /\ applied' = applied \cup {e}
         /\ \/ UNCHANGED ready
            \/ IsTerminal(row'[s]) /\ s \notin Unready /\ ready' = ready \cup {s}
    ELSE UNCHANGED store

\* The projection of a settled scan is built after its row when it was not
\* built with it.
ProjectionBuilt(s) ==
    /\ s \notin ready \cup Unready /\ IsTerminal(row[s])
    /\ ready' = ready \cup {s}
    /\ UNCHANGED <<consumer, settler, row, credit, applied>>

-----------------------------------------------------------------------------
(* SCAN_LIFECYCLE and its durable consumer, external.                      *)

AckPending == {e \in Events : msg[e] = "outstanding"}

\* Variant: a message is delivered once.
CanDeliverOnce(e) == deliveries[e] < 1

CanDeliver(e) == walletLifecycleMaxDeliver < 0 \/ deliveries[e] < walletLifecycleMaxDeliver

\* A free worker receives a message; its handler runs one delivery at a time.
Deliver(w, e) ==
    /\ current[w] = NoEvent /\ msg[e] = "ready" /\ CanDeliver(e)
    /\ Cardinality(AckPending) < MaxAckPending
    /\ msg' = [msg EXCEPT ![e] = "outstanding"]
    /\ deliveries' = [deliveries EXCEPT ![e] = IF @ < DeliveryCap THEN @ + 1 ELSE @]
    /\ current' = [current EXCEPT ![w] = e] /\ attempt' = [attempt EXCEPT ![w] = 0]
    /\ UNCHANGED store

\* AckWait runs out, also under a worker that is still settling the event.
AckWaitExpires(e) ==
    /\ msg[e] = "outstanding" /\ msg' = [msg EXCEPT ![e] = "ready"]
    /\ UNCHANGED <<deliveries, settler, store>>

-----------------------------------------------------------------------------
(* settle.                                                                 *)

Done(w) ==
    /\ current' = [current EXCEPT ![w] = NoEvent]
    /\ attempt' = [attempt EXCEPT ![w] = 0]
    /\ UNCHANGED deliveries

Settled(e) == msg[e] \in {"acked", "terminated"}

\* msg.Ack, Term and NakWithDelay; finish only logs an error.  An ack of an
\* expired delivery settles the message too; a nak of one changes nothing.
Finish(w, state) ==
    LET e == current[w] IN
    /\ \/ msg' = IF Settled(e) \/ (state = "ready" /\ msg[e] # "outstanding")
                 THEN msg ELSE [msg EXCEPT ![e] = state]
       \/ Fault("ack") /\ UNCHANGED msg
    /\ Done(w)

Ack(w) == Finish(w, "acked")
Term(w) == Finish(w, "terminated")
NakWithDelay(w) == Finish(w, "ready")

\* No metadata: the delivery is refused.
SettleNoMetadata(w) ==
    /\ Fault("metadata") /\ current[w] # NoEvent /\ attempt[w] = 0
    /\ NakWithDelay(w)
    /\ UNCHANGED store

\* ErrNotWalletEvent is acked, every other decoding error terminated.
SettleNoCommand(w) ==
    /\ current[w] # NoEvent /\ ~IsCommand(current[w])
    /\ IF Subject[current[w]] = "tls" THEN Ack(w) ELSE Term(w)
    /\ UNCHANGED store

\* Variant: the projection is not awaited.
SettleAppliedUnprojected(w) == Ack(w)

\* applied or already_applied: a settled scan needs its projection.
SettleApplied(w) ==
    IF ~IsTerminal(TargetState(current[w])) \/ ScanOf[current[w]] \in ready'
    THEN Ack(w)
    ELSE NakWithDelay(w)

\* A post that persistence executes and answers.
Post(w) ==
    LET e == current[w] IN
    /\ e # NoEvent /\ IsCommand(e) /\ attempt[w] < walletLifecycleAttempts
    /\ ApplyWalletTransition(e)
    /\ IF Outcome(e) \in {"applied", "already_applied"} THEN SettleApplied(w) ELSE Ack(w)

\* Persistence rejects the command.
PostRejected(w) ==
    /\ Fault("reject") /\ current[w] # NoEvent /\ IsCommand(current[w])
    /\ attempt[w] < walletLifecycleAttempts
    /\ Term(w)
    /\ UNCHANGED store

\* The attempt failed: try again after walletLifecycleGap, or nak.
NextAttempt(w) ==
    IF attempt[w] + 1 < walletLifecycleAttempts
    THEN /\ attempt' = [attempt EXCEPT ![w] = @ + 1]
         /\ UNCHANGED <<msg, deliveries, current>>
    ELSE NakWithDelay(w)

\* A transport error, with or without effect, or retryable_error.
PostFails(w) ==
    /\ current[w] # NoEvent /\ IsCommand(current[w])
    /\ \/ Fault("call") /\ UNCHANGED store
       \/ Fault("retry") /\ UNCHANGED store
       \/ Fault("reply") /\ ApplyWalletTransition(current[w])
    /\ NextAttempt(w)

\* A crash, or a shutdown while the settler waits: nothing is acked.
Interrupted(w) ==
    /\ current[w] # NoEvent
    /\ current' = [current EXCEPT ![w] = NoEvent] /\ attempt' = [attempt EXCEPT ![w] = 0]
    /\ UNCHANGED <<consumer, store>>

-----------------------------------------------------------------------------
Settle(w) ==
    SettleNoMetadata(w) \/ SettleNoCommand(w) \/ Post(w) \/ PostRejected(w) \/ PostFails(w)

Next ==
    \/ \E e \in Events : AckWaitExpires(e)
    \/ \E w \in Workers, e \in Events : Deliver(w, e)
    \/ \E w \in Workers : Settle(w) \/ Interrupted(w)
    \/ \E s \in Scans : ProjectionBuilt(s)

Spec == Init /\ [][Next]_vars

\* JetStream redelivers what is not settled, every post has a timeout, and an
\* attempt that is repeated for ever is answered at last.
Fairness ==
    /\ \A e \in SettleableEvents : SF_vars(\E w \in Workers : Deliver(w, e))
    /\ \A e \in Events : WF_vars(AckWaitExpires(e))
    /\ \A w \in Workers :
          /\ WF_vars(Settle(w))
          /\ \A e \in SettleableEvents : SF_vars(current[w] = e /\ Post(w) /\ Settled(e)')
    /\ \A s \in Scans : WF_vars(ProjectionBuilt(s))

FairSpec == Spec /\ Fairness

-----------------------------------------------------------------------------
(* Properties.                                                             *)

TypeOK ==
    /\ msg \in [Events -> MsgStates] /\ deliveries \in [Events -> 0 .. DeliveryCap]
    /\ current \in [Workers -> Events \cup {NoEvent}]
    /\ attempt \in [Workers -> 0 .. walletLifecycleAttempts - 1]
    /\ row \in [Scans -> {PENDING, RUNNING, SUCCESS, FAILED}]
    /\ credit \subseteq Scans /\ applied \subseteq Events /\ ready \subseteq Scans

\* The credit of a scan is returned exactly when the scan failed, whatever
\* the order, the duplicates and the retries of its events (quota_action).
CreditMatchesOutcome == \A s \in Scans : s \in credit <=> row[s] # FAILED

\* An event that the settler acked as applied is visible: its scan is past
\* PENDING, and settled with its projection when the event was terminal and
\* decided the row.
AckedIsVisible ==
    \A e \in Events : msg[e] = "acked" /\ IsCommand(e) =>
        /\ row[ScanOf[e]] # PENDING
        /\ Subject[e] # "started" => IsTerminal(row[ScanOf[e]])
        /\ e \in applied /\ Subject[e] # "started" => ScanOf[e] \in ready

\* source_states: a settled scan never changes its outcome, although started,
\* completed and failed may be delivered in any order.
OutcomeIsFinal ==
    [][\A s \in Scans : IsTerminal(row[s]) => row'[s] = row[s]]_vars

\* MaxDeliver -1 and the nak of every failed delivery: a wallet event is settled
\* at last, and a scan whose projection is never built holds up only its own.
EveryEventSettled ==
    \A e \in SettleableEvents : msg[e] = "ready" ~> Settled(e)
=============================================================================
