-------------------------- MODULE CreditFlowProofs --------------------------
(***************************************************************************)
(* Proofs about both guardians of a credit together, for any scans,        *)
(* events, replicas, delays and faults.                                    *)
(*                                                                         *)
(* The composition implements WalletLifecycle: under the mapping below the *)
(* steps of POST, the abandoner and the scanners change nothing that the   *)
(* consumer sees.  So the consumer's inductive invariant carries over, and *)
(* with it the agreement of ledger and rows.  The mapping needs to know    *)
(* that a scan POST has not accepted yet has no event and no outcome.      *)
(***************************************************************************)
EXTENDS CreditFlow, TLAPS

\* The stream as the consumer sees it: an event that is not published yet
\* waits for its delivery.
msgBar == [e \in Events |-> IF msg[e] = "none" THEN "ready" ELSE msg[e]]

\* The credits as the consumer sees them: a scan that is not accepted yet, and
\* one whose POST was rolled back, counts as holding its credit until its row
\* is FAILED.
creditBar ==
    {s \in Scans : s \in ledger \/ ((stage[s] = "idle" \/ RolledBack(s)) /\ row[s] # FAILED)}

Settling == INSTANCE WalletLifecycleProofs WITH
    msg <- msgBar, credit <- creditBar, Faults <- LifecycleFaults, Unready <- {}

StreamStates == {"none", "ready", "outstanding", "acked", "terminated"}

FlowTypes ==
    /\ stage \in [Scans -> Abandoner!Stages] /\ ledger \subseteq Scans
    /\ msg \in [Events -> StreamStates]

\* What a scan that POST has not accepted yet cannot have.
IdleInv ==
    /\ \A s \in Scans : stage[s] = "idle" => s \notin pending /\ row[s] = PENDING
    /\ \A e \in Events : stage[ScanOf[e]] = "idle" => msg[e] = "none"

\* The pending record of a scan stays until POST is rolled back.
RecordInv == \A s \in Scans : stage[s] \notin {"idle", "closed"} => s \in pending

\* A worker settles what is in the stream.
StreamInv == \A w \in Workers : current[w] # NoEvent => msg[current[w]] # "none"

FlowInv == FlowTypes /\ IdleInv /\ RecordInv /\ StreamInv /\ Settling!IInv

-----------------------------------------------------------------------------
\* The assumptions of the consumer hold of the composition's constants.
LEMMA FlowFits ==
    /\ Settling!EventsFinite /\ Settling!EventsTyped
    /\ Settling!BoundsTyped /\ Settling!FaultsKnown
<1>. USE ComponentsFit
<1>1. Settling!EventsFinite
  BY DEF Consumer!EventsFinite, Consumer!IsFiniteSet, Settling!EventsFinite,
         Settling!IsFiniteSet
<1>2. Settling!EventsTyped /\ Settling!BoundsTyped
  BY DEF Consumer!EventsTyped, Consumer!BoundsTyped, Settling!EventsTyped,
         Settling!BoundsTyped
<1>3. Settling!FaultsKnown
  BY DEF Consumer!FaultsKnown, Consumer!FaultKinds, Settling!FaultsKnown,
         Settling!FaultKinds
<1>. QED
  BY <1>1, <1>2, <1>3, Zenon

\* Storing an event is invisible to the consumer.
LEMMA Stored ==
    ASSUME FlowTypes, NEW s \in Scans, NEW subject, Store(s, subject)
    PROVE  /\ msgBar' = msgBar /\ UNCHANGED <<deliveries, current, attempt, applied, ready>>
           /\ \E e \in Events : ScanOf[e] = s /\ msg[e] = "none" /\ msg' = [msg EXCEPT ![e] = "ready"]
<1>1. PICK e \in Events : ScanOf[e] = s /\ msg[e] = "none" /\ msg' = [msg EXCEPT ![e] = "ready"]
  BY Zenon DEF Store, Unpublished
<1>2. msgBar' = msgBar
  BY <1>1 DEF msgBar, FlowTypes, StreamStates
<1>. QED
  BY <1>1, <1>2, Zenon DEF Store

\* What the consumer reads of the mapped stream.
LEMMA BarRead ==
    \A e \in Events : /\ msg[e] # "none" => msgBar[e] = msg[e]
                      /\ msg[e] = "none" => msgBar[e] = "ready"
BY DEF msgBar

\* What it writes to the stream, it writes to the mapped one.
LEMMA BarWritten ==
    ASSUME FlowTypes, NEW e \in Events,
           NEW x \in {"ready", "outstanding", "acked", "terminated"},
           msg' = [msg EXCEPT ![e] = x]
    PROVE  msgBar' = [msgBar EXCEPT ![e] = x]
BY Zenon DEF msgBar, FlowTypes

\* What each kind of step does to what the two guardians share.
LEMMA FlowSteps ==
    ASSUME FlowTypes, Next
    PROVE  \/ /\ UNCHANGED <<stage, ledger, row, pending>> /\ UNCHANGED consumerVars
           \/ ConsumerStep
           \/ \E s \in Scans :
                 \/ s \in pending /\ UNCHANGED <<stage, ledger, row, pending>> /\ Store(s, "failed")
                 \/ /\ Abandoner!Move(s, "queued", "closed") /\ UNCHANGED <<ledger, row, pending>>
                    /\ Store(s, "completed") \/ Store(s, "failed")
                 \/ /\ Abandoner!Move(s, "idle", "reserved") /\ UNCHANGED consumerVars
                    /\ ledger' = ledger \cup {s} /\ pending' = pending \cup {s} /\ row' = row
                 \/ /\ Abandoner!Move(s, "reserved", "closed") /\ UNCHANGED consumerVars
                    /\ ledger' = ledger \ {s} /\ pending' = pending \ {s} /\ row' = row
                 \/ /\ UNCHANGED consumerVars /\ UNCHANGED <<ledger, row, pending>>
                    /\ \/ Abandoner!Move(s, "reserved", "queued") \/ Abandoner!Move(s, "reserved", "orphan")
                       \/ Abandoner!Move(s, "queued", "orphan")
<1>1. CASE AbandonerStep
  BY <1>1 DEF AbandonerStep, Abandoner!ListStream, Abandoner!ListOpenAndDecide,
     Abandoner!Restart, Abandoner!Tick, Abandoner!MessageNotFound,
     Abandoner!AddressMissing, Abandoner!PublishFails, Abandoner!world
<1>2. ASSUME NEW s \in Scans, Report(s)
      PROVE  s \in pending /\ UNCHANGED <<stage, ledger, row, pending>> /\ Store(s, "failed")
  BY <1>2 DEF Report, Abandoner!PublishAbandonedScan, Abandoner!HasAddress,
     Abandoner!world
<1>3. ASSUME NEW s \in Scans, ScannerStep(s)
      PROVE  /\ Abandoner!Move(s, "queued", "closed") /\ UNCHANGED <<ledger, row, pending>>
             /\ Store(s, "completed") \/ Store(s, "failed")
  BY <1>3 DEF ScannerStep, Abandoner!Move
<1>4. ASSUME NEW s \in Scans, RequestStep(s)
      PROVE  \/ /\ Abandoner!Move(s, "idle", "reserved") /\ UNCHANGED consumerVars
                /\ ledger' = ledger \cup {s} /\ pending' = pending \cup {s} /\ row' = row
             \/ /\ Abandoner!Move(s, "reserved", "closed") /\ UNCHANGED consumerVars
                /\ ledger' = ledger \ {s} /\ pending' = pending \ {s} /\ row' = row
             \/ /\ UNCHANGED consumerVars /\ UNCHANGED <<ledger, row, pending>>
                /\ \/ Abandoner!Move(s, "reserved", "queued") \/ Abandoner!Move(s, "reserved", "orphan")
                   \/ Abandoner!Move(s, "queued", "orphan")
  BY <1>4 DEF RequestStep, Abandoner!PostReserves, Abandoner!PostPublishes,
     Abandoner!PostRollsBack, Abandoner!PostCrashes, Abandoner!RequestLost,
     Abandoner!Move
<1>. QED
  BY <1>1, <1>2, <1>3, <1>4, Zenon DEF Next

\* A PENDING scan has not failed.
LEMMA PendingOpen == PENDING # FAILED
BY DEF PENDING, FAILED

\* creditBar changes only with a scan whose place in it changes.
LEMMA CreditKept ==
    ASSUME NEW t \in Scans, ledger \subseteq Scans, ledger' \subseteq Scans, row' = row,
           \A s \in Scans \ {t} : /\ stage'[s] = stage[s]
                                  /\ s \in pending' <=> s \in pending
                                  /\ s \in ledger' <=> s \in ledger,
           t \in creditBar' <=> t \in creditBar
    PROVE  creditBar' = creditBar
BY DEF creditBar, RolledBack

\* The credit of an accepted scan is its ledger row.
LEMMA CreditAccepted ==
    ASSUME NEW s \in Scans, stage[s] # "idle", ~RolledBack(s)
    PROVE  s \in creditBar <=> s \in ledger
BY DEF creditBar

\* Every step that is not the consumer's is invisible to it.
LEMMA FlowStutters ==
    ASSUME FlowInv, Next, ~ConsumerStep
    PROVE  UNCHANGED Settling!vars
<1>. USE DEF Settling!vars, Settling!consumer, Settling!settler, Settling!store
<1>1. FlowTypes /\ IdleInv /\ RecordInv /\ Settling!CreditMatchesOutcome
  BY DEF FlowInv, Settling!IInv
<1>2. CASE UNCHANGED <<stage, ledger, row, pending>> /\ UNCHANGED consumerVars
  BY <1>2 DEF consumerVars, msgBar, creditBar, RolledBack
<1>3. ASSUME NEW s \in Scans, UNCHANGED <<stage, ledger, row, pending>>, Store(s, "failed")
      PROVE  UNCHANGED Settling!vars
  <2>1. creditBar' = creditBar
    BY <1>3 DEF creditBar, RolledBack
  <2>. QED
    BY <1>1, <1>3, <2>1, Stored
<1>4. ASSUME NEW s \in Scans, Abandoner!Move(s, "queued", "closed"), UNCHANGED <<ledger, row, pending>>,
             Store(s, "completed") \/ Store(s, "failed")
      PROVE  UNCHANGED Settling!vars
  <2>1. s \in pending
    BY <1>1, <1>4 DEF RecordInv, Abandoner!Move
  <2>2. s \in creditBar' <=> s \in creditBar
    BY <1>1, <1>4, <2>1 DEF creditBar, RolledBack, Abandoner!Move, FlowTypes
  <2>3. creditBar' = creditBar
    BY <1>1, <1>4, <2>2, CreditKept DEF Abandoner!Move, FlowTypes
  <2>. QED
    BY <1>1, <1>4, <2>3, Stored
<1>5. ASSUME NEW s \in Scans, Abandoner!Move(s, "idle", "reserved"), UNCHANGED consumerVars,
             ledger' = ledger \cup {s}, pending' = pending \cup {s}, row' = row
      PROVE  UNCHANGED Settling!vars
  <2>1. s \in creditBar
    BY <1>1, <1>5, PendingOpen DEF IdleInv, creditBar, Abandoner!Move
  <2>2. s \in creditBar'
    BY <1>5 DEF creditBar
  <2>3. creditBar' = creditBar
    BY <1>1, <1>5, <2>1, <2>2, CreditKept DEF Abandoner!Move, FlowTypes
  <2>. QED
    BY <1>5, <2>3 DEF consumerVars, msgBar
<1>6. ASSUME NEW s \in Scans, Abandoner!Move(s, "reserved", "closed"), UNCHANGED consumerVars,
             ledger' = ledger \ {s}, pending' = pending \ {s}, row' = row
      PROVE  UNCHANGED Settling!vars
  <2>1. s \in creditBar <=> row[s] # FAILED
    BY <1>1, Zenon DEF Settling!CreditMatchesOutcome, Settling!FAILED, FAILED
  <2>2. s \in creditBar' <=> row[s] # FAILED
    BY <1>1, <1>6 DEF creditBar, RolledBack, Abandoner!Move, FlowTypes
  <2>3. creditBar' = creditBar
    BY <1>1, <1>6, <2>1, <2>2, CreditKept DEF Abandoner!Move, FlowTypes
  <2>. QED
    BY <1>6, <2>3 DEF consumerVars, msgBar
<1>7. ASSUME NEW s \in Scans, UNCHANGED consumerVars, UNCHANGED <<ledger, row, pending>>,
             \/ Abandoner!Move(s, "reserved", "queued") \/ Abandoner!Move(s, "reserved", "orphan")
             \/ Abandoner!Move(s, "queued", "orphan")
      PROVE  UNCHANGED Settling!vars
  <2>1. s \in creditBar' <=> s \in creditBar
    BY <1>1, <1>7 DEF creditBar, RolledBack, Abandoner!Move, FlowTypes
  <2>2. creditBar' = creditBar
    BY <1>1, <1>7, <2>1, CreditKept DEF Abandoner!Move, FlowTypes
  <2>. QED
    BY <1>7, <2>2 DEF consumerVars, msgBar
<1>. HIDE DEF Settling!vars
<1>. QED
  BY <1>1, <1>2, <1>3, <1>4, <1>5, <1>6, <1>7, FlowSteps, Zenon

-----------------------------------------------------------------------------
\* The commands are the same under both names.
LEMMA SameCommands ==
    ASSUME NEW e \in Events
    PROVE  /\ Consumer!IsCommand(e) <=> Settling!IsCommand(e)
           /\ Consumer!TargetState(e) = Settling!TargetState(e)
           /\ Consumer!SourceStates(e) = Settling!SourceStates(e)
           /\ Consumer!QuotaAction(e) = Settling!QuotaAction(e)
           /\ Settling!TargetState(e) = FAILED <=> Settling!QuotaAction(e) = "release"
           /\ FAILED \notin Settling!SourceStates(e)
BY DEF Consumer!IsCommand, Settling!IsCommand, Consumer!TargetState,
   Settling!TargetState, Consumer!SourceStates, Settling!SourceStates,
   Consumer!QuotaAction, Settling!QuotaAction, FAILED,
   Consumer!PENDING, Consumer!RUNNING, Consumer!SUCCESS, Consumer!FAILED,
   Settling!PENDING, Settling!RUNNING, Settling!SUCCESS, Settling!FAILED

\* And so is what is terminal.
LEMMA SameTerminal ==
    ASSUME NEW x PROVE Consumer!IsTerminal(x) <=> Settling!IsTerminal(x)
BY DEF Consumer!IsTerminal, Consumer!TerminalStates, Settling!IsTerminal,
   Settling!TerminalStates, Consumer!SUCCESS, Consumer!FAILED,
   Consumer!TIMEOUT, Consumer!UNREACHABLE,
   Settling!SUCCESS, Settling!FAILED, Settling!TIMEOUT, Settling!UNREACHABLE

\* Outcome reads only what both see alike.
LEMMA SameOutcome ==
    ASSUME NEW e \in Events
    PROVE  Consumer!Outcome(e) = Settling!Outcome(e)
BY SameCommands, SameTerminal DEF Consumer!Outcome, Settling!Outcome

\* A transition changes the ledger as it changes creditBar.
LEMMA CreditApplied ==
    ASSUME FlowTypes, Settling!TypeOK, Settling!EventsTyped, NEW e \in Events,
           UNCHANGED <<stage, pending>>,
           Settling!Outcome(e) = "applied", row' = [row EXCEPT ![ScanOf[e]] = Settling!TargetState(e)],
           ledger' = IF Settling!QuotaAction(e) = "release" THEN ledger \ {ScanOf[e]} ELSE ledger
    PROVE  creditBar' = IF Settling!QuotaAction(e) = "release" THEN creditBar \ {ScanOf[e]}
                        ELSE creditBar
<1>1. row[ScanOf[e]] # FAILED /\ ScanOf[e] \in Scans
  BY SameCommands DEF Settling!Outcome, Settling!EventsTyped
<1>2. DOMAIN row = Scans
  BY DEF Settling!TypeOK
<1>3. CASE Settling!QuotaAction(e) = "release"
  <2>1. row'[ScanOf[e]] = FAILED /\ ScanOf[e] \notin ledger'
    BY <1>1, <1>2, <1>3, SameCommands
  <2>2. \A s \in Scans \ {ScanOf[e]} : row'[s] = row[s] /\ (s \in ledger' <=> s \in ledger)
    BY <1>1, <1>2, <1>3, Zenon
  <2>. QED
    BY <1>3, <2>1, <2>2 DEF creditBar, RolledBack
<1>4. CASE Settling!QuotaAction(e) # "release"
  <2>1. row'[ScanOf[e]] # FAILED /\ ledger' = ledger
    BY <1>1, <1>2, <1>4, SameCommands
  <2>2. \A s \in Scans \ {ScanOf[e]} : row'[s] = row[s]
    BY <1>1, <1>2, Zenon
  <2>. QED
    BY <1>1, <1>4, <2>1, <2>2 DEF creditBar, RolledBack
<1>. QED
  BY <1>3, <1>4, Zenon

\* ApplyWalletTransition of the composition is the consumer's.
LEMMA AppliesAlike ==
    ASSUME FlowTypes, Settling!TypeOK, Settling!EventsTyped, NEW e \in Events,
           UNCHANGED <<stage, pending>>, Consumer!ApplyWalletTransition(e)
    PROVE  Settling!ApplyWalletTransition(e)
<1>1. CASE Settling!Outcome(e) = "applied"
  <2>1. /\ row' = [row EXCEPT ![ScanOf[e]] = Settling!TargetState(e)]
        /\ ledger' = IF Settling!QuotaAction(e) = "release" THEN ledger \ {ScanOf[e]} ELSE ledger
        /\ applied' = applied \cup {e}
        /\ \/ UNCHANGED ready
           \/ Settling!IsTerminal(row'[ScanOf[e]]) /\ ready' = ready \cup {ScanOf[e]}
    BY <1>1, SameOutcome, SameCommands, SameTerminal, Zenon DEF Consumer!ApplyWalletTransition
  <2>2. creditBar' = IF Settling!QuotaAction(e) = "release" THEN creditBar \ {ScanOf[e]}
                     ELSE creditBar
    BY <1>1, <2>1, CreditApplied, Zenon
  <2>. QED
    BY <1>1, <2>1, <2>2 DEF Settling!ApplyWalletTransition
<1>2. CASE Settling!Outcome(e) # "applied"
  BY <1>2, SameOutcome DEF Consumer!ApplyWalletTransition, Settling!ApplyWalletTransition,
     Consumer!store, Settling!store, creditBar, RolledBack
<1>. QED
  BY <1>1, <1>2, Zenon

\* An unchanged store.
LEMMA StoreAlike ==
    ASSUME UNCHANGED <<stage, pending>>, UNCHANGED Consumer!store
    PROVE  UNCHANGED Settling!store
BY DEF Consumer!store, Settling!store, creditBar, RolledBack

\* Ack, Term and NakWithDelay of an event in the stream.
LEMMA FinishAlike ==
    ASSUME FlowTypes, NEW w \in Workers, current[w] \in Events,
           NEW state \in {"ready", "acked", "terminated"}, Consumer!Finish(w, state)
    PROVE  Settling!Finish(w, state)
<1>1. Settling!Done(w)
  BY DEF Consumer!Finish, Consumer!Done, Settling!Done
<1>2. CASE UNCHANGED msg
  <2>1. UNCHANGED msgBar
    BY <1>2 DEF msgBar
  <2>2. CASE Consumer!Fault("ack")
    BY <1>1, <2>1, <2>2 DEF Consumer!Fault, Settling!Fault, Settling!Finish
  <2>3. CASE ~Consumer!Fault("ack")
    <3>1. \/ Consumer!Settled(current[w]) \/ (state = "ready" /\ msg[current[w]] # "outstanding")
          \/ msg[current[w]] = state
      BY <1>2, <2>3 DEF Consumer!Finish, FlowTypes
    <3>2. \/ Settling!Settled(current[w]) \/ (state = "ready" /\ msgBar[current[w]] # "outstanding")
          \/ msgBar[current[w]] = state
      BY <3>1 DEF Consumer!Settled, Settling!Settled, msgBar, FlowTypes, StreamStates
    <3>3. msgBar = [msgBar EXCEPT ![current[w]] = msgBar[current[w]]]
      BY DEF msgBar
    <3>. QED
      BY <1>1, <2>1, <3>2, <3>3 DEF Settling!Finish
  <2>. QED
    BY <2>2, <2>3, Zenon
<1>3. CASE msg' # msg
  <2>1. /\ msg' = [msg EXCEPT ![current[w]] = state] /\ ~Consumer!Settled(current[w])
        /\ ~(state = "ready" /\ msg[current[w]] # "outstanding")
    BY <1>3, Zenon DEF Consumer!Finish
  <2>2. msgBar' = [msgBar EXCEPT ![current[w]] = state]
    BY <2>1, BarWritten, Zenon
  <2>3. ~Settling!Settled(current[w]) /\ ~(state = "ready" /\ msgBar[current[w]] # "outstanding")
    BY <2>1 DEF Consumer!Settled, Settling!Settled, msgBar, FlowTypes, StreamStates
  <2>. QED
    BY <1>1, <2>2, <2>3 DEF Settling!Finish
<1>. QED
  BY <1>2, <1>3, Zenon

\* A step of the consumer in the composition is a step of the consumer alone.
LEMMA ConsumerMaps ==
    ASSUME FlowTypes, Settling!TypeOK, Settling!EventsFinite, Settling!EventsTyped, ConsumerStep
    PROVE  Settling!Next
<1>. USE DEF Settling!Next
<1>1. UNCHANGED <<stage, pending>>
  BY DEF ConsumerStep, Alone, scanVars
<1>2. ASSUME NEW e \in Events, Consumer!AckWaitExpires(e) PROVE Settling!Next
  <2>1. msgBar[e] = "outstanding" /\ msgBar' = [msgBar EXCEPT ![e] = "ready"]
    BY <1>2, BarWritten, BarRead, Zenon DEF Consumer!AckWaitExpires
  <2>2. UNCHANGED <<deliveries, Settling!settler, Settling!store>>
    BY <1>1, <1>2, StoreAlike DEF Consumer!AckWaitExpires, Consumer!settler, Settling!settler
  <2>. QED
    BY <2>1, <2>2, Zenon DEF Settling!AckWaitExpires
<1>3. ASSUME NEW w \in Workers, NEW e \in Events, Consumer!Deliver(w, e) PROVE Settling!Next
  <2>1. msgBar[e] = "ready" /\ msgBar' = [msgBar EXCEPT ![e] = "outstanding"]
    BY <1>3, BarWritten, BarRead, Zenon DEF Consumer!Deliver
  <2>2. Settling!AckPending = Consumer!AckPending
    BY DEF Settling!AckPending, Consumer!AckPending, msgBar
  <2>3. Settling!Cardinality(Settling!AckPending) < MaxAckPending
    BY <1>3, <2>2 DEF Consumer!Deliver, Settling!Cardinality, Consumer!Cardinality
  <2>4. Settling!CanDeliver(e) /\ UNCHANGED Settling!store
    BY <1>1, <1>3, StoreAlike DEF Consumer!Deliver, Consumer!CanDeliver, Settling!CanDeliver,
       Consumer!walletLifecycleMaxDeliver, Settling!walletLifecycleMaxDeliver
  <2>. QED
    BY <1>3, <2>1, <2>3, <2>4, Zenon DEF Consumer!Deliver, Settling!Deliver,
       Consumer!DeliveryCap, Settling!DeliveryCap
<1>4. ASSUME NEW s \in Scans, Consumer!ProjectionBuilt(s) PROVE Settling!Next
  BY <1>1, <1>4, SameTerminal DEF Consumer!ProjectionBuilt, Settling!ProjectionBuilt,
     Consumer!consumer, Consumer!settler, Settling!consumer, Settling!settler,
     msgBar, creditBar, RolledBack
<1>5. ASSUME NEW w \in Workers, Consumer!Interrupted(w) PROVE Settling!Next
  <2>1. UNCHANGED Settling!store
    BY <1>1, <1>5, StoreAlike, Zenon DEF Consumer!Interrupted
  <2>2. UNCHANGED Settling!consumer
    BY <1>5, Zenon DEF Consumer!Interrupted, Consumer!consumer, Settling!consumer, msgBar
  <2>3. Settling!Interrupted(w)
    BY <1>5, <2>1, <2>2, Zenon DEF Consumer!Interrupted, Settling!Interrupted
  <2>. QED
    BY <2>3, Zenon
<1>6. ASSUME NEW w \in Workers, Consumer!Settle(w) PROVE Settling!Next
  <2>1. current[w] # NoEvent => current[w] \in Events
    BY DEF Settling!TypeOK
  <2>2. SUFFICES Settling!Settle(w)
    BY DEF Settling!Next
  <2>. USE DEF Settling!Settle
  <2>3. CASE Consumer!SettleNoMetadata(w)
    BY <1>1, <2>1, <2>3, StoreAlike, FinishAlike DEF Consumer!SettleNoMetadata,
       Settling!SettleNoMetadata, Consumer!Fault, Settling!Fault,
       Consumer!NakWithDelay, Settling!NakWithDelay
  <2>4. CASE Consumer!SettleNoCommand(w)
    BY <1>1, <2>1, <2>4, StoreAlike, FinishAlike, SameCommands DEF Consumer!SettleNoCommand,
       Settling!SettleNoCommand, Consumer!Ack, Settling!Ack, Consumer!Term, Settling!Term
  <2>5. CASE Consumer!Post(w)
    <3>1. /\ current[w] \in Events /\ Settling!IsCommand(current[w])
          /\ attempt[w] < Settling!walletLifecycleAttempts
      BY <2>1, <2>5, SameCommands DEF Consumer!Post, Consumer!walletLifecycleAttempts,
         Settling!walletLifecycleAttempts
    <3>2. Settling!ApplyWalletTransition(current[w])
      BY <1>1, <2>5, <3>1, AppliesAlike, Zenon DEF Consumer!Post
    <3>3. Consumer!Ack(w) => Settling!Ack(w)
      BY <3>1, FinishAlike DEF Consumer!Ack, Settling!Ack
    <3>4. Consumer!SettleApplied(w) => Settling!SettleApplied(w)
      BY <3>1, <3>3, FinishAlike, SameCommands, SameTerminal DEF Consumer!SettleApplied,
         Settling!SettleApplied, Consumer!NakWithDelay, Settling!NakWithDelay
    <3>5. IF Settling!Outcome(current[w]) \in {"applied", "already_applied"}
          THEN Settling!SettleApplied(w) ELSE Settling!Ack(w)
      BY <2>5, <3>1, <3>3, <3>4, SameOutcome DEF Consumer!Post
    <3>6. current[w] # NoEvent
      BY <2>5, Zenon DEF Consumer!Post
    <3>. QED
      BY <3>1, <3>2, <3>5, <3>6, Zenon DEF Settling!Post
  <2>6. CASE Consumer!PostRejected(w)
    BY <1>1, <2>1, <2>6, StoreAlike, FinishAlike, SameCommands DEF Consumer!PostRejected,
       Settling!PostRejected, Consumer!Fault, Settling!Fault, Consumer!Term, Settling!Term,
       Consumer!walletLifecycleAttempts, Settling!walletLifecycleAttempts
  <2>7. CASE Consumer!PostFails(w)
    <3>1. /\ current[w] # NoEvent /\ current[w] \in Events /\ Settling!IsCommand(current[w])
      BY <2>1, <2>7, SameCommands DEF Consumer!PostFails
    <3>2. \/ Settling!Fault("call") /\ UNCHANGED Settling!store
          \/ Settling!Fault("retry") /\ UNCHANGED Settling!store
          \/ Settling!Fault("reply") /\ Settling!ApplyWalletTransition(current[w])
      BY <1>1, <2>7, <3>1, StoreAlike, AppliesAlike DEF Consumer!PostFails,
         Consumer!Fault, Settling!Fault
    <3>3. Settling!NextAttempt(w)
      BY <2>7, <3>1, FinishAlike DEF Consumer!PostFails, Consumer!NextAttempt,
         Settling!NextAttempt, Consumer!NakWithDelay, Settling!NakWithDelay, msgBar,
         Consumer!walletLifecycleAttempts, Settling!walletLifecycleAttempts
    <3>. QED
      BY <3>1, <3>2, <3>3, Zenon DEF Settling!PostFails
  <2>. QED
    BY <1>6, <2>3, <2>4, <2>5, <2>6, <2>7, Zenon DEF Consumer!Settle
<1>. QED
  BY <1>2, <1>3, <1>4, <1>5, <1>6, Zenon DEF ConsumerStep, Consumer!Next

-----------------------------------------------------------------------------
\* What a transition leaves alone: the rows of the other scans, and of the
\* ledger everything but the scan's own credit.
LEMMA TransitionTouches ==
    ASSUME FlowTypes, Settling!TypeOK, NEW e \in Events,
           Consumer!ApplyWalletTransition(e) \/ UNCHANGED Consumer!store
    PROVE  /\ ledger' \subseteq Scans
           /\ \A s \in Scans \ {ScanOf[e]} : row'[s] = row[s]
BY DEF Consumer!ApplyWalletTransition, Consumer!store, FlowTypes, Settling!TypeOK

\* What the settling of a delivery does to the stream.
LEMMA FinishTouches ==
    ASSUME FlowTypes, StreamInv, Settling!TypeOK, Settling!EventsFinite,
           NEW w \in Workers, current[w] \in Events,
           NEW state \in {"ready", "acked", "terminated"}, Consumer!Finish(w, state)
    PROVE  /\ msg' \in [Events -> StreamStates]
           /\ \A e \in Events : msg'[e] = "none" <=> msg[e] = "none"
           /\ StreamInv'
<1>1. msg[current[w]] # "none" /\ current' = [current EXCEPT ![w] = NoEvent]
  BY DEF StreamInv, Settling!EventsFinite, Consumer!Finish, Consumer!Done
<1>2. msg' = msg \/ msg' = [msg EXCEPT ![current[w]] = state]
  BY Zenon DEF Consumer!Finish
<1>3. msg' \in [Events -> StreamStates]
  BY <1>2 DEF FlowTypes, StreamStates
<1>4. \A e \in Events : msg'[e] = "none" <=> msg[e] = "none"
  BY <1>1, <1>2 DEF FlowTypes
<1>5. StreamInv'
  BY <1>1, <1>4 DEF StreamInv, Settling!TypeOK
<1>. QED
  BY <1>3, <1>4, <1>5 DEF FlowTypes

\* What a step of the consumer does to the rest of the composition.
LEMMA ConsumerTouches ==
    ASSUME FlowTypes, IdleInv, StreamInv, Settling!TypeOK, Settling!EventsFinite,
           Settling!EventsTyped, ConsumerStep
    PROVE  /\ UNCHANGED <<stage, pending>> /\ ledger' \subseteq Scans
           /\ msg' \in [Events -> StreamStates]
           /\ \A e \in Events : msg'[e] = "none" <=> msg[e] = "none"
           /\ \A s \in Scans : stage[s] = "idle" => row'[s] = row[s]
           /\ StreamInv'
<1>1. UNCHANGED <<stage, pending>>
  BY DEF ConsumerStep, Alone, scanVars
<1>. DEFINE Kept == /\ ledger' \subseteq Scans /\ msg' \in [Events -> StreamStates]
                    /\ \A e \in Events : msg'[e] = "none" <=> msg[e] = "none"
                    /\ \A s \in Scans : stage[s] = "idle" => row'[s] = row[s]
                    /\ StreamInv'
<1>2. ASSUME NEW e \in Events, Consumer!AckWaitExpires(e) PROVE Kept
  BY <1>2 DEF Consumer!AckWaitExpires, Consumer!settler, Consumer!store, FlowTypes,
     StreamStates, StreamInv, Settling!TypeOK
<1>3. ASSUME NEW w \in Workers, NEW e \in Events, Consumer!Deliver(w, e) PROVE Kept
  BY <1>3 DEF Consumer!Deliver, Consumer!store, FlowTypes, StreamStates, StreamInv,
     Settling!TypeOK
<1>4. ASSUME NEW s \in Scans, Consumer!ProjectionBuilt(s) PROVE Kept
  BY <1>4 DEF Consumer!ProjectionBuilt, Consumer!consumer, Consumer!settler,
     FlowTypes, StreamInv
<1>5. ASSUME NEW w \in Workers, Consumer!Interrupted(w) PROVE Kept
  <2>1. UNCHANGED <<msg, ledger, row>>
    BY <1>5, Zenon DEF Consumer!Interrupted, Consumer!consumer, Consumer!store
  <2>2. StreamInv'
    BY <1>5, <2>1 DEF Consumer!Interrupted, StreamInv, Settling!TypeOK
  <2>. QED
    BY <2>1, <2>2 DEF FlowTypes
<1>6. ASSUME NEW w \in Workers, Consumer!Settle(w) PROVE Kept
  <2>1. current[w] \in Events
    BY <1>6 DEF Settling!TypeOK, Consumer!Settle, Consumer!SettleNoMetadata,
       Consumer!SettleNoCommand, Consumer!Post, Consumer!PostRejected,
       Consumer!PostFails
  <2>2. stage[ScanOf[current[w]]] # "idle"
    BY <2>1 DEF IdleInv, StreamInv, Settling!EventsFinite
  <2>3. Consumer!ApplyWalletTransition(current[w]) \/ UNCHANGED Consumer!store
    BY <1>6, Zenon DEF Consumer!Settle, Consumer!SettleNoMetadata,
       Consumer!SettleNoCommand, Consumer!Post, Consumer!PostRejected,
       Consumer!PostFails
  <2>4. \/ \E state \in {"ready", "acked", "terminated"} : Consumer!Finish(w, state)
        \/ UNCHANGED <<msg, current>>
    BY <1>6 DEF Consumer!Settle, Consumer!SettleNoMetadata,
       Consumer!SettleNoCommand, Consumer!Post, Consumer!PostRejected,
       Consumer!PostFails, Consumer!NextAttempt, Consumer!SettleApplied,
       Consumer!Ack, Consumer!Term, Consumer!NakWithDelay
  <2>5. /\ msg' \in [Events -> StreamStates]
        /\ \A e \in Events : msg'[e] = "none" <=> msg[e] = "none"
        /\ StreamInv'
    <3>1. CASE UNCHANGED <<msg, current>>
      BY <3>1 DEF FlowTypes, StreamInv
    <3>2. CASE \E state \in {"ready", "acked", "terminated"} : Consumer!Finish(w, state)
      BY <2>1, <3>2, FinishTouches
    <3>. QED
      BY <2>4, <3>1, <3>2, Zenon
  <2>6. ledger' \subseteq Scans /\ \A s \in Scans : stage[s] = "idle" => row'[s] = row[s]
    BY <2>1, <2>2, <2>3, TransitionTouches
  <2>. QED
    BY <2>5, <2>6, Zenon
<1>. HIDE DEF Kept
<1>7. Kept
  BY <1>2, <1>3, <1>4, <1>5, <1>6, Zenon DEF ConsumerStep, Consumer!Next
<1>. QED
  BY <1>1, <1>7 DEF Kept

\* Every step preserves what the composition adds to the consumer's invariant.
LEMMA AuxStep ==
    ASSUME FlowInv, Next
    PROVE  (FlowTypes /\ IdleInv /\ RecordInv /\ StreamInv)'
<1>1. Settling!EventsFinite /\ Settling!EventsTyped
  BY FlowFits
<1>2. FlowTypes /\ IdleInv /\ RecordInv /\ StreamInv /\ Settling!TypeOK
  BY DEF FlowInv, Settling!IInv
<1>3. ScanOf \in [Events -> Scans]
  BY <1>1 DEF Settling!EventsTyped
<1>. DEFINE Aux == FlowTypes /\ IdleInv /\ RecordInv /\ StreamInv
<1>4. CASE UNCHANGED <<stage, ledger, row, pending>> /\ UNCHANGED consumerVars
  BY <1>2, <1>4 DEF consumerVars, FlowTypes, IdleInv, RecordInv, StreamInv
<1>5. CASE ConsumerStep
  <2>1. /\ UNCHANGED <<stage, pending>> /\ ledger' \subseteq Scans
        /\ msg' \in [Events -> StreamStates]
        /\ \A e \in Events : msg'[e] = "none" <=> msg[e] = "none"
        /\ \A s \in Scans : stage[s] = "idle" => row'[s] = row[s]
        /\ StreamInv'
    BY <1>1, <1>2, <1>5, ConsumerTouches
  <2>. QED
    BY <1>2, <1>3, <2>1 DEF FlowTypes, IdleInv, RecordInv
<1>6. ASSUME NEW s \in Scans, NEW subject, Store(s, subject), stage'[s] # "idle",
             FlowTypes', \A t \in Scans : stage'[t] = "idle" => stage[t] = "idle",
             UNCHANGED <<row, pending>>
      PROVE  IdleInv' /\ StreamInv'
  <2>1. PICK e \in Events : ScanOf[e] = s /\ msg[e] = "none" /\ msg' = [msg EXCEPT ![e] = "ready"]
    BY <1>2, <1>6, Stored
  <2>2. current' = current
    BY <1>2, <1>6, Stored
  <2>3. IdleInv'
    BY <1>2, <1>3, <1>6, <2>1 DEF IdleInv, FlowTypes
  <2>4. StreamInv'
    BY <1>2, <2>1, <2>2 DEF StreamInv, FlowTypes, Settling!TypeOK
  <2>. QED
    BY <2>3, <2>4, Zenon
<1>7. ASSUME NEW s \in Scans, NEW subject, Store(s, subject)
      PROVE  msg' \in [Events -> StreamStates]
  <2>1. PICK e \in Events : msg' = [msg EXCEPT ![e] = "ready"]
    BY <1>2, <1>7, Stored
  <2>. QED
    BY <1>2, <2>1 DEF FlowTypes, StreamStates
<1>8. ASSUME NEW s \in Scans, s \in pending, UNCHANGED <<stage, ledger, row, pending>>,
             Store(s, "failed")
      PROVE  Aux'
  <2>1. FlowTypes' /\ RecordInv' /\ stage'[s] # "idle"
    BY <1>2, <1>7, <1>8 DEF FlowTypes, RecordInv, IdleInv
  <2>. QED
    BY <1>6, <1>8, <2>1, Zenon
<1>9. ASSUME NEW s \in Scans, Abandoner!Move(s, "queued", "closed"), UNCHANGED <<ledger, row, pending>>,
             Store(s, "completed") \/ Store(s, "failed")
      PROVE  Aux'
  <2>1. FlowTypes' /\ RecordInv' /\ stage'[s] # "idle"
    BY <1>2, <1>7, <1>9 DEF FlowTypes, RecordInv, Abandoner!Move, Abandoner!Stages
  <2>2. \A t \in Scans : stage'[t] = "idle" => stage[t] = "idle"
    BY <1>2, <1>9 DEF FlowTypes, Abandoner!Move
  <2>. QED
    BY <1>6, <1>9, <2>1, <2>2, Zenon
<1>10. ASSUME NEW s \in Scans, UNCHANGED consumerVars, row' = row,
              \/ Abandoner!Move(s, "idle", "reserved") /\ ledger' = ledger \cup {s} /\ pending' = pending \cup {s}
              \/ Abandoner!Move(s, "reserved", "closed") /\ ledger' = ledger \ {s} /\ pending' = pending \ {s}
              \/ /\ UNCHANGED <<ledger, pending>>
                 /\ \/ Abandoner!Move(s, "reserved", "queued") \/ Abandoner!Move(s, "reserved", "orphan")
                    \/ Abandoner!Move(s, "queued", "orphan")
       PROVE  Aux'
  <2>1. FlowTypes' /\ StreamInv'
    <3>1. UNCHANGED <<msg, current>>
      BY <1>10, Zenon DEF consumerVars
    <3>2. stage' \in [Scans -> Abandoner!Stages] /\ ledger' \subseteq Scans
      BY <1>2, <1>10 DEF FlowTypes, Abandoner!Move, Abandoner!Stages
    <3>. QED
      BY <1>2, <3>1, <3>2 DEF FlowTypes, StreamInv
  <2>2. RecordInv'
    <3>1. \A t \in Scans \ {s} : stage'[t] = stage[t] /\ (t \in pending' <=> t \in pending)
      BY <1>2, <1>10 DEF FlowTypes, Abandoner!Move
    <3>2. stage[s] = "idle" \/ s \in pending
      BY <1>2, <1>10, Zenon DEF RecordInv, Abandoner!Move
    <3>3. stage'[s] \in {"idle", "closed"} \/ s \in pending'
      BY <1>2, <1>10, <3>2 DEF FlowTypes, Abandoner!Move
    <3>. QED
      BY <1>2, <3>1, <3>3, Zenon DEF RecordInv
  <2>3. IdleInv'
    <3>1. \A t \in Scans : stage'[t] = "idle" => t # s /\ stage[t] = "idle"
      BY <1>2, <1>10 DEF FlowTypes, Abandoner!Move
    <3>. QED
      BY <1>2, <1>3, <1>10, <3>1 DEF IdleInv, consumerVars
  <2>. QED
    BY <2>1, <2>2, <2>3, Zenon
<1>11. Aux'
  <2>. HIDE DEF Aux
  <2>. QED
    BY <1>2, <1>4, <1>5, <1>8, <1>9, <1>10, FlowSteps, Zenon DEF Aux
<1>. QED
  BY <1>11, Zenon

\* The initial state.
LEMMA FlowInit ==
    ASSUME Init
    PROVE  Settling!Init /\ FlowInv
<1>1. Settling!EventsFinite /\ Settling!EventsTyped /\ Settling!BoundsTyped /\ Settling!FaultsKnown
  BY FlowFits
<1>2. msgBar = [e \in Events |-> "ready"]
  BY DEF Init, msgBar
<1>3. creditBar = Scans
  BY PendingOpen DEF Init, creditBar, PENDING
<1>4. Settling!Init
  BY <1>2, <1>3 DEF Init, Settling!Init, PENDING, Settling!PENDING
<1>5. FlowTypes /\ IdleInv /\ RecordInv /\ StreamInv
  BY <1>1 DEF Init, FlowTypes, IdleInv, RecordInv, StreamInv, Abandoner!Stages, StreamStates,
     PENDING, Settling!EventsTyped
<1>6. Settling!IInv
  BY <1>1, <1>4, Settling!InitInv
<1>. QED
  BY <1>4, <1>5, <1>6 DEF FlowInv

\* Every step maps to a step of the consumer or to a stutter, and preserves
\* the invariant.
LEMMA FlowStep ==
    ASSUME FlowInv, [Next]_vars
    PROVE  [Settling!Next]_Settling!vars /\ FlowInv'
<1>1. Settling!EventsFinite /\ Settling!EventsTyped /\ Settling!BoundsTyped /\ Settling!FaultsKnown
  BY FlowFits
<1>2. CASE Next
  <2>1. [Settling!Next]_Settling!vars
    <3>1. CASE ConsumerStep
      BY <1>1, <3>1, ConsumerMaps DEF FlowInv, Settling!IInv
    <3>. QED
      BY <1>2, <3>1, FlowStutters
  <2>2. Settling!IInv'
    BY <1>1, <2>1, Settling!Inductive DEF FlowInv
  <2>. QED
    BY <1>2, <2>1, <2>2, AuxStep DEF FlowInv
<1>3. CASE UNCHANGED vars
  <2>1. UNCHANGED <<stage, ledger, row, pending>> /\ UNCHANGED consumerVars
    BY <1>3 DEF vars, scanVars
  <2>2. UNCHANGED Settling!vars
    BY <2>1 DEF consumerVars, msgBar, creditBar, RolledBack, Settling!vars,
       Settling!consumer, Settling!settler, Settling!store
  <2>3. Settling!IInv'
    BY <1>1, <2>2, Settling!Inductive DEF FlowInv
  <2>4. (FlowTypes /\ IdleInv /\ RecordInv /\ StreamInv)'
    BY <2>1 DEF FlowInv, consumerVars, FlowTypes, IdleInv, RecordInv, StreamInv
  <2>. QED
    BY <2>2, <2>3, <2>4 DEF FlowInv
<1>. QED
  BY <1>2, <1>3, Zenon

\* FlowInv is an invariant of the composition.
LEMMA FlowInvariance == Spec => []FlowInv
<1>1. Init => FlowInv
  BY FlowInit
<1>2. FlowInv /\ [Next]_vars => FlowInv'
  BY FlowStep
<1>. QED
  BY <1>1, <1>2, PTL DEF Spec

\* The abandoner, POST and the scanners are invisible to the lifecycle
\* consumer: with them beside it the settler behaves as it does alone, so what
\* is proved of WalletLifecycle holds of the composition.
THEOREM FlowRefines == Spec => Settling!Spec
<1>1. Init => Settling!Init
  BY FlowInit
<1>2. FlowInv /\ [Next]_vars => [Settling!Next]_Settling!vars
  BY FlowStep
<1>. QED
  BY <1>1, <1>2, FlowInvariance, PTL DEF Spec, Settling!Spec

\* Both guardians of a credit together release it exactly with its outcome
\* (settle, publishAbandonedScan, rollbackScanAccept): an accepted scan holds
\* its ledger row until its row is FAILED, whatever the timing of the two.
THEOREM CreditFollows == Spec => []CreditFollowsOutcome
<1>1. FlowInv => CreditFollowsOutcome
  <2>1. SUFFICES ASSUME FlowInv, NEW s \in Scans, stage[s] # "idle", ~RolledBack(s)
                 PROVE  s \in ledger <=> row[s] # FAILED
    BY Zenon DEF CreditFollowsOutcome
  <2>2. s \in creditBar <=> row[s] # Settling!FAILED
    BY <2>1, Zenon DEF FlowInv, Settling!IInv, Settling!CreditMatchesOutcome
  <2>. QED
    BY <2>1, <2>2, CreditAccepted, Zenon DEF FAILED, Settling!FAILED
<1>. QED
  BY <1>1, FlowInvariance, PTL

\* settle: an acked event is visible in the row of its scan, and in its
\* projection, also beside the abandoner's own events.
THEOREM FlowAckSafe == Spec => []Consumer!AckedIsVisible
<1>1. FlowInv => Consumer!AckedIsVisible
  <2>1. SUFFICES ASSUME FlowInv, NEW e \in Events, msg[e] = "acked", Consumer!IsCommand(e)
                 PROVE  /\ row[ScanOf[e]] # Consumer!PENDING
                        /\ Subject[e] # "started" => Consumer!IsTerminal(row[ScanOf[e]])
                        /\ e \in applied /\ Subject[e] # "started" => ScanOf[e] \in ready
    BY Zenon DEF Consumer!AckedIsVisible
  <2>2. msgBar[e] = "acked" /\ Settling!IsCommand(e)
    BY <2>1, SameCommands, BarRead
  <2>3. /\ row[ScanOf[e]] # Settling!PENDING
        /\ Subject[e] # "started" => Settling!IsTerminal(row[ScanOf[e]])
        /\ e \in applied /\ Subject[e] # "started" => ScanOf[e] \in ready
    BY <2>1, <2>2, Zenon DEF FlowInv, Settling!IInv, Settling!AckedIsVisible
  <2>. QED
    BY <2>3, SameTerminal, Zenon DEF Settling!PENDING, Consumer!PENDING
<1>. QED
  BY <1>1, FlowInvariance, PTL

\* source_states: a settled wallet scan keeps its outcome, also when the
\* abandoner reports a scan whose completion waits in the stream.
THEOREM FlowOutcomeFinal == Spec => Consumer!OutcomeIsFinal
<1>1. FlowInv /\ [Next]_vars
        => [\A s \in Scans : Consumer!IsTerminal(row[s]) => row'[s] = row[s]]_Consumer!vars
  <2>1. SUFFICES ASSUME FlowInv, [Next]_vars, NEW s \in Scans, Consumer!IsTerminal(row[s])
                 PROVE  row'[s] = row[s]
    BY Zenon
  <2>2. [Settling!Next]_Settling!vars /\ Settling!IInv /\ Settling!IsTerminal(row[s])
    BY <2>1, FlowStep, SameTerminal, Zenon DEF FlowInv
  <2>. QED
    BY <2>1, <2>2, FlowFits, Settling!FinalStep, Zenon
<1>. QED
  BY <1>1, FlowInvariance, PTL DEF Spec, Consumer!OutcomeIsFinal
=============================================================================
