------------------------ MODULE WalletLifecycleProofs ------------------------
(***************************************************************************)
(* Proofs about the wallet lifecycle settler, for any set of scans and     *)
(* events, any number of replicas and every combination of the faults.     *)
(***************************************************************************)
EXTENDS WalletLifecycle, TLAPS

\* What persistence did for an applied transition never fades.
AppliedInv ==
    \A e \in applied : /\ IsCommand(e) /\ row[ScanOf[e]] # PENDING
                       /\ Subject[e] # "started" => IsTerminal(row[ScanOf[e]])

IInv == TypeOK /\ AppliedInv /\ CreditMatchesOutcome /\ AckedIsVisible

-----------------------------------------------------------------------------
\* Which of the stored statuses are terminal.
LEMMA Statuses ==
    /\ IsTerminal(SUCCESS) /\ IsTerminal(FAILED)
    /\ ~IsTerminal(PENDING) /\ ~IsTerminal(RUNNING)
    /\ PENDING # RUNNING /\ PENDING # SUCCESS /\ PENDING # FAILED
    /\ RUNNING # SUCCESS /\ RUNNING # FAILED /\ SUCCESS # FAILED
BY DEF IsTerminal, TerminalStates, PENDING, RUNNING, SUCCESS, FAILED, TIMEOUT, UNREACHABLE

\* TargetState and QuotaAction: a command moves a row forward, and releases
\* the credit exactly when it fails the scan.
LEMMA Commands ==
    ASSUME NEW e \in Events
    PROVE  /\ TargetState(e) \in {RUNNING, SUCCESS, FAILED}
           /\ IsTerminal(TargetState(e)) <=> Subject[e] # "started"
           /\ QuotaAction(e) = "release" <=> TargetState(e) = FAILED
           /\ SourceStates(e) \subseteq {PENDING, RUNNING}
BY Statuses DEF TargetState, QuotaAction, SourceStates

\* ApplyWalletTransition: the row changes by a command on an open scan or not
\* at all, and an outcome other than applied tells where the row stands.
LEMMA Applying ==
    ASSUME TypeOK, NEW e \in Events, IsCommand(e), ApplyWalletTransition(e)
    PROVE  \/ /\ Outcome(e) = "applied"
              /\ ~IsTerminal(row[ScanOf[e]])
              /\ row' = [row EXCEPT ![ScanOf[e]] = TargetState(e)]
              /\ credit' = IF TargetState(e) = FAILED THEN credit \ {ScanOf[e]} ELSE credit
              /\ applied' = applied \cup {e}
              /\ ready' = ready \/ ready' = ready \cup {ScanOf[e]}
           \/ /\ Outcome(e) # "applied" /\ UNCHANGED store
              /\ \/ Outcome(e) = "already_applied" /\ e \in applied
                 \/ /\ Outcome(e) \notin {"applied", "already_applied"}
                    /\ e \notin applied /\ row[ScanOf[e]] # PENDING
                    /\ Subject[e] # "started" => IsTerminal(row[ScanOf[e]])
<1>1. ScanOf[e] \in Scans /\ row[ScanOf[e]] \in {PENDING, RUNNING, SUCCESS, FAILED}
  BY EventsTyped DEF TypeOK
<1>2. CASE Outcome(e) = "applied"
  <2>1. row[ScanOf[e]] \in SourceStates(e)
    BY <1>2 DEF Outcome
  <2>2. ~IsTerminal(row[ScanOf[e]])
    BY <2>1, Commands, Statuses
  <2>. QED
    BY <1>2, <2>2, Commands DEF ApplyWalletTransition
<1>3. CASE Outcome(e) # "applied"
  BY <1>1, <1>3, Statuses DEF ApplyWalletTransition, Outcome, SourceStates
<1>. QED
  BY <1>2, <1>3

\* Every step keeps the types of the variables.
LEMMA TypeStep == TypeOK /\ [Next]_vars => TypeOK'
<1> USE EventsTyped, EventsFinite, BoundsTyped
    DEF TypeOK, MsgStates, DeliveryCap, consumer, settler, store, walletLifecycleAttempts
<1>1. SUFFICES ASSUME TypeOK, [Next]_vars PROVE TypeOK'
  OBVIOUS
<1>2. CASE \E e \in Events : AckWaitExpires(e)
  BY <1>2, <1>1 DEF AckWaitExpires
<1>3. CASE \E w \in Workers, e \in Events : Deliver(w, e)
  BY <1>3, <1>1 DEF Deliver
<1>4. CASE \E w \in Workers : SettleNoMetadata(w)
  BY <1>4, <1>1 DEF SettleNoMetadata, NakWithDelay, Finish, Done, Settled
<1>5. CASE \E w \in Workers : SettleNoCommand(w)
  BY <1>5, <1>1 DEF SettleNoCommand, Ack, Term, Finish, Done, Settled
<1>6. CASE \E w \in Workers : Post(w)
  BY <1>6, <1>1, Applying, Commands DEF Post, SettleApplied, Ack, NakWithDelay, Finish, Done, Settled
<1>7. CASE \E w \in Workers : PostRejected(w)
  BY <1>7, <1>1 DEF PostRejected, Term, Finish, Done, Settled
<1>8. CASE \E w \in Workers : PostFails(w)
  BY <1>8, <1>1, Applying, Commands DEF PostFails, NextAttempt, NakWithDelay, Finish, Done, Settled
<1>9. CASE \E w \in Workers : Interrupted(w)
  BY <1>9, <1>1 DEF Interrupted
<1>10. CASE \E s \in Scans : ProjectionBuilt(s)
  BY <1>10, <1>1 DEF ProjectionBuilt
<1>11. CASE UNCHANGED vars
  BY <1>11, <1>1 DEF vars
<1>. QED
  BY <1>1, <1>2, <1>3, <1>4, <1>5, <1>6, <1>7, <1>8, <1>9, <1>10, <1>11
     DEF Next, Settle

\* Every step keeps the effect of the applied transitions.
LEMMA AppliedStep == IInv /\ [Next]_vars => AppliedInv'
<1> USE EventsTyped, EventsFinite DEF IInv, AppliedInv, TypeOK, consumer, settler, store
<1>1. SUFFICES ASSUME IInv, [Next]_vars PROVE AppliedInv'
  OBVIOUS
<1>2. CASE \E e \in Events : AckWaitExpires(e)
  BY <1>2, <1>1 DEF AckWaitExpires
<1>3. CASE \E w \in Workers, e \in Events : Deliver(w, e)
  BY <1>3, <1>1 DEF Deliver
<1>4. CASE \E w \in Workers : SettleNoMetadata(w)
  BY <1>4, <1>1 DEF SettleNoMetadata, NakWithDelay, Finish, Done, Settled
<1>5. CASE \E w \in Workers : SettleNoCommand(w)
  BY <1>5, <1>1 DEF SettleNoCommand, Ack, Term, Finish, Done, Settled
<1>6. CASE \E w \in Workers : Post(w)
  BY <1>6, <1>1, Applying, Commands, Statuses DEF Post, SettleApplied, Ack, NakWithDelay, Finish, Done, Settled
<1>7. CASE \E w \in Workers : PostRejected(w)
  BY <1>7, <1>1 DEF PostRejected, Term, Finish, Done, Settled
<1>8. CASE \E w \in Workers : PostFails(w)
  BY <1>8, <1>1, Applying, Commands, Statuses DEF PostFails, NextAttempt, NakWithDelay, Finish, Done, Settled
<1>9. CASE \E w \in Workers : Interrupted(w)
  BY <1>9, <1>1 DEF Interrupted
<1>10. CASE \E s \in Scans : ProjectionBuilt(s)
  BY <1>10, <1>1 DEF ProjectionBuilt
<1>11. CASE UNCHANGED vars
  BY <1>11, <1>1 DEF vars
<1>. QED
  BY <1>1, <1>2, <1>3, <1>4, <1>5, <1>6, <1>7, <1>8, <1>9, <1>10, <1>11
     DEF Next, Settle

\* Every step keeps the credit in line with the row.
LEMMA CreditStep == IInv /\ [Next]_vars => CreditMatchesOutcome'
<1> USE EventsTyped, EventsFinite
    DEF IInv, CreditMatchesOutcome, TypeOK, consumer, settler, store
<1>1. SUFFICES ASSUME IInv, [Next]_vars PROVE CreditMatchesOutcome'
  OBVIOUS
<1>2. CASE \E e \in Events : AckWaitExpires(e)
  BY <1>2, <1>1 DEF AckWaitExpires
<1>3. CASE \E w \in Workers, e \in Events : Deliver(w, e)
  BY <1>3, <1>1 DEF Deliver
<1>4. CASE \E w \in Workers : SettleNoMetadata(w)
  BY <1>4, <1>1 DEF SettleNoMetadata, NakWithDelay, Finish, Done, Settled
<1>5. CASE \E w \in Workers : SettleNoCommand(w)
  BY <1>5, <1>1 DEF SettleNoCommand, Ack, Term, Finish, Done, Settled
<1>6. CASE \E w \in Workers : Post(w)
  BY <1>6, <1>1, Applying, Commands, Statuses DEF Post, SettleApplied, Ack, NakWithDelay, Finish, Done, Settled
<1>7. CASE \E w \in Workers : PostRejected(w)
  BY <1>7, <1>1 DEF PostRejected, Term, Finish, Done, Settled
<1>8. CASE \E w \in Workers : PostFails(w)
  BY <1>8, <1>1, Applying, Commands, Statuses DEF PostFails, NextAttempt, NakWithDelay, Finish, Done, Settled
<1>9. CASE \E w \in Workers : Interrupted(w)
  BY <1>9, <1>1 DEF Interrupted
<1>10. CASE \E s \in Scans : ProjectionBuilt(s)
  BY <1>10, <1>1 DEF ProjectionBuilt
<1>11. CASE UNCHANGED vars
  BY <1>11, <1>1 DEF vars
<1>. QED
  BY <1>1, <1>2, <1>3, <1>4, <1>5, <1>6, <1>7, <1>8, <1>9, <1>10, <1>11
     DEF Next, Settle

\* Every step keeps what an acked event promises.
LEMMA VisibleStep == IInv /\ [Next]_vars => AckedIsVisible'
<1> USE EventsTyped, EventsFinite
    DEF IInv, AckedIsVisible, AppliedInv, TypeOK, consumer, settler, store
<1>1. SUFFICES ASSUME IInv, [Next]_vars PROVE AckedIsVisible'
  OBVIOUS
<1>2. CASE \E e \in Events : AckWaitExpires(e)
  BY <1>2, <1>1 DEF AckWaitExpires
<1>3. CASE \E w \in Workers, e \in Events : Deliver(w, e)
  BY <1>3, <1>1 DEF Deliver
<1>4. CASE \E w \in Workers : SettleNoMetadata(w)
  BY <1>4, <1>1 DEF SettleNoMetadata, NakWithDelay, Finish, Done, Settled
<1>5. CASE \E w \in Workers : SettleNoCommand(w)
  BY <1>5, <1>1 DEF SettleNoCommand, Ack, Term, Finish, Done, Settled
<1>6. CASE \E w \in Workers : Post(w)
  BY <1>6, <1>1, Applying, Commands, Statuses DEF Post, SettleApplied, Ack, NakWithDelay, Finish, Done, Settled
<1>7. CASE \E w \in Workers : PostRejected(w)
  BY <1>7, <1>1 DEF PostRejected, Term, Finish, Done, Settled
<1>8. CASE \E w \in Workers : PostFails(w)
  BY <1>8, <1>1, Applying, Commands, Statuses DEF PostFails, NextAttempt, NakWithDelay, Finish, Done, Settled
<1>9. CASE \E w \in Workers : Interrupted(w)
  BY <1>9, <1>1 DEF Interrupted
<1>10. CASE \E s \in Scans : ProjectionBuilt(s)
  BY <1>10, <1>1 DEF ProjectionBuilt
<1>11. CASE UNCHANGED vars
  BY <1>11, <1>1 DEF vars
<1>. QED
  BY <1>1, <1>2, <1>3, <1>4, <1>5, <1>6, <1>7, <1>8, <1>9, <1>10, <1>11
     DEF Next, Settle

\* No step changes a settled row.
LEMMA FinalStep ==
    IInv /\ [Next]_vars => \A s \in Scans : IsTerminal(row[s]) => row'[s] = row[s]
<1> USE EventsTyped, EventsFinite DEF IInv, TypeOK, consumer, settler, store
<1>1. SUFFICES ASSUME IInv, [Next]_vars
               PROVE  \A s \in Scans : IsTerminal(row[s]) => row'[s] = row[s]
  OBVIOUS
<1>2. CASE \E e \in Events : AckWaitExpires(e)
  BY <1>2, <1>1 DEF AckWaitExpires
<1>3. CASE \E w \in Workers, e \in Events : Deliver(w, e)
  BY <1>3, <1>1 DEF Deliver
<1>4. CASE \E w \in Workers : SettleNoMetadata(w)
  BY <1>4, <1>1 DEF SettleNoMetadata, NakWithDelay, Finish, Done, Settled
<1>5. CASE \E w \in Workers : SettleNoCommand(w)
  BY <1>5, <1>1 DEF SettleNoCommand, Ack, Term, Finish, Done, Settled
<1>6. CASE \E w \in Workers : Post(w)
  BY <1>6, <1>1, Applying DEF Post, SettleApplied, Ack, NakWithDelay, Finish, Done, Settled
<1>7. CASE \E w \in Workers : PostRejected(w)
  BY <1>7, <1>1 DEF PostRejected, Term, Finish, Done, Settled
<1>8. CASE \E w \in Workers : PostFails(w)
  BY <1>8, <1>1, Applying DEF PostFails, NextAttempt, NakWithDelay, Finish, Done, Settled
<1>9. CASE \E w \in Workers : Interrupted(w)
  BY <1>9, <1>1 DEF Interrupted
<1>10. CASE \E s \in Scans : ProjectionBuilt(s)
  BY <1>10, <1>1 DEF ProjectionBuilt
<1>11. CASE UNCHANGED vars
  BY <1>11, <1>1 DEF vars
<1>. QED
  BY <1>1, <1>2, <1>3, <1>4, <1>5, <1>6, <1>7, <1>8, <1>9, <1>10, <1>11
     DEF Next, Settle

\* The initial state satisfies the invariant.
LEMMA InitInv == Init => IInv
BY EventsTyped, EventsFinite, BoundsTyped, Statuses
   DEF Init, IInv, TypeOK, MsgStates, AppliedInv, CreditMatchesOutcome, AckedIsVisible,
       DeliveryCap, walletLifecycleAttempts

\* Every step preserves it.
LEMMA Inductive == IInv /\ [Next]_vars => IInv'
BY TypeStep, AppliedStep, CreditStep, VisibleStep DEF IInv

\* IInv is an invariant of the settler.
THEOREM Invariance == Spec => []IInv
BY InitInv, Inductive, PTL DEF Spec

\* quota_action: the credit comes back exactly for the scans that failed,
\* whatever is lost, duplicated, reordered or retried.
THEOREM CreditSafe == Spec => []CreditMatchesOutcome
<1>1. IInv => CreditMatchesOutcome
  BY DEF IInv
<1>. QED
  BY Invariance, <1>1, PTL

\* settle: no event is acked before its effect is visible.
THEOREM AckSafe == Spec => []AckedIsVisible
<1>1. IInv => AckedIsVisible
  BY DEF IInv
<1>. QED
  BY Invariance, <1>1, PTL

\* source_states: a settled scan keeps its outcome.
THEOREM OutcomeFinal == Spec => OutcomeIsFinal
<1>1. IInv /\ [Next]_vars => [\A s \in Scans : IsTerminal(row[s]) => row'[s] = row[s]]_vars
  BY FinalStep
<1>. QED
  BY Invariance, <1>1, PTL DEF Spec, OutcomeIsFinal
=============================================================================
