---------------------- MODULE ScanRequestAbandonerProofs ----------------------
(***************************************************************************)
(* Proofs about the abandoner, for any set of scans and any delays.        *)
(*                                                                         *)
(* The main result bounds how early scan.failed can be published: when the *)
(* delays of POST, of the passes and of the persistence write add up to    *)
(* less than Grace, a served scan is declared failed only if a listing     *)
(* failed while it was watched, or its result was deleted.  The invariant  *)
(* TimingInv is the argument: it bounds the age that missingSince can have *)
(* in each stage of a served request.                                      *)
(***************************************************************************)
EXTENDS ScanRequestAbandoner, TLAPS

\* The longest a pass can start after the one before it.
PassGap == MaxOf(PassEvery, ListDelay)

\* The timing the wait of Grace is sound under.
Timely == PublishDelay + PassGap + ListDelay + ReportDelay < Grace

ClockInv ==
    /\ \A s \in Scans : /\ stage[s] = "reserved" => age[s] <= PublishDelay
                        /\ stage[s] = "reported" => age[s] <= ReportDelay
    /\ pass = "listed" => listAge <= ListDelay
    /\ pass # "listed" => listAge <= PassGap

\* How old the missingSince entry of a served request can be.
TimingInv ==
    \A s \in Watched \ spoiled :
        /\ stage[s] = "reserved" => missing[s] <= age[s]
        /\ stage[s] = "queued" /\ s \notin queued => missing[s] <= PublishDelay + listAge
        /\ stage[s] = "queued" /\ s \in queued =>
              missing[s] <= PublishDelay + PassGap + listAge
        /\ stage[s] = "reported" =>
              missing[s] <= PublishDelay + PassGap + ListDelay + age[s]

\* A reservation is given up only when nothing serves it any more.
GivenUpInv ==
    /\ \A s \in (due \cup sent) \ spoiled : ~StillServed(s)
    /\ \A s \in Scans : stage[s] = "idle" => s \notin ledger /\ row[s] = NoRow
    /\ \A s \in Scans : row[s] = SUCCESS => stage[s] = "closed"
    /\ \A s \in due \cup sent \cup Watched \cup failedEvents : stage[s] # "idle"
    /\ deleted \subseteq spoiled

MemoryInv ==
    /\ sent \subseteq Watched /\ due \subseteq Watched
    /\ (pass # "listed" => queued = {}) /\ (pass # "due" => due = {})
    /\ \A s \in queued : stage[s] # "idle" /\ stage[s] # "reserved"

OnceInv ==
    /\ \A s \in Scans \ spoiled : reports[s] <= 1
    /\ \A s \in due \ spoiled : reports[s] = 0
    /\ \A s \in Scans \ spoiled : reports[s] > 0 => s \in sent \/ s \notin OpenReservations
    /\ \A s \in Scans : reports[s] > 0 => stage[s] # "idle"

IInv == TypeOK /\ ClockInv /\ TimingInv /\ MemoryInv /\ GivenUpInv /\ OnceInv /\ NoFalseReport
-----------------------------------------------------------------------------
(* Types.                                                                  *)

\* The statuses of the model: what is stored and what is terminal.
LEMMA Statuses ==
    /\ SUCCESS \in RowStates /\ FAILED \in RowStates /\ NoRow \in RowStates
    /\ IsTerminal(SUCCESS) /\ IsTerminal(FAILED) /\ ~IsTerminal(NoRow)
    /\ SUCCESS # FAILED /\ SUCCESS # NoRow
BY DEF RowStates, StoredStates, TerminalStates, IsTerminal, SUCCESS, FAILED, TIMEOUT,
   UNREACHABLE, NoRow

\* Every step keeps the types of the variables.
LEMMA TypeStep == TypeOK /\ [Next]_vars => TypeOK'
<1> USE DelaysAreTicks, NoneIsNoAge DEF world, memory, passes, history, TypeOK, Ages,
        Stages
<1>1. SUFFICES ASSUME TypeOK, [Next]_vars PROVE TypeOK'
  OBVIOUS
<1>2. CASE ListStream
  BY <1>2, <1>1 DEF ListStream, Queue
<1>3. CASE ListOpenAndDecide
  BY <1>3, <1>1 DEF ListOpenAndDecide, Track, DueSet, OpenReservations, Watched,
     IsTerminal
<1>4. CASE ListingFails
  BY <1>4, <1>1 DEF ListingFails, Fault, Watched
<1>5. CASE Restart
  BY <1>5, <1>1 DEF Restart
<1>6. CASE Tick
  BY <1>6, <1>1 DEF Tick, AgeCap, MaxOf
<1>7. CASE \E s \in Scans : MessageNotFound(s)
  BY <1>7, <1>1 DEF MessageNotFound, Queue
<1>8. CASE \E s \in Scans : PublishAbandonedScan(s)
  BY <1>8, <1>1 DEF PublishAbandonedScan, Consumed, CountReport, HasAddress
<1>9. CASE \E s \in Scans : CorePublishLost(s)
  BY <1>9, <1>1 DEF CorePublishLost, Consumed, CountReport, Fault
<1>10. CASE \E s \in Scans : AddressMissing(s)
  BY <1>10, <1>1 DEF AddressMissing, Consumed
<1>11. CASE \E s \in Scans : PublishFails(s)
  BY <1>11, <1>1 DEF PublishFails, Fault
<1>12. CASE \E s \in Scans : PostReserves(s)
  BY <1>12, <1>1 DEF PostReserves, Move, Outside
<1>13. CASE \E s \in Scans : PostPublishes(s)
  BY <1>13, <1>1 DEF PostPublishes, Move, Outside
<1>14. CASE \E s \in Scans : PostRollsBack(s)
  BY <1>14, <1>1 DEF PostRollsBack, Move, Outside
<1>15. CASE \E s \in Scans : PostCrashes(s)
  BY <1>15, <1>1 DEF PostCrashes, Move, Outside
<1>16. CASE \E s \in Scans : RequestLost(s)
  BY <1>16, <1>1 DEF RequestLost, Move, Outside
<1>17. CASE \E s \in Scans : ScannerReports(s)
  BY <1>17, <1>1 DEF ScannerReports, Move, Outside
<1>18. CASE \E s \in Scans : ApplyCompleted(s)
  BY <1>18, <1>1, Statuses DEF ApplyCompleted, Move, Outside
<1>19. CASE \E s \in Scans : ApplyFailed(s)
  BY <1>19, <1>1, Statuses DEF ApplyFailed, Outside
<1>20. CASE \E s \in Scans : DeleteScan(s)
  BY <1>20, <1>1 DEF DeleteScan, Outside
<1>21. CASE UNCHANGED vars
  BY <1>21, <1>1 DEF vars
<1> HIDE DEF world, memory, passes, history, TypeOK, Ages, Stages
<1>. QED
  BY <1>1, <1>2, <1>3, <1>4, <1>5, <1>6, <1>7, <1>8, <1>9, <1>10, <1>11, <1>12, <1>13,
     <1>14, <1>15, <1>16, <1>17, <1>18, <1>19, <1>20, <1>21 DEF Next, PassStep,
     WorldStep

-----------------------------------------------------------------------------
(* The memory of the abandoner, for any delays and faults.                 *)

\* Due: a reported id is always a watched one, because only watched ids are
\* ever forgotten; a sent id outside missingSince would stay for ever.
SentIsWatched == sent \subseteq Watched

\* The ids of a pass are watched, and so are the reported ones.
WatchInv == sent \subseteq Watched /\ due \subseteq Watched

\* Every step keeps WatchInv: only Due forgets, and it forgets both or none.
LEMMA WatchStep == TypeOK /\ WatchInv /\ [Next]_vars => WatchInv'
<1> USE DelaysAreTicks, NoneIsNoAge DEF world, memory, passes, history, TypeOK,
        WatchInv, Watched, Ages
<1>1. SUFFICES ASSUME TypeOK, WatchInv, [Next]_vars PROVE WatchInv'
  OBVIOUS
<1>2. CASE ListStream
  BY <1>2, <1>1 DEF ListStream, Queue
<1>3. CASE ListOpenAndDecide
  BY <1>3, <1>1 DEF ListOpenAndDecide, Track, DueSet, OpenReservations, IsTerminal
<1>4. CASE ListingFails
  BY <1>4, <1>1 DEF ListingFails, Fault
<1>5. CASE Restart
  BY <1>5, <1>1 DEF Restart
<1>6. CASE Tick
  BY <1>6, <1>1 DEF Tick, AgeCap, MaxOf
<1>7. CASE \E s \in Scans : MessageNotFound(s)
  BY <1>7, <1>1 DEF MessageNotFound, Queue
<1>8. CASE \E s \in Scans : PublishAbandonedScan(s)
  BY <1>8, <1>1 DEF PublishAbandonedScan, Consumed, CountReport, HasAddress
<1>9. CASE \E s \in Scans : CorePublishLost(s)
  BY <1>9, <1>1 DEF CorePublishLost, Consumed, CountReport, Fault
<1>10. CASE \E s \in Scans : AddressMissing(s)
  BY <1>10, <1>1 DEF AddressMissing, Consumed
<1>11. CASE \E s \in Scans : PublishFails(s)
  BY <1>11, <1>1 DEF PublishFails, Fault
<1>12. CASE \E s \in Scans : PostReserves(s)
  BY <1>12, <1>1 DEF PostReserves, Move, Outside
<1>13. CASE \E s \in Scans : PostPublishes(s)
  BY <1>13, <1>1 DEF PostPublishes, Move, Outside
<1>14. CASE \E s \in Scans : PostRollsBack(s)
  BY <1>14, <1>1 DEF PostRollsBack, Move, Outside
<1>15. CASE \E s \in Scans : PostCrashes(s)
  BY <1>15, <1>1 DEF PostCrashes, Move, Outside
<1>16. CASE \E s \in Scans : RequestLost(s)
  BY <1>16, <1>1 DEF RequestLost, Move, Outside
<1>17. CASE \E s \in Scans : ScannerReports(s)
  BY <1>17, <1>1 DEF ScannerReports, Move, Outside
<1>18. CASE \E s \in Scans : ApplyCompleted(s)
  BY <1>18, <1>1 DEF ApplyCompleted, Move, Outside
<1>19. CASE \E s \in Scans : ApplyFailed(s)
  BY <1>19, <1>1 DEF ApplyFailed, Outside
<1>20. CASE \E s \in Scans : DeleteScan(s)
  BY <1>20, <1>1 DEF DeleteScan, Outside
<1>21. CASE UNCHANGED vars
  BY <1>21, <1>1 DEF vars
<1> HIDE DEF world, memory, passes, history, TypeOK, WatchInv, Watched, Ages
<1>. QED
  BY <1>1, <1>2, <1>3, <1>4, <1>5, <1>6, <1>7, <1>8, <1>9, <1>10, <1>11, <1>12, <1>13,
     <1>14, <1>15, <1>16, <1>17, <1>18, <1>19, <1>20, <1>21 DEF Next, PassStep,
     WorldStep

\* The initial state has the types and an empty memory.
LEMMA InitWatch == Init => TypeOK /\ WatchInv
BY DelaysAreTicks, NoneIsNoAge DEF Init, TypeOK, WatchInv, Watched, Ages, Stages,
   RowStates, StoredStates, NoRow

\* Due: a reported id stays watched until it is forgotten, whatever the
\* delays, the faults and the number of restarts: sent does not leak.
THEOREM SentWatched == Spec => []SentIsWatched
<1>1. WatchInv => SentIsWatched
  BY DEF WatchInv, SentIsWatched
<1>. QED
  BY InitWatch, TypeStep, WatchStep, <1>1, PTL DEF Spec

-----------------------------------------------------------------------------
(* The wait.                                                               *)

\* The pass period and the listing delay are within the gap of two passes.
LEMMA GapBounds == PassGap \in Nat /\ PassEvery <= PassGap /\ ListDelay <= PassGap
BY DelaysAreTicks DEF PassGap, MaxOf

\* The cap of the ages is beyond both deadlines.
LEMMA CapBounds == AgeCap \in Nat /\ PublishDelay <= AgeCap /\ ReportDelay <= AgeCap
BY DelaysAreTicks DEF AgeCap, MaxOf

\* A stage and a pass never outlast their delay.
LEMMA ClockStep == Timely /\ IInv /\ [Next]_vars => ClockInv'
<1> USE DelaysAreTicks, NoneIsNoAge, GapBounds, CapBounds DEF world, memory, passes,
        history, IInv, TypeOK, ClockInv
<1>1. SUFFICES ASSUME Timely, IInv, [Next]_vars PROVE ClockInv'
  OBVIOUS
<1>2. CASE ListStream
  BY <1>2, <1>1 DEF ListStream, Queue
<1>3. CASE ListOpenAndDecide
  BY <1>3, <1>1 DEF ListOpenAndDecide, Track, DueSet, OpenReservations, Watched
<1>4. CASE ListingFails
  BY <1>4, <1>1 DEF ListingFails, Fault
<1>5. CASE Restart
  BY <1>5, <1>1 DEF Restart
<1>6. CASE Tick
  BY <1>6, <1>1 DEF Tick
<1>7. CASE \E s \in Scans : MessageNotFound(s)
  BY <1>7, <1>1 DEF MessageNotFound, Queue
<1>8. CASE \E s \in Scans : PublishAbandonedScan(s)
  BY <1>8, <1>1 DEF PublishAbandonedScan, Consumed, CountReport
<1>9. CASE \E s \in Scans : CorePublishLost(s)
  BY <1>9, <1>1 DEF CorePublishLost, Consumed, CountReport
<1>10. CASE \E s \in Scans : AddressMissing(s)
  BY <1>10, <1>1 DEF AddressMissing, Consumed
<1>11. CASE \E s \in Scans : PublishFails(s)
  BY <1>11, <1>1 DEF PublishFails
<1>12. CASE \E s \in Scans : PostReserves(s)
  BY <1>12, <1>1 DEF PostReserves, Move, Outside
<1>13. CASE \E s \in Scans : PostPublishes(s)
  BY <1>13, <1>1 DEF PostPublishes, Move, Outside
<1>14. CASE \E s \in Scans : PostRollsBack(s)
  BY <1>14, <1>1 DEF PostRollsBack, Move, Outside
<1>15. CASE \E s \in Scans : PostCrashes(s)
  BY <1>15, <1>1 DEF PostCrashes, Move, Outside
<1>16. CASE \E s \in Scans : RequestLost(s)
  BY <1>16, <1>1 DEF RequestLost, Move, Outside
<1>17. CASE \E s \in Scans : ScannerReports(s)
  BY <1>17, <1>1 DEF ScannerReports, Move, Outside
<1>18. CASE \E s \in Scans : ApplyCompleted(s)
  BY <1>18, <1>1 DEF ApplyCompleted, Move, Outside
<1>19. CASE \E s \in Scans : ApplyFailed(s)
  BY <1>19, <1>1 DEF ApplyFailed, Outside
<1>20. CASE \E s \in Scans : DeleteScan(s)
  BY <1>20, <1>1 DEF DeleteScan, Outside
<1>21. CASE UNCHANGED vars
  BY <1>21, <1>1 DEF vars
<1> HIDE DEF world, memory, passes, history, IInv, TypeOK, ClockInv
<1>. QED
  BY <1>1, <1>2, <1>3, <1>4, <1>5, <1>6, <1>7, <1>8, <1>9, <1>10, <1>11, <1>12, <1>13,
     <1>14, <1>15, <1>16, <1>17, <1>18, <1>19, <1>20, <1>21 DEF Next, PassStep,
     WorldStep

\* The ages of missingSince keep their bounds.
LEMMA TimingStep == Timely /\ IInv /\ [Next]_vars => TimingInv'
<1> USE DelaysAreTicks, NoneIsNoAge, GapBounds, CapBounds DEF world, memory, passes,
        history, IInv, TypeOK, Ages, ClockInv, TimingInv, MemoryInv, GivenUpInv,
        StillServed, Watched
<1>1. SUFFICES ASSUME Timely, IInv, [Next]_vars PROVE TimingInv'
  OBVIOUS
<1>2. CASE ListStream
  BY <1>2, <1>1 DEF ListStream, Queue
<1>3. CASE ListOpenAndDecide
  BY <1>3, <1>1 DEF ListOpenAndDecide, Track, DueSet, OpenReservations
<1>4. CASE ListingFails
  BY <1>4, <1>1 DEF ListingFails, Fault
<1>5. CASE Restart
  BY <1>5, <1>1 DEF Restart
<1>6. CASE Tick
  BY <1>6, <1>1 DEF Tick
<1>7. CASE \E s \in Scans : MessageNotFound(s)
  BY <1>7, <1>1 DEF MessageNotFound, Queue
<1>8. CASE \E s \in Scans : PublishAbandonedScan(s)
  BY <1>8, <1>1 DEF PublishAbandonedScan, Consumed, CountReport
<1>9. CASE \E s \in Scans : CorePublishLost(s)
  BY <1>9, <1>1 DEF CorePublishLost, Consumed, CountReport
<1>10. CASE \E s \in Scans : AddressMissing(s)
  BY <1>10, <1>1 DEF AddressMissing, Consumed
<1>11. CASE \E s \in Scans : PublishFails(s)
  BY <1>11, <1>1 DEF PublishFails
<1>12. CASE \E s \in Scans : PostReserves(s)
  BY <1>12, <1>1 DEF PostReserves, Move, Outside
<1>13. CASE \E s \in Scans : PostPublishes(s)
  BY <1>13, <1>1 DEF PostPublishes, Move, Outside
<1>14. CASE \E s \in Scans : PostRollsBack(s)
  BY <1>14, <1>1 DEF PostRollsBack, Move, Outside
<1>15. CASE \E s \in Scans : PostCrashes(s)
  BY <1>15, <1>1 DEF PostCrashes, Move, Outside
<1>16. CASE \E s \in Scans : RequestLost(s)
  BY <1>16, <1>1 DEF RequestLost, Move, Outside
<1>17. CASE \E s \in Scans : ScannerReports(s)
  BY <1>17, <1>1 DEF ScannerReports, Move, Outside
<1>18. CASE \E s \in Scans : ApplyCompleted(s)
  BY <1>18, <1>1 DEF ApplyCompleted, Move, Outside
<1>19. CASE \E s \in Scans : ApplyFailed(s)
  BY <1>19, <1>1 DEF ApplyFailed, Outside
<1>20. CASE \E s \in Scans : DeleteScan(s)
  BY <1>20, <1>1 DEF DeleteScan, Outside
<1>21. CASE UNCHANGED vars
  BY <1>21, <1>1 DEF vars
<1> HIDE DEF world, memory, passes, history, IInv, TypeOK, Ages, ClockInv, TimingInv,
        MemoryInv, GivenUpInv, StillServed, Watched
<1>. QED
  BY <1>1, <1>2, <1>3, <1>4, <1>5, <1>6, <1>7, <1>8, <1>9, <1>10, <1>11, <1>12, <1>13,
     <1>14, <1>15, <1>16, <1>17, <1>18, <1>19, <1>20, <1>21 DEF Next, PassStep,
     WorldStep

\* The sets of a pass keep their shape.
LEMMA MemoryStep == Timely /\ IInv /\ [Next]_vars => MemoryInv'
<1> USE DelaysAreTicks, NoneIsNoAge DEF world, memory, passes, history, IInv, TypeOK,
        Ages, MemoryInv, GivenUpInv, Watched, Timely, Fault
<1>1. SUFFICES ASSUME Timely, IInv, [Next]_vars PROVE MemoryInv'
  OBVIOUS
<1>2. CASE ListStream
  BY <1>2, <1>1 DEF ListStream, Queue
<1>3. CASE ListOpenAndDecide
  BY <1>3, <1>1 DEF ListOpenAndDecide, Track, DueSet, OpenReservations
<1>4. CASE ListingFails
  BY <1>4, <1>1 DEF ListingFails
<1>5. CASE Restart
  BY <1>5, <1>1 DEF Restart
<1>6. CASE Tick
  BY <1>6, <1>1 DEF Tick, AgeCap
<1>7. CASE \E s \in Scans : MessageNotFound(s)
  BY <1>7, <1>1 DEF MessageNotFound, Queue
<1>8. CASE \E s \in Scans : PublishAbandonedScan(s)
  BY <1>8, <1>1 DEF PublishAbandonedScan, Consumed, CountReport
<1>9. CASE \E s \in Scans : CorePublishLost(s)
  BY <1>9, <1>1 DEF CorePublishLost, Consumed, CountReport
<1>10. CASE \E s \in Scans : AddressMissing(s)
  BY <1>10, <1>1 DEF AddressMissing, Consumed
<1>11. CASE \E s \in Scans : PublishFails(s)
  BY <1>11, <1>1 DEF PublishFails
<1>12. CASE \E s \in Scans : PostReserves(s)
  BY <1>12, <1>1 DEF PostReserves, Move, Outside
<1>13. CASE \E s \in Scans : PostPublishes(s)
  BY <1>13, <1>1 DEF PostPublishes, Move, Outside
<1>14. CASE \E s \in Scans : PostRollsBack(s)
  BY <1>14, <1>1 DEF PostRollsBack, Move, Outside
<1>15. CASE \E s \in Scans : PostCrashes(s)
  BY <1>15, <1>1 DEF PostCrashes, Move, Outside
<1>16. CASE \E s \in Scans : RequestLost(s)
  BY <1>16, <1>1 DEF RequestLost, Move, Outside
<1>17. CASE \E s \in Scans : ScannerReports(s)
  BY <1>17, <1>1 DEF ScannerReports, Move, Outside
<1>18. CASE \E s \in Scans : ApplyCompleted(s)
  BY <1>18, <1>1 DEF ApplyCompleted, Move, Outside
<1>19. CASE \E s \in Scans : ApplyFailed(s)
  BY <1>19, <1>1 DEF ApplyFailed, Outside
<1>20. CASE \E s \in Scans : DeleteScan(s)
  BY <1>20, <1>1 DEF DeleteScan, Outside
<1>21. CASE UNCHANGED vars
  BY <1>21, <1>1 DEF vars
<1> HIDE DEF world, memory, passes, history, IInv, TypeOK, Ages, MemoryInv,
        GivenUpInv, Watched, Timely, Fault
<1>. QED
  BY <1>1, <1>2, <1>3, <1>4, <1>5, <1>6, <1>7, <1>8, <1>9, <1>10, <1>11, <1>12, <1>13,
     <1>14, <1>15, <1>16, <1>17, <1>18, <1>19, <1>20, <1>21 DEF Next, PassStep,
     WorldStep

\* What is given up is served by nobody, and stays so.
LEMMA GivenUpStep == Timely /\ IInv /\ [Next]_vars => GivenUpInv'
<1> USE DelaysAreTicks, NoneIsNoAge, GapBounds, Statuses DEF world, memory, passes,
        history, IInv, TypeOK, Ages, ClockInv, TimingInv, MemoryInv, GivenUpInv,
        StillServed, Watched, Timely
<1>1. SUFFICES ASSUME Timely, IInv, [Next]_vars PROVE GivenUpInv'
  OBVIOUS
<1>2. CASE ListStream
  BY <1>2, <1>1 DEF ListStream, Queue
<1>3. CASE ListOpenAndDecide
  BY <1>3, <1>1 DEF ListOpenAndDecide, Track, DueSet, OpenReservations
<1>4. CASE ListingFails
  BY <1>4, <1>1 DEF ListingFails, Fault
<1>5. CASE Restart
  BY <1>5, <1>1 DEF Restart
<1>6. CASE Tick
  BY <1>6, <1>1 DEF Tick, AgeCap
<1>7. CASE \E s \in Scans : MessageNotFound(s)
  BY <1>7, <1>1 DEF MessageNotFound, Queue
<1>8. CASE \E s \in Scans : PublishAbandonedScan(s)
  BY <1>8, <1>1 DEF PublishAbandonedScan, Consumed, CountReport
<1>9. CASE \E s \in Scans : CorePublishLost(s)
  BY <1>9, <1>1 DEF CorePublishLost, Consumed, CountReport
<1>10. CASE \E s \in Scans : AddressMissing(s)
  BY <1>10, <1>1 DEF AddressMissing, Consumed
<1>11. CASE \E s \in Scans : PublishFails(s)
  BY <1>11, <1>1 DEF PublishFails
<1>12. CASE \E s \in Scans : PostReserves(s)
  BY <1>12, <1>1 DEF PostReserves, Move, Outside
<1>13. CASE \E s \in Scans : PostPublishes(s)
  BY <1>13, <1>1 DEF PostPublishes, Move, Outside
<1>14. CASE \E s \in Scans : PostRollsBack(s)
  BY <1>14, <1>1 DEF PostRollsBack, Move, Outside
<1>15. CASE \E s \in Scans : PostCrashes(s)
  BY <1>15, <1>1 DEF PostCrashes, Move, Outside
<1>16. CASE \E s \in Scans : RequestLost(s)
  BY <1>16, <1>1 DEF RequestLost, Move, Outside
<1>17. CASE \E s \in Scans : ScannerReports(s)
  BY <1>17, <1>1 DEF ScannerReports, Move, Outside
<1>18. CASE \E s \in Scans : ApplyCompleted(s)
  BY <1>18, <1>1 DEF ApplyCompleted, Move, Outside
<1>19. CASE \E s \in Scans : ApplyFailed(s)
  BY <1>19, <1>1 DEF ApplyFailed, Outside
<1>20. CASE \E s \in Scans : DeleteScan(s)
  BY <1>20, <1>1 DEF DeleteScan, Outside
<1>21. CASE UNCHANGED vars
  BY <1>21, <1>1 DEF vars
<1> HIDE DEF world, memory, passes, history, IInv, TypeOK, Ages, ClockInv, TimingInv,
        MemoryInv, GivenUpInv, StillServed, Watched, Timely
<1>. QED
  BY <1>1, <1>2, <1>3, <1>4, <1>5, <1>6, <1>7, <1>8, <1>9, <1>10, <1>11, <1>12, <1>13,
     <1>14, <1>15, <1>16, <1>17, <1>18, <1>19, <1>20, <1>21 DEF Next, PassStep,
     WorldStep

\* A scan is reported once.
LEMMA OnceStep == Timely /\ IInv /\ [Next]_vars => OnceInv'
<1> USE DelaysAreTicks, NoneIsNoAge, Statuses DEF world, memory, passes, history,
        IInv, TypeOK, MemoryInv, GivenUpInv, OnceInv, OpenReservations, Timely
<1>1. SUFFICES ASSUME Timely, IInv, [Next]_vars PROVE OnceInv'
  OBVIOUS
<1>2. CASE ListStream
  BY <1>2, <1>1 DEF ListStream, Queue
<1>3. CASE ListOpenAndDecide
  BY <1>3, <1>1 DEF ListOpenAndDecide, Track, DueSet, Watched
<1>4. CASE ListingFails
  BY <1>4, <1>1 DEF ListingFails, Fault
<1>5. CASE Restart
  BY <1>5, <1>1 DEF Restart
<1>6. CASE Tick
  BY <1>6, <1>1 DEF Tick, AgeCap
<1>7. CASE \E s \in Scans : MessageNotFound(s)
  BY <1>7, <1>1 DEF MessageNotFound, Queue
<1>8. CASE \E s \in Scans : PublishAbandonedScan(s)
  BY <1>8, <1>1 DEF PublishAbandonedScan, Consumed, CountReport
<1>9. CASE \E s \in Scans : CorePublishLost(s)
  BY <1>9, <1>1 DEF CorePublishLost, Consumed, CountReport
<1>10. CASE \E s \in Scans : AddressMissing(s)
  BY <1>10, <1>1 DEF AddressMissing, Consumed
<1>11. CASE \E s \in Scans : PublishFails(s)
  BY <1>11, <1>1 DEF PublishFails
<1>12. CASE \E s \in Scans : PostReserves(s)
  BY <1>12, <1>1 DEF PostReserves, Move, Outside
<1>13. CASE \E s \in Scans : PostPublishes(s)
  BY <1>13, <1>1 DEF PostPublishes, Move, Outside
<1>14. CASE \E s \in Scans : PostRollsBack(s)
  BY <1>14, <1>1 DEF PostRollsBack, Move, Outside
<1>15. CASE \E s \in Scans : PostCrashes(s)
  BY <1>15, <1>1 DEF PostCrashes, Move, Outside
<1>16. CASE \E s \in Scans : RequestLost(s)
  BY <1>16, <1>1 DEF RequestLost, Move, Outside
<1>17. CASE \E s \in Scans : ScannerReports(s)
  BY <1>17, <1>1 DEF ScannerReports, Move, Outside
<1>18. CASE \E s \in Scans : ApplyCompleted(s)
  BY <1>18, <1>1 DEF ApplyCompleted, Move, Outside
<1>19. CASE \E s \in Scans : ApplyFailed(s)
  BY <1>19, <1>1 DEF ApplyFailed, Outside
<1>20. CASE \E s \in Scans : DeleteScan(s)
  BY <1>20, <1>1 DEF DeleteScan, Outside
<1>21. CASE UNCHANGED vars
  BY <1>21, <1>1 DEF vars
<1> HIDE DEF world, memory, passes, history, IInv, TypeOK, MemoryInv, GivenUpInv,
        OnceInv, OpenReservations, Timely
<1>. QED
  BY <1>1, <1>2, <1>3, <1>4, <1>5, <1>6, <1>7, <1>8, <1>9, <1>10, <1>11, <1>12, <1>13,
     <1>14, <1>15, <1>16, <1>17, <1>18, <1>19, <1>20, <1>21 DEF Next, PassStep,
     WorldStep

\* What is published was given up.
LEMMA ReportStep == Timely /\ IInv /\ [Next]_vars => NoFalseReport'
<1> USE DelaysAreTicks, NoneIsNoAge DEF world, memory, passes, history, IInv,
        GivenUpInv, NoFalseReport, MemoryInv, TypeOK
<1>1. SUFFICES ASSUME Timely, IInv, [Next]_vars PROVE NoFalseReport'
  OBVIOUS
<1>2. CASE ListStream
  BY <1>2, <1>1 DEF ListStream, Queue
<1>3. CASE ListOpenAndDecide
  BY <1>3, <1>1 DEF ListOpenAndDecide, Track, DueSet, OpenReservations, Watched
<1>4. CASE ListingFails
  BY <1>4, <1>1 DEF ListingFails, Fault
<1>5. CASE Restart
  BY <1>5, <1>1 DEF Restart
<1>6. CASE Tick
  BY <1>6, <1>1 DEF Tick, AgeCap
<1>7. CASE \E s \in Scans : MessageNotFound(s)
  BY <1>7, <1>1 DEF MessageNotFound, Queue
<1>8. CASE \E s \in Scans : PublishAbandonedScan(s)
  BY <1>8, <1>1 DEF PublishAbandonedScan, Consumed, CountReport
<1>9. CASE \E s \in Scans : CorePublishLost(s)
  BY <1>9, <1>1 DEF CorePublishLost, Consumed, CountReport
<1>10. CASE \E s \in Scans : AddressMissing(s)
  BY <1>10, <1>1 DEF AddressMissing, Consumed
<1>11. CASE \E s \in Scans : PublishFails(s)
  BY <1>11, <1>1 DEF PublishFails
<1>12. CASE \E s \in Scans : PostReserves(s)
  BY <1>12, <1>1 DEF PostReserves, Move, Outside
<1>13. CASE \E s \in Scans : PostPublishes(s)
  BY <1>13, <1>1 DEF PostPublishes, Move, Outside
<1>14. CASE \E s \in Scans : PostRollsBack(s)
  BY <1>14, <1>1 DEF PostRollsBack, Move, Outside
<1>15. CASE \E s \in Scans : PostCrashes(s)
  BY <1>15, <1>1 DEF PostCrashes, Move, Outside
<1>16. CASE \E s \in Scans : RequestLost(s)
  BY <1>16, <1>1 DEF RequestLost, Move, Outside
<1>17. CASE \E s \in Scans : ScannerReports(s)
  BY <1>17, <1>1 DEF ScannerReports, Move, Outside
<1>18. CASE \E s \in Scans : ApplyCompleted(s)
  BY <1>18, <1>1 DEF ApplyCompleted, Move, Outside
<1>19. CASE \E s \in Scans : ApplyFailed(s)
  BY <1>19, <1>1 DEF ApplyFailed, Outside
<1>20. CASE \E s \in Scans : DeleteScan(s)
  BY <1>20, <1>1 DEF DeleteScan, Outside
<1>21. CASE UNCHANGED vars
  BY <1>21, <1>1 DEF vars
<1> HIDE DEF world, memory, passes, history, IInv, GivenUpInv, NoFalseReport,
        MemoryInv, TypeOK
<1>. QED
  BY <1>1, <1>2, <1>3, <1>4, <1>5, <1>6, <1>7, <1>8, <1>9, <1>10, <1>11, <1>12, <1>13,
     <1>14, <1>15, <1>16, <1>17, <1>18, <1>19, <1>20, <1>21 DEF Next, PassStep,
     WorldStep

\* The initial state satisfies the invariant.
LEMMA InitInv == Init => IInv
BY InitWatch, GapBounds, DelaysAreTicks, NoneIsNoAge, Statuses
   DEF Init, IInv, ClockInv, TimingInv, MemoryInv, GivenUpInv, OnceInv, NoFalseReport,
       Watched, OpenReservations

\* Every step keeps the invariant.
LEMMA NextInv == Timely /\ IInv /\ [Next]_vars => IInv'
<1>1. SUFFICES ASSUME Timely, IInv, [Next]_vars PROVE IInv'
  OBVIOUS
<1>2. TypeOK'
  BY <1>1, TypeStep DEF IInv
<1>. QED
  BY <1>1, <1>2, ClockStep, TimingStep, MemoryStep, GivenUpStep, OnceStep, ReportStep
     DEF IInv

\* The wait covers the gap: when the delays of POST, of two passes and of the
\* persistence write add up to less than Grace, scan.failed is published for a
\* scan that is still served only after a listing failed while it was watched,
\* or after its result was deleted.
THEOREM GraceSuffices == Timely /\ Spec => []NoFalseReport
<1>1. SUFFICES ASSUME Timely PROVE Spec => []NoFalseReport
  OBVIOUS
<1>2. IInv /\ [Next]_vars => IInv'
  BY <1>1, NextInv
<1>3. IInv => NoFalseReport
  BY DEF IInv
<1>. QED
  BY InitInv, <1>2, <1>3, PTL DEF Spec

\* MarkSent: under the same timing each process reports a scan at most once.
THEOREM ReportsOnce == Timely /\ Spec => []ReportedOnce
<1>1. SUFFICES ASSUME Timely PROVE Spec => []ReportedOnce
  OBVIOUS
<1>2. IInv /\ [Next]_vars => IInv'
  BY <1>1, NextInv
<1>3. IInv => ReportedOnce
  BY DEF IInv, OnceInv, ReportedOnce
<1>. QED
  BY InitInv, <1>2, <1>3, PTL DEF Spec
=============================================================================
