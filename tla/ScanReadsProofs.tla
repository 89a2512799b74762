--------------------------- MODULE ScanReadsProofs ---------------------------
(***************************************************************************)
(* The reads of scans for any scans, users, readers and faults.            *)
(*                                                                         *)
(* PhaseInv says what a request has found when it goes on to its second    *)
(* look-up, SeenInv that its history holds the gaps of the moment, FloorInv*)
(* that the answers given before it were not ahead of the row, and         *)
(* AnswerInv that its own answer is not and fits the rest.  A row only     *)
(* moves forward, so that later answers are no less advanced.              *)
(***************************************************************************)
EXTENDS ScanReads, TLAPS

Written == {PENDING, RUNNING, SUCCESS, FAILED}

\* How far a row has come, as the API shows it.
RowRank(st) == IF st = NoRow THEN 0 ELSE Rank(LifecycleStatus(st))

Words == {"none", "requested", "started", "completed", "failed", "cbom", "absent",
          "allowed", "forbidden", "notVisible"}

Running(r) == pc[r] \in {"row", "pending", "wallet", "tls"}

TypeInv ==
    /\ row \in [Scans -> Written \cup {NoRow}]
    /\ deleted \subseteq erased /\ erased \subseteq Scans /\ pending \subseteq Scans
    /\ pc \in [Readers -> {"new", "row", "pending", "wallet", "tls", "done"}]
    /\ req \in [Readers -> Asks \cup {None}]
    /\ resp \in [Readers -> [status : {"none", "200", "403", "404", "5xx", "refused"}, word : Words]]
    /\ floor \in [Readers -> 0 .. 2]
    /\ seen \in [Readers -> SUBSET {"rowless", "absent", "arrived"}]

\* The asker may see the scan of the request.
Entitled(r) ==
    /\ Family[req[r].scan] = req[r].family
    /\ Owner[req[r].scan] \in {req[r].user, "default"}

\* What a request has found.
PhaseOf(r) ==
    /\ pc[r] = "new" => req[r] = None
    /\ Running(r) => req[r] \in Asks
    /\ pc[r] \in {"wallet", "tls"} => req[r].op = "canRead"
    /\ pc[r] \in {"row", "pending"} => req[r].op # "canRead"
    /\ pc[r] = "tls" /\ Family[req[r].scan] = "wallet" => "rowless" \in seen[r]
    /\ pc[r] = "pending" /\ Entitled(r) =>
          /\ ~Visible(req[r].scan) \/ "arrived" \in seen[r]
          /\ req[r].scan \in erased \/ floor[r] = 0

\* The gaps of the moment are in the history of a request that runs.
SeenOf(r) ==
    Running(r) /\ ~Visible(req[r].scan) =>
        /\ "rowless" \in seen[r]
        /\ req[r].scan \notin pending => "absent" \in seen[r]

\* The answers before a request were not ahead of the row.
FloorOf(r) == pc[r] # "new" /\ req[r] # None => floor[r] <= RowRank(row[req[r].scan])

\* Nor is its own answer.
Covered(r) ==
    /\ Rank(resp[r].word) <= RowRank(row[req[r].scan])
    /\ Rank(resp[r].word) = 2 => resp[r].word = LifecycleStatus(row[req[r].scan])

\* An answer fits the owner, the row and the history of the request, and is not
\* behind the answers given before.
Fitting(r, st, w) ==
    LET q == req[r]
        s == req[r].scan
    IN  /\ st = "200" /\ w # "absent" => Owner[s] \in {q.user, "default"}
        /\ q.op = "canRead" /\ st = "403" /\ Owner[s] \in {q.user, "default"} =>
              w = "notVisible" /\ "rowless" \in seen[r]
        /\ q.op = "detail" /\ st = "404" /\ Owner[s] = q.user /\ Family[s] = q.family =>
              seen[r] \cap {"absent", "arrived"} # {}
        /\ q.op = "cbom" /\ st = "200" => row[s] = SUCCESS
        /\ /\ q.op \in {"detail", "list", "defaults"} /\ st = "200" /\ s \notin erased
           /\ q.op \in {"list", "defaults"} =>
                 /\ Family[s] = q.family
                 /\ Owner[s] = IF q.op = "list" THEN q.user ELSE "default"
           => Rank(w) >= floor[r]

AnswerOf(r) ==
    pc[r] = "done" /\ req[r] # None => Covered(r) /\ Fitting(r, resp[r].status, resp[r].word)

PhaseInv  == \A r \in Readers : PhaseOf(r)
SeenInv   == \A r \in Readers : SeenOf(r)
FloorInv  == \A r \in Readers : FloorOf(r)
AnswerInv == \A r \in Readers : AnswerOf(r)

IInv == TypeInv /\ PhaseInv /\ SeenInv /\ FloorInv /\ AnswerInv

-----------------------------------------------------------------------------
\* The statuses and their words.
LEMMA StatusFacts ==
    /\ NoRow \notin Written /\ ~IsTerminal(NoRow)
    /\ RowRank(NoRow) = 0 /\ \A st \in Written : RowRank(st) = Rank(LifecycleStatus(st))
    /\ \A st \in Written : LifecycleStatus(st) \in {"requested", "started", "completed", "failed"}
    /\ \A st \in Written \cup {NoRow} : RowRank(st) \in 0 .. 2
    /\ \A st \in Written : RowRank(st) = 2 => IsTerminal(st)
    /\ \A w : Rank(w) \in 0 .. 2
    /\ \A w \in Words \ {"completed", "failed", "started"} : Rank(w) = 0
    /\ Rank("started") = 1 /\ Rank("completed") = 2 /\ Rank("failed") = 2
    /\ SUCCESS \in Written /\ IsTerminal(SUCCESS)
    /\ \A from, to \in Written :
          ValidTransition(from, to) => ~IsTerminal(from) /\ RowRank(from) <= RowRank(to)
    /\ \A to \in Written : ~ValidTransition(NoRow, to)
BY DEF Written, RowRank, Rank, LifecycleStatus, IsTerminal, TerminalStates, ValidTransition,
   Words, PENDING, RUNNING, SUCCESS, FAILED, TIMEOUT, UNREACHABLE, NoRow

\* What every step of persistence does.
Forward(x) ==
    \/ row'[x] = row[x]
    \/ /\ ~IsTerminal(row[x]) /\ row'[x] \in Written /\ RowRank(row[x]) <= RowRank(row'[x])

LEMMA StoreSummary ==
    ASSUME TypeInv, NEW s \in Scans, StoreStep(s)
    PROVE  /\ UNCHANGED readers
           /\ row' \in [Scans -> Written \cup {NoRow}]
           /\ deleted' \subseteq erased' /\ erased' \subseteq Scans /\ pending' \subseteq Scans
           /\ deleted \subseteq deleted' /\ erased \subseteq erased'
           /\ \A x \in Scans : Forward(x)
           /\ \A x \in Scans : x # s =>
                 /\ row'[x] = row[x] /\ (x \in deleted' <=> x \in deleted)
                 /\ (x \in pending' <=> x \in pending)
           /\ seen' \in [Readers -> SUBSET {"rowless", "absent", "arrived"}]
           /\ \A r \in Readers : seen[r] \subseteq seen'[r]
           /\ \A r \in Readers : Running(r) /\ req[r].scan = s =>
                 /\ ~(row'[s] # NoRow /\ s \notin deleted') => "rowless" \in seen'[r]
                 /\ ~(row'[s] # NoRow /\ s \notin deleted') /\ s \notin pending' => "absent" \in seen'[r]
                 /\ row[s] = NoRow /\ row'[s] # NoRow => "arrived" \in seen'[r]
<1> USE DEF TypeInv
<1>1. UNCHANGED readers /\ Observed(s)
  BY Zenon DEF StoreStep, Accepted, DropPending, HideRow, ClearPending, WriteRow, Observed
<1>2. /\ row' \in [Scans -> Written \cup {NoRow}]
      /\ \A x \in Scans : Forward(x) /\ (x # s => row'[x] = row[x])
  <2>1. CASE UNCHANGED row
    BY <2>1, Zenon DEF Forward
  <2>2. CASE \E st \in {PENDING, RUNNING, SUCCESS, FAILED} : WriteRow(s, st)
    <3>1. PICK st \in Written : WriteRow(s, st)
      BY <2>2, Zenon DEF Written
    <3>2. row' = [row EXCEPT ![s] = st] /\ (row[s] = NoRow \/ ValidTransition(row[s], st))
      BY <3>1, Zenon DEF WriteRow
    <3>3. RowRank(NoRow) <= RowRank(st)
      BY StatusFacts
    <3>. QED
      BY <3>2, <3>3, StatusFacts, Zenon DEF Forward
  <2>. QED
    BY <2>1, <2>2, Zenon DEF StoreStep, Accepted, DropPending, HideRow, ClearPending
<1>3. /\ deleted' \subseteq erased' /\ erased' \subseteq Scans /\ pending' \subseteq Scans
      /\ deleted \subseteq deleted' /\ erased \subseteq erased'
      /\ \A x \in Scans : x # s => /\ (x \in deleted' <=> x \in deleted)
                                   /\ (x \in pending' <=> x \in pending)
  BY Zenon DEF StoreStep, Accepted, DropPending, HideRow, ClearPending, WriteRow
<1>4. /\ seen' \in [Readers -> SUBSET {"rowless", "absent", "arrived"}]
      /\ \A r \in Readers : seen[r] \subseteq seen'[r]
  BY <1>1, Zenon DEF Observed, Gaps
<1>5. \A r \in Readers : Running(r) /\ req[r].scan = s =>
         /\ ~(row'[s] # NoRow /\ s \notin deleted') => "rowless" \in seen'[r]
         /\ ~(row'[s] # NoRow /\ s \notin deleted') /\ s \notin pending' => "absent" \in seen'[r]
         /\ row[s] = NoRow /\ row'[s] # NoRow => "arrived" \in seen'[r]
  BY <1>1, Zenon DEF Observed, Gaps, Running
<1>. QED
  BY <1>1, <1>2, <1>3, <1>4, <1>5, Zenon

\* The floor of a request is a rank of an answer that was given.
LEMMA FloorChosen ==
    ASSUME NEW W
    PROVE  LET n == CHOOSE n \in 0..2 : /\ \A w \in W : Rank(w) <= n
                                        /\ n = 0 \/ \E w \in W : Rank(w) = n
           IN  n \in 0 .. 2 /\ (n = 0 \/ \E w \in W : Rank(w) = n)
<1>1. \E n \in 0 .. 2 : /\ \A w \in W : Rank(w) <= n
                        /\ n = 0 \/ \E w \in W : Rank(w) = n
  <2>1. CASE \E w \in W : Rank(w) = 2
    BY <2>1, StatusFacts
  <2>2. CASE ~(\E w \in W : Rank(w) = 2) /\ \E w \in W : Rank(w) = 1
    BY <2>2, StatusFacts
  <2>3. CASE \A w \in W : Rank(w) \notin {1, 2}
    BY <2>3, StatusFacts
  <2>. QED
    BY <2>1, <2>2, <2>3, Zenon
<1>. QED
  BY <1>1, Zenon

\* What a request that runs is about.
LEMMA AskFacts ==
    ASSUME TypeInv, PhaseInv, NEW r \in Readers
    PROVE  /\ Running(r) \/ req[r] # None =>
                 /\ req[r] \in Asks /\ req[r].scan \in Scans /\ req[r].op \in Ops
                 /\ req[r].family \in Families
                 /\ row[req[r].scan] \in Written \cup {NoRow}
           /\ floor[r] \in 0 .. 2
<1>1. Running(r) \/ req[r] # None => req[r] \in Asks
  BY Zenon DEF TypeInv, PhaseInv, PhaseOf
<1>2. req[r] \in Asks => req[r].scan \in Scans /\ req[r].op \in Ops /\ req[r].family \in Families
  BY Zenon DEF Asks
<1>. QED
  BY <1>1, <1>2, Zenon DEF TypeInv

\* An answer is right for the stores and the history at that moment.
Right(r, st, w) ==
    /\ Rank(w) = 0 \/ (row[req[r].scan] \in Written /\ w = LifecycleStatus(row[req[r].scan]))
    /\ Fitting(r, st, w)

\* A request goes on to its second look-up only with a reason.
Onward(r, to) ==
    LET s == req[r].scan
    IN  \/ /\ to = "pending" /\ req[r].op # "canRead"
           /\ Entitled(r) => ~Visible(s) /\ (s \in erased \/ floor[r] = 0)
        \/ /\ to = "tls" /\ req[r].op = "canRead"
           /\ Family[s] = "wallet" => "rowless" \in seen[r]

Statuses == {"none", "200", "403", "404", "5xx", "refused"}

\* What every step of a request does.
Moves(r) ==
    \/ \E from \in {"row", "wallet"}, to \in {"pending", "tls"} : Goto(r, from, to) /\ Onward(r, to)
    \/ \E from \in {"row", "pending", "wallet", "tls"}, st \in Statuses, w \in Words :
          Answer(r, from, st, w) /\ req[r] # None /\ Right(r, st, w)
    \/ Answer(r, "new", "refused", "none")

\* The errors are right answers.
LEMMA Unavailing ==
    ASSUME TypeInv, PhaseInv, FloorInv, NEW r \in Readers, req[r] # None,
           NEW from \in {"row", "pending", "wallet", "tls"}, Unavailable(r, from)
    PROVE  Moves(r)
<1>1. Right(r, "5xx", "none")
  BY StatusFacts, Zenon DEF Right, Fitting, Words
<1>. QED
  BY <1>1, Zenon DEF Unavailable, Moves, Statuses, Words

LEMMA ServeSummary ==
    ASSUME TypeInv, PhaseInv, SeenInv, FloorInv, NEW r \in Readers, Serve(r) \/ Refuse(r)
    PROVE  Moves(r)
<1> DEFINE q == req[r]
           s == req[r].scan
<1>1. CASE Refuse(r)
  BY <1>1, Zenon DEF Refuse, Moves
<1>2. SUFFICES ASSUME Serve(r), req[r] # None PROVE Moves(r)
  BY <1>1, Zenon DEF Serve, GetDetail, GetPendingDetail, GetCBOM, GetPendingCBOM, ListWalletScans,
     ListTLSScans, ListTLSDefaultScans, CanReadWallet, CanReadTLS
<1>3. /\ s \in Scans /\ q.op \in Ops /\ q.family \in Families
      /\ row[s] \in Written \cup {NoRow} /\ floor[r] \in 0 .. 2
  BY <1>2, AskFacts, Zenon
<1>4. /\ Running(r) /\ ~Visible(s) =>
            "rowless" \in seen[r] /\ (s \notin pending => "absent" \in seen[r])
      /\ pc[r] # "new" => floor[r] <= RowRank(row[s])
  BY <1>2, Zenon DEF SeenInv, FloorInv, SeenOf, FloorOf
<1>5. /\ pc[r] \in {"wallet", "tls"} => q.op = "canRead"
      /\ pc[r] \in {"row", "pending"} => q.op # "canRead"
      /\ pc[r] = "tls" /\ Family[s] = "wallet" => "rowless" \in seen[r]
      /\ pc[r] = "pending" /\ Entitled(r) =>
            (~Visible(s) \/ "arrived" \in seen[r]) /\ (s \in erased \/ floor[r] = 0)
  BY Zenon DEF PhaseInv, PhaseOf
<1>6. deleted \subseteq erased
  BY Zenon DEF TypeInv
<1>7. /\ Visible(s) => row[s] \in Written
      /\ row[s] \in Written =>
            /\ RowRank(row[s]) = Rank(LifecycleStatus(row[s]))
            /\ LifecycleStatus(row[s]) \in {"requested", "started", "completed", "failed"}
      /\ ~Visible(s) => s \in erased \/ RowRank(row[s]) = 0
  BY <1>3, <1>6, StatusFacts, Zenon DEF Visible
<1>8. Family[s] = "wallet" => Owner[s] # "default"
  BY <1>3, ScansTyped, UsersFresh, Zenon
<1>9. RowFor(r) => Visible(s) /\ Entitled(r)
  BY <1>3, Zenon DEF RowFor, GetWalletScan, GetTLSScan, Entitled, Families
<1>10. ~RowFor(r) /\ Entitled(r) => ~Visible(s)
  BY <1>3, <1>8, Zenon DEF RowFor, GetWalletScan, GetTLSScan, Entitled, Families
<1>11. \A w \in Words \ {"started", "completed", "failed"} : Rank(w) = 0
  BY StatusFacts, Zenon
<1>12. ASSUME NEW w \in {"requested", "started", "completed", "failed"}
       PROVE  w \in Words
  BY Zenon DEF Words
<1>13. ASSUME NEW from \in {"row", "pending", "wallet", "tls"}, NEW st \in {"200", "403", "404"},
              NEW w \in Words, Answer(r, from, st, w), Right(r, st, w)
       PROVE  Moves(r)
  BY <1>2, <1>13, Zenon DEF Moves, Statuses
<1>14. Rank(LifecycleStatus(row[s])) \in 0 .. 2
  BY StatusFacts, Zenon
<1>15. CASE GetDetail(r)
  <2>1. CASE RowFor(r) /\ Answer(r, "row", "200", LifecycleStatus(row[s]))
    <3>1. pc[r] = "row" /\ q.op = "detail"
      BY <1>15, <2>1, Zenon DEF GetDetail, Answer
    <3>2. Right(r, "200", LifecycleStatus(row[s]))
      BY <3>1, <2>1, <1>3, <1>4, <1>7, <1>9, <1>14, Zenon DEF Right, Fitting, Entitled
    <3>. QED
      BY <3>2, <2>1, <1>7, <1>9, <1>12, <1>13, Zenon
  <2>2. CASE ~RowFor(r) /\ Goto(r, "row", "pending")
    <3>1. pc[r] = "row"
      BY <2>2, Zenon DEF Goto
    <3>2. Onward(r, "pending")
      BY <3>1, <2>2, <1>3, <1>4, <1>5, <1>7, <1>10 DEF Onward
    <3>. QED
      BY <3>2, <2>2, Zenon DEF Moves
  <2>. QED
    BY <1>2, <1>15, <2>1, <2>2, Unavailing, Zenon DEF GetDetail
<1>16. CASE GetPendingDetail(r)
  <2>1. CASE PendingFor(r) /\ Answer(r, "pending", "200", "requested")
    <3>1. pc[r] = "pending" /\ q.op = "detail" /\ Entitled(r) /\ Owner[s] = q.user
      BY <1>16, <2>1, Zenon DEF GetPendingDetail, Answer, PendingFor, Entitled
    <3>2. Rank("requested") = 0
      BY <1>11, Zenon DEF Words
    <3>3. Right(r, "200", "requested")
      BY <3>1, <3>2, <1>3, <1>5 DEF Right, Fitting
    <3>. QED
      BY <3>3, <2>1, <1>13, Zenon DEF Words
  <2>2. CASE ~PendingFor(r) /\ Answer(r, "pending", "404", "none")
    <3>1. pc[r] = "pending" /\ q.op = "detail"
      BY <1>16, <2>2, Zenon DEF GetPendingDetail, Answer
    <3>2. Rank("none") = 0
      BY <1>11, Zenon DEF Words
    <3>3. Owner[s] = q.user /\ Family[s] = q.family => seen[r] \cap {"absent", "arrived"} # {}
      BY <3>1, <2>2, <1>4, <1>5, Zenon DEF PendingFor, Entitled, Running
    <3>4. Right(r, "404", "none")
      BY <3>1, <3>2, <3>3, Zenon DEF Right, Fitting
    <3>. QED
      BY <3>4, <2>2, <1>13, Zenon DEF Words
  <2>. QED
    BY <1>2, <1>16, <2>1, <2>2, Unavailing, Zenon DEF GetPendingDetail
<1>17. CASE GetCBOM(r)
  <2>1. CASE RowFor(r) /\ row[s] = SUCCESS /\ Answer(r, "row", "200", "cbom")
    <3>1. q.op = "cbom" /\ Rank("cbom") = 0
      BY <1>17, <1>11, Zenon DEF GetCBOM, Words
    <3>2. Right(r, "200", "cbom")
      BY <3>1, <2>1, <1>9, Zenon DEF Right, Fitting, Entitled
    <3>. QED
      BY <3>2, <2>1, <1>13, Zenon DEF Words
  <2>2. CASE Answer(r, "row", "404", "none")
    <3>1. q.op = "cbom" /\ Rank("none") = 0
      BY <1>17, <1>11, Zenon DEF GetCBOM, Words
    <3>2. Right(r, "404", "none")
      BY <3>1, Zenon DEF Right, Fitting
    <3>. QED
      BY <3>2, <2>2, <1>13, Zenon DEF Words
  <2>3. CASE ~RowFor(r) /\ Goto(r, "row", "pending")
    <3>1. pc[r] = "row"
      BY <2>3, Zenon DEF Goto
    <3>2. Onward(r, "pending")
      BY <3>1, <2>3, <1>3, <1>4, <1>5, <1>7, <1>10 DEF Onward
    <3>. QED
      BY <3>2, <2>3, Zenon DEF Moves
  <2>. QED
    BY <1>2, <1>17, <2>1, <2>2, <2>3, Unavailing, Zenon DEF GetCBOM
<1>18. CASE GetPendingCBOM(r)
  <2>1. CASE Answer(r, "pending", "404", "none")
    <3>1. q.op = "cbom" /\ Rank("none") = 0
      BY <1>18, <1>11, Zenon DEF GetPendingCBOM, Words
    <3>2. Right(r, "404", "none")
      BY <3>1, Zenon DEF Right, Fitting
    <3>. QED
      BY <3>2, <2>1, <1>13, Zenon DEF Words
  <2>. QED
    BY <1>2, <1>18, <2>1, Unavailing, Zenon DEF GetPendingCBOM
<1>19. CASE ListWalletScans(r) \/ ListTLSScans(r) \/ ListTLSDefaultScans(r)
  <2>1. CASE Listed(q, s) /\ Answer(r, "row", "200", LifecycleStatus(row[s]))
    <3>1. pc[r] = "row" /\ q.op \in {"list", "defaults"}
      BY <1>19, <2>1, Zenon DEF ListWalletScans, ListTLSScans, ListTLSDefaultScans, Answer
    <3>2. Visible(s) /\ Owner[s] \in {q.user, "default"}
      BY <2>1, Zenon DEF Listed
    <3>3. Right(r, "200", LifecycleStatus(row[s]))
      BY <3>1, <3>2, <1>3, <1>4, <1>7, <1>14, Zenon DEF Right, Fitting
    <3>. QED
      BY <3>2, <3>3, <2>1, <1>7, <1>12, <1>13, Zenon
  <2>2. CASE ~Listed(q, s) /\ Answer(r, "row", "200", "absent")
    <3>1. pc[r] = "row" /\ q.op \in {"list", "defaults"}
      BY <1>19, <2>2, Zenon DEF ListWalletScans, ListTLSScans, ListTLSDefaultScans, Answer
    <3>2. Rank("absent") = 0
      BY <1>11, Zenon DEF Words
    <3>3. Right(r, "200", "absent")
      BY <3>1, <3>2, <2>2, <1>3, <1>4, <1>7, Zenon DEF Right, Fitting, Listed
    <3>. QED
      BY <3>3, <2>2, <1>13, Zenon DEF Words
  <2>. QED
    BY <1>2, <1>19, <2>1, <2>2, Unavailing, Zenon
    DEF ListAnswer, ListWalletScans, ListTLSScans, ListTLSDefaultScans
<1>20. CASE CanReadWallet(r)
  <2> DEFINE found == Visible(s) /\ Family[s] = "wallet"
  <2>1. CASE found /\ Owner[s] = q.user /\ Answer(r, "wallet", "200", "allowed")
    <3>1. q.op = "canRead" /\ Rank("allowed") = 0
      BY <2>1, <1>5, <1>11, Zenon DEF Answer, Words
    <3>2. Right(r, "200", "allowed")
      BY <3>1, <2>1, Zenon DEF Right, Fitting
    <3>. QED
      BY <3>2, <2>1, <1>13, Zenon DEF Words
  <2>2. CASE found /\ Owner[s] # q.user /\ Answer(r, "wallet", "403", "forbidden")
    <3>1. q.op = "canRead" /\ Rank("forbidden") = 0
      BY <2>2, <1>5, <1>11, Zenon DEF Answer, Words
    <3>2. Right(r, "403", "forbidden")
      BY <3>1, <2>2, <1>8, Zenon DEF Right, Fitting
    <3>. QED
      BY <3>2, <2>2, <1>13, Zenon DEF Words
  <2>3. CASE ~found /\ Goto(r, "wallet", "tls")
    <3>1. pc[r] = "wallet" /\ Running(r)
      BY <2>3, Zenon DEF Goto, Running
    <3>2. Onward(r, "tls")
      BY <3>1, <2>3, <1>4, <1>5, Zenon DEF Onward
    <3>. QED
      BY <3>2, <2>3, Zenon DEF Moves
  <2>. QED
    BY <1>2, <1>20, <2>1, <2>2, <2>3, Unavailing, Zenon DEF CanReadWallet
<1>21. CASE CanReadTLS(r)
  <2> DEFINE found == Visible(s) /\ Family[s] = "tls"
             may   == Owner[s] \in {q.user, "default"}
  <2>1. CASE found /\ may /\ Answer(r, "tls", "200", "allowed")
    <3>1. q.op = "canRead" /\ Rank("allowed") = 0
      BY <2>1, <1>5, <1>11, Zenon DEF Answer, Words
    <3>2. Right(r, "200", "allowed")
      BY <3>1, <2>1, Zenon DEF Right, Fitting
    <3>. QED
      BY <3>2, <2>1, <1>13, Zenon DEF Words
  <2>2. CASE found /\ ~may /\ Answer(r, "tls", "403", "forbidden")
    <3>1. q.op = "canRead" /\ Rank("forbidden") = 0
      BY <2>2, <1>5, <1>11, Zenon DEF Answer, Words
    <3>2. Right(r, "403", "forbidden")
      BY <3>1, <2>2, Zenon DEF Right, Fitting
    <3>. QED
      BY <3>2, <2>2, <1>13, Zenon DEF Words
  <2>3. CASE ~found /\ Answer(r, "tls", "403", "notVisible")
    <3>1. pc[r] = "tls" /\ Running(r) /\ q.op = "canRead" /\ Rank("notVisible") = 0
      BY <2>3, <1>5, <1>11, Zenon DEF Answer, Words, Running
    <3>2. Family[s] = "wallet" \/ Family[s] = "tls"
      BY <1>3, ScansTyped, Zenon DEF Families
    <3>3. "rowless" \in seen[r]
      BY <3>1, <3>2, <2>3, <1>4, <1>5, Zenon
    <3>4. Right(r, "403", "notVisible")
      BY <3>1, <3>3, Zenon DEF Right, Fitting
    <3>. QED
      BY <3>4, <2>3, <1>13, Zenon DEF Words
  <2>. QED
    BY <1>2, <1>21, <2>1, <2>2, <2>3, Unavailing, Zenon DEF CanReadTLS
<1>. QED
  BY <1>2, <1>15, <1>16, <1>17, <1>18, <1>19, <1>20, <1>21, Zenon DEF Serve

\* What a step of a request leaves behind.
LEMMA MoveFacts ==
    ASSUME TypeInv, NEW r \in Readers, Moves(r)
    PROVE  /\ UNCHANGED <<row, deleted, pending, requested, erased, req, floor, seen>>
           /\ pc' \in [Readers -> {"new", "row", "pending", "wallet", "tls", "done"}]
           /\ resp' \in [Readers -> [status : Statuses, word : Words]]
           /\ \A x \in Readers : x # r => pc'[x] = pc[x] /\ resp'[x] = resp[x]
           /\ \/ Running(r) /\ pc'[r] \in {"pending", "tls"} /\ Onward(r, pc'[r])
              \/ /\ pc'[r] = "done" /\ Right(r, resp'[r].status, resp'[r].word)
                 /\ pc[r] = "new" \/ Running(r)
<1>1. CASE \E from \in {"row", "wallet"}, to \in {"pending", "tls"} :
              Goto(r, from, to) /\ Onward(r, to)
  <2>1. PICK from \in {"row", "wallet"}, to \in {"pending", "tls"} :
              Goto(r, from, to) /\ Onward(r, to)
    BY <1>1, Zenon
  <2>2. /\ UNCHANGED <<row, deleted, pending, requested, erased, req, floor, seen, resp>>
        /\ pc' = [pc EXCEPT ![r] = to] /\ pc[r] = from
    BY <2>1, Zenon DEF Goto, stores
  <2>. QED
    BY <2>1, <2>2, Zenon DEF TypeInv, Running, Statuses
<1>2. ASSUME NEW from \in {"new", "row", "pending", "wallet", "tls"}, NEW st \in Statuses,
             NEW w \in Words, Answer(r, from, st, w), Right(r, st, w)
      PROVE  /\ UNCHANGED <<row, deleted, pending, requested, erased, req, floor, seen>>
             /\ pc' \in [Readers -> {"new", "row", "pending", "wallet", "tls", "done"}]
             /\ resp' \in [Readers -> [status : Statuses, word : Words]]
             /\ \A x \in Readers : x # r => pc'[x] = pc[x] /\ resp'[x] = resp[x]
             /\ pc'[r] = "done" /\ Right(r, resp'[r].status, resp'[r].word)
             /\ pc[r] = "new" \/ Running(r)
  <2>1. /\ UNCHANGED <<row, deleted, pending, requested, erased, req, floor, seen>>
        /\ pc' = [pc EXCEPT ![r] = "done"] /\ pc[r] = from
        /\ resp' = [resp EXCEPT ![r] = [status |-> st, word |-> w]]
    BY <1>2, Zenon DEF Answer, stores
  <2>2. resp'[r].status = st /\ resp'[r].word = w
    BY <2>1, Zenon DEF TypeInv
  <2>3. Right(r, resp'[r].status, resp'[r].word)
    BY <1>2, <2>2, Zenon
  <2>. QED
    BY <2>1, <2>3, Zenon DEF TypeInv, Running, Statuses
<1>3. CASE Answer(r, "new", "refused", "none")
  <2>1. Right(r, "refused", "none")
    BY StatusFacts, Zenon DEF Right, Fitting, Words
  <2>. QED
    BY <1>2, <1>3, <2>1, Zenon DEF Statuses, Words
<1>. QED
  BY <1>1, <1>2, <1>3, Zenon DEF Moves

\* What a request that arrives leaves behind.
LEMMA ReceiveFacts ==
    ASSUME TypeInv, NEW r \in Readers, NEW q \in Asks, Receive(r, q)
    PROVE  /\ UNCHANGED <<row, deleted, pending, requested, erased, resp>>
           /\ pc' \in [Readers -> {"new", "row", "pending", "wallet", "tls", "done"}]
           /\ \A x \in Readers : x # r => /\ pc'[x] = pc[x] /\ req'[x] = req[x]
                                          /\ floor'[x] = floor[x] /\ seen'[x] = seen[x]
           /\ pc[r] = "new" /\ req'[r] = q /\ q.scan \in Scans
           /\ pc'[r] = IF q.op = "canRead" THEN "wallet" ELSE "row"
           /\ ~Visible(q.scan) => "rowless" \in seen'[r]
           /\ ~Visible(q.scan) /\ q.scan \notin pending => "absent" \in seen'[r]
           /\ floor'[r] \in 0 .. 2
           /\ floor'[r] = 0 \/ \E w \in Answered(q.scan) : Rank(w) = floor'[r]
<1>1. /\ UNCHANGED <<row, deleted, pending, requested, erased, resp>>
      /\ pc' \in [Readers -> {"new", "row", "pending", "wallet", "tls", "done"}]
      /\ \A x \in Readers : x # r => pc'[x] = pc[x] /\ req'[x] = req[x]
      /\ pc[r] = "new" /\ req'[r] = q /\ q.scan \in Scans
      /\ pc'[r] = IF q.op = "canRead" THEN "wallet" ELSE "row"
  BY Zenon DEF Receive, TypeInv, stores, Asks
<1>2. /\ \A x \in Readers : x # r => seen'[x] = seen[x]
      /\ ~Visible(q.scan) => "rowless" \in seen'[r]
      /\ ~Visible(q.scan) /\ q.scan \notin pending => "absent" \in seen'[r]
  BY Zenon DEF Receive, TypeInv, Gaps
<1>3. /\ \A x \in Readers : x # r => floor'[x] = floor[x]
      /\ floor'[r] \in 0 .. 2
      /\ floor'[r] = 0 \/ \E w \in Answered(q.scan) : Rank(w) = floor'[r]
  <2> DEFINE n == CHOOSE n \in 0..2 : /\ \A w \in Answered(q.scan) : Rank(w) <= n
                                      /\ n = 0 \/ \E w \in Answered(q.scan) : Rank(w) = n
  <2>1. n \in 0 .. 2 /\ (n = 0 \/ \E w \in Answered(q.scan) : Rank(w) = n)
    BY FloorChosen, Zenon
  <2>2. floor' = [floor EXCEPT ![r] = n]
    BY Zenon DEF Receive
  <2> HIDE DEF n
  <2>. QED
    BY <2>1, <2>2, Zenon DEF TypeInv
<1>. QED
  BY <1>1, <1>2, <1>3, Zenon

\* The kinds of steps.
LEMMA StepCases ==
    ASSUME IInv, [Next]_vars
    PROVE  \/ \E r \in Readers : Moves(r)
           \/ \E r \in Readers, q \in Asks : Receive(r, q)
           \/ \E s \in Scans : StoreStep(s)
           \/ UNCHANGED vars
BY ServeSummary, Zenon DEF Next, IInv

\* A step for one reader: it is about another reader,
Stays(x) ==
    /\ UNCHANGED stores
    /\ pc'[x] = pc[x] /\ req'[x] = req[x] /\ resp'[x] = resp[x]
    /\ floor'[x] = floor[x] /\ seen'[x] = seen[x]

\* its request goes on or is answered,
GoesOn(x) ==
    /\ UNCHANGED stores
    /\ req'[x] = req[x] /\ floor'[x] = floor[x] /\ seen'[x] = seen[x]
    /\ \/ Running(x) /\ pc'[x] \in {"pending", "tls"} /\ Onward(x, pc'[x])
       \/ /\ pc'[x] = "done" /\ Right(x, resp'[x].status, resp'[x].word)
          /\ pc[x] = "new" \/ Running(x)

\* its request arrives,
Arrives(x) ==
    \E q \in Asks :
        /\ UNCHANGED stores
        /\ pc[x] = "new" /\ req'[x] = q /\ q.scan \in Scans
        /\ pc'[x] = IF q.op = "canRead" THEN "wallet" ELSE "row"
        /\ ~Visible(q.scan) => "rowless" \in seen'[x]
        /\ ~Visible(q.scan) /\ q.scan \notin pending => "absent" \in seen'[x]
        /\ floor'[x] \in 0 .. 2
        /\ floor'[x] = 0 \/ \E w \in Answered(q.scan) : Rank(w) = floor'[x]

\* or persistence writes.
Beholds(x) ==
    LET s == req[x].scan IN
    /\ pc'[x] = pc[x] /\ req'[x] = req[x] /\ resp'[x] = resp[x] /\ floor'[x] = floor[x]
    /\ seen[x] \subseteq seen'[x] /\ deleted \subseteq deleted' /\ erased \subseteq erased'
    /\ req[x] # None => Forward(s)
    /\ Running(x) =>
          \/ /\ row'[s] = row[s] /\ (s \in deleted' <=> s \in deleted)
             /\ (s \in pending' <=> s \in pending)
          \/ /\ ~(row'[s] # NoRow /\ s \notin deleted') => "rowless" \in seen'[x]
             /\ ~(row'[s] # NoRow /\ s \notin deleted') /\ s \notin pending' => "absent" \in seen'[x]
             /\ row[s] = NoRow /\ row'[s] # NoRow => "arrived" \in seen'[x]

LEMMA StepFor ==
    ASSUME IInv, [Next]_vars, NEW x \in Readers
    PROVE  Stays(x) \/ GoesOn(x) \/ Arrives(x) \/ Beholds(x)
<1>1. TypeInv /\ PhaseInv
  BY Zenon DEF IInv
<1>2. ASSUME NEW r \in Readers, Moves(r) PROVE Stays(x) \/ GoesOn(x)
  BY <1>1, <1>2, MoveFacts, Zenon DEF Stays, GoesOn, stores
<1>3. ASSUME NEW r \in Readers, NEW q \in Asks, Receive(r, q) PROVE Stays(x) \/ Arrives(x)
  BY <1>1, <1>3, ReceiveFacts DEF Stays, Arrives, stores
<1>4. ASSUME NEW s \in Scans, StoreStep(s) PROVE Beholds(x)
  <2>1. Running(x) \/ req[x] # None => req[x].scan \in Scans
    BY <1>1, AskFacts, Zenon
  <2>. QED
    BY <1>1, <1>4, <2>1, StoreSummary, Zenon DEF Beholds, readers
<1>5. CASE UNCHANGED vars
  BY <1>5, Zenon DEF Stays, vars, stores, readers
<1>. QED
  BY <1>2, <1>3, <1>4, <1>5, StepCases, Zenon

\* Type correctness.
LEMMA TypeStep == IInv /\ [Next]_vars => TypeInv'
<1>1. SUFFICES ASSUME IInv, [Next]_vars PROVE TypeInv'
  OBVIOUS
<1>2. TypeInv
  BY <1>1, Zenon DEF IInv
<1>3. CASE \E r \in Readers : Moves(r)
  BY <1>2, <1>3, MoveFacts, Zenon DEF TypeInv, Statuses
<1>4. CASE \E r \in Readers, q \in Asks : Receive(r, q)
  <2>1. PICK r \in Readers, q \in Asks : Receive(r, q)
    BY <1>4, Zenon
  <2>2. floor' \in [Readers -> 0 .. 2]
    BY <1>2, <2>1, FloorChosen, Zenon DEF Receive, TypeInv
  <2>3. Gaps(Visible(q.scan), q.scan \in pending) \subseteq {"rowless", "absent", "arrived"}
    BY Zenon DEF Gaps
  <2>4. seen' \in [Readers -> SUBSET {"rowless", "absent", "arrived"}]
    BY <1>2, <2>1, <2>3, Zenon DEF Receive, TypeInv
  <2>. QED
    BY <1>2, <2>1, <2>2, <2>4, Zenon DEF Receive, TypeInv, stores
<1>5. CASE \E s \in Scans : StoreStep(s)
  BY <1>2, <1>5, StoreSummary, Zenon DEF TypeInv, readers
<1>6. CASE UNCHANGED vars
  BY <1>2, <1>6, Zenon DEF vars, stores, readers, TypeInv
<1>. QED
  BY <1>1, <1>3, <1>4, <1>5, <1>6, StepCases, Zenon

\* PhaseInv is kept.
LEMMA PhaseStep == ASSUME IInv, [Next]_vars, NEW x \in Readers PROVE PhaseOf(x)'
<1>1. PhaseOf(x)
  BY Zenon DEF IInv, PhaseInv
<1>2. CASE Stays(x)
  BY <1>1, <1>2, Zenon DEF Stays, stores, PhaseOf, Running, Entitled, Visible
<1>3. CASE GoesOn(x)
  BY <1>1, <1>3, Zenon DEF GoesOn, stores, PhaseOf, Running, Entitled, Visible, Onward
<1>4. CASE Arrives(x)
  BY <1>4, Zenon DEF Arrives, PhaseOf, Running
<1>5. CASE Beholds(x)
  BY <1>1, <1>5, Zenon DEF Beholds, PhaseOf, Running, Entitled, Visible
<1>. QED
  BY <1>2, <1>3, <1>4, <1>5, StepFor, Zenon

\* SeenInv is kept.
LEMMA SeenStep == ASSUME IInv, [Next]_vars, NEW x \in Readers PROVE SeenOf(x)'
<1>1. SeenOf(x)
  BY Zenon DEF IInv, SeenInv
<1>2. CASE Stays(x)
  BY <1>1, <1>2, Zenon DEF Stays, stores, SeenOf, Running, Visible
<1>3. CASE GoesOn(x)
  BY <1>1, <1>3, Zenon DEF GoesOn, stores, SeenOf, Running, Visible
<1>4. CASE Arrives(x)
  BY <1>4, Zenon DEF Arrives, stores, SeenOf, Running, Visible
<1>5. CASE Beholds(x)
  BY <1>1, <1>5, Zenon DEF Beholds, SeenOf, Running, Visible
<1>. QED
  BY <1>2, <1>3, <1>4, <1>5, StepFor, Zenon

\* FloorInv is kept: what was answered before is covered by the row.
LEMMA FloorStep == ASSUME IInv, [Next]_vars, NEW x \in Readers PROVE FloorOf(x)'
<1>1. FloorOf(x) /\ PhaseOf(x)
  BY Zenon DEF IInv, FloorInv, PhaseInv
<1>2. /\ req[x] # None => row[req[x].scan] \in Written \cup {NoRow}
      /\ floor[x] \in 0 .. 2
  BY AskFacts, Zenon DEF IInv
<1>3. CASE Stays(x)
  BY <1>1, <1>3, Zenon DEF Stays, stores, FloorOf
<1>4. CASE GoesOn(x)
  BY <1>1, <1>4, Zenon DEF GoesOn, stores, FloorOf, PhaseOf, Running
<1>5. CASE Arrives(x)
  <2>1. PICK q \in Asks : /\ UNCHANGED stores /\ req'[x] = q /\ q.scan \in Scans
                          /\ floor'[x] = 0 \/ \E w \in Answered(q.scan) : Rank(w) = floor'[x]
    BY <1>5, Zenon DEF Arrives
  <2>2. \A w \in Answered(q.scan) : Rank(w) <= RowRank(row[q.scan])
    BY Zenon DEF Answered, IInv, AnswerInv, AnswerOf, Covered, Told, Done
  <2>3. RowRank(row[q.scan]) \in 0 .. 2
    BY <2>1, StatusFacts, Zenon DEF IInv, TypeInv
  <2>. QED
    BY <2>1, <2>2, <2>3 DEF FloorOf, stores
<1>6. CASE Beholds(x)
  <2>1. req[x] # None => RowRank(row[req[x].scan]) <= RowRank(row'[req[x].scan])
    BY <1>2, <1>6, StatusFacts DEF Beholds, Forward
  <2>2. req[x] # None => row'[req[x].scan] \in Written \cup {NoRow}
    BY <1>2, <1>6, Zenon DEF Beholds, Forward
  <2>3. req[x] # None => /\ RowRank(row[req[x].scan]) \in 0 .. 2
                         /\ RowRank(row'[req[x].scan]) \in 0 .. 2
    BY <1>2, <2>2, StatusFacts, Zenon
  <2>. QED
    BY <1>1, <1>2, <1>6, <2>1, <2>3 DEF Beholds, FloorOf
<1>. QED
  BY <1>3, <1>4, <1>5, <1>6, StepFor, Zenon

\* AnswerInv is kept: an answer is right when it is given, and the row only
\* moves forward.
LEMMA AnswerStep == ASSUME IInv, [Next]_vars, NEW x \in Readers PROVE AnswerOf(x)'
<1>1. AnswerOf(x)
  BY Zenon DEF IInv, AnswerInv
<1>2. req[x] # None => row[req[x].scan] \in Written \cup {NoRow}
  BY AskFacts, Zenon DEF IInv
<1>3. CASE Stays(x)
  BY <1>1, <1>3, Zenon DEF Stays, stores, AnswerOf, Covered, Fitting
<1>4. CASE GoesOn(x)
  <2>1. SUFFICES ASSUME pc'[x] = "done", req'[x] # None
                 PROVE  Covered(x)' /\ Fitting(x, resp[x].status, resp[x].word)'
    BY Zenon DEF AnswerOf
  <2>2. Right(x, resp'[x].status, resp'[x].word) /\ req[x] # None
    BY <1>4, <2>1, Zenon DEF GoesOn
  <2>3. Fitting(x, resp[x].status, resp[x].word)'
    BY <1>4, <2>2, Zenon DEF GoesOn, stores, Right, Fitting
  <2>4. RowRank(row[req[x].scan]) \in 0 .. 2
    BY <1>2, <2>2, StatusFacts, Zenon
  <2>5. CASE Rank(resp'[x].word) = 0
    BY <1>4, <2>3, <2>4, <2>5 DEF GoesOn, stores, Covered
  <2>6. CASE row[req[x].scan] \in Written /\ resp'[x].word = LifecycleStatus(row[req[x].scan])
    <3>1. Rank(resp'[x].word) = RowRank(row[req[x].scan])
      BY <2>6, StatusFacts, Zenon
    <3>. QED
      BY <1>4, <2>3, <2>4, <2>6, <3>1 DEF GoesOn, stores, Covered
  <2>. QED
    BY <2>2, <2>3, <2>5, <2>6, Zenon DEF Right
<1>5. CASE Arrives(x)
  BY <1>5, Zenon DEF Arrives, AnswerOf
<1>6. CASE Beholds(x)
  <2>1. SUFFICES ASSUME pc[x] = "done", req[x] # None
                 PROVE  Covered(x)' /\ Fitting(x, resp[x].status, resp[x].word)'
    BY <1>6, Zenon DEF Beholds, AnswerOf
  <2>2. Covered(x) /\ Fitting(x, resp[x].status, resp[x].word)
    BY <1>1, <2>1, Zenon DEF AnswerOf
  <2>3. Forward(req[x].scan) /\ Rank(resp[x].word) \in 0 .. 2
    BY <1>6, <2>1, StatusFacts, Zenon DEF Beholds
  <2>4. RowRank(row[req[x].scan]) \in 0 .. 2
    BY <1>2, <2>1, StatusFacts, Zenon
  <2>5. RowRank(row[req[x].scan]) = 2 => IsTerminal(row[req[x].scan])
    BY <1>2, <2>1, StatusFacts
  <2>6. Fitting(x, resp[x].status, resp[x].word)'
    <3>1. row[req[x].scan] = SUCCESS => row'[req[x].scan] = SUCCESS
      BY <2>3, StatusFacts, Zenon DEF Forward
    <3>2. /\ req'[x] = req[x] /\ resp'[x] = resp[x] /\ floor'[x] = floor[x]
          /\ seen[x] \subseteq seen'[x] /\ erased \subseteq erased'
      BY <1>6, Zenon DEF Beholds
    <3>. QED
      BY <2>2, <3>1, <3>2, Zenon DEF Fitting
  <2>7. CASE row'[req[x].scan] = row[req[x].scan]
    BY <1>6, <2>2, <2>6, <2>7, Zenon DEF Beholds, Covered
  <2>8. CASE row'[req[x].scan] # row[req[x].scan]
    <3>1. /\ RowRank(row[req[x].scan]) <= RowRank(row'[req[x].scan])
          /\ RowRank(row[req[x].scan]) # 2
      BY <2>3, <2>5, <2>8, Zenon DEF Forward
    <3>2. RowRank(row'[req[x].scan]) \in 0 .. 2
      BY <2>3, <2>8, StatusFacts, Zenon DEF Forward
    <3>. QED
      BY <1>6, <2>2, <2>3, <2>4, <2>6, <3>1, <3>2 DEF Beholds, Covered
  <2>. QED
    BY <2>6, <2>7, <2>8, Zenon
<1>. QED
  BY <1>3, <1>4, <1>5, <1>6, StepFor, Zenon

\* The initial states satisfy the invariant: nobody has asked yet.
LEMMA InitInv == Init => IInv
<1>1. SUFFICES ASSUME Init PROVE IInv
  OBVIOUS
<1>2. TypeInv
  BY <1>1 DEF Init, TypeInv, NoAnswer, Words
<1>3. \A r \in Readers : pc[r] = "new" /\ req[r] = None
  BY <1>1, Zenon DEF Init
<1>. QED
  BY <1>2, <1>3, Zenon DEF IInv, PhaseInv, SeenInv, FloorInv, AnswerInv, PhaseOf, SeenOf, FloorOf,
     AnswerOf, Running

\* IInv is an invariant.
LEMMA Inductive == Spec => []IInv
<1>1. IInv /\ [Next]_vars => IInv'
  BY TypeStep, PhaseStep, SeenStep, FloorStep, AnswerStep, Zenon
  DEF IInv, PhaseInv, SeenInv, FloorInv, AnswerInv
<1>. QED
  BY InitInv, <1>1, PTL DEF Spec

\* The README's rule, shared by the GETs, the lists and CanReadScan: only those
\* who may read a scan are answered something of it.
THEOREM OnlyReaders == Spec => []OnlyReadersOfScan
<1>1. IInv => OnlyReadersOfScan
  BY Zenon DEF IInv, AnswerInv, AnswerOf, Fitting, OnlyReadersOfScan, Done
<1>. QED
  BY Inductive, <1>1, PTL

\* CanReadScan denies only what it may, however the stores change between its
\* two look-ups.
THEOREM DenialsJustified == Spec => []DenialJustified
<1>1. IInv => DenialJustified
  BY Zenon DEF IInv, AnswerInv, AnswerOf, Fitting, DenialJustified, Done
<1>. QED
  BY Inductive, <1>1, PTL

\* GET detail: a 404 for the owner is explained by a gap between the stores.
THEOREM NotFoundsExplained == Spec => []NotFoundExplained
<1>1. IInv => NotFoundExplained
  BY Zenon DEF IInv, AnswerInv, AnswerOf, Fitting, NotFoundExplained, Done
<1>. QED
  BY Inductive, <1>1, PTL

\* GET detail and the lists: the status a scan is shown with never goes back and
\* outcomes never disagree, for any number of readers.
THEOREM StatusAdvances == Spec => []StatusNeverGoesBack
<1>1. IInv => StatusNeverGoesBack
  BY DEF IInv, AnswerInv, AnswerOf, Covered, Fitting, StatusNeverGoesBack, Told, Done
<1>. QED
  BY Inductive, <1>1, PTL

\* The CBOM handlers: a CBOM is of a scan that succeeded, for good.
THEOREM CBOMOfSuccess == Spec => []CBOMOnlyOfSuccess
<1>1. IInv => CBOMOnlyOfSuccess
  BY Zenon DEF IInv, AnswerInv, AnswerOf, Fitting, CBOMOnlyOfSuccess, Done
<1>. QED
  BY Inductive, <1>1, PTL
=============================================================================
