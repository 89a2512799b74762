----------------------------- MODULE ScanReads -----------------------------
(***************************************************************************)
(* The reads of a scan: GET .../scans/:scan_id and its CBOM, which look    *)
(* for the row and then for the pending record, the lists, which show rows *)
(* only, and the internal can-read decision, which looks for a wallet row  *)
(* and then for a TLS row.  Each look-up is a step of its own:             *)
(* cafe-persistence writes rows, drops pending records and serves DELETEs  *)
(* in between.  Of a list, the model keeps what its pages say of one scan. *)
(***************************************************************************)
EXTENDS Integers, FiniteSets, ScanStates

CONSTANTS Scans, Users, Readers,
          Family,   \* "wallet" or "tls", for each scan
          Owner,    \* a user, "default" (shared catalog) or "nobody", for each scan
          Ops,      \* subset of AllOps: what readers ask
          Faults,   \* subset of {"call", "db"}: a look-up fails
          None

Families == {"wallet", "tls"}

\* list: GET .../scans of a family; defaults: GET /tls/scans/defaults.
AllOps == {"detail", "cbom", "list", "defaults", "canRead"}

\* A principal CPM propagates need not be the UUID of a user.
Principals == Users \cup {"opaque"}

ASSUME ScansTyped ==
    /\ Family \in [Scans -> Families]
    /\ Owner \in [Scans -> Users \cup {"default", "nobody"}]
    /\ \A s \in Scans : Owner[s] \notin Users => Family[s] = "tls"
ASSUME UsersFresh == Users \cap {"default", "nobody", "opaque"} = {}
ASSUME OpsKnown == Ops \subseteq AllOps /\ Faults \subseteq {"call", "db"}

VARIABLES row,      \* status of each scan's row, NoRow if it has none
          deleted,  \* scans whose row is soft-deleted
          pending,  \* scans with a pending record
          requested,\* scans a POST accepted
          erased,   \* scans a DELETE removed something of
          pc, req,  \* where each reader's request is, and what it asks
          resp,     \* [status, word] it was answered
          floor,    \* history: the furthest status answered before the request began
          seen      \* history: what was true of the scan while the request ran

stores  == <<row, deleted, pending, requested, erased>>
readers == <<pc, req, resp, floor>>
vars    == <<stores, readers, seen>>

Fault(f) == f \in Faults

Asks == [op : Ops, family : Families, scan : Scans, user : Principals]

NoAnswer == [status |-> "none", word |-> "none"]

Visible(s) == row[s] # NoRow /\ s \notin deleted

\* The rows persistence finds for a user: their own wallet scans, and their
\* own TLS scans with the default endpoints.
GetWalletScan(user, s) ==
    Visible(s) /\ Family[s] = "wallet" /\ Owner[s] = user

GetTLSScan(user, s) ==
    Visible(s) /\ Family[s] = "tls" /\ Owner[s] \in {user, "default"}

RowFor(r) ==
    LET q == req[r] IN
    IF q.family = "wallet" THEN GetWalletScan(q.user, q.scan) ELSE GetTLSScan(q.user, q.scan)

\* scanPending.Get, and the test of the handler on what it returned.
PendingFor(r) ==
    LET q == req[r] IN
    q.scan \in pending /\ Owner[q.scan] = q.user /\ Family[q.scan] = q.family

Rank(word) ==
    CASE word \in {"completed", "failed"} -> 2
      [] word = "started"                 -> 1
      [] OTHER                            -> 0

Init ==
    /\ row = [s \in Scans |-> NoRow] /\ deleted = {} /\ pending = {}
    /\ requested = {} /\ erased = {}
    /\ pc = [r \in Readers |-> "new"] /\ req = [r \in Readers |-> None]
    /\ resp = [r \in Readers |-> NoAnswer]
    /\ floor = [r \in Readers |-> 0] /\ seen = [r \in Readers |-> {}]

-----------------------------------------------------------------------------
(* The requests.                                                           *)

Goto(r, from, to) ==
    /\ pc[r] = from /\ pc' = [pc EXCEPT ![r] = to]
    /\ UNCHANGED <<req, resp, floor, stores, seen>>

Answer(r, from, status, word) ==
    /\ pc[r] = from /\ pc' = [pc EXCEPT ![r] = "done"]
    /\ resp' = [resp EXCEPT ![r] = [status |-> status, word |-> word]]
    /\ UNCHANGED <<req, floor, stores, seen>>

\* An error of persistence: 500 or 503, which no property tells apart.
Unavailable(r, from) == Answer(r, from, "5xx", "none")

\* What was answered before about the scan.
Answered(s) == {resp[r].word : r \in {x \in Readers : pc[x] = "done" /\ req[x] # None /\ req[x].scan = s}}

\* Marks of a moment: no visible row, and in neither store.
Gaps(visible, isPending) ==
    (IF visible THEN {} ELSE {"rowless"})
        \cup (IF visible \/ isPending THEN {} ELSE {"absent"})

\* A request passes its first checks.  GETs have the session of a user.
Receive(r, q) ==
    /\ pc[r] = "new"
    /\ q.op = "canRead" => q.family = Family[q.scan]
    /\ q.op # "canRead" => q.user \in Users
    /\ q.op = "defaults" => q.family = "tls"
    /\ req' = [req EXCEPT ![r] = q]
    /\ pc' = [pc EXCEPT ![r] = IF q.op = "canRead" THEN "wallet" ELSE "row"]
    /\ floor' = [floor EXCEPT ![r] =
          CHOOSE n \in 0..2 : /\ \A w \in Answered(q.scan) : Rank(w) <= n
                              /\ n = 0 \/ \E w \in Answered(q.scan) : Rank(w) = n]
    /\ seen' = [seen EXCEPT ![r] = Gaps(Visible(q.scan), q.scan \in pending)]
    /\ UNCHANGED <<resp, stores>>

\* A request its first checks refuse: no session or service token, no
\* principal, an id that is not a UUID; can-read also when it is disabled.
Refuse(r) == Answer(r, "new", "refused", "none")

\* GET detail: the row.
GetDetail(r) ==
    /\ req[r] # None /\ req[r].op = "detail"
    /\ \/ RowFor(r) /\ Answer(r, "row", "200", LifecycleStatus(row[req[r].scan]))
       \/ ~RowFor(r) /\ Goto(r, "row", "pending")
       \/ Fault("call") /\ Unavailable(r, "row")

\* Variant: a scan without a row is not found.
GetPendingDetailSkipped(r) ==
    /\ req[r] # None /\ req[r].op = "detail"
    /\ Answer(r, "pending", "404", "none")

\* GET detail: then the pending record.
GetPendingDetail(r) ==
    /\ req[r] # None /\ req[r].op = "detail"
    /\ \/ PendingFor(r) /\ Answer(r, "pending", "200", "requested")
       \/ ~PendingFor(r) /\ Answer(r, "pending", "404", "none")
       \/ Fault("call") /\ Unavailable(r, "pending")

\* Variant: every settled scan has a CBOM.
GetCBOMSettled(r) ==
    /\ req[r] # None /\ req[r].op = "cbom"
    /\ \/ RowFor(r) /\ IsTerminal(row[req[r].scan]) /\ Answer(r, "row", "200", "cbom")
       \/ RowFor(r) /\ ~IsTerminal(row[req[r].scan]) /\ Answer(r, "row", "404", "none")
       \/ ~RowFor(r) /\ Goto(r, "row", "pending")

\* GET CBOM: only a successful scan has one.
GetCBOM(r) ==
    /\ req[r] # None /\ req[r].op = "cbom"
    /\ \/ RowFor(r) /\ row[req[r].scan] = SUCCESS /\ Answer(r, "row", "200", "cbom")
       \/ RowFor(r) /\ row[req[r].scan] # SUCCESS /\ Answer(r, "row", "404", "none")
       \/ ~RowFor(r) /\ Goto(r, "row", "pending")
       \/ Fault("call") /\ Unavailable(r, "row")

GetPendingCBOM(r) ==
    /\ req[r] # None /\ req[r].op = "cbom"
    /\ \/ Answer(r, "pending", "404", "none")
       \/ Fault("call") /\ Unavailable(r, "pending")

\* The rows of the lists: of their owner, or of the default catalog.
Listed(q, s) ==
    /\ Visible(s) /\ Family[s] = q.family
    /\ Owner[s] = IF q.op = "defaults" THEN "default" ELSE q.user

\* One query of persistence; pending records are not in it.
ListAnswer(r) ==
    LET q == req[r] IN
    \/ Listed(q, q.scan) /\ Answer(r, "row", "200", LifecycleStatus(row[q.scan]))
    \/ ~Listed(q, q.scan) /\ Answer(r, "row", "200", "absent")
    \/ Fault("call") /\ Unavailable(r, "row")

\* The three GETs of a list.
ListWalletScans(r) ==
    req[r] # None /\ req[r].op = "list" /\ req[r].family = "wallet" /\ ListAnswer(r)

ListTLSScans(r) ==
    req[r] # None /\ req[r].op = "list" /\ req[r].family = "tls" /\ ListAnswer(r)

ListTLSDefaultScans(r) == req[r] # None /\ req[r].op = "defaults" /\ ListAnswer(r)

\* CanReadScan: the wallet row.  A principal that is not a UUID owns nothing.
CanReadWallet(r) ==
    /\ req[r] # None
    /\ LET s     == req[r].scan
           found == Visible(s) /\ Family[s] = "wallet"
       IN  \/ found /\ Owner[s] = req[r].user /\ Answer(r, "wallet", "200", "allowed")
           \/ found /\ Owner[s] # req[r].user /\ Answer(r, "wallet", "403", "forbidden")
           \/ ~found /\ Goto(r, "wallet", "tls")
           \/ Fault("db") /\ Unavailable(r, "wallet")

\* Variant: a scan without an owner is shared too.
CanReadTLSOwnerless(r) ==
    /\ req[r] # None
    /\ LET s     == req[r].scan
           found == Visible(s) /\ Family[s] = "tls"
           may   == Owner[s] \in {req[r].user, "default", "nobody"}
       IN  \/ found /\ may /\ Answer(r, "tls", "200", "allowed")
           \/ found /\ ~may /\ Answer(r, "tls", "403", "forbidden")
           \/ ~found /\ Answer(r, "tls", "403", "notVisible")

\* Variant: a look-up that fails counts as no row.
CanReadTLSFailOpen(r) ==
    /\ req[r] # None
    /\ LET s     == req[r].scan
           found == Visible(s) /\ Family[s] = "tls"
           may   == Owner[s] \in {req[r].user, "default"}
       IN  \/ found /\ may /\ Answer(r, "tls", "200", "allowed")
           \/ found /\ ~may /\ Answer(r, "tls", "403", "forbidden")
           \/ (~found \/ Fault("db")) /\ Answer(r, "tls", "403", "notVisible")

\* CanReadScan: then the TLS row; default endpoints are everyone's.
CanReadTLS(r) ==
    /\ req[r] # None
    /\ LET s     == req[r].scan
           found == Visible(s) /\ Family[s] = "tls"
           may   == Owner[s] \in {req[r].user, "default"}
       IN  \/ found /\ may /\ Answer(r, "tls", "200", "allowed")
           \/ found /\ ~may /\ Answer(r, "tls", "403", "forbidden")
           \/ ~found /\ Answer(r, "tls", "403", "notVisible")
           \/ Fault("db") /\ Unavailable(r, "tls")

-----------------------------------------------------------------------------
(* cafe-persistence (external).                                            *)

\* The history a change of the stores leaves in the requests that run.
Observed(s) ==
    LET marks == Gaps(row'[s] # NoRow /\ s \notin deleted', s \in pending')
                    \cup (IF row[s] = NoRow /\ row'[s] # NoRow THEN {"arrived"} ELSE {})
    IN  /\ seen' = [r \in Readers |->
                      IF pc[r] \notin {"new", "done"} /\ req[r].scan = s
                      THEN seen[r] \cup marks ELSE seen[r]]
        /\ UNCHANGED readers

\* The pending record of a POST.
Accepted(s) ==
    /\ Owner[s] \in Users /\ s \notin requested
    /\ pending' = pending \cup {s} /\ requested' = requested \cup {s}
    /\ UNCHANGED <<row, deleted, erased>>
    /\ Observed(s)

\* The row of an accepted or a default scan is written, or moves on.
WriteRow(s, st) ==
    /\ \/ row[s] = NoRow /\ (s \in requested \/ Owner[s] \notin Users)
       \/ ValidTransition(row[s], st)
    /\ row' = [row EXCEPT ![s] = st] /\ UNCHANGED <<deleted, pending, requested, erased>>
    /\ Observed(s)

\* The pending record of a settled scan is dropped.
DropPending(s) ==
    /\ s \in pending /\ IsTerminal(row[s])
    /\ pending' = pending \ {s} /\ UNCHANGED <<row, deleted, requested, erased>>
    /\ Observed(s)

\* DELETE by the owner: the row, and then the pending record; or only the
\* record, when its look-up found no row (which may be written since).
HideRow(s) ==
    /\ Owner[s] \in Users /\ Visible(s)
    /\ deleted' = deleted \cup {s} /\ erased' = erased \cup {s} /\ UNCHANGED <<row, pending, requested>>
    /\ Observed(s)

ClearPending(s) ==
    /\ s \in pending
    /\ pending' = pending \ {s} /\ erased' = erased \cup {s} /\ UNCHANGED <<row, deleted, requested>>
    /\ Observed(s)

-----------------------------------------------------------------------------
Serve(r) ==
    \/ GetDetail(r) \/ GetPendingDetail(r) \/ GetCBOM(r) \/ GetPendingCBOM(r)
    \/ ListWalletScans(r) \/ ListTLSScans(r) \/ ListTLSDefaultScans(r)
    \/ CanReadWallet(r) \/ CanReadTLS(r)

StoreStep(s) ==
    \/ Accepted(s) \/ DropPending(s) \/ HideRow(s) \/ ClearPending(s)
    \/ \E st \in {PENDING, RUNNING, SUCCESS, FAILED} : WriteRow(s, st)

Next ==
    \/ \E r \in Readers : Serve(r) \/ Refuse(r) \/ \E q \in Asks : Receive(r, q)
    \/ \E s \in Scans : StoreStep(s)

Spec == Init /\ [][Next]_vars

-----------------------------------------------------------------------------
(* Properties.                                                             *)

Done(r, op, status) ==
    pc[r] = "done" /\ req[r] # None /\ req[r].op = op /\ resp[r].status = status

\* The authorization rule of the README, which the GETs and CanReadScan share:
\* only the owner of a scan, or anyone for a default endpoint, is answered its
\* content or "allowed"; a scan without an owner is nobody's.
OnlyReadersOfScan ==
    \A r \in Readers, op \in Ops :
        Done(r, op, "200") /\ resp[r].word # "absent" =>
            Owner[req[r].scan] \in {req[r].user, "default"}

\* CanReadScan fails closed, and denies only what it may: whoever may read a
\* scan is never "forbidden", and is told "not visible" only if the scan had
\* no visible row at some moment of the request.
DenialJustified ==
    \A r \in Readers :
        Done(r, "canRead", "403") /\ Owner[req[r].scan] \in {req[r].user, "default"} =>
            /\ resp[r].word = "notVisible"
            /\ "rowless" \in seen[r]

\* GetDiscoveryV1WalletScan and GetDiscoveryV1TLSScan: the owner of a scan gets
\* a 404 only if the scan was in neither store at some moment of the request,
\* or if its first row was written between the two look-ups.
NotFoundExplained ==
    \A r \in Readers :
        /\ Done(r, "detail", "404")
        /\ Owner[req[r].scan] = req[r].user /\ Family[req[r].scan] = req[r].family
        => seen[r] \cap {"absent", "arrived"} # {}

\* What a detail or a list told someone whose lists hold the scan.
Told(r) ==
    /\ \E op \in {"detail", "list", "defaults"} : Done(r, op, "200")
    /\ req[r].op \in {"list", "defaults"} =>
          /\ Family[req[r].scan] = req[r].family
          /\ Owner[req[r].scan] = IF req[r].op = "list" THEN req[r].user ELSE "default"

\* GET detail, the lists and the state machine: a read that begins after another
\* was answered never shows an earlier status, a list never lacks a scan that
\* was shown as started, and two answers never disagree on the outcome, whatever
\* the stores do in between (deleted scans excepted).
StatusNeverGoesBack ==
    \A r \in Readers :
        Told(r) /\ req[r].scan \notin erased =>
            /\ Rank(resp[r].word) >= floor[r]
            /\ \A x \in Readers :
                  /\ Told(x) /\ req[x].scan = req[r].scan
                  /\ Rank(resp[x].word) = 2 /\ Rank(resp[r].word) = 2
                  => resp[x].word = resp[r].word

\* The CBOM handlers (G4): a CBOM is only ever answered for a scan that succeeded, and
\* what it describes stays the outcome of the scan.
CBOMOnlyOfSuccess ==
    \A r \in Readers : Done(r, "cbom", "200") => row[req[r].scan] = SUCCESS
=============================================================================
