----------------------------- MODULE ScanStates -----------------------------
(***************************************************************************)
(* The scan state machine of pkg/scan and the places of the service that   *)
(* read a stored status: the statuses the ledger counts as in flight and   *)
(* the lifecycle word the v1 API shows.                                    *)
(***************************************************************************)

PENDING     == "PENDING"
RUNNING     == "RUNNING"
SUCCESS     == "SUCCESS"
FAILED      == "FAILED"
TIMEOUT     == "TIMEOUT"
UNREACHABLE == "UNREACHABLE"

\* A scan that has no row in Postgres yet.
NoRow == "none"

TerminalStates == {SUCCESS, FAILED, TIMEOUT, UNREACHABLE}

\* The empty status of legacy rows is stored as is and read as PENDING.
StoredStates == {"", PENDING, RUNNING} \cup TerminalStates

RowStates == StoredStates \cup {NoRow}

\* Variant: a scan that failed may still succeed.
ValidTransitionRetried(from, to) ==
    \/ from \in {"", PENDING} /\ to = RUNNING
    \/ from \in {"", PENDING, RUNNING} /\ to \in TerminalStates
    \/ from = FAILED /\ to = SUCCESS

ValidTransition(from, to) ==
    \/ from \in {"", PENDING} /\ to = RUNNING
    \/ from \in {"", PENDING, RUNNING} /\ to \in TerminalStates

IsTerminal(status) == status \in TerminalStates

\* scanUsageInFlightStatuses of the ledger repository.
InFlightStatuses == {PENDING, RUNNING, ""}

\* walletScanLifecycleStatusV1: the word GET shows for a stored status.
LifecycleStatus(status) ==
    CASE status \in {PENDING, ""}                     -> "requested"
      [] status = SUCCESS                             -> "completed"
      [] status \in TerminalStates \ {SUCCESS}        -> "failed"
      [] OTHER                                        -> "started"
=============================================================================
