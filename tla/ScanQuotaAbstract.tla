------------------------- MODULE ScanQuotaAbstract -------------------------
(***************************************************************************)
(* What the quota ledger promises to the rest of the service: credits are  *)
(* taken one at a time, only while the plan of the scan's owner has one    *)
(* left, and given back.  There are no transactions, locks or snapshots.   *)
(***************************************************************************)
EXTENDS Integers, FiniteSets

CONSTANTS Scans,   \* scan identifiers
          Keys,    \* (user, scan kind) pairs: the plan has one limit for each
          KeyOf,   \* the key each scan is billed to
          Limit    \* the plan limit of each key; <= 0 is unlimited

VARIABLE used      \* the scans that hold a credit

UsedBy(k) == {s \in used : KeyOf[s] = k}

Init == used = {}

\* ReserveScanUsage as its callers see it.
Take(s) ==
    /\ s \notin used
    /\ Limit[KeyOf[s]] > 0 => Cardinality(UsedBy(KeyOf[s])) < Limit[KeyOf[s]]
    /\ used' = used \cup {s}

\* ReleaseSuccessUsageByScanID, and the release on scan.failed.
GiveBack(s) ==
    /\ s \in used
    /\ used' = used \ {s}

Next == \E s \in Scans : Take(s) \/ GiveBack(s)

Spec == Init /\ [][Next]_used
=============================================================================
