------------------------- MODULE MCScanQuotaLedger -------------------------
(***************************************************************************)
(* An instance of ScanQuotaLedger for TLC.                                 *)
(***************************************************************************)
EXTENDS ScanQuotaLedger, TLC

CONSTANTS s1, s2, s3, wallet, endpoint, l1

\* Two wallet POSTs against a limit of one, and an endpoint POST whose
\* key falls on the same advisory lock.
QuotaScans   == {s1, s2, s3}
QuotaKeyOf   == (s1 :> wallet) @@ (s2 :> wallet) @@ (s3 :> endpoint)
QuotaLockKey == [k \in {wallet, endpoint} |-> l1]
QuotaLimit   == (wallet :> 1) @@ (endpoint :> 0)
=============================================================================
