---------------------- MODULE MCScanRequestAbandoner ----------------------
(* Small instances of ScanRequestAbandoner: one wallet and one TLS scan.    *)
EXTENDS ScanRequestAbandoner

CONSTANTS w1, t1

BothKinds == [s \in {w1, t1} |-> IF s = w1 THEN "wallet" ELSE "endpoint"]
=============================================================================
