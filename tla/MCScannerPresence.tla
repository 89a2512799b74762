------------------------- MODULE MCScannerPresence -------------------------
(* Small instances of ScannerPresence.                                      *)
EXTENDS ScannerPresence

CONSTANTS w1, w2, t1
=============================================================================
