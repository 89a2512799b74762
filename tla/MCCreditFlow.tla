---------------------------- MODULE MCCreditFlow ----------------------------
(* One wallet scan, its completion, and a failure for each process run.      *)
EXTENDS CreditFlow

CONSTANTS s1, p

OneScanOf   == <<s1, s1, s1>>
OneSubject  == <<"completed", "failed", "failed">>
=============================================================================
