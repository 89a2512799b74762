----------------------------- MODULE MCAccounts -----------------------------
(***************************************************************************)
(* An instance of Accounts for TLC.                                        *)
(***************************************************************************)
EXTENDS Accounts, TLC

CONSTANTS p1, p2, v1, v2, e1, e2

\* Two visitors who give one address; the other address is an older account's.
SharedEmail == (v1 :> e1) @@ (v2 :> e1)
=============================================================================
