-------------------------- MODULE MCWalletLifecycle --------------------------
(* A small instance of WalletLifecycle.                                      *)
EXTENDS WalletLifecycle

CONSTANTS s1, s2, p

\* A scan that completes and is reported as failed too, a scan whose started
\* event may come late and whose projection is never built, and two events
\* that are no commands.
MixedSubject == <<"completed", "failed", "completed", "started", "tls", "invalid">>
MixedScanOf  == <<s1, s1, s2, s2, s1, s1>>
=============================================================================
