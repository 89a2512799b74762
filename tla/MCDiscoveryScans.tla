-------------------------- MODULE MCDiscoveryScans --------------------------
(***************************************************************************)
(* An instance of DiscoveryScans for TLC: three POSTs for one wallet       *)
(* address and one for a TLS endpoint, a plan with two wallet credits.     *)
(***************************************************************************)
EXTENDS DiscoveryScans, TLC

CONSTANTS s1, s2, s3, t1, a1, host

MixedFamily  == [s \in {s1, s2, s3, t1} |-> IF s = t1 THEN "tls" ELSE "wallet"]
MixedAddress == [s \in {s1, s2, s3, t1} |-> IF s = t1 THEN host ELSE a1]
TwoWallets   == [f \in {"wallet", "tls"} |-> IF f = "wallet" THEN 2 ELSE 0]

\* Bound: wallet and TLS scans, which share no store entry, are not mixed in
\* one behaviour.
OneFamilyAtATime ==
    \A s, t \in Scans : pc[s] # "idle" /\ pc[t] # "idle" => Family[s] = Family[t]

\* The first wallet scan and the TLS scan meet every fault.
SomeFaults ==
    [s \in {s1, s2, s3, t1} |-> IF s \in {s1, t1} THEN FaultKinds ELSE {"publish"}]

\* Bound: a third wallet POST comes only where no request was left half done
\* and no DELETE failed.
ThirdWithoutFaults ==
    (\A s \in {s1, s2, s3} : pc[s] # "idle") =>
        hurt = {} /\ \A s \in Scans : resp[s] # "503" /\ dresp[s] # "503"

\* The second and the third wallet scan meet the same faults and are not deleted.
WalletSymmetry == Permutations({s2, s3})

\* Bound: one scan of a behaviour is left half done.
OneHurt == Cardinality(hurt) <= 1

Bound == OneFamilyAtATime /\ ThirdWithoutFaults /\ OneHurt
=============================================================================
