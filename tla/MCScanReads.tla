---------------------------- MODULE MCScanReads ----------------------------
(* A small instance of ScanReads.                                           *)
EXTENDS ScanReads, TLC

CONSTANTS w1, t1, d1, o1, u1, u2, r1, r2

\* A wallet scan and a TLS scan of a user, and TLS scans of the default
\* catalog and of nobody.
ReadFamily == w1 :> "wallet" @@ t1 :> "tls" @@ d1 :> "tls" @@ o1 :> "tls"
ReadOwner  == w1 :> u1 @@ t1 :> u1 @@ d1 :> "default" @@ o1 :> "nobody"

ReaderSymmetry == Permutations({r1, r2})

\* Bound: a behaviour is about one scan; reads of different scans share nothing.
OneScanAtATime ==
    LET asked == {req[r].scan : r \in {x \in Readers : req[x] # None}}
        known == requested \cup {s \in Scans : row[s] # NoRow}
    IN  Cardinality(asked \cup known) <= 1

\* Bound: only what details and lists tell those who may see the scan is
\* compared; every other request, and one that fails, is asked for alone.
Compared(r) ==
    /\ req[r].op \in {"detail", "list", "defaults"}
    /\ Owner[req[r].scan] \in {req[r].user, "default"}
    /\ resp[r].status # "5xx"

OthersAlone ==
    LET asking == {r \in Readers : req[r] # None}
    IN  Cardinality(asking) > 1 => \A r \in asking : Compared(r)

Bound == OneScanAtATime /\ OthersAlone
=============================================================================
