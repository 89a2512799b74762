-------------------------- MODULE ScannerPresence --------------------------
(***************************************************************************)
(* ScannerPresenceTracker: joined and left messages keep the instances of  *)
(* each type in memory, heartbeats keep a Redis key per type, and a sweep  *)
(* drops the wallet instances that stopped announcing themselves.  POST    *)
(* asks HasScanner; GET /scanners shows ListScanners.                      *)
(*                                                                         *)
(* Time passes in ticks and the model keeps ages instead of clock values.  *)
(* Scanners are external: a live one announces itself at least every       *)
(* AnnounceEvery ticks; core NATS may lose any message.                    *)
(***************************************************************************)
EXTENDS Integers, FiniteSets

CONSTANTS WalletIds, TLSIds,
          Indexers,      \* the indexers a wallet instance may announce
          SilentAfter,   \* walletPresenceSilentAfter, in ticks
          SweepEvery,    \* walletPresenceSweepInterval
          HeartbeatTTL,  \* scannerHeartbeatTTL
          AnnounceEvery, \* the announcement period of a live instance
          PresenceFaults, \* subset of PresenceFaultKinds
          Unset

\* lost: a joined, left or heartbeat message is lost; redis: Set or Get fails.
PresenceFaultKinds == {"lost", "redis"}

Ids == WalletIds \cup TLSIds

ASSUME WindowsAreTicks ==
    /\ SilentAfter \in Nat /\ SweepEvery \in Nat \ {0} /\ HeartbeatTTL \in Nat \ {0}
    /\ AnnounceEvery \in Nat \ {0}
ASSUME IdsDisjoint == WalletIds \cap TLSIds = {} /\ Unset \notin Nat /\ Unset \notin Indexers
ASSUME PresenceFaultsKnown == PresenceFaults \subseteq PresenceFaultKinds

VARIABLES alive,    \* instances that run
          indexer,  \* the indexer each wallet instance announces
          quiet,    \* ticks since a live instance last announced itself
          byType,   \* the instances in t.byType, of both types
          lastSeen, \* age of walletMeta[id].lastSeen, or Unset
          metaIndexer, \* walletMeta[id].indexer
          ttl,      \* what is left of the Redis key of each type, 0 if gone
          sweepAge, \* ticks since the last sweep
          unheard   \* history: live instances whose last announcement was lost

world   == <<alive, indexer, quiet>>
tracker == <<byType, lastSeen, metaIndexer>>
presenceVars == <<world, tracker, ttl, sweepAge, unheard>>

ScannerTypes == {"wallet", "tls"}

IdsOf(t) == IF t = "wallet" THEN WalletIds ELSE TLSIds

TypeOf(s) == IF s \in WalletIds THEN "wallet" ELSE "tls"

PresenceFault(f) == f \in PresenceFaults

PresenceInit ==
    /\ alive = {} /\ indexer \in [WalletIds -> Indexers]
    /\ quiet = [s \in Ids |-> 0]
    /\ byType = {} /\ lastSeen = [s \in WalletIds |-> Unset]
    /\ metaIndexer = [s \in WalletIds |-> Unset]
    /\ ttl = [t \in ScannerTypes |-> 0] /\ sweepAge = 0 /\ unheard = {}

-----------------------------------------------------------------------------
(* The tracker.                                                            *)

\* Variant: a later announcement refreshes lastSeen only.
JoinedKeepsIndexer(s) ==
    /\ byType' = byType \cup {s}
    /\ IF s \in WalletIds
       THEN /\ lastSeen' = [lastSeen EXCEPT ![s] = 0]
            /\ metaIndexer' = [metaIndexer EXCEPT ![s] = IF @ = Unset THEN indexer'[s] ELSE @]
       ELSE UNCHANGED <<lastSeen, metaIndexer>>

\* handleMessage, EventJoined.
Joined(s) ==
    /\ byType' = byType \cup {s}
    /\ IF s \in WalletIds
       THEN /\ lastSeen' = [lastSeen EXCEPT ![s] = 0]
            /\ metaIndexer' = [metaIndexer EXCEPT ![s] = indexer'[s]]
       ELSE UNCHANGED <<lastSeen, metaIndexer>>

\* handleMessage, EventLeft.
Left(s) ==
    /\ byType' = byType \ {s}
    /\ IF s \in WalletIds
       THEN /\ lastSeen' = [lastSeen EXCEPT ![s] = Unset]
            /\ metaIndexer' = [metaIndexer EXCEPT ![s] = Unset]
       ELSE UNCHANGED <<lastSeen, metaIndexer>>

\* handleHeartbeat: SET scanner:<type>:last_seen with its TTL; errors are dropped.
Heartbeat(t) ==
    \/ ttl' = [ttl EXCEPT ![t] = HeartbeatTTL]
    \/ PresenceFault("redis") /\ UNCHANGED ttl

\* Variant: an instance that was silent for exactly the window goes too.
SilentEarly == {s \in WalletIds : lastSeen[s] # Unset /\ lastSeen[s] >= SilentAfter}

\* Variant: the silence window is counted from the sweep before.
SilentLate == {s \in WalletIds : lastSeen[s] # Unset /\ lastSeen[s] > SilentAfter + SweepEvery}

Silent == {s \in WalletIds : lastSeen[s] # Unset /\ lastSeen[s] > SilentAfter}

\* runWalletSweep: the ticker fires and expireSilentWallets runs.
expireSilentWallets ==
    /\ sweepAge' = 0
    /\ byType' = byType \ Silent
    /\ lastSeen' = [s \in WalletIds |-> IF s \in Silent THEN Unset ELSE lastSeen[s]]
    /\ metaIndexer' = [s \in WalletIds |-> IF s \in Silent THEN Unset ELSE metaIndexer[s]]
    /\ UNCHANGED <<world, ttl, unheard>>

Sweep == sweepAge >= SweepEvery /\ expireSilentWallets

Instances(t) == byType \cap IdsOf(t)

\* Variant: an instance of any type will do.
HasScannerAnyType(t) == ttl[t] > 0 \/ byType # {}

\* HasScanner: a Redis key that has not expired, or an instance in memory.
HasScanner(t) == ttl[t] > 0 \/ Instances(t) # {}

\* ListScanners: the types it returns.
ListScanners == {t \in ScannerTypes : Instances(t) # {}}

\* OnchainIndexer: the indexer every instance agrees on, or "unknown".
OnchainIndexer ==
    IF \E i \in Indexers : Instances("wallet") # {} /\
                           \A s \in Instances("wallet") : metaIndexer[s] = i
    THEN CHOOSE i \in Indexers : \A s \in Instances("wallet") : metaIndexer[s] = i
    ELSE "unknown"

-----------------------------------------------------------------------------
(* Scanners, external.                                                     *)

\* A joined message arrives or is lost.
SendJoined(s) ==
    \/ Joined(s) /\ unheard' = unheard \ {s}
    \/ PresenceFault("lost") /\ unheard' = unheard \cup {s} /\ UNCHANGED tracker

\* A scanner starts, possibly again with another indexer, and announces itself.
Start(s) ==
    /\ s \notin alive /\ alive' = alive \cup {s}
    /\ IF s \in WalletIds
       THEN \E i \in Indexers : indexer' = [indexer EXCEPT ![s] = i]
       ELSE UNCHANGED indexer
    /\ quiet' = [quiet EXCEPT ![s] = 0]
    /\ SendJoined(s)
    /\ UNCHANGED <<ttl, sweepAge>>

\* A live wallet instance announces itself again.  TLS instances announce once.
Announce(s) ==
    /\ s \in alive \cap WalletIds /\ quiet[s] > 0
    /\ quiet' = [quiet EXCEPT ![s] = 0]
    /\ UNCHANGED <<alive, indexer>>
    /\ SendJoined(s)
    /\ UNCHANGED <<ttl, sweepAge>>

SendHeartbeat(s) ==
    /\ s \in alive
    /\ Heartbeat(TypeOf(s)) \/ (PresenceFault("lost") /\ UNCHANGED ttl)
    /\ UNCHANGED <<world, tracker, sweepAge, unheard>>

Stop(s) ==
    /\ s \in alive /\ alive' = alive \ {s}
    /\ quiet' = [quiet EXCEPT ![s] = 0] /\ unheard' = unheard \ {s}
    /\ Left(s) \/ (PresenceFault("lost") /\ UNCHANGED tracker)
    /\ UNCHANGED <<indexer, ttl, sweepAge>>

\* A crash sends no message.
Crash(s) ==
    /\ s \in alive /\ alive' = alive \ {s}
    /\ quiet' = [quiet EXCEPT ![s] = 0] /\ unheard' = unheard \ {s}
    /\ UNCHANGED <<indexer, tracker, ttl, sweepAge>>

PresenceTick ==
    /\ sweepAge < SweepEvery
    /\ \A s \in alive \cap WalletIds : quiet[s] < AnnounceEvery
    /\ sweepAge' = sweepAge + 1
    /\ quiet' = [s \in Ids |-> IF s \in alive \cap WalletIds THEN quiet[s] + 1 ELSE 0]
    /\ lastSeen' = [s \in WalletIds |->
          IF lastSeen[s] = Unset THEN Unset ELSE lastSeen[s] + 1]
    /\ ttl' = [t \in ScannerTypes |-> IF ttl[t] > 0 THEN ttl[t] - 1 ELSE 0]
    /\ UNCHANGED <<alive, indexer, byType, metaIndexer, unheard>>

PresenceNext ==
    \/ Sweep \/ PresenceTick
    \/ \E s \in Ids : Start(s) \/ Announce(s) \/ SendHeartbeat(s) \/ Stop(s) \/ Crash(s)

PresenceSpec == PresenceInit /\ [][PresenceNext]_presenceVars

\* Time passes and the sweep's ticker fires; a live instance announces itself.
PresenceFairness ==
    WF_presenceVars(PresenceTick) /\ WF_presenceVars(Sweep) /\ \A s \in WalletIds : WF_presenceVars(Announce(s))

PresenceFairSpec == PresenceSpec /\ PresenceFairness

-----------------------------------------------------------------------------
(* Properties.                                                             *)

\* The sweep: a listed wallet instance announced itself at most SilentAfter
\* and one sweep period ago.
NoStaleWallet ==
    \A s \in Instances("wallet") : lastSeen[s] <= SilentAfter + SweepEvery

\* The sweep never drops a wallet instance that runs, announces itself in time
\* and whose last announcement arrived.
LiveWalletListed == (alive \cap WalletIds) \ unheard \subseteq byType

\* OnchainIndexer names an indexer only if every live wallet instance whose
\* last announcement arrived uses it.
IndexerAgreed ==
    OnchainIndexer # "unknown" =>
        \A s \in (alive \cap WalletIds) \ unheard : indexer[s] = OnchainIndexer

\* When all wallet instances are gone, HasScanner, which POST asks, and
\* ListScanners, which GET shows, both say so at last, unless one of them
\* starts again.
WalletGoesDown ==
    alive \cap WalletIds = {} ~>
        \/ ~HasScanner("wallet") /\ "wallet" \notin ListScanners
        \/ alive \cap WalletIds # {}
=============================================================================
