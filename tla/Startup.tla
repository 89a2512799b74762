------------------------------ MODULE Startup ------------------------------
(***************************************************************************)
(* The boot of the service: WaitForPersistence, WaitForScanners and        *)
(* InitializeDefaultEndpointsSync, run one after the other by NewContainer *)
(* before it starts its background loops.  cafe-persistence announces      *)
(* itself a bounded number of times, scanners come and go, and the result  *)
(* of a requested endpoint reaches Redis, where it expires.                *)
(***************************************************************************)
EXTENDS Integers, FiniteSets

CONSTANTS URLs,        \* DefaultEndpoints
          MaxSignals,  \* times persistence publishes persistence.ready
          BootFaults   \* subset of BootFaultKinds

\* subscribe: no subscription; signal: persistence.ready is lost; redis: a read
\* fails; publish: a request is not stored; scan: a request never gets a result.
BootFaultKinds == {"subscribe", "signal", "redis", "publish", "scan"}

ASSUME SignalsTyped == MaxSignals \in Nat
ASSUME BootFaultsKnown == BootFaults \subseteq BootFaultKinds

VARIABLES bootPc,    \* where the boot is
          heard,     \* the callback of persistence.ready ran
          signals,   \* signals persistence has published
          scanners,  \* types HasScanner reports
          toCheck,   \* default endpoints not looked up yet
          toRequest, \* endpoints to publish
          remaining, \* endpoints awaited in Redis
          requested, \* requests in the stream
          redis,     \* endpoints with a cached result
          late,      \* the current wait has timed out
          unsure     \* history: endpoints whose result expired or could not be read

boot == <<bootPc, heard, late>>
lists == <<toCheck, toRequest, remaining>>
outside == <<signals, scanners>>
bootVars == <<boot, lists, requested, redis, unsure, outside>>

Types == {"tls", "wallet"}

BootFault(f) == f \in BootFaults

BootInit ==
    /\ bootPc = "subscribe" /\ heard = FALSE /\ late = FALSE
    /\ signals = 0 /\ scanners \in SUBSET Types
    /\ toCheck = URLs /\ toRequest = {} /\ remaining = {}
    /\ requested = {} /\ redis \in SUBSET URLs /\ unsure = {}

-----------------------------------------------------------------------------
(* WaitForPersistence.                                                     *)

\* conn.Subscribe, before the select is reached; its error ends the boot.
Subscribe ==
    /\ bootPc = "subscribe"
    /\ bootPc' = "subscribed" \/ (BootFault("subscribe") /\ bootPc' = "failed")
    /\ UNCHANGED <<heard, late, lists, requested, redis, unsure, outside>>

\* The main goroutine blocks in the select.
EnterSelect ==
    /\ bootPc = "subscribed" /\ bootPc' = "select"
    /\ UNCHANGED <<heard, late, lists, requested, redis, unsure, outside>>

\* persistence.ready and its callback: the send on done does not block, so it
\* is dropped unless the select is waiting.
Signal ==
    /\ signals < MaxSignals /\ signals' = signals + 1
    /\ \/ /\ IF bootPc \in {"subscribed", "select"} THEN heard' = TRUE ELSE UNCHANGED heard
          /\ bootPc' = IF bootPc = "select" THEN "scanners" ELSE bootPc
       \/ BootFault("signal") /\ UNCHANGED <<heard, bootPc>>
    /\ UNCHANGED <<late, lists, requested, redis, unsure, scanners>>

\* The context times out: NewContainer returns an error.
SelectTimeout ==
    /\ bootPc = "select" /\ bootPc' = "failed"
    /\ UNCHANGED <<heard, late, lists, requested, redis, unsure, outside>>

-----------------------------------------------------------------------------
(* WaitForScanners: a poll that ends with both types, or with a warning.   *)

WaitForScanners ==
    /\ bootPc = "scanners" /\ (scanners = Types \/ late)
    /\ bootPc' = "check" /\ late' = FALSE
    /\ UNCHANGED <<heard, lists, requested, redis, unsure, outside>>

-----------------------------------------------------------------------------
(* InitializeDefaultEndpointsSync.                                         *)

\* FindByUserIDAndURL: an endpoint in Redis is skipped; any error requests it.
CheckEndpoint(u) ==
    /\ bootPc = "check" /\ u \in toCheck /\ toCheck' = toCheck \ {u}
    /\ \/ u \in redis /\ UNCHANGED <<toRequest, unsure>>
       \/ u \notin redis /\ toRequest' = toRequest \cup {u} /\ UNCHANGED unsure
       \/ /\ BootFault("redis")
          /\ toRequest' = toRequest \cup {u} /\ unsure' = unsure \cup {u}
    /\ UNCHANGED <<boot, remaining, requested, redis, outside>>

\* Nothing to request, or the requests go out and are awaited.
StartRequests ==
    /\ bootPc = "check" /\ toCheck = {}
    /\ bootPc' = IF toRequest = {} THEN "serving" ELSE "publish"
    /\ remaining' = toRequest
    /\ UNCHANGED <<heard, late, toCheck, toRequest, requested, redis, unsure, outside>>

\* Variant: a request that cannot be published is not awaited.
PublishRequestForget(u) ==
    /\ bootPc = "publish" /\ u \in toRequest /\ toRequest' = toRequest \ {u}
    /\ \/ requested' = requested \cup {u} /\ UNCHANGED remaining
       \/ BootFault("publish") /\ remaining' = remaining \ {u} /\ UNCHANGED requested
    /\ UNCHANGED <<boot, toCheck, redis, unsure, outside>>

\* A request that cannot be published is logged, and awaited all the same.
PublishRequest(u) ==
    /\ bootPc = "publish" /\ u \in toRequest /\ toRequest' = toRequest \ {u}
    /\ requested' = requested \cup {u} \/ (BootFault("publish") /\ UNCHANGED requested)
    /\ UNCHANGED <<boot, toCheck, remaining, redis, unsure, outside>>

StartPolling ==
    /\ bootPc = "publish" /\ toRequest = {} /\ bootPc' = "poll"
    /\ UNCHANGED <<heard, late, lists, requested, redis, unsure, outside>>

\* One tick of the poll: the endpoints that answered leave the list.
Poll ==
    /\ bootPc = "poll" /\ remaining # {} /\ ~late
    /\ \E found \in SUBSET (remaining \cap redis) :
          /\ found = remaining \cap redis \/ BootFault("redis")
          /\ remaining' = remaining \ found
    /\ UNCHANGED <<boot, toCheck, toRequest, requested, redis, unsure, outside>>

\* Variant: the deadline is not looked at.
PollDoneNoDeadline ==
    /\ bootPc = "poll" /\ remaining = {}
    /\ bootPc' = "serving"
    /\ UNCHANGED <<heard, late, lists, requested, redis, unsure, outside>>

\* Everything was found, or the deadline has passed.
PollDone ==
    /\ bootPc = "poll" /\ (remaining = {} \/ late)
    /\ bootPc' = "serving"
    /\ UNCHANGED <<heard, late, lists, requested, redis, unsure, outside>>

\* The timeout of WaitForScanners or the deadline of the poll passes.
Timeout ==
    /\ bootPc \in {"scanners", "poll"} /\ ~late /\ late' = TRUE
    /\ UNCHANGED <<bootPc, heard, lists, requested, redis, unsure, outside>>

-----------------------------------------------------------------------------
(* The outside: scanners, persistence and the TTL of Redis.                *)

ScannersChange ==
    /\ \E ts \in SUBSET Types : ts # scanners /\ scanners' = ts
    /\ UNCHANGED <<boot, lists, requested, redis, unsure, signals>>

\* Persistence writes the result through to Redis.
ResultCached(u) ==
    /\ u \in requested /\ requested' = requested \ {u}
    /\ redis' = redis \cup {u} \/ (BootFault("scan") /\ UNCHANGED redis)
    /\ UNCHANGED <<boot, lists, unsure, outside>>

Expire(u) ==
    /\ u \in redis /\ redis' = redis \ {u}
    /\ unsure' = unsure \cup {u}
    /\ UNCHANGED <<boot, lists, requested, outside>>

BootStep ==
    \/ Subscribe \/ EnterSelect \/ SelectTimeout \/ WaitForScanners
    \/ StartRequests \/ StartPolling \/ Poll \/ PollDone \/ Timeout
    \/ \E u \in URLs : CheckEndpoint(u) \/ PublishRequest(u)

BootNext ==
    \/ BootStep \/ Signal \/ ScannersChange
    \/ \E u \in URLs : ResultCached(u) \/ Expire(u)

BootSpec == BootInit /\ [][BootNext]_bootVars

\* The boot goroutine runs and its timers fire.
BootFairness ==
    /\ WF_bootVars(Subscribe) /\ WF_bootVars(EnterSelect) /\ WF_bootVars(SelectTimeout)
    /\ WF_bootVars(WaitForScanners) /\ WF_bootVars(Timeout)
    /\ WF_bootVars(StartRequests) /\ WF_bootVars(StartPolling) /\ WF_bootVars(PollDone)
    /\ \A u \in URLs : WF_bootVars(CheckEndpoint(u)) /\ WF_bootVars(PublishRequest(u))

BootFairSpec == BootSpec /\ BootFairness

-----------------------------------------------------------------------------
(* Properties.                                                             *)

\* A boot that serves has heard persistence (PERS-D2b); before its deadline it
\* also has a result for every default endpoint, the ones whose request could
\* not be published included, unless the result expired or could not be read.
ServesAllDefaults ==
    bootPc = "serving" => heard /\ (~late => URLs \ redis \subseteq unsure)

\* Every wait of the boot is bounded: it ends serving or failed, whatever
\* persistence, the scanners and Redis do.
BootEnds == <>(bootPc \in {"serving", "failed"})
=============================================================================
