------------------------------- MODULE SignIn -------------------------------
(***************************************************************************)
(* What a sign-in leaves behind: a session token that only the process     *)
(* that issued it can verify, and the TLS results of the user, copied from *)
(* the table into Redis before the handler answers.                        *)
(*                                                                         *)
(* Time passes in ticks of a second.  External: the table and Redis, with  *)
(* the rows and the entries that cafe-persistence writes and removes.      *)
(***************************************************************************)
EXTENDS Integers, FiniteSets

CONSTANTS Replicas,
          Clients, UserOf,    \* clients, and whose password each knows
          MaxRow,             \* rows 1 .. MaxRow are created in this order
          RowUser, RowUrl,    \* user and url of each row
          WarmLimit,          \* maxItemsForWarmOrReadThrough
          Expiry, TTL, WarmTimeout, \* jwtExpiry, tlsScanTTL, the limit of Signin
          MaxStarts,          \* process starts of a behaviour
          Faults,             \* subset of FaultKinds
          None

Rows == 1 .. MaxRow
Users == {RowUser[r] : r \in Rows} \cup {UserOf[c] : c \in Clients}
Urls == {RowUrl[r] : r \in Rows}

\* db: a query fails; redis: a write fails; keys: liboqs makes no keys.
FaultKinds == {"db", "redis", "keys"}

ASSUME BoundsTyped ==
    /\ MaxRow \in Nat /\ WarmLimit \in Nat \ {0} /\ MaxStarts \in Nat
    /\ Expiry \in Nat /\ TTL \in Nat /\ WarmTimeout \in Nat
ASSUME NoneFresh == None \notin Nat /\ None \notin [keys : Nat, age : Nat, run : Nat]
ASSUME RowsTyped == DOMAIN RowUser = Rows /\ DOMAIN RowUrl = Rows

VARIABLES run,      \* number of the start each replica runs since, 0 when it is down
          keys,     \* its key pairs
          starts,   \* process starts so far
          pc, at,   \* where each client's sign-in is, and which replica serves it
          token,    \* [keys, age, run] each client holds, or None; run, the process
                    \* that issued it, is history
          verdict,  \* [answer, run, token] of the last check of the token, or None
          todo,     \* rows the warming of each sign-in still has to save
          warmAge,  \* ticks since its context was made
          gone,     \* for each row: None until written, 0 while it is there,
                    \* then 1 + the ticks since it was deleted
          cache     \* [row, age] of each user and url, or None

processes == <<run, keys, starts>>
clients   == <<pc, at, token, verdict, todo, warmAge>>
stores    == <<gone, cache>>
vars      == <<processes, clients, stores>>

Fault(f) == f \in Faults

Init ==
    /\ run = [p \in Replicas |-> 0] /\ keys = [p \in Replicas |-> 0] /\ starts = 0
    /\ pc = [c \in Clients |-> "out"] /\ at = [c \in Clients |-> None]
    /\ token = [c \in Clients |-> None] /\ verdict = [c \in Clients |-> None]
    /\ todo = [c \in Clients |-> {}] /\ warmAge = [c \in Clients |-> 0]
    /\ gone = [r \in Rows |-> None]
    /\ cache = [u \in Users |-> [url \in Urls |-> None]]

-----------------------------------------------------------------------------
(* Processes.                                                              *)

\* Variant: every process has the same keys.
SharedKeys(n) == 1

\* newServerKeys: start n generates both of its key pairs.
NewServerKeys(n) == n

\* NewAuthService; a replica without keys does not come up.
StartReplica(p) ==
    /\ run[p] = 0 /\ starts < MaxStarts
    /\ starts' = starts + 1
    /\ \/ /\ run' = [run EXCEPT ![p] = starts + 1]
          /\ keys' = [keys EXCEPT ![p] = NewServerKeys(starts + 1)]
       \/ Fault("keys") /\ UNCHANGED <<run, keys>>
    /\ UNCHANGED <<clients, stores>>

\* The sign-ins a replica was serving get no answer.
StopReplica(p) ==
    /\ run[p] # 0 /\ run' = [run EXCEPT ![p] = 0] /\ keys' = [keys EXCEPT ![p] = 0]
    /\ LET cut(c) == at[c] = p /\ pc[c] \in {"warm", "save"} IN
       /\ pc' = [c \in Clients |-> IF cut(c) THEN "out" ELSE pc[c]]
       /\ todo' = [c \in Clients |-> IF cut(c) THEN {} ELSE todo[c]]
       /\ token' = [c \in Clients |-> IF cut(c) THEN None ELSE token[c]]
       /\ warmAge' = [c \in Clients |-> IF cut(c) THEN 0 ELSE warmAge[c]]
    /\ UNCHANGED <<starts, at, verdict, stores>>

-----------------------------------------------------------------------------
(* POST /auth/signin, for a password that matches.                         *)

\* generateToken: a token of the keys of this process.
GenerateToken(p) == [keys |-> keys[p], age |-> 0, run |-> run[p]]

\* AuthService.Signin, and the context of the warming.  What it refuses
\* changes nothing.  A client that signs in again gives up its session.
SigninAuthenticates(c, p) ==
    /\ pc[c] \in {"out", "in"} /\ run[p] # 0
    /\ pc' = [pc EXCEPT ![c] = "warm"] /\ at' = [at EXCEPT ![c] = p]
    /\ token' = [token EXCEPT ![c] = GenerateToken(p)]
    /\ warmAge' = [warmAge EXCEPT ![c] = 0] /\ verdict' = [verdict EXCEPT ![c] = None]
    /\ UNCHANGED <<processes, todo, stores>>

Stored(r) == gone[r] = 0

\* The newest WarmLimit rows of a user.
FindByUserID(user) ==
    LET rows == {r \in Rows : Stored(r) /\ RowUser[r] = user}
    IN  {r \in rows : Cardinality({q \in rows : q > r}) < WarmLimit}

\* WarmForUser reads the rows; if it cannot, the sign-in is answered all the same.
WarmFinds(c) ==
    /\ pc[c] = "warm"
    /\ \/ /\ todo' = [todo EXCEPT ![c] = FindByUserID(UserOf[c])]
          /\ pc' = [pc EXCEPT ![c] = "save"]
       \/ Fault("db") /\ pc' = [pc EXCEPT ![c] = "in"] /\ UNCHANGED todo
    /\ UNCHANGED <<processes, at, token, verdict, warmAge, stores>>

Entry(r) == [row |-> r, age |-> 0]

Put(r) == cache' = [cache EXCEPT ![RowUser[r]][RowUrl[r]] = Entry(r)]

\* Variant: the writes have no time limit.
SaveUnlimited(c, r) == Put(r)

\* SaveByUserIDAndURL under the context of Signin.
SaveByUserIDAndURL(c, r) == warmAge[c] <= WarmTimeout /\ Put(r)

\* The rows are saved newest first; an error is logged and the loop goes on.
WarmSaves(c) ==
    /\ pc[c] = "save"
    /\ \E r \in todo[c] :
          /\ \A q \in todo[c] : q <= r
          /\ todo' = [todo EXCEPT ![c] = @ \ {r}]
          /\ \/ SaveByUserIDAndURL(c, r)
             \/ (Fault("redis") \/ warmAge[c] >= WarmTimeout) /\ UNCHANGED cache
    /\ UNCHANGED <<processes, pc, at, token, verdict, warmAge, gone>>

SigninAnswers(c) ==
    /\ pc[c] = "save" /\ todo[c] = {}
    /\ pc' = [pc EXCEPT ![c] = "in"]
    /\ UNCHANGED <<processes, at, token, verdict, todo, warmAge, stores>>

-----------------------------------------------------------------------------
(* JWTMiddleware and ValidateSessionForCPM.                                *)

\* parseAndValidateClaims: the expiry is cut to a second, so that the check
\* goes either way in the second in which it falls.
Unexpired(t) == t.age < Expiry
MayBeUnexpired(t) == t.age <= Expiry

\* verifyHybridJWT: both signatures are of the keys of one start, and both have
\* to verify.
VerifyHybridJWT(p, t) == MayBeUnexpired(t) /\ t.keys = keys[p]
RefuseHybridJWT(p, t) == ~Unexpired(t) \/ t.keys # keys[p]

Verdict(c, p, answer) ==
    verdict' = [verdict EXCEPT ![c] = [answer |-> answer, run |-> run[p], token |-> token[c]]]

Present(c, p) ==
    /\ pc[c] = "in" /\ run[p] # 0
    /\ \/ VerifyHybridJWT(p, token[c]) /\ Verdict(c, p, "accepted")
       \/ RefuseHybridJWT(p, token[c]) /\ Verdict(c, p, "401")
    /\ UNCHANGED <<processes, pc, at, token, todo, warmAge, stores>>

-----------------------------------------------------------------------------
(* cafe-persistence and Redis (external), and time.                        *)

\* A result is written, and through to Redis unless that fails.
RowWritten(r) ==
    /\ gone[r] = None /\ \A q \in Rows : q < r => gone[q] # None
    /\ gone' = [gone EXCEPT ![r] = 0]
    /\ Put(r) \/ (Fault("redis") /\ UNCHANGED cache)
    /\ UNCHANGED <<processes, clients>>

\* DELETE of a result; its entry may be left to its TTL.
RowDeleted(r) ==
    /\ Stored(r) /\ gone' = [gone EXCEPT ![r] = 1]
    /\ UNCHANGED cache \/ cache' = [cache EXCEPT ![RowUser[r]][RowUrl[r]] = None]
    /\ UNCHANGED <<processes, clients>>

GoneCap == WarmTimeout + TTL + 2

Older(n, cap) == IF n < cap THEN n + 1 ELSE n

\* An entry of Redis a tick later.
Aged(e) == IF e = None \/ e.age >= TTL THEN None ELSE [e EXCEPT !.age = @ + 1]

Tick ==
    /\ token' = [c \in Clients |-> IF token[c] = None THEN None
                                   ELSE [token[c] EXCEPT !.age = Older(@, Expiry + 1)]]
    /\ warmAge' = [c \in Clients |-> IF pc[c] \in {"warm", "save"}
                                     THEN Older(warmAge[c], WarmTimeout + 1) ELSE warmAge[c]]
    /\ gone' = [r \in Rows |-> IF gone[r] \in {None, 0} THEN gone[r] ELSE Older(gone[r], GoneCap)]
    /\ cache' = [u \in Users |-> [url \in Urls |-> Aged(cache[u][url])]]
    /\ UNCHANGED <<processes, pc, at, verdict, todo>>

-----------------------------------------------------------------------------
SigninStep(c) == WarmFinds(c) \/ WarmSaves(c) \/ SigninAnswers(c)

Next ==
    \/ \E p \in Replicas : StartReplica(p) \/ StopReplica(p)
    \/ \E c \in Clients : SigninStep(c) \/ \E p \in Replicas : SigninAuthenticates(c, p) \/ Present(c, p)
    \/ \E r \in Rows : RowWritten(r) \/ RowDeleted(r)
    \/ Tick

Spec == Init /\ [][Next]_vars

-----------------------------------------------------------------------------
(* Properties.                                                             *)

\* newServerKeys and verifyHybridJWT: a session holds in the process run that
\* issued it and in no other, replica or later start, and there until its expiry.
SessionIsLocal ==
    \A c \in Clients : verdict[c] # None =>
        LET v == verdict[c] IN
        IF v.answer = "accepted" THEN v.token.run = v.run /\ v.token.age <= Expiry
        ELSE v.token.run # v.run \/ v.token.age >= Expiry

\* tlsScanTTL and the time limit of Signin: although WarmForUser may write a row
\* that was deleted since it read it, a deleted result is out of Redis once
\* WarmTimeout and TTL have passed.
DeletedEntryExpires ==
    \A u \in Users, url \in Urls : cache[u][url] # None =>
        gone[cache[u][url].row] <= 1 + WarmTimeout + TTL
=============================================================================
