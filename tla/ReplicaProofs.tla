---------------------------- MODULE ReplicaProofs ----------------------------
(***************************************************************************)
(* Proofs about what a replica decides from its own memory.  First the     *)
(* sessions and the warmed cache, for any replicas, clients, rows, delays  *)
(* and faults; then the presence tracker, for any instances and windows,   *)
(* and the boot that waits for the scanners it tracks, for any default     *)
(* endpoints.                                                              *)
(*                                                                         *)
(* KeyInv ties the keys of a process and of a token to the start that made *)
(* them.  CacheInv bounds the age of a deletion by the age of the entry    *)
(* that still shows the row; a late write of WarmForUser keeps it because  *)
(* WarmInv bounds the age of a deletion by the age of the context under    *)
(* which the row was read.                                                 *)
(***************************************************************************)
EXTENDS SignIn, ScannerPresence, Startup, TLAPS

Tokens == [keys : Nat, age : Nat, run : Nat]
Verdicts == [answer : {"accepted", "401"}, run : Nat, token : Tokens]
Entries == [row : Rows, age : Nat]

TypeInv ==
    /\ run \in [Replicas -> Nat] /\ keys \in [Replicas -> Nat] /\ starts \in Nat
    /\ pc \in [Clients -> {"out", "warm", "save", "in"}]
    /\ at \in [Clients -> Replicas \cup {None}]
    /\ token \in [Clients -> Tokens \cup {None}]
    /\ verdict \in [Clients -> Verdicts \cup {None}]
    /\ todo \in [Clients -> SUBSET Rows] /\ warmAge \in [Clients -> Nat]
    /\ gone \in [Rows -> Nat \cup {None}]
    /\ cache \in [Users -> [Urls -> Entries \cup {None}]]

\* Keys and tokens are of the start that made them.
KeyInv ==
    /\ \A p \in Replicas : keys[p] = run[p]
    /\ \A c \in Clients :
          /\ pc[c] # "out" => token[c] # None
          /\ token[c] # None => token[c].keys = token[c].run

\* A row that is still to be saved was stored when the context was made, or later.
WarmInv ==
    \A c \in Clients : \A r \in todo[c] :
        /\ pc[c] = "save" /\ gone[r] # None
        /\ warmAge[c] <= WarmTimeout => gone[r] <= 1 + warmAge[c]

\* An entry e is no older than its TTL and, when g tells the age of deletions,
\* not much younger than the deletion of its row.
Explained(g, e) ==
    e # None => g[e.row] # None /\ e.age <= TTL /\ g[e.row] <= 1 + WarmTimeout + e.age

CacheInv == \A u \in Users, url \in Urls : Explained(gone, cache[u][url])

IInv == TypeInv /\ KeyInv /\ WarmInv /\ CacheInv /\ SessionIsLocal

-----------------------------------------------------------------------------
\* Every row is of a user and of a url of the cache.
LEMMA RowFacts == \A r \in Rows : RowUser[r] \in Users /\ RowUrl[r] \in Urls
BY DEF Users, Urls

\* A write to one entry of the cache.
LEMMA CacheWrite ==
    ASSUME TypeInv, NEW r \in Rows, NEW e \in Entries \cup {None},
           cache' = [cache EXCEPT ![RowUser[r]][RowUrl[r]] = e]
    PROVE  /\ cache' \in [Users -> [Urls -> Entries \cup {None}]]
           /\ \A u \in Users, url \in Urls :
                 cache'[u][url] = IF u = RowUser[r] /\ url = RowUrl[r] THEN e ELSE cache[u][url]
BY RowFacts DEF TypeInv

\* A tick of the cache.
LEMMA CacheTick ==
    ASSUME TypeInv, Tick
    PROVE  /\ cache' \in [Users -> [Urls -> Entries \cup {None}]]
           /\ \A u \in Users, url \in Urls : cache'[u][url] = Aged(cache[u][url])
<1>1. \A e \in Entries \cup {None} : Aged(e) \in Entries \cup {None}
  BY BoundsTyped DEF Aged, Entries
<1>. QED
  BY <1>1 DEF TypeInv, Tick

\* The rows that a warming reads are stored.
LEMMA FindStored == \A user : /\ FindByUserID(user) \in SUBSET Rows
                               /\ \A r \in FindByUserID(user) : gone[r] = 0
BY DEF FindByUserID, Stored

\* A tick of a token.
LEMMA TokenTick ==
    \A t \in Tokens : LET u == [t EXCEPT !.age = Older(@, Expiry + 1)] IN
        u \in Tokens /\ u # None /\ u.keys = t.keys /\ u.run = t.run
BY BoundsTyped, NoneFresh DEF Tokens, Older

\* A new entry.
LEMMA EntryType == \A r \in Rows : Entry(r) \in Entries /\ Entry(r).row = r /\ Entry(r).age = 0
BY DEF Entry, Entries

\* Type correctness.
LEMMA TypeStep == TypeInv /\ KeyInv /\ [Next]_vars => TypeInv'
<1> USE BoundsTyped, NoneFresh, RowsTyped, RowFacts DEF processes, clients, stores,
   TypeInv
<1>1. SUFFICES ASSUME TypeInv, KeyInv, [Next]_vars PROVE TypeInv'
  OBVIOUS
<1>2. CASE \E p \in Replicas : StartReplica(p)
  BY <1>2, <1>1 DEF StartReplica, NewServerKeys
<1>3. CASE \E p \in Replicas : StopReplica(p)
  BY <1>3, <1>1 DEF StopReplica
<1>4. CASE \E c \in Clients, p \in Replicas : SigninAuthenticates(c, p)
  BY <1>4, <1>1 DEF SigninAuthenticates, GenerateToken, Tokens
<1>5. CASE \E c \in Clients : WarmFinds(c)
  <2>1. PICK c \in Clients : WarmFinds(c)
    BY <1>5
  <2>2. todo' \in [Clients -> SUBSET Rows]
    <3> DEFINE found == FindByUserID(UserOf[c])
    <3>1. found \in SUBSET Rows
      BY FindStored
    <3>2. todo' = todo \/ todo' = [todo EXCEPT ![c] = found]
      BY <2>1 DEF WarmFinds
    <3> HIDE DEF found
    <3>. QED
      BY <3>1, <3>2, <2>1, <1>1
  <2>3. pc' \in [Clients -> {"out", "warm", "save", "in"}]
    BY <2>1, <1>1 DEF WarmFinds
  <2>. QED
    BY <2>1, <2>2, <2>3, <1>1 DEF WarmFinds
<1>6. CASE \E c \in Clients : WarmSaves(c)
  <2>1. PICK c \in Clients : WarmSaves(c)
    BY <1>6
  <2>2. PICK r \in todo[c] : /\ todo' = [todo EXCEPT ![c] = @ \ {r}]
                             /\ (SaveByUserIDAndURL(c, r) \/ UNCHANGED cache)
    BY <2>1, Zenon DEF WarmSaves
  <2>3. r \in Rows
    BY <2>2, <1>1, <2>1
  <2>4. CASE SaveByUserIDAndURL(c, r)
    BY <2>1, <2>2, <2>3, <2>4, <1>1, CacheWrite, EntryType DEF WarmSaves, SaveByUserIDAndURL, Put
  <2>5. CASE UNCHANGED cache
    BY <2>1, <2>2, <2>3, <2>5, <1>1 DEF WarmSaves
  <2>. QED
    BY <2>2, <2>4, <2>5
<1>7. CASE \E c \in Clients : SigninAnswers(c)
  BY <1>7, <1>1 DEF SigninAnswers
<1>8. CASE \E c \in Clients, p \in Replicas : Present(c, p)
  <2>1. PICK c \in Clients, p \in Replicas : Present(c, p)
    BY <1>8
  <2>2. token[c] \in Tokens /\ run[p] \in Nat
    BY <2>1, <1>1 DEF Present, KeyInv
  <2>3. \A a \in {"accepted", "401"} : [answer |-> a, run |-> run[p], token |-> token[c]] \in Verdicts
    BY <2>2 DEF Verdicts
  <2>. QED
    BY <2>1, <2>3, <1>1 DEF Present, Verdict
<1>9. CASE \E r \in Rows : RowWritten(r)
  <2>1. PICK r \in Rows : RowWritten(r)
    BY <1>9
  <2>2. CASE Put(r)
    BY <2>1, <2>2, <1>1, CacheWrite, EntryType DEF RowWritten, Put
  <2>3. CASE UNCHANGED cache
    BY <2>1, <2>3, <1>1 DEF RowWritten
  <2>. QED
    BY <2>1, <2>2, <2>3 DEF RowWritten
<1>10. CASE \E r \in Rows : RowDeleted(r)
  <2>1. PICK r \in Rows : RowDeleted(r)
    BY <1>10
  <2>2. CASE cache' = [cache EXCEPT ![RowUser[r]][RowUrl[r]] = None]
    BY <2>1, <2>2, <1>1, CacheWrite DEF RowDeleted, Stored
  <2>3. CASE UNCHANGED cache
    BY <2>1, <2>3, <1>1 DEF RowDeleted, Stored
  <2>. QED
    BY <2>1, <2>2, <2>3 DEF RowDeleted
<1>11. CASE Tick
  <2>1. \A n \in Nat : Older(n, WarmTimeout + 1) \in Nat /\ Older(n, GoneCap) \in Nat
    BY DEF Older, GoneCap
  <2>. QED
    BY <1>11, <1>1, <2>1, TokenTick, CacheTick DEF Tick
<1>12. CASE UNCHANGED vars
  BY <1>12, <1>1, SMTT(30) DEF vars
<1> HIDE DEF TypeInv
<1>. QED
  BY <1>1, <1>2, <1>3, <1>4, <1>5, <1>6, <1>7, <1>8, <1>9, <1>10, <1>11, <1>12,
     Zenon DEF Next, SigninStep

\* Keys and tokens.
LEMMA KeyStep == TypeInv /\ KeyInv /\ [Next]_vars => KeyInv'
<1> USE BoundsTyped, NoneFresh, RowsTyped, RowFacts DEF processes, clients, stores,
   TypeInv, KeyInv
<1>1. SUFFICES ASSUME TypeInv /\ KeyInv, [Next]_vars PROVE KeyInv'
  OBVIOUS
<1>2. CASE \E p \in Replicas : StartReplica(p)
  BY <1>2, <1>1 DEF StartReplica, NewServerKeys
<1>3. CASE \E p \in Replicas : StopReplica(p)
  BY <1>3, <1>1 DEF StopReplica
<1>4. CASE \E c \in Clients, p \in Replicas : SigninAuthenticates(c, p)
  BY <1>4, <1>1 DEF SigninAuthenticates, GenerateToken, Tokens
<1>5. CASE \E c \in Clients : WarmFinds(c)
  BY <1>5, <1>1 DEF WarmFinds
<1>6. CASE \E c \in Clients : WarmSaves(c)
  BY <1>6, <1>1 DEF WarmSaves, SaveByUserIDAndURL, Put, Entry
<1>7. CASE \E c \in Clients : SigninAnswers(c)
  BY <1>7, <1>1 DEF SigninAnswers
<1>8. CASE \E c \in Clients, p \in Replicas : Present(c, p)
  BY <1>8, <1>1 DEF Present, VerifyHybridJWT, RefuseHybridJWT, Verdict, Unexpired,
     MayBeUnexpired
<1>9. CASE \E r \in Rows : RowWritten(r)
  BY <1>9, <1>1 DEF RowWritten, Put, Entry
<1>10. CASE \E r \in Rows : RowDeleted(r)
  BY <1>10, <1>1 DEF RowDeleted, Stored
<1>11. CASE Tick
  BY <1>11, <1>1, TokenTick DEF Tick
<1>12. CASE UNCHANGED vars
  BY <1>12, <1>1, SMTT(30) DEF vars
<1> HIDE DEF TypeInv, KeyInv
<1>. QED
  BY <1>1, <1>2, <1>3, <1>4, <1>5, <1>6, <1>7, <1>8, <1>9, <1>10, <1>11, <1>12,
     Zenon DEF Next, SigninStep

\* The rows of a warming.
LEMMA WarmStep == TypeInv /\ WarmInv /\ [Next]_vars => WarmInv'
<1> USE BoundsTyped, NoneFresh, RowsTyped, RowFacts DEF processes, clients, stores,
   TypeInv, WarmInv
<1>1. SUFFICES ASSUME TypeInv /\ WarmInv, [Next]_vars PROVE WarmInv'
  OBVIOUS
<1>2. CASE \E p \in Replicas : StartReplica(p)
  BY <1>2, <1>1 DEF StartReplica, NewServerKeys
<1>3. CASE \E p \in Replicas : StopReplica(p)
  BY <1>3, <1>1 DEF StopReplica
<1>4. CASE \E c \in Clients, p \in Replicas : SigninAuthenticates(c, p)
  BY <1>4, <1>1 DEF SigninAuthenticates, GenerateToken
<1>5. CASE \E c \in Clients : WarmFinds(c)
  BY <1>5, <1>1, FindStored DEF WarmFinds
<1>6. CASE \E c \in Clients : WarmSaves(c)
  BY <1>6, <1>1 DEF WarmSaves, SaveByUserIDAndURL, Put, Entry
<1>7. CASE \E c \in Clients : SigninAnswers(c)
  BY <1>7, <1>1 DEF SigninAnswers
<1>8. CASE \E c \in Clients, p \in Replicas : Present(c, p)
  BY <1>8, <1>1, Zenon DEF Present
<1>9. CASE \E r \in Rows : RowWritten(r)
  BY <1>9, <1>1 DEF RowWritten, Put, Entry
<1>10. CASE \E r \in Rows : RowDeleted(r)
  BY <1>10, <1>1 DEF RowDeleted, Stored
<1>11. CASE Tick
  BY <1>11, <1>1 DEF Tick, Older, Aged, GoneCap
<1>12. CASE UNCHANGED vars
  BY <1>12, <1>1, SMTT(30) DEF vars
<1> HIDE DEF TypeInv, WarmInv
<1>. QED
  BY <1>1, <1>2, <1>3, <1>4, <1>5, <1>6, <1>7, <1>8, <1>9, <1>10, <1>11, <1>12,
     Zenon DEF Next, SigninStep

\* Writing and deleting rows keep what was said of an entry.
LEMMA StaysExplained ==
    ASSUME NEW g \in [Rows -> Nat \cup {None}], NEW h \in [Rows -> Nat \cup {None}],
           \A q \in Rows : g[q] # None => h[q] # None /\ (h[q] = g[q] \/ h[q] = 1),
           NEW e \in Entries \cup {None}, Explained(g, e)
    PROVE  Explained(h, e)
BY BoundsTyped DEF Explained, Entries

\* A tick ages an entry as much as the deletion of its row.
LEMMA AgesExplained ==
    ASSUME NEW g \in [Rows -> Nat \cup {None}], NEW h,
           h = [r \in Rows |-> IF g[r] \in {None, 0} THEN g[r] ELSE Older(g[r], GoneCap)],
           NEW e \in Entries \cup {None}, Explained(g, e)
    PROVE  Explained(h, Aged(e))
<1>1. CASE e = None \/ e.age >= TTL
  BY <1>1 DEF Aged, Explained
<1>2. CASE ~(e = None \/ e.age >= TTL)
  <2>1. e.row \in Rows /\ e.age \in Nat /\ e.age < TTL /\ e # None
    BY <1>2, BoundsTyped DEF Entries
  <2>2. Aged(e).row = e.row /\ Aged(e).age = e.age + 1
    BY <1>2 DEF Aged, Entries
  <2>3. g[e.row] \in Nat /\ g[e.row] <= 1 + WarmTimeout + e.age
    BY <2>1, NoneFresh DEF Explained
  <2>4. h[e.row] \in Nat /\ h[e.row] <= g[e.row] + 1
    BY <2>1, <2>3 DEF Older
  <2>5. h[e.row] # None
    BY <2>4, NoneFresh, Zenon
  <2>. QED
    BY <2>1, <2>2, <2>3, <2>4, <2>5, BoundsTyped DEF Explained
<1>. QED
  BY <1>1, <1>2

\* The entries of Redis.
LEMMA CacheStep ==
    TypeInv /\ TypeInv' /\ WarmInv /\ CacheInv /\ [Next]_vars => CacheInv'
<1>1. SUFFICES ASSUME TypeInv, TypeInv', WarmInv, CacheInv, [Next]_vars PROVE CacheInv'
  OBVIOUS
<1>2. gone \in [Rows -> Nat \cup {None}] /\ gone' \in [Rows -> Nat \cup {None}]
  BY <1>1, Zenon DEF TypeInv
<1>3. \A u \in Users, url \in Urls :
         cache[u][url] \in Entries \cup {None} /\ Explained(gone, cache[u][url])
  BY <1>1, Zenon DEF TypeInv, CacheInv
<1>4. ASSUME UNCHANGED stores PROVE CacheInv'
  BY <1>3, <1>4, Zenon DEF CacheInv, stores
<1>5. ASSUME NEW r \in Rows, NEW e \in Entries \cup {None}, Explained(gone', e),
             \A q \in Rows : gone[q] # None => gone'[q] # None /\ (gone'[q] = gone[q] \/ gone'[q] = 1),
             UNCHANGED cache \/ cache' = [cache EXCEPT ![RowUser[r]][RowUrl[r]] = e]
      PROVE  CacheInv'
  <2>1. \A u \in Users, url \in Urls : Explained(gone', cache[u][url])
    BY <1>2, <1>3, <1>5, StaysExplained, Zenon
  <2>2. CASE UNCHANGED cache
    BY <2>1, <2>2, Zenon DEF CacheInv
  <2>3. CASE cache' = [cache EXCEPT ![RowUser[r]][RowUrl[r]] = e]
    <3>1. \A u \in Users, url \in Urls : cache'[u][url] = e \/ cache'[u][url] = cache[u][url]
      BY <2>3, <1>1, <1>5, CacheWrite, Zenon
    <3>. QED
      BY <2>1, <3>1, <1>5, Zenon DEF CacheInv
  <2>. QED
    BY <1>5, <2>2, <2>3
<1>6. CASE \E c \in Clients : WarmSaves(c)
  <2>0. PICK c \in Clients : WarmSaves(c)
    BY <1>6
  <2>1. PICK r \in todo[c] : gone' = gone /\ (SaveByUserIDAndURL(c, r) \/ UNCHANGED cache)
    BY <2>0, Zenon DEF WarmSaves
  <2>2. r \in Rows /\ warmAge[c] \in Nat /\ gone[r] \in Nat \cup {None}
    BY <2>1, <1>1, <1>2, Zenon DEF TypeInv
  <2>3. CASE SaveByUserIDAndURL(c, r)
    <3>1. warmAge[c] <= WarmTimeout /\ gone[r] # None /\ gone[r] <= 1 + warmAge[c]
      BY <2>1, <2>3, <1>1, Zenon DEF SaveByUserIDAndURL, WarmInv
    <3>2. Explained(gone, Entry(r))
      BY <2>2, <3>1, BoundsTyped, EntryType DEF Explained
    <3>. QED
      BY <2>1, <2>2, <2>3, <3>2, <1>5, EntryType, Zenon DEF SaveByUserIDAndURL, Put
  <2>4. CASE UNCHANGED cache
    BY <2>1, <2>4, <1>4, Zenon DEF stores
  <2>. QED
    BY <2>1, <2>3, <2>4
<1>7. CASE \E r \in Rows : RowWritten(r)
  <2>1. PICK r \in Rows : RowWritten(r)
    BY <1>7
  <2>2. gone'[r] = 0 /\ gone[r] = None /\ \A q \in Rows : q # r => gone'[q] = gone[q]
    BY <2>1, <1>2, Zenon DEF RowWritten
  <2>3. Explained(gone', Entry(r))
    BY <2>2, EntryType, BoundsTyped, NoneFresh DEF Explained
  <2>. QED
    BY <2>1, <2>2, <2>3, <1>5, EntryType, Zenon DEF RowWritten, Put
<1>8. CASE \E r \in Rows : RowDeleted(r)
  <2>1. PICK r \in Rows : RowDeleted(r)
    BY <1>8
  <2>2. gone'[r] = 1 /\ \A q \in Rows : q # r => gone'[q] = gone[q]
    BY <2>1, <1>2, Zenon DEF RowDeleted
  <2>3. 1 # None /\ Explained(gone', None)
    BY NoneFresh DEF Explained
  <2>. QED
    BY <2>1, <2>2, <2>3, <1>5, Zenon DEF RowDeleted
<1>9. CASE Tick
  <2>1. gone' = [r \in Rows |-> IF gone[r] \in {None, 0} THEN gone[r] ELSE Older(gone[r], GoneCap)]
    BY <1>9, Zenon DEF Tick
  <2>2. \A u \in Users, url \in Urls : Explained(gone', Aged(cache[u][url]))
    BY <2>1, <1>2, <1>3, AgesExplained, Zenon
  <2>. QED
    BY <2>2, <1>1, <1>9, CacheTick, Zenon DEF CacheInv
<1>10. CASE \E c \in Clients, p \in Replicas : SigninAuthenticates(c, p) \/ Present(c, p)
  BY <1>10, <1>4, Zenon DEF SigninAuthenticates, Present
<1>11. CASE \E c \in Clients : WarmFinds(c) \/ SigninAnswers(c)
  BY <1>11, <1>4, Zenon DEF WarmFinds, SigninAnswers
<1>12. CASE \E p \in Replicas : StartReplica(p) \/ StopReplica(p)
  BY <1>12, <1>4, Zenon DEF StartReplica, StopReplica
<1>13. CASE UNCHANGED vars
  BY <1>13, <1>4, Zenon DEF vars
<1>. QED
  BY <1>1, <1>6, <1>7, <1>8, <1>9, <1>10, <1>11, <1>12, <1>13, Zenon DEF Next, SigninStep

\* The answers to tokens.
LEMMA SessionStep == TypeInv /\ KeyInv /\ SessionIsLocal /\ [Next]_vars => SessionIsLocal'
<1>1. SUFFICES ASSUME TypeInv, KeyInv, SessionIsLocal, [Next]_vars PROVE SessionIsLocal'
  OBVIOUS
<1>2. ASSUME UNCHANGED verdict PROVE SessionIsLocal'
  BY <1>1, <1>2, Zenon DEF SessionIsLocal
<1>3. CASE \E c \in Clients, p \in Replicas : Present(c, p)
  <2>1. PICK c \in Clients, p \in Replicas : Present(c, p)
    BY <1>3
  <2>2. /\ token[c] \in Tokens /\ token[c].keys = token[c].run /\ keys[p] = run[p]
        /\ verdict \in [Clients -> Verdicts \cup {None}]
    BY <2>1, <1>1 DEF Present, KeyInv, TypeInv
  <2>3. ASSUME NEW d \in Clients, d # c PROVE verdict'[d] = verdict[d]
    BY <2>1, <2>2, <2>3 DEF Present, Verdict
  <2>4. CASE VerifyHybridJWT(p, token[c]) /\ Verdict(c, p, "accepted")
    <3>1. /\ verdict'[c] = [answer |-> "accepted", run |-> run[p], token |-> token[c]]
          /\ token[c].run = run[p] /\ token[c].age <= Expiry
      BY <2>2, <2>4 DEF VerifyHybridJWT, MayBeUnexpired, Verdict
    <3>. QED
      BY <3>1, <2>3, <1>1 DEF SessionIsLocal
  <2>5. CASE RefuseHybridJWT(p, token[c]) /\ Verdict(c, p, "401")
    <3>1. /\ verdict'[c] = [answer |-> "401", run |-> run[p], token |-> token[c]]
          /\ token[c].run # run[p] \/ token[c].age >= Expiry
      BY <2>2, <2>5, BoundsTyped DEF RefuseHybridJWT, Unexpired, Verdict, Tokens
    <3>. QED
      BY <3>1, <2>3, <1>1 DEF SessionIsLocal
  <2>. QED
    BY <2>1, <2>4, <2>5, Zenon DEF Present
<1>4. CASE \E c \in Clients, p \in Replicas : SigninAuthenticates(c, p)
  <2>1. PICK c \in Clients : verdict' = [verdict EXCEPT ![c] = None]
    BY <1>4, Zenon DEF SigninAuthenticates
  <2>. QED
    BY <2>1, <1>1 DEF SessionIsLocal, TypeInv
<1>5. CASE \E c \in Clients : WarmFinds(c) \/ WarmSaves(c) \/ SigninAnswers(c)
  BY <1>5, <1>2, Zenon DEF WarmFinds, WarmSaves, SigninAnswers
<1>6. CASE \E p \in Replicas : StartReplica(p) \/ StopReplica(p)
  BY <1>6, <1>2, Zenon DEF StartReplica, StopReplica, clients
<1>7. CASE \E r \in Rows : RowWritten(r) \/ RowDeleted(r)
  BY <1>7, <1>2, Zenon DEF RowWritten, RowDeleted, clients
<1>8. CASE Tick
  BY <1>8, <1>2, Zenon DEF Tick
<1>9. CASE UNCHANGED vars
  BY <1>9, <1>2, Zenon DEF vars, clients
<1>. QED
  BY <1>1, <1>3, <1>4, <1>5, <1>6, <1>7, <1>8, <1>9, Zenon DEF Next, SigninStep

\* The initial states satisfy the invariant.
LEMMA InitInv == Init => IInv
BY BoundsTyped, NoneFresh DEF Init, IInv, TypeInv, KeyInv, WarmInv, CacheInv, Explained,
   SessionIsLocal

\* IInv is an invariant.
LEMMA Inductive == Spec => []IInv
<1>1. IInv /\ [Next]_vars => IInv'
  BY TypeStep, KeyStep, WarmStep, CacheStep, SessionStep DEF IInv
<1>. QED
  BY InitInv, <1>1, PTL DEF Spec

\* newServerKeys and verifyHybridJWT: a session holds exactly in the process run
\* that issued it, until its expiry, whatever the other replicas and starts.
THEOREM SessionLocal == Spec => []SessionIsLocal
<1>1. IInv => SessionIsLocal
  BY DEF IInv
<1>. QED
  BY Inductive, <1>1, PTL

\* WarmForUser and tlsScanTTL: a deleted result leaves Redis within the time
\* limit of a sign-in and the TTL of the entry.
THEOREM DeletedExpires == Spec => []DeletedEntryExpires
<1>1. IInv => DeletedEntryExpires
  BY BoundsTyped DEF IInv, TypeInv, CacheInv, Explained, DeletedEntryExpires, Entries
<1>. QED
  BY Inductive, <1>1, PTL

-----------------------------------------------------------------------------
(* The scanners a replica tracks.                                          *)

\* handleMessage and expireSilentWallets keep walletMeta and byType["wallet"]
\* together: a listed wallet instance can always be expired.
MetaMatches == {s \in WalletIds : lastSeen[s] # Unset} = Instances("wallet")

\* The types of the variables the arguments below are about.
TrackerTyped ==
    /\ alive \subseteq Ids /\ byType \subseteq Ids
    /\ lastSeen \in [WalletIds -> Nat \cup {Unset}]
    /\ quiet \in [Ids -> Nat]
    /\ sweepAge \in 0 .. SweepEvery

Seen == {s \in WalletIds : lastSeen[s] # Unset}

\* NoStaleWallet between two sweeps: what outlived the last sweep was within
\* the window then.
FreshInv == \A s \in Seen : lastSeen[s] <= SilentAfter + sweepAge

\* Every step keeps the types.
LEMMA TrackerTypeStep ==
    TrackerTyped /\ [PresenceNext]_presenceVars => TrackerTyped'
<1> USE WindowsAreTicks, IdsDisjoint DEF TrackerTyped, Ids, world, tracker
<1>1. SUFFICES ASSUME TrackerTyped, [PresenceNext]_presenceVars PROVE TrackerTyped'
  OBVIOUS
<1>2. CASE Sweep
  BY <1>2, <1>1 DEF Sweep, expireSilentWallets, Silent
<1>3. CASE PresenceTick
  BY <1>3, <1>1 DEF PresenceTick
<1>4. CASE \E s \in Ids : Start(s)
  BY <1>4, <1>1 DEF Start, SendJoined, Joined
<1>5. CASE \E s \in Ids : Announce(s)
  BY <1>5, <1>1 DEF Announce, SendJoined, Joined
<1>6. CASE \E s \in Ids : SendHeartbeat(s)
  BY <1>6, <1>1 DEF SendHeartbeat
<1>7. CASE \E s \in Ids : Stop(s)
  BY <1>7, <1>1 DEF Stop, Left
<1>8. CASE \E s \in Ids : Crash(s)
  BY <1>8, <1>1 DEF Crash
<1>9. CASE UNCHANGED presenceVars
  BY <1>9, <1>1 DEF presenceVars
<1>. QED
  BY <1>1, <1>2, <1>3, <1>4, <1>5, <1>6, <1>7, <1>8, <1>9 DEF PresenceNext

\* Every step keeps the metadata and the listed wallet instances together.
LEMMA MetaStep ==
    TrackerTyped /\ MetaMatches /\ [PresenceNext]_presenceVars => MetaMatches'
<1> USE WindowsAreTicks, IdsDisjoint DEF TrackerTyped, Ids, world, tracker, MetaMatches, Instances, IdsOf
<1>1. SUFFICES ASSUME TrackerTyped, MetaMatches, [PresenceNext]_presenceVars PROVE MetaMatches'
  OBVIOUS
<1>2. CASE Sweep
  BY <1>2, <1>1 DEF Sweep, expireSilentWallets, Silent
<1>3. CASE PresenceTick
  BY <1>3, <1>1 DEF PresenceTick
<1>4. CASE \E s \in Ids : Start(s)
  BY <1>4, <1>1 DEF Start, SendJoined, Joined
<1>5. CASE \E s \in Ids : Announce(s)
  BY <1>5, <1>1 DEF Announce, SendJoined, Joined
<1>6. CASE \E s \in Ids : SendHeartbeat(s)
  BY <1>6, <1>1 DEF SendHeartbeat
<1>7. CASE \E s \in Ids : Stop(s)
  BY <1>7, <1>1 DEF Stop, Left
<1>8. CASE \E s \in Ids : Crash(s)
  BY <1>8, <1>1 DEF Crash
<1>9. CASE UNCHANGED presenceVars
  BY <1>9, <1>1 DEF presenceVars
<1>. QED
  BY <1>1, <1>2, <1>3, <1>4, <1>5, <1>6, <1>7, <1>8, <1>9 DEF PresenceNext

\* Every step keeps the bound on silence.
LEMMA FreshStep ==
    TrackerTyped /\ FreshInv /\ [PresenceNext]_presenceVars => FreshInv'
<1> USE WindowsAreTicks, IdsDisjoint DEF TrackerTyped, Ids, world, tracker, FreshInv, Seen
<1>1. SUFFICES ASSUME TrackerTyped, FreshInv, [PresenceNext]_presenceVars PROVE FreshInv'
  OBVIOUS
<1>2. CASE Sweep
  BY <1>2, <1>1 DEF Sweep, expireSilentWallets, Silent
<1>3. CASE PresenceTick
  BY <1>3, <1>1 DEF PresenceTick
<1>4. CASE \E s \in Ids : Start(s)
  BY <1>4, <1>1 DEF Start, SendJoined, Joined
<1>5. CASE \E s \in Ids : Announce(s)
  BY <1>5, <1>1 DEF Announce, SendJoined, Joined
<1>6. CASE \E s \in Ids : SendHeartbeat(s)
  BY <1>6, <1>1 DEF SendHeartbeat
<1>7. CASE \E s \in Ids : Stop(s)
  BY <1>7, <1>1 DEF Stop, Left
<1>8. CASE \E s \in Ids : Crash(s)
  BY <1>8, <1>1 DEF Crash
<1>9. CASE UNCHANGED presenceVars
  BY <1>9, <1>1 DEF presenceVars
<1>. QED
  BY <1>1, <1>2, <1>3, <1>4, <1>5, <1>6, <1>7, <1>8, <1>9 DEF PresenceNext

\* The initial state: nobody has been seen.
LEMMA TrackerInit ==
    PresenceInit => TrackerTyped /\ MetaMatches /\ FreshInv
BY WindowsAreTicks, IdsDisjoint
   DEF PresenceInit, TrackerTyped, MetaMatches, FreshInv, Seen, Instances, IdsOf, Ids

\* handleMessage and expireSilentWallets: walletMeta and byType["wallet"] hold
\* the same instances, whatever is lost.
THEOREM MetaSafe == PresenceSpec => []MetaMatches
BY TrackerInit, TrackerTypeStep, MetaStep, PTL DEF PresenceSpec

\* expireSilentWallets: a listed wallet instance was heard of at most
\* SilentAfter and one sweep period ago.
THEOREM StaleWalletsGo == PresenceSpec => []NoStaleWallet
<1>1. ASSUME TrackerTyped, MetaMatches, FreshInv PROVE NoStaleWallet
  <2>1. Instances("wallet") = Seen
    BY <1>1, Zenon DEF MetaMatches, Seen
  <2>2. ASSUME NEW s \in Seen PROVE lastSeen[s] <= SilentAfter + SweepEvery
    <3>1. lastSeen[s] \in Nat
      BY <1>1, Zenon DEF TrackerTyped, Seen
    <3>2. /\ SilentAfter \in Nat /\ SweepEvery \in Nat /\ sweepAge \in 0 .. SweepEvery
          /\ lastSeen[s] <= SilentAfter + sweepAge
      BY <1>1, WindowsAreTicks, Zenon DEF TrackerTyped, FreshInv
    <3>. QED
      BY <3>1, <3>2
  <2>. QED
    BY <2>1, <2>2, Zenon DEF NoStaleWallet
<1>. QED
  BY TrackerInit, TrackerTypeStep, MetaStep, FreshStep, <1>1, PTL DEF PresenceSpec

-----------------------------------------------------------------------------
\* Live instances announce themselves at least once per silence window.
Audible == AnnounceEvery <= SilentAfter

\* A live wallet instance was heard of when it last announced itself, unless
\* that message was lost.
HeardInv ==
    \A s \in (alive \cap WalletIds) \ unheard :
        /\ s \in byType /\ lastSeen[s] # Unset
        /\ lastSeen[s] <= quiet[s] /\ quiet[s] <= AnnounceEvery

\* Every step keeps HeardInv.
LEMMA HeardStep ==
    Audible /\ TrackerTyped /\ HeardInv /\ [PresenceNext]_presenceVars => HeardInv'
<1> USE WindowsAreTicks, IdsDisjoint DEF TrackerTyped, Ids, world, tracker, HeardInv, Audible, PresenceFault
<1>1. SUFFICES ASSUME Audible, TrackerTyped, HeardInv, [PresenceNext]_presenceVars
    PROVE HeardInv'
  OBVIOUS
<1>2. CASE Sweep
  BY <1>2, <1>1 DEF Sweep, expireSilentWallets, Silent
<1>3. CASE PresenceTick
  BY <1>3, <1>1 DEF PresenceTick
<1>4. CASE \E s \in Ids : Start(s)
  BY <1>4, <1>1 DEF Start, SendJoined, Joined
<1>5. CASE \E s \in Ids : Announce(s)
  BY <1>5, <1>1 DEF Announce, SendJoined, Joined
<1>6. CASE \E s \in Ids : SendHeartbeat(s)
  BY <1>6, <1>1 DEF SendHeartbeat
<1>7. CASE \E s \in Ids : Stop(s)
  BY <1>7, <1>1 DEF Stop, Left
<1>8. CASE \E s \in Ids : Crash(s)
  BY <1>8, <1>1 DEF Crash
<1>9. CASE UNCHANGED presenceVars
  BY <1>9, <1>1 DEF presenceVars
<1>. QED
  BY <1>1, <1>2, <1>3, <1>4, <1>5, <1>6, <1>7, <1>8, <1>9, Zenon DEF PresenceNext

\* The sweep drops no live wallet instance: with announcements at least as
\* frequent as the silence window, every live one
\* whose last announcement arrived is listed.
THEOREM LiveListed == Audible /\ PresenceSpec => []LiveWalletListed
<1>1. SUFFICES ASSUME Audible PROVE PresenceSpec => []LiveWalletListed
  OBVIOUS
<1>2. PresenceInit => HeardInv
  BY DEF PresenceInit, HeardInv
<1>3. TrackerTyped /\ HeardInv /\ [PresenceNext]_presenceVars => HeardInv'
  BY <1>1, HeardStep
<1>4. HeardInv => LiveWalletListed
  BY DEF HeardInv, LiveWalletListed
<1>. QED
  BY TrackerInit, TrackerTypeStep, <1>2, <1>3, <1>4, PTL DEF PresenceSpec

-----------------------------------------------------------------------------
\* What the tracker knows of the indexer of an instance it heard of last is
\* what that instance runs with.
IndexerInv ==
    /\ indexer \in [WalletIds -> Indexers]
    /\ metaIndexer \in [WalletIds -> Indexers \cup {Unset}]
    /\ \A s \in (alive \cap WalletIds) \ unheard : metaIndexer[s] = indexer[s]

\* Every step keeps IndexerInv; HeardInv tells that the sweep spares the live.
LEMMA IndexerStep ==
    Audible /\ TrackerTyped /\ HeardInv /\ IndexerInv /\ [PresenceNext]_presenceVars
        => IndexerInv'
<1> USE WindowsAreTicks, IdsDisjoint DEF TrackerTyped, Ids, world, tracker, IndexerInv, PresenceFault
<1>1. SUFFICES ASSUME Audible, TrackerTyped, HeardInv, IndexerInv,
   [PresenceNext]_presenceVars PROVE IndexerInv'
  OBVIOUS
<1>2. CASE Sweep
  BY <1>2, <1>1 DEF Sweep, expireSilentWallets, Silent, HeardInv, Audible
<1>3. CASE PresenceTick
  BY <1>3, <1>1 DEF PresenceTick
<1>4. CASE \E s \in Ids : Start(s)
  BY <1>4, <1>1 DEF Start, SendJoined, Joined
<1>5. CASE \E s \in Ids : Announce(s)
  BY <1>5, <1>1 DEF Announce, SendJoined, Joined
<1>6. CASE \E s \in Ids : SendHeartbeat(s)
  BY <1>6, <1>1 DEF SendHeartbeat
<1>7. CASE \E s \in Ids : Stop(s)
  BY <1>7, <1>1 DEF Stop, Left
<1>8. CASE \E s \in Ids : Crash(s)
  BY <1>8, <1>1 DEF Crash
<1>9. CASE UNCHANGED presenceVars
  BY <1>9, <1>1 DEF presenceVars
<1>. QED
  BY <1>1, <1>2, <1>3, <1>4, <1>5, <1>6, <1>7, <1>8, <1>9, Zenon DEF PresenceNext

\* OnchainIndexer: when it names an indexer, every listed wallet instance has
\* announced that one.
LEMMA IndexerChosen ==
    OnchainIndexer # "unknown" =>
        \A s \in Instances("wallet") : metaIndexer[s] = OnchainIndexer
<1>1. SUFFICES ASSUME OnchainIndexer # "unknown"
               PROVE  \A s \in Instances("wallet") :
                          metaIndexer[s] = OnchainIndexer
  OBVIOUS
<1>2. \E i \in Indexers : \A s \in Instances("wallet") : metaIndexer[s] = i
  BY <1>1 DEF OnchainIndexer
<1>3. OnchainIndexer =
        CHOOSE i \in Indexers : \A s \in Instances("wallet") : metaIndexer[s] = i
  BY <1>1 DEF OnchainIndexer
<1>. QED
  BY <1>2, <1>3

\* OnchainIndexer never names an indexer that a live wallet instance, whose
\* last announcement arrived, does not use: also after restarts with another
\* indexer, lost messages and sweeps.
THEOREM IndexersAgree == Audible /\ PresenceSpec => []IndexerAgreed
<1>1. SUFFICES ASSUME Audible PROVE PresenceSpec => []IndexerAgreed
  OBVIOUS
<1>2. PresenceInit => HeardInv /\ IndexerInv
  BY DEF PresenceInit, HeardInv, IndexerInv
<1>3. TrackerTyped /\ HeardInv /\ IndexerInv /\ [PresenceNext]_presenceVars
        => HeardInv' /\ IndexerInv'
  BY <1>1, HeardStep, IndexerStep
<1>4. HeardInv => (alive \cap WalletIds) \ unheard \subseteq Instances("wallet")
  BY DEF HeardInv, Instances, IdsOf
<1>5. HeardInv /\ IndexerInv => IndexerAgreed
  <2>1. SUFFICES ASSUME HeardInv, IndexerInv, OnchainIndexer # "unknown",
                        NEW s \in (alive \cap WalletIds) \ unheard
                 PROVE  indexer[s] = OnchainIndexer
    BY Zenon DEF IndexerAgreed
  <2>2. s \in Instances("wallet")
    BY <1>4, <2>1
  <2>3. \A t \in Instances("wallet") : metaIndexer[t] = OnchainIndexer
    BY <2>1, IndexerChosen, Zenon
  <2>4. metaIndexer[s] = indexer[s]
    BY <2>1, Zenon DEF IndexerInv
  <2>. QED
    BY <2>2, <2>3, <2>4, Zenon
<1>. QED
  BY TrackerInit, TrackerTypeStep, <1>2, <1>3, <1>5, PTL DEF PresenceSpec

-----------------------------------------------------------------------------
(* The boot.                                                               *)

BeforeRequests == {"subscribe", "subscribed", "select", "failed", "scanners", "check"}

\* The boot gets past the select only by a signal of persistence.
BootHeardInv == bootPc \notin {"subscribe", "subscribed", "select", "failed"} => heard

\* A default endpoint that Redis does not hold is on one of the lists of the
\* boot, or its result expired or could not be read.
EndpointInv ==
    IF bootPc \in BeforeRequests
    THEN URLs \subseteq toCheck \cup toRequest \cup redis \cup unsure
    ELSE URLs \subseteq remaining \cup redis \cup unsure

\* The only wait that is given up without an error and whose end is then served
\* is the poll's.
DeadlineInv ==
    /\ bootPc \in {"check", "publish"} => ~late
    /\ bootPc = "serving" => late \/ remaining = {}

BootInv == BootHeardInv /\ EndpointInv /\ DeadlineInv

\* Every step of the boot and of its surroundings keeps BootInv.
LEMMA BootKept == BootInv /\ [BootNext]_bootVars => BootInv'
<1> USE DEF BootInv, BootHeardInv, EndpointInv, DeadlineInv, BeforeRequests, boot,
            lists, outside
<1>1. SUFFICES ASSUME BootInv, [BootNext]_bootVars PROVE BootInv'
  OBVIOUS
<1>2. CASE Subscribe
  BY <1>2, <1>1 DEF Subscribe
<1>3. CASE EnterSelect
  BY <1>3, <1>1 DEF EnterSelect
<1>4. CASE SelectTimeout
  BY <1>4, <1>1 DEF SelectTimeout
<1>5. CASE WaitForScanners
  BY <1>5, <1>1 DEF WaitForScanners
<1>6. CASE StartRequests
  BY <1>6, <1>1 DEF StartRequests
<1>7. CASE StartPolling
  BY <1>7, <1>1 DEF StartPolling
<1>8. CASE Poll
  BY <1>8, <1>1 DEF Poll
<1>9. CASE PollDone
  BY <1>9, <1>1 DEF PollDone
<1>10. CASE Timeout
  BY <1>10, <1>1 DEF Timeout
<1>11. CASE \E u \in URLs : CheckEndpoint(u)
  BY <1>11, <1>1 DEF CheckEndpoint
<1>12. CASE \E u \in URLs : PublishRequest(u)
  BY <1>12, <1>1 DEF PublishRequest
<1>13. CASE Signal
  BY <1>13, <1>1 DEF Signal
<1>14. CASE ScannersChange
  BY <1>14, <1>1 DEF ScannersChange
<1>15. CASE \E u \in URLs : ResultCached(u)
  BY <1>15, <1>1 DEF ResultCached
<1>16. CASE \E u \in URLs : Expire(u)
  BY <1>16, <1>1 DEF Expire
<1>17. CASE UNCHANGED bootVars
  BY <1>17, <1>1 DEF bootVars
<1>. HIDE DEF BootInv
<1>. QED
  BY <1>1, <1>2, <1>3, <1>4, <1>5, <1>6, <1>7, <1>8, <1>9, <1>10, <1>11, <1>12, <1>13,
     <1>14, <1>15, <1>16, <1>17, Zenon
     DEF BootNext, BootStep

\* NewContainer: a service that serves has heard persistence and, within the
\* deadline of the poll, has a result for each of its default endpoints, for
\* any endpoints and faults.
THEOREM BootServes == BootSpec => []ServesAllDefaults
<1>1. BootInit => BootInv
  BY DEF BootInit, BootInv, BootHeardInv, EndpointInv, DeadlineInv, BeforeRequests
<1>2. BootInv => ServesAllDefaults
  BY DEF BootInv, BootHeardInv, EndpointInv, DeadlineInv, BeforeRequests, ServesAllDefaults
<1>. QED
  BY <1>1, BootKept, <1>2, PTL DEF BootSpec
=============================================================================
