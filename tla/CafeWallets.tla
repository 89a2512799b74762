---------------------------- MODULE CafeWallets ----------------------------
(***************************************************************************)
(* The wallets a user saves under /discovery/v1/wallets: the handlers, the *)
(* service and the repository, one action for each database statement, so  *)
(* that requests of several users interleave between the look-up and the   *)
(* write.  One pub_key_hash: rows of different hashes never meet.          *)
(*                                                                         *)
(* The table (external, gorm on Postgres): pub_key_hash alone is the       *)
(* primary key, and a deleted row stays, hidden, with its deleted_at set.  *)
(***************************************************************************)
EXTENDS FiniteSets

CONSTANTS Requests,     \* HTTP requests, each served once
          Users,
          Values,       \* non-empty user_pub_key and label values
          WalletFaults, \* {"db"} lets any statement fail
          Nil           \* no row, no body

ASSUME WalletFaultsKnown == WalletFaults \subseteq {"db"}

VARIABLES wallet,     \* the row of the hash, or Nil
          phase, req, \* where each request is, and what it asks
          read,       \* the entity an update read and changed
          answer,     \* status answered
          body        \* wallet answered

handlers   == <<phase, req, read, answer, body>>
walletVars == <<wallet, handlers>>

Empty == "empty"
Fields == Values \cup {Empty}
Ops == {"create", "get", "list", "update", "delete"}
Entities == [owner : Users, key : Values, label : Fields, deleted : BOOLEAN]
Calls == [op : Ops, user : Users, key : Fields, label : Fields]

ASSUME NilFresh == Nil \notin Entities

WalletFault == "db" \in WalletFaults

\* The rows WHERE pub_key_hash = ? AND user_id = ? matches; gorm adds
\* deleted_at IS NULL.
Scoped(u) == wallet # Nil /\ wallet.owner = u /\ ~wallet.deleted

FindByID(u) == IF Scoped(u) THEN wallet ELSE Nil

WalletInit ==
    /\ wallet = Nil
    /\ phase = [r \in Requests |-> "new"]
    /\ req = [r \in Requests |-> Nil]
    /\ read = [r \in Requests |-> Nil]
    /\ answer = [r \in Requests |-> "none"]
    /\ body = [r \in Requests |-> Nil]

Proceed(r, from, to) ==
    /\ phase[r] = from /\ phase' = [phase EXCEPT ![r] = to]
    /\ UNCHANGED <<answer, body>>

Respond(r, from, status, w) ==
    /\ phase[r] = from /\ phase' = [phase EXCEPT ![r] = "done"]
    /\ answer' = [answer EXCEPT ![r] = status]
    /\ body' = [body EXCEPT ![r] = w]

\* A request arrives; CreateWallet refuses one without a user_pub_key.
Receive(r, call) ==
    /\ req' = [req EXCEPT ![r] = call]
    /\ IF call.op = "create" /\ call.key = Empty
       THEN Respond(r, "new", "400", Nil)
       ELSE Proceed(r, "new", "find")
    /\ UNCHANGED <<wallet, read>>

\* CreateWallet looks for a wallet of the same user.
CreateCheck(r) ==
    /\ req[r] # Nil /\ req[r].op = "create"
    /\ LET existing == FindByID(req[r].user)
       IN  \/ existing = Nil /\ Proceed(r, "find", "insert")
           \/ existing # Nil /\ Respond(r, "find", "409", Nil)
           \/ WalletFault /\ Respond(r, "find", "400", Nil)
    /\ UNCHANGED <<wallet, req, read>>

NewWallet(r) ==
    [owner |-> req[r].user, key |-> req[r].key, label |-> req[r].label, deleted |-> FALSE]

\* The insert meets the primary key: any row of the hash, of any user,
\* hidden ones included, makes it fail.
Create(r) ==
    /\ phase[r] = "insert"
    /\ \/ wallet = Nil /\ wallet' = NewWallet(r) /\ Respond(r, "insert", "201", NewWallet(r))
       \/ wallet # Nil /\ UNCHANGED wallet /\ Respond(r, "insert", "400", Nil)
       \/ WalletFault /\ UNCHANGED wallet /\ Respond(r, "insert", "400", Nil)
    /\ UNCHANGED <<req, read>>

\* GetWallet
GetWallet(r) ==
    /\ req[r] # Nil /\ req[r].op = "get"
    /\ LET found == FindByID(req[r].user)
       IN  \/ found # Nil /\ Respond(r, "find", "200", found)
           \/ found = Nil /\ Respond(r, "find", "404", Nil)
           \/ WalletFault /\ Respond(r, "find", "500", Nil)
    /\ UNCHANGED <<wallet, req, read>>

\* GetAllWallets answers 200, with an empty list if there is none.
GetAllWallets(r) ==
    /\ req[r] # Nil /\ req[r].op = "list"
    /\ \/ Respond(r, "find", "200", FindByID(req[r].user))
       \/ WalletFault /\ Respond(r, "find", "500", Nil)
    /\ UNCHANGED <<wallet, req, read>>

\* UpdateWallet reads the entity and replaces the fields that are not empty.
Merged(r, w) ==
    [w EXCEPT !.key   = IF req[r].key # Empty THEN req[r].key ELSE @,
              !.label = IF req[r].label # Empty THEN req[r].label ELSE @]

UpdateRead(r) ==
    /\ req[r] # Nil /\ req[r].op = "update"
    /\ LET found == FindByID(req[r].user)
       IN  \/ /\ found # Nil /\ Proceed(r, "find", "save")
              /\ read' = [read EXCEPT ![r] = Merged(r, found)]
           \/ found = Nil /\ Respond(r, "find", "404", Nil) /\ UNCHANGED read
           \/ WalletFault /\ Respond(r, "find", "400", Nil) /\ UNCHANGED read
    /\ UNCHANGED <<wallet, req>>

Saved(r) == [wallet EXCEPT !.key = read[r].key, !.label = read[r].label]

\* Variant: the statement also matches a row deleted since it was read.
UpdateUnscoped(r) ==
    /\ phase[r] = "save"
    /\ \/ wallet # Nil /\ wallet' = Saved(r) /\ Proceed(r, "save", "fetch")
       \/ WalletFault /\ UNCHANGED wallet /\ Respond(r, "save", "400", Nil)
    /\ UNCHANGED <<req, read>>

\* Update writes both columns from the entity; no matching row is an error.
Update(r) ==
    /\ phase[r] = "save"
    /\ \/ Scoped(req[r].user) /\ wallet' = Saved(r) /\ Proceed(r, "save", "fetch")
       \/ ~Scoped(req[r].user) /\ UNCHANGED wallet /\ Respond(r, "save", "400", Nil)
       \/ WalletFault /\ UNCHANGED wallet /\ Respond(r, "save", "400", Nil)
    /\ UNCHANGED <<req, read>>

\* UpdateWallet answers what it reads back, which may be nothing by now.
UpdateFetch(r) ==
    /\ phase[r] = "fetch"
    /\ \/ Respond(r, "fetch", "200", FindByID(req[r].user))
       \/ WalletFault /\ Respond(r, "fetch", "400", Nil)
    /\ UNCHANGED <<wallet, req, read>>

DeleteCheck(r) ==
    /\ req[r] # Nil /\ req[r].op = "delete"
    /\ LET found == FindByID(req[r].user)
       IN  \/ found # Nil /\ Proceed(r, "find", "remove")
           \/ found = Nil /\ Respond(r, "find", "404", Nil)
           \/ WalletFault /\ Respond(r, "find", "500", Nil)
    /\ UNCHANGED <<wallet, req, read>>

\* Variant: a DELETE that matched no row is answered as done.
DeleteAny(r) ==
    /\ phase[r] = "remove"
    /\ wallet' = [wallet EXCEPT !.deleted = TRUE] /\ Respond(r, "remove", "204", Nil)
    /\ UNCHANGED <<req, read>>

\* Delete hides the row; when another request did so first it is an error.
Delete(r) ==
    /\ phase[r] = "remove"
    /\ \/ /\ Scoped(req[r].user) /\ wallet' = [wallet EXCEPT !.deleted = TRUE]
          /\ Respond(r, "remove", "204", Nil)
       \/ ~Scoped(req[r].user) /\ UNCHANGED wallet /\ Respond(r, "remove", "500", Nil)
       \/ WalletFault /\ UNCHANGED wallet /\ Respond(r, "remove", "500", Nil)
    /\ UNCHANGED <<req, read>>

-----------------------------------------------------------------------------
Serve(r) ==
    \/ CreateCheck(r) \/ Create(r) \/ GetWallet(r) \/ GetAllWallets(r)
    \/ UpdateRead(r) \/ Update(r) \/ UpdateFetch(r) \/ DeleteCheck(r) \/ Delete(r)

WalletNext == \E r \in Requests : Serve(r) \/ \E call \in Calls : Receive(r, call)

WalletSpec == WalletInit /\ [][WalletNext]_walletVars

-----------------------------------------------------------------------------
(* Properties.                                                             *)

Answered(status) == {r \in Requests : answer[r] = status}

\* CreateWallet and DeleteWallet, however their look-ups and writes interleave:
\* the hash has a row when exactly one request was told it created it, and
\* that row is hidden when exactly one was told it deleted it.  Whoever is
\* answered a wallet is its user, and the wallet has its user_pub_key, also
\* after an update that names only some of its fields.
AnswersMatchTable ==
    /\ Cardinality(Answered("201")) = IF wallet = Nil THEN 0 ELSE 1
    /\ Cardinality(Answered("204")) = IF wallet # Nil /\ wallet.deleted THEN 1 ELSE 0
    /\ \A r \in Requests : body[r] # Nil => body[r] \in Entities /\ body[r].owner = req[r].user

\* Update and Delete: from the moment a wallet is deleted no request changes
\* its row, not even an update that had read it before.
DeletedIsFinal == [][wallet # Nil /\ wallet.deleted => wallet' = wallet]_walletVars
=============================================================================
