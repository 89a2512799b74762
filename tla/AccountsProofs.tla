--------------------------- MODULE AccountsProofs ---------------------------
(***************************************************************************)
(* Sign-up, sign-in and the seeding of plans for any replicas, visitors,   *)
(* addresses and faults.                                                   *)
(*                                                                         *)
(* KeptInv adds to SignupIsKept that nobody signs in before the sign-up    *)
(* has ended.  SeedInv adds to PlanOfAccountExists which phases of a boot  *)
(* and of a sign-up have seen the FREE plan: they are the only ones that   *)
(* hand it out.                                                            *)
(*                                                                         *)
(* The second part is about the wallets that the users of these accounts   *)
(* save (CafeWallets), for any requests, users and values.                 *)
(***************************************************************************)
EXTENDS Accounts, CafeWallets, FiniteSetTheorems, TLAPS

BootPhases == {"down", "failed", "findFREE", "createFREE", "findPREMIUM", "createPREMIUM",
               "assign", "tables", "serving"}

TypeInv ==
    /\ plans \in [Types -> {"none", "active", "inactive"}]
    /\ accounts \in [Emails -> AccountRows \cup {None}]
    /\ boot \in [Replicas -> BootPhases]
    /\ pc \in [Visitors -> {"new", "plan", "create", "done"}]
    /\ at \in [Visitors -> Replicas \cup {None}]
    /\ resp \in [Visitors -> {"none", "201", "400", "409"}]
    /\ login \in [Visitors -> {"none", "200", "400", "401"}]

KeptInv ==
    /\ SignupIsKept
    /\ \A v \in Visitors : /\ resp[v] = "201" => pc[v] = "done"
                           /\ pc[v] # "done" => login[v] = "none"

SeedInv ==
    /\ PlanOfAccountExists
    /\ \A p \in Replicas :
          boot[p] \in {"findPREMIUM", "createPREMIUM", "assign", "tables", "serving"} =>
              plans["FREE"] = "active"
    /\ \A v \in Visitors : pc[v] = "create" => plans["FREE"] = "active"

IInv == TypeInv /\ KeptInv /\ SeedInv

-----------------------------------------------------------------------------
\* AssignPlan only changes the plan of an account.
LEMMA Assigned ==
    ASSUME NEW w \in AccountRows
    PROVE  LET x == [w EXCEPT !.plan = "FREE"] IN
           x \in AccountRows /\ x # None /\ x.password = w.password /\ x.plan = "FREE"
BY NoneFresh DEF AccountRows

\* A new account.
LEMMA Created ==
    ASSUME NEW v \in Visitors
    PROVE  LET x == [password |-> v, plan |-> "FREE"] IN
           x \in AccountRows /\ x # None /\ x.password = v /\ x.plan = "FREE"
BY NoneFresh DEF AccountRows

\* Type correctness.
LEMMA TypeStep == TypeInv /\ [Next]_vars => TypeInv'
<1> USE EmailsTyped, NoneFresh DEF identity, requests, BootGoto, Types, TypeInv,
   BootPhases
<1>1. SUFFICES ASSUME TypeInv, [Next]_vars PROVE TypeInv'
  OBVIOUS
<1>2. CASE \E p \in Replicas : StartReplica(p)
  BY <1>2, <1>1 DEF StartReplica
<1>3. CASE \E p \in Replicas, t \in Types : EnsurePlanFinds(p, t)
  BY <1>3, <1>1 DEF EnsurePlanFinds, FindPhase, CreatePhase, AfterPlan, FindByType
<1>4. CASE \E p \in Replicas, t \in Types : EnsurePlanCreates(p, t)
  BY <1>4, <1>1 DEF EnsurePlanCreates, CreatePhase, AfterPlan, StoredActive
<1>5. CASE \E p \in Replicas : AssignPlan(p)
  <2>1. PICK p \in Replicas : AssignPlan(p)
    BY <1>5
  <2>2. PICK done \in SUBSET WithoutPlan :
           accounts' = [e \in Emails |-> IF e \in done THEN [accounts[e] EXCEPT !.plan = "FREE"]
                                         ELSE accounts[e]]
    BY <2>1, Zenon DEF AssignPlan
  <2>3. \A e \in done : e \in Emails /\ accounts[e] \in AccountRows
    BY <2>2, <1>1 DEF WithoutPlan
  <2>. QED
    BY <2>1, <2>2, <2>3, <1>1, Assigned DEF AssignPlan
<1>6. CASE \E p \in Replicas : EnsureScanTablesPresent(p)
  BY <1>6, <1>1 DEF EnsureScanTablesPresent
<1>7. CASE \E p \in Replicas : CrashReplica(p)
  BY <1>7, <1>1 DEF CrashReplica
<1>8. CASE \E v \in Visitors, p \in Replicas : SignupRefused(v, p)
  BY <1>8, <1>1 DEF SignupRefused, Answer
<1>9. CASE \E v \in Visitors, p \in Replicas : SignupChecks(v, p)
  BY <1>9, <1>1 DEF SignupChecks, Answer, Goto
<1>10. CASE \E v \in Visitors : SignupFindsPlan(v)
  BY <1>10, <1>1 DEF SignupFindsPlan, Answer, Goto, FindByType
<1>11. CASE \E v \in Visitors : SignupCreates(v)
  BY <1>11, <1>1, Created DEF SignupCreates, Answer
<1>12. CASE \E v \in Visitors, p \in Replicas : Signin(v, p)
  BY <1>12, <1>1 DEF Signin
<1>13. CASE UNCHANGED vars
  BY <1>13, <1>1, SMTT(30) DEF vars
<1> HIDE DEF TypeInv, BootPhases
<1>. QED
  BY <1>1, <1>2, <1>3, <1>4, <1>5, <1>6, <1>7, <1>8, <1>9, <1>10, <1>11, <1>12, <1>13
     DEF Next, BootStep, RequestStep

\* Accounts and answers.
LEMMA KeptStep == TypeInv /\ KeptInv /\ [Next]_vars => KeptInv'
<1> USE EmailsTyped, NoneFresh DEF identity, requests, BootGoto, Types, TypeInv,
   KeptInv, SignupIsKept
<1>1. SUFFICES ASSUME TypeInv /\ KeptInv, [Next]_vars PROVE KeptInv'
  OBVIOUS
<1>2. CASE \E p \in Replicas : StartReplica(p)
  BY <1>2, <1>1 DEF StartReplica
<1>3. CASE \E p \in Replicas, t \in Types : EnsurePlanFinds(p, t)
  BY <1>3, <1>1 DEF EnsurePlanFinds, FindPhase, CreatePhase, AfterPlan, FindByType
<1>4. CASE \E p \in Replicas, t \in Types : EnsurePlanCreates(p, t)
  BY <1>4, <1>1 DEF EnsurePlanCreates, CreatePhase, AfterPlan, StoredActive
<1>5. CASE \E p \in Replicas : AssignPlan(p)
  <2>1. PICK p \in Replicas : AssignPlan(p)
    BY <1>5
  <2>2. PICK done \in SUBSET WithoutPlan :
           accounts' = [e \in Emails |-> IF e \in done THEN [accounts[e] EXCEPT !.plan = "FREE"]
                                         ELSE accounts[e]]
    BY <2>1, Zenon DEF AssignPlan
  <2>3. \A e \in done : e \in Emails /\ accounts[e] \in AccountRows
    BY <2>2, <1>1 DEF WithoutPlan
  <2>. QED
    BY <2>1, <2>2, <2>3, <1>1, Assigned DEF AssignPlan
<1>6. CASE \E p \in Replicas : EnsureScanTablesPresent(p)
  BY <1>6, <1>1 DEF EnsureScanTablesPresent
<1>7. CASE \E p \in Replicas : CrashReplica(p)
  BY <1>7, <1>1 DEF CrashReplica
<1>8. CASE \E v \in Visitors, p \in Replicas : SignupRefused(v, p)
  BY <1>8, <1>1 DEF SignupRefused, Answer
<1>9. CASE \E v \in Visitors, p \in Replicas : SignupChecks(v, p)
  BY <1>9, <1>1 DEF SignupChecks, Answer, Goto
<1>10. CASE \E v \in Visitors : SignupFindsPlan(v)
  BY <1>10, <1>1 DEF SignupFindsPlan, Answer, Goto, FindByType
<1>11. CASE \E v \in Visitors : SignupCreates(v)
  BY <1>11, <1>1, Created DEF SignupCreates, Answer
<1>12. CASE \E v \in Visitors, p \in Replicas : Signin(v, p)
  BY <1>12, <1>1 DEF Signin
<1>13. CASE UNCHANGED vars
  BY <1>13, <1>1, SMTT(30) DEF vars
<1> HIDE DEF TypeInv, KeptInv, SignupIsKept
<1>. QED
  BY <1>1, <1>2, <1>3, <1>4, <1>5, <1>6, <1>7, <1>8, <1>9, <1>10, <1>11, <1>12, <1>13
     DEF Next, BootStep, RequestStep

\* Plans and the phases that have seen them.
LEMMA SeedStep == TypeInv /\ SeedInv /\ [Next]_vars => SeedInv'
<1> USE EmailsTyped, NoneFresh DEF identity, requests, BootGoto, Types, TypeInv,
   SeedInv, PlanOfAccountExists
<1>1. SUFFICES ASSUME TypeInv /\ SeedInv, [Next]_vars PROVE SeedInv'
  OBVIOUS
<1>2. CASE \E p \in Replicas : StartReplica(p)
  BY <1>2, <1>1 DEF StartReplica
<1>3. CASE \E p \in Replicas, t \in Types : EnsurePlanFinds(p, t)
  BY <1>3, <1>1 DEF EnsurePlanFinds, FindPhase, CreatePhase, AfterPlan, FindByType
<1>4. CASE \E p \in Replicas, t \in Types : EnsurePlanCreates(p, t)
  <2>1. PICK p \in Replicas, t \in Types : EnsurePlanCreates(p, t)
    BY <1>4
  <2>2. UNCHANGED accounts /\ UNCHANGED pc
    BY <2>1 DEF EnsurePlanCreates
  <2>3. \A x \in Types : plans[x] = "active" => plans'[x] = "active"
    BY <2>1, <1>1 DEF EnsurePlanCreates, StoredActive
  <2>4. boot'[p] \in {"findPREMIUM", "createPREMIUM", "assign", "tables", "serving"} =>
           plans'["FREE"] = "active"
    BY <2>1, <2>3, <1>1 DEF EnsurePlanCreates, CreatePhase, AfterPlan, StoredActive, BootPhases
  <2>5. \A q \in Replicas : q # p => boot'[q] = boot[q]
    BY <2>1, <1>1 DEF EnsurePlanCreates
  <2>6. \A e \in Emails : accounts[e] # None /\ accounts[e].plan # None => accounts[e].plan \in Types
    BY <1>1 DEF AccountRows
  <2>. QED
    BY <1>1, <2>2, <2>3, <2>4, <2>5, <2>6
<1>5. CASE \E p \in Replicas : AssignPlan(p)
  <2>1. PICK p \in Replicas : AssignPlan(p)
    BY <1>5
  <2>2. PICK done \in SUBSET WithoutPlan :
           accounts' = [e \in Emails |-> IF e \in done THEN [accounts[e] EXCEPT !.plan = "FREE"]
                                         ELSE accounts[e]]
    BY <2>1, Zenon DEF AssignPlan
  <2>3. \A e \in done : e \in Emails /\ accounts[e] \in AccountRows
    BY <2>2, <1>1 DEF WithoutPlan
  <2>. QED
    BY <2>1, <2>2, <2>3, <1>1, Assigned DEF AssignPlan, AccountRows
<1>6. CASE \E p \in Replicas : EnsureScanTablesPresent(p)
  BY <1>6, <1>1 DEF EnsureScanTablesPresent
<1>7. CASE \E p \in Replicas : CrashReplica(p)
  BY <1>7, <1>1 DEF CrashReplica
<1>8. CASE \E v \in Visitors, p \in Replicas : SignupRefused(v, p)
  BY <1>8, <1>1 DEF SignupRefused, Answer
<1>9. CASE \E v \in Visitors, p \in Replicas : SignupChecks(v, p)
  BY <1>9, <1>1 DEF SignupChecks, Answer, Goto
<1>10. CASE \E v \in Visitors : SignupFindsPlan(v)
  BY <1>10, <1>1 DEF SignupFindsPlan, Answer, Goto, FindByType
<1>11. CASE \E v \in Visitors : SignupCreates(v)
  BY <1>11, <1>1, Created DEF SignupCreates, Answer
<1>12. CASE \E v \in Visitors, p \in Replicas : Signin(v, p)
  BY <1>12, <1>1 DEF Signin
<1>13. CASE UNCHANGED vars
  BY <1>13, <1>1, SMTT(30) DEF vars
<1> HIDE DEF TypeInv, SeedInv, PlanOfAccountExists
<1>. QED
  BY <1>1, <1>2, <1>3, <1>4, <1>5, <1>6, <1>7, <1>8, <1>9, <1>10, <1>11, <1>12, <1>13
     DEF Next, BootStep, RequestStep

\* The initial states satisfy the invariant.
LEMMA InitInv == Init => IInv
<1>1. [password |-> None, plan |-> None] \in AccountRows
  BY DEF AccountRows
<1>. QED
  BY <1>1, EmailsTyped, NoneFresh
  DEF Init, IInv, TypeInv, KeptInv, SeedInv, SignupIsKept, PlanOfAccountExists, Types, BootPhases

\* IInv is an invariant.
LEMMA Inductive == Spec => []IInv
<1>1. IInv /\ [Next]_vars => IInv'
  BY TypeStep, KeptStep, SeedStep DEF IInv
<1>. QED
  BY InitInv, <1>1, PTL DEF Spec

\* Signup and Signin: an account belongs for ever to the visitor who was told it
\* was created, whatever other sign-ups, boots and crashes do.
THEOREM SignupKept == Spec => []SignupIsKept
<1>1. IInv => SignupIsKept
  BY DEF IInv, KeptInv
<1>. QED
  BY Inductive, <1>1, PTL

\* runMigrations and Signup: the plan of an account exists and is active, for any
\* number of replicas that seed, fail and start again.
THEOREM PlanExists == Spec => []PlanOfAccountExists
<1>1. IInv => PlanOfAccountExists
  BY DEF IInv, SeedInv
<1>. QED
  BY Inductive, <1>1, PTL

-----------------------------------------------------------------------------
(* The wallets users save.                                                 *)

WalletTypes ==
    /\ wallet \in Entities \cup {Nil}
    /\ phase \in [Requests -> {"new", "find", "insert", "save", "fetch", "remove", "done"}]
    /\ req \in [Requests -> Calls \cup {Nil}]
    /\ read \in [Requests -> Entities \cup {Nil}]
    /\ answer \in [Requests -> {"none", "200", "201", "204", "400", "404", "409", "500"}]
    /\ body \in [Requests -> Entities \cup {Nil}]

\* What a request has when it is about to write, and that it is answered once.
WalletPhases ==
    \A r \in Requests :
        /\ phase[r] \notin {"new", "done"} => req[r] \in Calls
        /\ phase[r] = "insert" \/ (phase[r] = "find" /\ req[r].op = "create") =>
              req[r].key \in Values
        /\ phase[r] = "save" => read[r] \in Entities
        /\ phase[r] # "done" => answer[r] = "none" /\ body[r] = Nil

\* Whoever is answered a wallet is its user.
BodyInv ==
    \A r \in Requests : body[r] # Nil => body[r].owner = req[r].user

\* The row exists, and is hidden, by one answer each.
TableInv ==
    /\ wallet = Nil => Answered("201") = {}
    /\ wallet # Nil => \E r \in Requests : Answered("201") = {r}
    /\ wallet = Nil => Answered("204") = {}
    /\ wallet # Nil /\ ~wallet.deleted => Answered("204") = {}
    /\ wallet # Nil /\ wallet.deleted => \E r \in Requests : Answered("204") = {r}

WalletInv == WalletTypes /\ WalletPhases /\ BodyInv /\ TableInv

\* FindByID returns a wallet of the user, or nothing.
LEMMA Found ==
    ASSUME WalletTypes, NEW u
    PROVE  LET w == FindByID(u) IN
           w \in Entities \cup {Nil} /\ (w # Nil => w.owner = u)
BY DEF WalletTypes, FindByID, Scoped

\* The row a request inserts.
LEMMA Inserted ==
    ASSUME WalletTypes, WalletPhases, NEW r \in Requests, phase[r] = "insert"
    PROVE  LET w == NewWallet(r) IN
           w \in Entities /\ w # Nil /\ w.owner = req[r].user /\ ~w.deleted
<1>1. req[r].user \in Users /\ req[r].key \in Values /\ req[r].label \in Fields
  BY DEF WalletPhases, Calls
<1>2. NewWallet(r) \in Entities
  BY <1>1 DEF NewWallet, Entities
<1>3. NewWallet(r) # Nil
  BY <1>2, NilFresh
<1>. QED
  BY <1>2, <1>3 DEF NewWallet

\* UpdateWallet replaces fields by non-empty ones.
LEMMA MergedTyped ==
    ASSUME NEW r \in Requests, req[r] \in Calls, NEW w \in Entities
    PROVE  Merged(r, w) \in Entities
BY Zenon DEF Merged, Entities, Calls, Fields

\* Update writes two columns and leaves the owner and the mark of deletion.
LEMMA SavedTyped ==
    ASSUME NEW r \in Requests, read[r] \in Entities, wallet \in Entities
    PROVE  LET w == Saved(r) IN
           /\ w \in Entities /\ w # Nil
           /\ w.owner = wallet.owner /\ w.deleted = wallet.deleted
BY NilFresh, Zenon DEF Saved, Entities

\* Delete only marks the row.
LEMMA HiddenTyped ==
    ASSUME wallet \in Entities
    PROVE  LET w == [wallet EXCEPT !.deleted = TRUE] IN
           w \in Entities /\ w # Nil /\ w.owner = wallet.owner /\ w.deleted
BY NilFresh, Zenon DEF Entities

\* Every step keeps the types.
LEMMA WalletTypeStep ==
    WalletTypes /\ WalletPhases /\ [WalletNext]_walletVars => WalletTypes'
<1> USE DEF WalletTypes, WalletPhases
<1>1. SUFFICES ASSUME WalletTypes /\ WalletPhases, [WalletNext]_walletVars PROVE WalletTypes'
  OBVIOUS
<1>2. CASE \E r \in Requests, call \in Calls : Receive(r, call)
  BY <1>2, <1>1 DEF Receive, Respond, Proceed, Calls, Fields
<1>3. CASE \E r \in Requests : CreateCheck(r)
  BY <1>3, <1>1 DEF CreateCheck, Respond, Proceed
<1>4. CASE \E r \in Requests : Create(r)
  BY <1>4, <1>1, Inserted DEF Create, Respond
<1>5. CASE \E r \in Requests : GetWallet(r)
  BY <1>5, <1>1, Found DEF GetWallet, Respond
<1>6. CASE \E r \in Requests : GetAllWallets(r)
  BY <1>6, <1>1, Found DEF GetAllWallets, Respond
<1>7. CASE \E r \in Requests : UpdateRead(r)
  BY <1>7, <1>1, Found, MergedTyped DEF UpdateRead, Respond, Proceed
<1>8. CASE \E r \in Requests : Update(r)
  BY <1>8, <1>1, SavedTyped DEF Update, Respond, Proceed, Scoped
<1>9. CASE \E r \in Requests : UpdateFetch(r)
  BY <1>9, <1>1, Found DEF UpdateFetch, Respond
<1>10. CASE \E r \in Requests : DeleteCheck(r)
  BY <1>10, <1>1 DEF DeleteCheck, Respond, Proceed
<1>11. CASE \E r \in Requests : Delete(r)
  <2>1. PICK r \in Requests : Delete(r)
    BY <1>11
  <2>2. wallet' \in Entities \cup {Nil}
    BY <2>1, <1>1, HiddenTyped, Zenon DEF Delete, Scoped
  <2>. QED
    BY <2>1, <2>2, <1>1 DEF Delete, Respond
<1>12. CASE UNCHANGED walletVars
  BY <1>12, <1>1 DEF walletVars, handlers
<1> HIDE DEF WalletTypes, WalletPhases
<1>. QED
  BY <1>1, <1>2, <1>3, <1>4, <1>5, <1>6, <1>7, <1>8, <1>9, <1>10, <1>11, <1>12 DEF WalletNext, Serve

\* Every step keeps what the phases promise.
LEMMA WalletPhaseStep ==
    WalletTypes /\ WalletPhases /\ [WalletNext]_walletVars => WalletPhases'
<1> USE DEF WalletTypes, WalletPhases
<1>1. SUFFICES ASSUME WalletTypes /\ WalletPhases, [WalletNext]_walletVars PROVE WalletPhases'
  OBVIOUS
<1>2. CASE \E r \in Requests, call \in Calls : Receive(r, call)
  BY <1>2, <1>1 DEF Receive, Respond, Proceed, Calls, Fields
<1>3. CASE \E r \in Requests : CreateCheck(r)
  BY <1>3, <1>1 DEF CreateCheck, Respond, Proceed
<1>4. CASE \E r \in Requests : Create(r)
  BY <1>4, <1>1, Inserted DEF Create, Respond
<1>5. CASE \E r \in Requests : GetWallet(r)
  BY <1>5, <1>1, Found DEF GetWallet, Respond
<1>6. CASE \E r \in Requests : GetAllWallets(r)
  BY <1>6, <1>1, Found DEF GetAllWallets, Respond
<1>7. CASE \E r \in Requests : UpdateRead(r)
  BY <1>7, <1>1, Found, MergedTyped DEF UpdateRead, Respond, Proceed
<1>8. CASE \E r \in Requests : Update(r)
  BY <1>8, <1>1, SavedTyped DEF Update, Respond, Proceed, Scoped
<1>9. CASE \E r \in Requests : UpdateFetch(r)
  BY <1>9, <1>1, Found DEF UpdateFetch, Respond
<1>10. CASE \E r \in Requests : DeleteCheck(r)
  BY <1>10, <1>1 DEF DeleteCheck, Respond, Proceed
<1>11. CASE \E r \in Requests : Delete(r)
  BY <1>11, <1>1, HiddenTyped DEF Delete, Respond, Scoped
<1>12. CASE UNCHANGED walletVars
  BY <1>12, <1>1 DEF walletVars, handlers
<1> HIDE DEF WalletTypes, WalletPhases
<1>. QED
  BY <1>1, <1>2, <1>3, <1>4, <1>5, <1>6, <1>7, <1>8, <1>9, <1>10, <1>11, <1>12 DEF WalletNext, Serve

\* Every step answers wallets to their users.
LEMMA BodyStep ==
    WalletTypes /\ WalletPhases /\ BodyInv /\ [WalletNext]_walletVars => BodyInv'
<1> USE DEF WalletTypes, WalletPhases, BodyInv
<1>1. SUFFICES ASSUME WalletTypes /\ WalletPhases /\ BodyInv, [WalletNext]_walletVars PROVE BodyInv'
  OBVIOUS
<1>2. CASE \E r \in Requests, call \in Calls : Receive(r, call)
  BY <1>2, <1>1 DEF Receive, Respond, Proceed, Calls, Fields
<1>3. CASE \E r \in Requests : CreateCheck(r)
  BY <1>3, <1>1 DEF CreateCheck, Respond, Proceed
<1>4. CASE \E r \in Requests : Create(r)
  BY <1>4, <1>1, Inserted DEF Create, Respond
<1>5. CASE \E r \in Requests : GetWallet(r)
  BY <1>5, <1>1, Found DEF GetWallet, Respond
<1>6. CASE \E r \in Requests : GetAllWallets(r)
  BY <1>6, <1>1, Found DEF GetAllWallets, Respond
<1>7. CASE \E r \in Requests : UpdateRead(r)
  BY <1>7, <1>1, Found, MergedTyped DEF UpdateRead, Respond, Proceed
<1>8. CASE \E r \in Requests : Update(r)
  BY <1>8, <1>1, SavedTyped DEF Update, Respond, Proceed, Scoped
<1>9. CASE \E r \in Requests : UpdateFetch(r)
  BY <1>9, <1>1, Found DEF UpdateFetch, Respond
<1>10. CASE \E r \in Requests : DeleteCheck(r)
  BY <1>10, <1>1 DEF DeleteCheck, Respond, Proceed
<1>11. CASE \E r \in Requests : Delete(r)
  BY <1>11, <1>1, HiddenTyped DEF Delete, Respond, Scoped
<1>12. CASE UNCHANGED walletVars
  BY <1>12, <1>1 DEF walletVars, handlers
<1> HIDE DEF WalletTypes, WalletPhases, BodyInv
<1>. QED
  BY <1>1, <1>2, <1>3, <1>4, <1>5, <1>6, <1>7, <1>8, <1>9, <1>10, <1>11, <1>12 DEF WalletNext, Serve

\* Every step keeps the table in line with what was answered.
LEMMA TableStep ==
    WalletTypes /\ WalletPhases /\ TableInv /\ [WalletNext]_walletVars => TableInv'
<1> USE DEF WalletTypes, WalletPhases, TableInv, Answered
<1>1. SUFFICES ASSUME WalletTypes /\ WalletPhases /\ TableInv, [WalletNext]_walletVars PROVE TableInv'
  OBVIOUS
<1>2. CASE \E r \in Requests, call \in Calls : Receive(r, call)
  BY <1>2, <1>1 DEF Receive, Respond, Proceed, Calls, Fields
<1>3. CASE \E r \in Requests : CreateCheck(r)
  BY <1>3, <1>1 DEF CreateCheck, Respond, Proceed
<1>4. CASE \E r \in Requests : Create(r)
  BY <1>4, <1>1, Inserted DEF Create, Respond
<1>5. CASE \E r \in Requests : GetWallet(r)
  BY <1>5, <1>1, Found DEF GetWallet, Respond
<1>6. CASE \E r \in Requests : GetAllWallets(r)
  BY <1>6, <1>1, Found DEF GetAllWallets, Respond
<1>7. CASE \E r \in Requests : UpdateRead(r)
  BY <1>7, <1>1, Found, MergedTyped DEF UpdateRead, Respond, Proceed
<1>8. CASE \E r \in Requests : Update(r)
  BY <1>8, <1>1, SavedTyped DEF Update, Respond, Proceed, Scoped
<1>9. CASE \E r \in Requests : UpdateFetch(r)
  BY <1>9, <1>1, Found DEF UpdateFetch, Respond
<1>10. CASE \E r \in Requests : DeleteCheck(r)
  BY <1>10, <1>1 DEF DeleteCheck, Respond, Proceed
<1>11. CASE \E r \in Requests : Delete(r)
  <2>1. PICK r \in Requests : Delete(r)
    BY <1>11
  <2>2. \A x \in Requests : x # r => answer'[x] = answer[x]
    BY <2>1, <1>1 DEF Delete, Respond
  <2>3. answer[r] = "none"
    BY <2>1, <1>1 DEF Delete
  <2>4. CASE answer'[r] = "204"
    <3>1. wallet \in Entities /\ wallet # Nil /\ ~wallet.deleted
          /\ wallet' = [wallet EXCEPT !.deleted = TRUE]
      BY <2>1, <2>4, <1>1 DEF Delete, Respond, Scoped
    <3>2. wallet' # Nil /\ wallet'.deleted
      BY <3>1, HiddenTyped
    <3>3. Answered("204")' = {r} /\ Answered("201")' = Answered("201")
      BY <2>2, <2>3, <2>4, <3>1, <1>1
    <3>. QED
      BY <3>1, <3>2, <3>3, <1>1
  <2>5. CASE answer'[r] # "204"
    <3>1. wallet' = wallet /\ answer'[r] = "500"
      BY <2>1, <2>5, <1>1 DEF Delete, Respond
    <3>. QED
      BY <2>2, <2>3, <3>1, <1>1
  <2>. QED
    BY <2>4, <2>5
<1>12. CASE UNCHANGED walletVars
  BY <1>12, <1>1 DEF walletVars, handlers
<1> HIDE DEF WalletTypes, WalletPhases, TableInv, Answered
<1>. QED
  BY <1>1, <1>2, <1>3, <1>4, <1>5, <1>6, <1>7, <1>8, <1>9, <1>10, <1>11, <1>12 DEF WalletNext, Serve

\* The initial state satisfies the invariant.
LEMMA WalletStart == WalletInit => WalletInv
BY DEF WalletInit, WalletInv, WalletTypes, WalletPhases, BodyInv, TableInv, Answered

\* WalletInv is an invariant of the wallets.
LEMMA WalletInductive == WalletSpec => []WalletInv
<1>1. WalletInv /\ [WalletNext]_walletVars => WalletInv'
  BY WalletTypeStep, WalletPhaseStep, BodyStep, TableStep DEF WalletInv
<1>. QED
  BY WalletStart, <1>1, PTL DEF WalletSpec

\* An empty set and a set with one element, as AnswersMatchTable counts them.
LEMMA Counting == Cardinality({}) = 0 /\ \A r : Cardinality({r}) = 1
BY FS_EmptySet, FS_Singleton, Zenon

\* CreateWallet, UpdateWallet and DeleteWallet of any number of requests: one
\* of them is told that it created the row, one that it deleted it, and every
\* wallet that is answered is its user's and has its user_pub_key.
THEOREM WalletsMatch == WalletSpec => []AnswersMatchTable
<1>1. WalletInv => AnswersMatchTable
  <2>1. SUFFICES ASSUME WalletInv PROVE AnswersMatchTable
    OBVIOUS
  <2>2. Cardinality(Answered("201")) = IF wallet = Nil THEN 0 ELSE 1
    BY <2>1, Counting, Zenon DEF WalletInv, TableInv
  <2>3. Cardinality(Answered("204")) =
           IF wallet # Nil /\ wallet.deleted THEN 1 ELSE 0
    BY <2>1, Counting, Zenon DEF WalletInv, TableInv
  <2>. QED
    BY <2>1, <2>2, <2>3 DEF WalletInv, WalletTypes, BodyInv, AnswersMatchTable
<1>. QED
  BY WalletInductive, <1>1, PTL

\* Update and Delete: no request changes the row of a deleted wallet.
THEOREM DeletedFinal == WalletSpec => DeletedIsFinal
<1>1. [WalletNext]_walletVars =>
         [wallet # Nil /\ wallet.deleted => wallet' = wallet]_walletVars
  BY DEF WalletNext, Serve, Receive, CreateCheck, Create,
         GetWallet, GetAllWallets, UpdateRead, Update,
         UpdateFetch, DeleteCheck, Delete, Scoped
<1>. QED
  BY <1>1, PTL DEF WalletSpec, DeletedIsFinal
=============================================================================
