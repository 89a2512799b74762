------------------------------ MODULE Accounts ------------------------------
(***************************************************************************)
(* The identity plane: the plans each replica seeds while it boots         *)
(* (runMigrations), and sign-up and sign-in, with several replicas on one  *)
(* database.  One action for each database statement.                      *)
(*                                                                         *)
(* External: the tables (gorm on Postgres), with their unique indexes on   *)
(* plans.name and users.email; the orchestrator that restarts a replica;   *)
(* the scan tables that cafe-persistence creates.                          *)
(***************************************************************************)
EXTENDS Naturals

CONSTANTS Replicas,
          Emails,
          Visitors,    \* requests to sign up or sign in; each has its own password
          EmailOf,     \* the address each visitor gives
          Legacy,      \* addresses whose account predates the plans
          Faults,      \* subset of FaultKinds
          None

\* db: a statement fails; tables: cafe-persistence has not migrated yet;
\* token: the session token of a new account cannot be signed.
FaultKinds == {"db", "tables", "token"}

\* Accounts: whose password it is, and the plan.
AccountRows == [password : Visitors \cup {None}, plan : {"FREE", None}]

ASSUME EmailsTyped == EmailOf \in [Visitors -> Emails] /\ Legacy \subseteq Emails
ASSUME NoneFresh == None \notin Visitors \cup Replicas \cup AccountRows
ASSUME FaultsKnown == Faults \subseteq FaultKinds

VARIABLES plans,     \* "none", "active" or "inactive", for each plan name
          accounts,  \* [password, plan] of each address, or None
          boot,      \* where each replica's start is
          pc, at,    \* where each visitor's request is, and which replica serves it
          resp,      \* answer to each sign-up
          login      \* last answer to a sign-in of each visitor

identity == <<plans, accounts>>
requests == <<pc, at, resp>>
vars     == <<identity, boot, requests, login>>

Types == {"FREE", "PREMIUM"}

Fault(f) == f \in Faults

Init ==
    /\ plans = [t \in Types |-> "none"]
    /\ accounts = [e \in Emails |->
                      IF e \in Legacy THEN [password |-> None, plan |-> None] ELSE None]
    /\ boot = [p \in Replicas |-> "down"]
    /\ pc = [v \in Visitors |-> "new"] /\ at = [v \in Visitors |-> None]
    /\ resp = [v \in Visitors |-> "none"]
    /\ login = [v \in Visitors |-> "none"]

-----------------------------------------------------------------------------
(* runMigrations, while a replica boots.                                   *)

BootGoto(p, from, to) == boot[p] = from /\ boot' = [boot EXCEPT ![p] = to]

\* PlanRepository.FindByType only matches active plans.
FindByType(t) == plans[t] = "active"

\* IsActive as migrations.go asks for it.
AskedActive(t) == t = "FREE"

\* Variant: the column takes the value the code asks for.
StoredAsAsked(t) == IF AskedActive(t) THEN "active" ELSE "inactive"

\* The column as gorm stores it: it inserts the default in place of the zero
\* value of a field tagged default:true.
StoredActive(t) == "active"

\* Variant: the accounts are given their plan before the plans are seeded.
StartReplicaAssigns(p) ==
    /\ \E from \in {"down", "failed"} : BootGoto(p, from, "assign")
    /\ UNCHANGED <<identity, requests, login>>

\* The orchestrator starts a replica that is not running.
StartReplica(p) ==
    /\ \E from \in {"down", "failed"} : BootGoto(p, from, "findFREE")
    /\ UNCHANGED <<identity, requests, login>>

AfterPlan(t) == IF t = "FREE" THEN "findPREMIUM" ELSE "assign"

FindPhase(t) == IF t = "FREE" THEN "findFREE" ELSE "findPREMIUM"
CreatePhase(t) == IF t = "FREE" THEN "createFREE" ELSE "createPREMIUM"

\* ensurePlanExists: a look-up that fails counts as not found.
EnsurePlanFinds(p, t) ==
    /\ \/ FindByType(t) /\ BootGoto(p, FindPhase(t), AfterPlan(t))
       \/ ~FindByType(t) /\ BootGoto(p, FindPhase(t), CreatePhase(t))
       \/ Fault("db") /\ BootGoto(p, FindPhase(t), CreatePhase(t))
    /\ UNCHANGED <<identity, requests, login>>

\* ensurePlanExists: the plan's name is unique; a conflict ends the boot.
EnsurePlanCreates(p, t) ==
    /\ \/ /\ plans[t] = "none" /\ BootGoto(p, CreatePhase(t), AfterPlan(t))
          /\ plans' = [plans EXCEPT ![t] = StoredActive(t)]
       \/ plans[t] # "none" /\ BootGoto(p, CreatePhase(t), "failed") /\ UNCHANGED plans
       \/ Fault("db") /\ BootGoto(p, CreatePhase(t), "failed") /\ UNCHANGED plans
    /\ UNCHANGED <<accounts, requests, login>>

WithoutPlan == {e \in Emails : accounts[e] # None /\ accounts[e].plan = None}

\* assignPlanToUsersWithoutPlan: the updates that fail are skipped.
AssignPlan(p) ==
    /\ BootGoto(p, "assign", "tables")
    /\ \E done \in SUBSET WithoutPlan :
          /\ done # WithoutPlan => Fault("db")
          /\ accounts' = [e \in Emails |->
                             IF e \in done THEN [accounts[e] EXCEPT !.plan = "FREE"]
                             ELSE accounts[e]]
    /\ UNCHANGED <<plans, requests, login>>

\* ensureScanTablesPresent, then the rest of the start.
EnsureScanTablesPresent(p) ==
    /\ \/ BootGoto(p, "tables", "serving")
       \/ Fault("tables") /\ BootGoto(p, "tables", "failed")
    /\ UNCHANGED <<identity, requests, login>>

\* A replica that serves stops; the requests it was serving get no answer.
CrashReplica(p) ==
    /\ BootGoto(p, "serving", "down")
    /\ pc' = [v \in Visitors |-> IF at[v] = p THEN "done" ELSE pc[v]]
    /\ UNCHANGED <<identity, at, resp, login>>

-----------------------------------------------------------------------------
(* POST /auth/signup and POST /auth/signin.                                *)

Goto(v, from, to) ==
    /\ pc[v] = from /\ pc' = [pc EXCEPT ![v] = to]
    /\ UNCHANGED resp

Answer(v, from, status) ==
    /\ pc[v] = from /\ pc' = [pc EXCEPT ![v] = "done"]
    /\ resp' = [resp EXCEPT ![v] = status]

\* The Turnstile token, the passwords or the address are not acceptable.
SignupRefused(v, p) ==
    /\ boot[p] = "serving" /\ at' = [at EXCEPT ![v] = p]
    /\ Answer(v, "new", "400")
    /\ UNCHANGED <<identity, boot, login>>

\* ExistsByEmail
SignupChecks(v, p) ==
    /\ boot[p] = "serving" /\ at' = [at EXCEPT ![v] = p]
    /\ \/ accounts[EmailOf[v]] = None /\ Goto(v, "new", "plan")
       \/ accounts[EmailOf[v]] # None /\ Answer(v, "new", "409")
       \/ Fault("db") /\ Answer(v, "new", "400")
    /\ UNCHANGED <<identity, boot, login>>

\* The FREE plan the account will have.
SignupFindsPlan(v) ==
    /\ \/ FindByType("FREE") /\ Goto(v, "plan", "create")
       \/ ~FindByType("FREE") /\ Answer(v, "plan", "400")
       \/ Fault("db") /\ Answer(v, "plan", "400")
    /\ UNCHANGED <<identity, boot, at, login>>

\* Variant: the account is saved over one created since the check.
SignupOverwrites(v) ==
    /\ accounts' = [accounts EXCEPT ![EmailOf[v]] = [password |-> v, plan |-> "FREE"]]
    /\ Answer(v, "create", "201")
    /\ UNCHANGED <<plans, boot, at, login>>

\* UserRepository.Create: the address is unique.
SignupCreates(v) ==
    /\ \/ /\ accounts[EmailOf[v]] = None
          /\ Answer(v, "create", "201") \/ (Fault("token") /\ Answer(v, "create", "400"))
          /\ accounts' = [accounts EXCEPT ![EmailOf[v]] = [password |-> v, plan |-> "FREE"]]
       \/ accounts[EmailOf[v]] # None /\ Answer(v, "create", "400") /\ UNCHANGED accounts
       \/ Fault("db") /\ Answer(v, "create", "400") /\ UNCHANGED accounts
    /\ UNCHANGED <<plans, boot, at, login>>

\* Signin with the password the visitor chose when signing up.
Signin(v, p) ==
    LET account == accounts[EmailOf[v]]
        matches == account # None /\ account.password = v
    IN  /\ boot[p] = "serving" /\ pc[v] = "done"
        /\ \/ matches /\ login' = [login EXCEPT ![v] = "200"]
           \/ ~matches /\ login' = [login EXCEPT ![v] = "401"]
           \/ Fault("db") /\ login' = [login EXCEPT ![v] = "400"]
        /\ UNCHANGED <<identity, boot, requests>>

-----------------------------------------------------------------------------
BootStep(p) ==
    \/ \E t \in Types : EnsurePlanFinds(p, t) \/ EnsurePlanCreates(p, t)
    \/ AssignPlan(p) \/ EnsureScanTablesPresent(p)

RequestStep(v) ==
    \/ \E p \in Replicas : SignupRefused(v, p) \/ SignupChecks(v, p) \/ Signin(v, p)
    \/ SignupFindsPlan(v) \/ SignupCreates(v)

Next ==
    \/ \E p \in Replicas : StartReplica(p) \/ BootStep(p) \/ CrashReplica(p)
    \/ \E v \in Visitors : RequestStep(v)

Spec == Init /\ [][Next]_vars

\* A boot runs to its end, the container's restart policy (unless-stopped)
\* starts a replica that ended, and a step of the boot that is tried again and
\* again succeeds at last.
Fairness ==
    \A p \in Replicas :
        /\ WF_vars(BootStep(p)) /\ WF_vars(StartReplica(p))
        /\ \A to \in {"findPREMIUM", "assign", "serving"} :
              SF_vars(BootStep(p) /\ boot'[p] = to)

FairSpec == Spec /\ Fairness

-----------------------------------------------------------------------------
(* Properties.                                                             *)

\* Signup and Signin: whoever was told that the account was created owns it
\* from then on, whatever other sign-ups for the address, boots and crashes do:
\* its password is the one stored, and sign-in never answers "invalid email or
\* password".
SignupIsKept ==
    \A v \in Visitors : resp[v] = "201" =>
        /\ accounts[EmailOf[v]] # None /\ accounts[EmailOf[v]].password = v
        /\ login[v] # "401"

\* AssignPlan, Signup and GetUserPlan: the plan of an account exists and is
\* active, so that its limits can be read, whatever step of a boot failed and
\* whichever replica seeded the plans.
PlanOfAccountExists ==
    \A e \in Emails : accounts[e] # None /\ accounts[e].plan # None =>
        plans[accounts[e].plan] = "active"

\* runMigrations and the restart policy: replicas that race to seed the plans,
\* fail or crash come up again and again: no plan row that one left behind keeps
\* the others from starting.
ReplicasComeUp == \A p \in Replicas : []<>(boot[p] = "serving")
=============================================================================
