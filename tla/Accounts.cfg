CONSTANTS
    None = None
    p1 = p1
    p2 = p2
    v1 = v1
    v2 = v2
    e1 = e1
    e2 = e2
    Replicas = {p1, p2}
    Emails = {e1, e2}
    Visitors = {v1, v2}
    EmailOf <- SharedEmail
    Legacy = {e2}
    Faults = {"db", "tables", "token"}
SPECIFICATION FairSpec
INVARIANTS
    SignupIsKept
    PlanOfAccountExists
PROPERTIES
    ReplicasComeUp
