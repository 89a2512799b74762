SPECIFICATION Spec
CONSTANTS
    p1 = p1
    p2 = p2
    c1 = c1
    u1 = u1
    a = a
    b = b
    None = None
    Replicas = {p1, p2}
    Clients = {c1}
    UserOf <- OneUser
    MaxRow = 3
    RowUser <- RowUsers
    RowUrl <- RowUrls
    WarmLimit = 2
    Expiry = 2
    TTL = 1
    WarmTimeout = 1
    MaxStarts = 2
    Faults = {"db", "redis", "keys"}
INVARIANT SessionIsLocal
INVARIANT DeletedEntryExpires
