CONSTANTS
    Nil = Nil
    r1 = r1
    r2 = r2
    r3 = r3
    u1 = u1
    u2 = u2
    v1 = v1
    Requests = {r1, r2, r3}
    Users = {u1, u2}
    Values = {v1}
    WalletFaults = {"db"}
SYMMETRY WalletSymmetry
SPECIFICATION WalletSpec
INVARIANTS
    AnswersMatchTable
PROPERTIES
    DeletedIsFinal
CHECK_DEADLOCK FALSE
