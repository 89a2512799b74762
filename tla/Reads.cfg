SPECIFICATION Spec
CONSTANTS
    w1 = w1
    t1 = t1
    d1 = d1
    o1 = o1
    u1 = u1
    u2 = u2
    r1 = r1
    r2 = r2
    None = None
    Scans = {w1, t1, d1, o1}
    Users = {u1, u2}
    Readers = {r1, r2}
    Family <- ReadFamily
    Owner <- ReadOwner
    Ops = {"detail", "cbom", "list", "defaults", "canRead"}
    Faults = {"call", "db"}
SYMMETRY ReaderSymmetry
CONSTRAINT Bound
INVARIANT OnlyReadersOfScan
INVARIANT DenialJustified
INVARIANT NotFoundExplained
INVARIANT StatusNeverGoesBack
INVARIANT CBOMOnlyOfSuccess
CHECK_DEADLOCK FALSE
