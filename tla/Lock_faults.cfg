SPECIFICATION LiveSpec
CONSTANTS
    p1 = p1
    p2 = p2
    p3 = p3
    t1 = t1
    t2 = t2
    t3 = t3
    t4 = t4
    t5 = t5
    Proc = {p1, p2}
    Token = {t1, t2, t3, t4}
    LockTTL = 2
    Faults = {"s3read", "s3write", "crash"}
    None = None
INVARIANTS
    LockInv
PROPERTIES
    ReleaseOnlyOwn
    OrphanOnlyAges
    OrphanExpires
