SPECIFICATION Spec
CONSTANTS
    a = a
    b = b
    k1 = k1
    k2 = k2
    k3 = k3
    Domain = {a}
    Wildcard = {}
    Keyed = {a}
    RolloverEnabled = TRUE
    ForceRenew = TRUE
    Key = {k1, k2, k3}
    TlsaWait = 2
    SyncLag = 1
    ForceFactor = 3
    Backoff = 1
    Faults = {"s3read", "s3write", "dns", "acme", "crash", "vanish"}
    None = None
SYMMETRY KeySymmetry
INVARIANTS
    TypeOK
    CertPublished
    PendingKeyMatches
    RolloverConsistent
    JobConsistent
    NothingUnsaved
PROPERTIES
    ThreePhases
    SwitchOnlyAfterWait
    WithdrawOnlyAfterLag
