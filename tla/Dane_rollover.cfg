SPECIFICATION DaneSpec
CONSTANTS
    a = a
    k1 = k1
    k2 = k2
    k3 = k3
    k4 = k4
    Domain = {a}
    Wildcard = {}
    Keyed = {a}
    RolloverEnabled = TRUE
    ForceRenew = TRUE
    Key = {k1, k2, k3, k4}
    TlsaWait = 2
    SyncLag = 3
    ForceFactor = 2
    Backoff = 1
    Faults = {"s3read", "dns", "acme", "vanish"}
    DnsTTL = 2
    SyncWithin = 3
    None = None
SYMMETRY KeySymmetry
INVARIANTS
    DaneTypeOK
    NoDaneGap
