SPECIFICATION LiveSpec
CONSTANTS
    a = a
    b = b
    k1 = k1
    k2 = k2
    k3 = k3
    Domain = {a, b}
    Wildcard = {b}
    Keyed = {a}
    RolloverEnabled = TRUE
    ForceRenew = FALSE
    Key = {k1, k2}
    TlsaWait = 1
    SyncLag = 1
    ForceFactor = 2
    Backoff = 2
    Faults = {"dns", "acme"}
    None = None
INVARIANTS
    NothingUnsaved
PROPERTIES
    BackoffKept
    RolloverCompletes
    DueIsRenewed
