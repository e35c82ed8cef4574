SPECIFICATION SpacedSpec
CONSTANTS
    p1 = p1
    p2 = p2
    p3 = p3
    k1 = k1
    k2 = k2
    k3 = k3
    staging = staging
    production = production
    www = www
    mail = mail
    inner = inner
    outer = outer
    Proc = {p1, p2, p3}
    Stray = {p3}
    Key = {k1, k2, k3}
    CA = {staging, production}
    Domain = {www, mail}
    Keyed = {www, mail}
    Zone = {inner, outer}
    ZonesOf <- MCZonesOf
    Faults = {"s3read", "s3write", "acme", "dns", "crash"}
    None = None
SYMMETRY KeySymmetry
INVARIANTS
    AccountTypeOK
    OneAccount
    NotLockedOut
PROPERTIES
    NeverReplaced
CHECK_DEADLOCK FALSE
