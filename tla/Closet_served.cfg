SPECIFICATION LiveSpec
CONSTANTS
    a = a
    b = b
    r1 = r1
    r2 = r2
    Domain = {a}
    Renewer = {r1}
    Sync = Sync
    NoOne = NoOne
    Torn = Torn
    MaxVersion = 2
    MaxMishaps = 2
    Outputs = {"traefik", "haproxy", "crtlist"}
    Faults = {"s3write", "vanish"}
PROPERTIES
    IndexedIsServed
