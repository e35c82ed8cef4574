SPECIFICATION Spec
CONSTANTS
    c1 = c1
    c2 = c2
    stranger = stranger
    Client = {c1, c2}
    Trusted = {c1, c2}
    Limit = 2
    Faults = {}
INVARIANTS
    Drained
CHECK_DEADLOCK FALSE
