SPECIFICATION LiveSpec
CONSTANTS
    c1 = c1
    c2 = c2
    stranger = stranger
    Client = {c1, stranger}
    Trusted = {c1}
    Limit = 2
    Faults = {"init", "bind", "lock"}
INVARIANTS
    DaemonTypeOK
    AcceptedIsQueued
    LessThanTwice
PROPERTIES
    AcceptedIsServed
    ShutsDown
    RunsForever
CHECK_DEADLOCK FALSE
