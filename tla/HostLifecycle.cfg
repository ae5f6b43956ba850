\* Two editor windows, a write, a sign-in, one other request, a grace period of three ticks.
SPECIFICATION FairSpec
CONSTANTS
    Clients = {c1, c2}
    Writes = {w1}
    SignIns = {o1}
    Requests = {r1}
    Grace = 3
    StopOnLastClient = TRUE
INVARIANTS
    TypeOK
    CountsAreExact
    NoLostWakeUp
    OnlyARequestDelaysTheStop
PROPERTIES
    KeepsPromise
    StopsWhenAbandoned
    StopsWhenInterrupted
CHECK_DEADLOCK FALSE
