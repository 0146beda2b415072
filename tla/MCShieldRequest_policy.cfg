SPECIFICATION Spec
CONSTANTS
    r1 = r1
    r2 = r2
    Reqs = {r1, r2}
    Traffic <- MCTraffic
    Pages <- MCPages
    MAX_RANGES = 16
    Keys = {"c1", "c2"}
    NoKey = "unix"
    NoReq = NoReq
    MaxFaults = 1
    MaxRedirects = 1
    MaxLapses = 1
INVARIANTS
    TypeOK
    BlockFailsClosed
    BlockedAddsUp
    OneRecordPerPass
PROPERTIES
    ImplementsPolicy
    Answered
    HandledOnItsMerits
