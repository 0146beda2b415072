SPECIFICATION Spec
CONSTANTS
    Addrs = {a1, a2}
    Workers = {w1, w2}
    Policies <- MCReload
    Capacity = 1
    SCAN = 2
    EVICT = 1
    TimeMax = 6
    MaxClock = 5
    Lag = 1
    HistoryLen = 0
    CounterMod = 2
    Steps = 1
    Sentinel = Sentinel
    NoWorker = NoWorker
SYMMETRY MCSymmetry
INVARIANTS
    BanHolds
