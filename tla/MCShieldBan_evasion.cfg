SPECIFICATION Spec
CONSTANTS
    Addrs = {a1, a2, a3}
    Workers = {w1, w2}
    Policies <- MCShortBan
    Capacity = 2
    SCAN = 2
    EVICT = 1
    TimeMax = 9
    MaxClock = 5
    Lag = 0
    HistoryLen = 3
    CounterMod = 2
    Steps = 0
    Sentinel = Sentinel
    NoWorker = NoWorker
SYMMETRY MCSymmetry
INVARIANTS
    TypeOK
    CursorLive
    RingIntact
    BanHolds
    NoEvasion
