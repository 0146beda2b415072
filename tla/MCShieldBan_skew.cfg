SPECIFICATION Spec
CONSTANTS
    Addrs = {a1}
    Workers = {w1, w2}
    Policies <- MCShortBan
    Capacity = 1
    SCAN = 1
    EVICT = 1
    TimeMax = 4
    MaxClock = 2
    Lag = 1
    HistoryLen = 0
    CounterMod = 2
    Steps = 0
    Sentinel = Sentinel
    NoWorker = NoWorker
PROPERTIES
    WindowsMoveOn
