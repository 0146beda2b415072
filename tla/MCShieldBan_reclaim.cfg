SPECIFICATION FairSpec
CONSTANTS
    Addrs = {a1, a2, a3, a4}
    Workers = {w1}
    Policies <- MCOneHit
    Capacity = 3
    SCAN = 1
    EVICT = 1
    TimeMax = 4
    MaxClock = 2
    Lag = 0
    HistoryLen = 0
    CounterMod = 2
    Steps = 0
    Sentinel = Sentinel
    NoWorker = NoWorker
PROPERTIES
    EveryNodeExamined
