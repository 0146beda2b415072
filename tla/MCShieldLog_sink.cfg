SPECIFICATION LogSpec
CONSTANTS
    LINE_MAX = 600
    SLACK = 160
    FRAME = 4096
    FIXED = 71
    VALUES <- MCValues
    HEADERS <- MCHeaders
    ALERT_GAP = 2
    RunLengths = {599, 8000}
    MaxRuns = 2
    MaxBack = 2
INVARIANTS
    RecordIsWhole
    LossIsAnnounced
PROPERTIES
    LoggingResumes
