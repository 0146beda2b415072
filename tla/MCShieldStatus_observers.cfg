SPECIFICATION Spec
CONSTANTS
    Workers = {w1, w2}
    Readers = {w1}
    Resizes = {FALSE, TRUE}
    Categories = {"sqli"}
    ENTRY = 96
    HEAD_ROOM = 100
    Widths = {30, 94}
    Arms = {2}
    DISARMED = DISARMED
    MaxNodes = 3
    MaxBans = 2
    MaxHits = 1
    MaxAllocs = 3
INVARIANTS
    DocumentCloses
    ListIsComplete
    CountersAgree
    NthFails
PROPERTIES
    CountersGrow
