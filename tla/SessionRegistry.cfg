SPECIFICATION BothSpec
CONSTANTS
    Sessions = {s1, s2}
    Runs = {r1}
    Works = {w1}
    Deleters = {d1, d2}
    Finishers = {f1}
    MaxLeases = 1
    MaxTrackers = 2
    g1 = g1
    g2 = g2
CHECK_DEADLOCK FALSE
INVARIANTS
    SessionExclusive
PROPERTIES
    FinishingRuns
    DeletionClears
