SPECIFICATION RecordsSpec
CONSTANTS
    w1 = w1
    w2 = w2
    w3 = w3
    w4 = w4
    p1 = p1
    p2 = p2
    r1 = r1
    r2 = r2
    l1 = l1
    l2 = l2
    s1 = s1
    s2 = s2
    Writers = {w1, w2, w3, w4}
    Process <- TwoProcesses
    Owner <- TwoRuns
    Editors = {w3}
    MaxVersion = 2
    MaxCrash = 1
    MaxExpiry = 1
SYMMETRY AlikeCalls
CHECK_DEADLOCK FALSE
INVARIANTS
    WriteGuarded
    AnswersSound
    LogsFound
    ViewMatchesList
PROPERTIES
    WriteReplacesObserved
