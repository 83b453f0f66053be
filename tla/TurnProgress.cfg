SPECIFICATION FairSpec
CONSTANTS
    c1 = c1
    c2 = c2
    i1 = i1
    i2 = i2
PROPERTIES
    AcceptedIsRead
    WaitResumes
    LoggedCallCloses
CHECK_DEADLOCK FALSE
