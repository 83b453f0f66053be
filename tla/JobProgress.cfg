SPECIFICATION FairSpec
CONSTANTS
    c1 = c1
    c2 = c2
    j1 = j1
    j2 = j2
    NoCall = NoCall
CHECK_DEADLOCK FALSE
PROPERTIES
    ConnectionAnswers
    JobsRecovered
