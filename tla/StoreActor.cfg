SPECIFICATION FairSpec
CONSTANTS
    SyncOps = {s1}
    AsyncOps = {a1, b}
    Settles = {b}
    Capacity = 1
    Budget = 2
CHECK_DEADLOCK FALSE
INVARIANTS
    AnswersTrue
PROPERTIES
    ActorAnswers
