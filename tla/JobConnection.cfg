SPECIFICATION Spec
CONSTANTS
    Calls = {c1, c2, c3}
    Kinds = {"read", "reclaim"}
    Limit = 2
    Budget = 2
    MaxEpochs = 2
    NoCall = NoCall
SYMMETRY CallSymmetry
INVARIANTS
    OutcomeHonest
    SettlementBarrier
    EpochsApart
