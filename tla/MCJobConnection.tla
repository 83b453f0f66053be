--------------------------- MODULE MCJobConnection ---------------------------
EXTENDS JobConnection, TLC

CallSymmetry == Permutations(Calls)
=============================================================================
