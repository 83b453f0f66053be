---------------------------- MODULE MCStoreActor ----------------------------
EXTENDS StoreActor, TLC

\* Operations of one kind of caller are interchangeable.
OpSymmetry == Permutations(SyncOps) \cup Permutations(AsyncOps \ Settles)
=============================================================================
