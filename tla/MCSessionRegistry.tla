-------------------------- MODULE MCSessionRegistry --------------------------
(* SessionRegistry for TLC, twice: one lease, background work and two deletions
   of two sessions, and two concurrent finish() calls over two leases.  part is
   chosen once and only that instance moves.                                  *)
EXTENDS SessionRegistry

CONSTANTS g1, g2

VARIABLES
    part,
    fActive, fLeases, fFinish, fDeleting, fDeletion, fTrackerOf, fTrackers, fToken,
    fDraining, fDrain

finishVars == <<fActive, fLeases, fFinish, fDeleting, fDeletion, fTrackerOf, fTrackers,
                fToken, fDraining, fDrain>>

Finishing == INSTANCE SessionRegistry WITH
                Works <- {}, Deleters <- {g1}, Finishers <- {g1, g2},
                MaxLeases <- 2, MaxTrackers <- 0,
                active <- fActive, leases <- fLeases, finish <- fFinish,
                deleting <- fDeleting, deletion <- fDeletion, trackerOf <- fTrackerOf,
                trackers <- fTrackers, token <- fToken, draining <- fDraining,
                drain <- fDrain

BothInit == part \in {"deleting", "finishing"} /\ Init /\ Finishing!Init

BothNext ==
    /\ \/ part = "deleting" /\ Next /\ UNCHANGED finishVars
       \/ part = "finishing" /\ Finishing!Next /\ UNCHANGED vars
    /\ UNCHANGED part

\* Fairness is that of the first instance, which alone is checked for progress.
BothSpec == BothInit /\ [][BothNext]_<<part, vars, finishVars>> /\ Fairness

-----------------------------------------------------------------------------
\* With two leases and two finish() calls under way, a late one for the first run
\* included, a run is in one session, takes no input once it has left it, leaves by
\* its own finish() and keeps its first stop (start, finish, close_with_cause).
FinishingRuns == [](Finishing!RunsApart) /\ Finishing!RunLifetime
==============================================================================
