--------------------------- MODULE MCCapacityWait ---------------------------
(* CapacityWait for TLC, twice: jobs with nothing but the protocol to wake
   them, and two jobs on a host for one sandbox with timers, a retirement, lost
   connections and locked rows.  part is chosen once and only that instance
   moves.                                                                     *)
EXTENDS CapacityWait

\* The environment of a job is its own.
OwnEnvironment == [j \in Jobs |-> j]

VARIABLES
    part,
    dpc, ddue, dmarked, dwaiter, dtaken, dheld, denvGate, dhostGate, dglobal, doutcome,
    dunhinted, dfaults

disturbedVars == <<dpc, ddue, dmarked, dwaiter, dtaken, dheld, denvGate, dhostGate,
                   dglobal, doutcome, dunhinted, dfaults>>

\* Request 9 is to retire the environment of job 1.
Disturbed == INSTANCE CapacityWait WITH
                Jobs <- {1, 2}, Maintenance <- {9},
                Env <- [p \in {1, 2, 9} |-> IF p = 2 THEN 2 ELSE 1],
                Limit <- 1, Timers <- TRUE, MaxFaults <- 2,
                pc <- dpc, due <- ddue, marked <- dmarked, waiter <- dwaiter,
                taken <- dtaken, held <- dheld, envGate <- denvGate,
                hostGate <- dhostGate, global <- dglobal, outcome <- doutcome,
                unhinted <- dunhinted, faults <- dfaults

BothInit == part \in {"calm", "disturbed"} /\ Init /\ Disturbed!Init

BothNext ==
    /\ \/ part = "calm" /\ Next /\ UNCHANGED disturbedVars
       \/ part = "disturbed" /\ Disturbed!Next /\ UNCHANGED vars
    /\ UNCHANGED part

\* Fairness is that of the calm instance, which alone is checked for progress.
BothSpec == BothInit /\ [][BothNext]_<<part, vars, disturbedVars>> /\ Fairness

-----------------------------------------------------------------------------
\* Nobody sleeps through room: a job queued for want of it and not due still
\* faces a full host, after lost connections and retirements too, and one queued
\* behind a lock is woken by its holder (yield, release, signals).
NoLostRelease ==
    /\ TypeOK /\ ReleaseIsSeen /\ ContenderIsWoken
    /\ Disturbed!TypeOK /\ Disturbed!ReleaseIsSeen
=============================================================================
