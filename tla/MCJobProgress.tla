---------------------------- MODULE MCJobProgress -----------------------------
(* What must eventually happen to jobs, one protocol at a time: the calls of the
   job connection (JobConnection) and jobs whose workers die (RuntimeJobs).
   part is chosen once and only that protocol moves, under the fairness of its
   own module.                                                                *)
EXTENDS Naturals

CONSTANTS c1, c2, j1, j2, NoCall

VARIABLES
    part,
    call, driver, current, queue, owner, closing, closer, actorHeld, applied, before,
    job, wakeAt, consumed, outbox, stopMarks, now, minted, ended, settledBy, owed,
    retryAt

connectionVars == <<call, driver, current, queue, owner, closing, closer, actorHeld,
                    applied, before>>
jobVars == <<job, wakeAt, consumed, outbox, stopMarks, now, minted, ended, settledBy,
             owed, retryAt>>
vars == <<part, connectionVars, jobVars>>

JC == INSTANCE JobConnection WITH
         Calls <- {c1, c2}, Kinds <- {"read", "reclaim"}, Limit <- 1,
         Budget <- 1, MaxEpochs <- 2

Backoff == INSTANCE JobBackoff
             WITH BaseDelay <- 1, MaxDelay <- 2, Multiplier <- 2, Jitter <- 0
Delays(n) == Backoff!runtime_job_retry_delay_ms(n)

\* Two jobs whose workers always die, reclaimed one at a time.
RJ == INSTANCE RuntimeJobs WITH
         Jobs <- {j1, j2}, Sources <- {}, LeaseMs <- 2, MaxReclaims <- 2,
         ClaimLimit <- 2, ReclaimBatch <- 1, MaxTime <- 24, MaxClaims <- 3

Init ==
    /\ part \in {"connection", "jobs"}
    /\ JC!Init /\ RJ!Init

Next ==
    /\ \/ part = "connection" /\ JC!Next /\ UNCHANGED jobVars
       \/ part = "jobs" /\ RJ!CrashNext /\ UNCHANGED connectionVars
    /\ UNCHANGED part

Fairness ==
    \/ part = "connection" /\ JC!Fairness
    \/ part = "jobs" /\ RJ!CrashFairness

FairSpec == Init /\ [][Next]_vars /\ Fairness

-----------------------------------------------------------------------------
(* The properties of the modules; their comments are there.                  *)

\* Every call of the job store and every close() is answered
\* (SqliteJobStore::execute, ::close).
ConnectionAnswers == JC!ConnectionAnswers

\* Jobs whose workers die are recovered and in the end retired
\* (reclaim_expired_runtime_job_leases).
JobsRecovered == RJ!JobsRecovered
=============================================================================
