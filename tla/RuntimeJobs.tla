----------------------------- MODULE RuntimeJobs -----------------------------
(***************************************************************************)
(* The durable runtime-job store of Centaeris: the tables runtime_jobs,    *)
(* runtime_job_outbox and the wake / stop records of runtime_events, and   *)
(* the operations of RuntimeJobStorePort and RuntimeJobOutboxPort on them  *)
(* (packages/runtime_sqlite, sqlite_reliability.rs and job_store.rs; the   *)
(* reclaim policy is packages/core, session/reliability.rs).               *)
(*                                                                         *)
(* Every operation is one SQLite transaction, so it is one action.  The    *)
(* callers are workers, maintenance loops and users on their own threads:  *)
(* each reads its clock before the call is queued, so an operation carries *)
(* a time  at  that may lie behind the clock  now  when it runs, and it    *)
(* carries a claim token that may have been overtaken long ago.  A worker  *)
(* that crashed is a worker that presents nothing any more.                *)
(*                                                                         *)
(* Times are positive; 0 stands for SQL NULL in the columns lease_owner,   *)
(* lease_expires_at_ms, heartbeat_at_ms and lease_reclaim_not_before_ms.   *)
(* Payloads, kinds, error texts and retry_count (which no operation of the *)
(* store compares) are left out.                                           *)
(***************************************************************************)
EXTENDS Naturals, FiniteSets

CONSTANTS
    Jobs,           \* rows: a job id with its (job_kind, idempotency_key)
    Sources,        \* job ids that can wake a waiting job
    LeaseMs,        \* lease_ms of every claim and renewal
    MaxReclaims,    \* RuntimeJobLeaseReclaimPolicy.max_reclaims
    Delays(_),      \* backoff after the n-th reclaim, jitter included
    ClaimLimit,     \* the largest limit a claim passes
    ReclaimBatch,   \* RUNTIME_JOB_LEASE_RECLAIM_BATCH_LIMIT
    MaxTime,        \* bound: the clock stops here
    MaxClaims       \* bound: claims of one job

ASSUME LeaseAssumption == LeaseMs \in Nat \ {0}
ASSUME ReclaimAssumption == MaxReclaims \in Nat
ASSUME DelayAssumption == \A n \in 1..MaxReclaims : Delays(n) \subseteq Nat
ASSUME BoundAssumption == MaxTime \in Nat \ {0} /\ MaxClaims \in Nat

VARIABLES
    job,        \* runtime_jobs, the columns that steer the queue
    wakeAt,     \* runtime_job_wake_requested events: woken_at per source
    consumed,   \* runtime_job_wake_consumed events
    outbox,     \* runtime_job_outbox, the terminal event of each job
    stopMarks,  \* local_runtime.service_stop.v1 events
    now,        \* the host clock
    \* History, read by no guard except that a claim token is fresh.
    minted,     \* tokens issued for each job; the newest is minted[j]
    ended,      \* tokens whose lease was yielded, retried or reclaimed
    settledBy,  \* the token that reported the terminal outcome, 0 if none
    owed,       \* woken since the last claim
    retryAt     \* next_run_at_ms of the last reported retry

store == <<job, wakeAt, consumed, outbox, stopMarks>>
history == <<minted, ended, settledBy, owed, retryAt>>
vars == <<job, wakeAt, consumed, outbox, stopMarks, now,
          minted, ended, settledBy, owed, retryAt>>

Time == 1..MaxTime
Active == {"leased", "running"}
Terminal == {"succeeded", "failed", "dead_lettered", "cancelled"}
Status == {"absent", "queued"} \cup Active \cup Terminal

Row == [status : Status, runAt : Nat, owner : Nat, expires : Nat,
        heartbeat : Nat, reclaims : Nat, notBefore : Nat]

\* A clock reading some caller took at or before this moment.
Reading == 1..now

Larger(a, b) == IF a >= b THEN a ELSE b

Init ==
    /\ job = [j \in Jobs |->
                [status |-> "absent", runAt |-> 0, owner |-> 0, expires |-> 0,
                 heartbeat |-> 0, reclaims |-> 0, notBefore |-> 0]]
    /\ wakeAt = [j \in Jobs |-> [s \in Sources |-> 0]]
    /\ consumed = [j \in Jobs |-> {}]
    /\ outbox = [j \in Jobs |-> [state |-> "none", generation |-> 0]]
    /\ stopMarks = {}
    /\ now = 1
    /\ minted = [j \in Jobs |-> 0]
    /\ ended = [j \in Jobs |-> {}]
    /\ settledBy = [j \in Jobs |-> 0]
    /\ owed = [j \in Jobs |-> FALSE]
    /\ retryAt = [j \in Jobs |-> 0]

-----------------------------------------------------------------------------
(* Scheduling and claiming.                                                *)

\* INSERT OR IGNORE; a second schedule of the same identity changes nothing.
schedule_runtime_job(j, runAt) ==
    /\ job[j].status = "absent"
    /\ job' = [job EXCEPT ![j].status = "queued", ![j].runAt = runAt]
    /\ UNCHANGED <<wakeAt, consumed, outbox, stopMarks, now, history>>

\* Mutant: the status filter only excludes finished jobs.
Due_unfinished(r, at) ==
    r.status \notin Terminal \cup {"absent"} /\ r.runAt <= at /\ r.notBefore <= at

Due(r, at) == r.status = "queued" /\ r.runAt <= at /\ r.notBefore <= at

\* S is what ORDER BY key LIMIT limit selects of rows; ties in the key are
\* broken by columns the model leaves out.
Selected(S, rows, key, limit) ==
    /\ Cardinality(S) <= limit
    /\ S = rows \/ Cardinality(S) = limit
    /\ \A a \in S, b \in rows \ S : key[a] <= key[b]

\* Mutant: the worker's identity is the token.
FreshToken_of_worker(j) == 1

FreshToken(j) == minted[j] + 1

Claimed(r, token, at) ==
    [r EXCEPT !.status = "leased", !.owner = token, !.expires = at + LeaseMs,
              !.heartbeat = at]

\* wanted: what the optional job, kind and session filters let through.  Every
\* claimed row gets a token of its own that was never used before.
claim_due_runtime_jobs(at, wanted, limit) ==
    LET due == {j \in wanted : Due(job[j], at)}
    IN  \E S \in SUBSET due :
            /\ S # {}
            /\ Selected(S, due, [j \in Jobs |-> job[j].runAt], limit)
            /\ \A j \in S : minted[j] < MaxClaims
            /\ job' = [j \in Jobs |->
                         IF j \in S THEN Claimed(job[j], FreshToken(j), at)
                                    ELSE job[j]]
            /\ minted' = [j \in Jobs |->
                            IF j \in S THEN minted[j] + 1 ELSE minted[j]]
            /\ owed' = [j \in Jobs |-> IF j \in S THEN FALSE ELSE owed[j]]
            /\ UNCHANGED <<wakeAt, consumed, outbox, stopMarks, now,
                           ended, settledBy, retryAt>>

-----------------------------------------------------------------------------
(* What the holder of a claim may do.  token is any token ever issued.     *)

Fenced(r, token, at) ==
    r.status \in Active /\ r.owner = token /\ r.expires > at

Released(r) == [r EXCEPT !.owner = 0, !.expires = 0]

Upserted(o) ==
    [state |-> "pending",
     generation |-> IF o.state = "none" THEN 0 ELSE o.generation + 1]

start_runtime_job(j, token, at) ==
    /\ Fenced(job[j], token, at)
    /\ job[j].status = "leased"
    /\ job' = [job EXCEPT ![j].status = "running", ![j].heartbeat = at]
    /\ UNCHANGED <<wakeAt, consumed, outbox, stopMarks, now, history>>

renew_runtime_job_lease(j, token, at) ==
    /\ Fenced(job[j], token, at)
    /\ job' = [job EXCEPT ![j].heartbeat = at, ![j].expires = at + LeaseMs]
    /\ UNCHANGED <<wakeAt, consumed, outbox, stopMarks, now, history>>

\* Mutant: one consumed wake hides every other wake of the job.
PendingWakes_any_consumed(j) ==
    IF consumed[j] # {} THEN {} ELSE {s \in Sources : wakeAt[j][s] # 0}

PendingWakes(j) == {s \in Sources : wakeAt[j][s] # 0} \ consumed[j]

YieldedRunAt(j, at, runAt) == IF PendingWakes(j) = {} THEN runAt ELSE at

\* Give the lease back and wait until runAt, or not at all when a wake was
\* recorded meanwhile.  Repeating a yield that was applied changes nothing.
yield_runtime_job(j, token, at, runAt) ==
    /\ runAt >= at
    /\ Fenced(job[j], token, at)
    /\ job' = [job EXCEPT ![j] =
                 [Released(job[j]) EXCEPT
                    !.status = "queued", !.heartbeat = 0,
                    !.runAt = YieldedRunAt(j, at, runAt)]]
    /\ consumed' = [consumed EXCEPT ![j] = @ \cup PendingWakes(j)]
    /\ ended' = [ended EXCEPT ![j] = @ \cup {token}]
    /\ UNCHANGED <<wakeAt, outbox, stopMarks, now,
                   minted, settledBy, owed, retryAt>>

complete_runtime_job(j, token, at) ==
    /\ Fenced(job[j], token, at)
    /\ job' = [job EXCEPT ![j] = [Released(job[j]) EXCEPT !.status = "succeeded"]]
    /\ outbox' = [outbox EXCEPT ![j] = Upserted(@)]
    /\ settledBy' = [settledBy EXCEPT ![j] = token]
    /\ UNCHANGED <<wakeAt, consumed, stopMarks, now, minted, ended, owed, retryAt>>

\* RuntimeJobFailureDisposition::RetryScheduled.
fail_runtime_job_retry(j, token, at, nextRunAt) ==
    /\ Fenced(job[j], token, at)
    /\ job' = [job EXCEPT ![j] = [Released(job[j]) EXCEPT !.status = "queued",
                                                          !.runAt = nextRunAt]]
    /\ ended' = [ended EXCEPT ![j] = @ \cup {token}]
    /\ retryAt' = [retryAt EXCEPT ![j] = nextRunAt]
    /\ UNCHANGED <<wakeAt, consumed, outbox, stopMarks, now,
                   minted, settledBy, owed>>

\* RuntimeJobFailureDisposition::Failed and ::DeadLettered.
fail_runtime_job(j, token, at, status) ==
    /\ Fenced(job[j], token, at)
    /\ job' = [job EXCEPT ![j] = [Released(job[j]) EXCEPT !.status = status,
                                                          !.runAt = at]]
    /\ outbox' = [outbox EXCEPT ![j] = Upserted(@)]
    /\ settledBy' = [settledBy EXCEPT ![j] = token]
    /\ UNCHANGED <<wakeAt, consumed, stopMarks, now, minted, ended, owed, retryAt>>

-----------------------------------------------------------------------------
(* What others do to a job.                                                *)

\* Mutant: a finished job can be cancelled.
Cancellable_finished_too(r, expectedStatus, expectedToken, at) ==
    /\ r.status # "absent"
    /\ expectedStatus \in {"any", r.status}
    /\ expectedToken # 0 => Fenced(r, expectedToken, at)

\* expectedStatus and expectedToken are optional ("any" and 0 when absent): a
\* worker passes its token, a user neither, the shutdown and the restart
\* reconciliation the status they listed.
Cancellable(r, expectedStatus, expectedToken, at) ==
    /\ r.status \notin Terminal \cup {"absent"}
    /\ expectedStatus \in {"any", r.status}
    /\ expectedToken # 0 => Fenced(r, expectedToken, at)

cancel_runtime_job(j, expectedStatus, expectedToken, at) ==
    /\ Cancellable(job[j], expectedStatus, expectedToken, at)
    /\ job' = [job EXCEPT ![j] = [Released(job[j]) EXCEPT !.status = "cancelled"]]
    /\ outbox' = [outbox EXCEPT ![j] = Upserted(@)]
    /\ settledBy' = [settledBy EXCEPT ![j] = expectedToken]
    /\ UNCHANGED <<wakeAt, consumed, stopMarks, now, minted, ended, owed, retryAt>>

\* The same cancellation with the marker of a service stop, in one transaction.
cancel_for_service_shutdown(j, expectedStatus, at) ==
    /\ Cancellable(job[j], expectedStatus, 0, at)
    /\ job' = [job EXCEPT ![j] = [Released(job[j]) EXCEPT !.status = "cancelled"]]
    /\ outbox' = [outbox EXCEPT ![j] = Upserted(@)]
    /\ stopMarks' = stopMarks \cup {j}
    /\ UNCHANGED <<wakeAt, consumed, now, history>>

\* A queued job is pulled forward, never before its crash backoff.
Woken(r, at) ==
    LET due == Larger(at, r.notBefore)
    IN  [r EXCEPT !.runAt =
            IF r.status = "queued" /\ r.runAt > due THEN due ELSE r.runAt]

\* A wake is recorded once per source; the same source with another time is a
\* conflict and changes nothing.
wake_runtime_job(j, source, at) ==
    /\ job[j].status # "absent"
    /\ wakeAt[j][source] \in {0, at}
    /\ wakeAt' = [wakeAt EXCEPT ![j][source] = at]
    /\ job' = [job EXCEPT ![j] = Woken(job[j], at)]
    /\ owed' = [owed EXCEPT ![j] = @ \/ wakeAt[j][source] = 0]
    /\ UNCHANGED <<consumed, outbox, stopMarks, now,
                   minted, ended, settledBy, retryAt>>

Expired(r, at) == r.status \in Active /\ r.expires <= at

Exhausted(r) == r.reclaims + 1 > MaxReclaims

\* RuntimeJobLeaseReclaimPolicy::decide: the delays it may choose for a row.
ReclaimDelays(r) == IF Exhausted(r) THEN {0} ELSE Delays(r.reclaims + 1)

\* Mutant: the reclaim is not counted.
Reclaimed_uncounted(r, at, delay) ==
    [Released(r) EXCEPT
        !.status = IF Exhausted(r) THEN "dead_lettered" ELSE "queued",
        !.runAt = at + delay, !.notBefore = at + delay]

\* Mutant: a status the row parser does not know.
Reclaimed_misspelt(r, at, delay) ==
    [Released(r) EXCEPT
        !.status = IF Exhausted(r) THEN "dead_letter" ELSE "queued",
        !.reclaims = r.reclaims + 1,
        !.runAt = at + delay, !.notBefore = at + delay]

Reclaimed(r, at, delay) ==
    [Released(r) EXCEPT
        !.status = IF Exhausted(r) THEN "dead_lettered" ELSE "queued",
        !.reclaims = r.reclaims + 1,
        !.runAt = at + delay, !.notBefore = at + delay]

reclaim_expired_runtime_job_leases(at) ==
    LET expired == {j \in Jobs : Expired(job[j], at)}
    IN  \E S \in SUBSET expired :
            /\ S # {}
            /\ Selected(S, expired, [j \in Jobs |-> job[j].expires], ReclaimBatch)
            /\ \E delay \in [S -> UNION {ReclaimDelays(job[j]) : j \in S}] :
                 /\ \A j \in S : delay[j] \in ReclaimDelays(job[j])
                 /\ job' = [j \in Jobs |-> IF j \in S
                                           THEN Reclaimed(job[j], at, delay[j])
                                           ELSE job[j]]
            /\ outbox' = [j \in Jobs |-> IF j \in S /\ Exhausted(job[j])
                                         THEN Upserted(outbox[j]) ELSE outbox[j]]
            /\ ended' = [j \in Jobs |-> IF j \in S
                                        THEN ended[j] \cup {job[j].owner}
                                        ELSE ended[j]]
            /\ UNCHANGED <<wakeAt, consumed, stopMarks, now,
                           minted, settledBy, owed, retryAt>>

\* Acknowledge a delivery.  generation is one the deliverer has listed; a
\* stale or repeated acknowledgement changes nothing.
mark_runtime_job_outbox_published(j, generation) ==
    /\ outbox[j].state = "pending"
    /\ outbox[j].generation = generation
    /\ outbox' = [outbox EXCEPT ![j].state = "published"]
    /\ UNCHANGED <<job, wakeAt, consumed, stopMarks, now, history>>

Tick ==
    /\ now < MaxTime
    /\ now' = now + 1
    /\ UNCHANGED <<store, history>>

-----------------------------------------------------------------------------
Worker(j, token, at) ==
    \/ start_runtime_job(j, token, at)
    \/ renew_runtime_job_lease(j, token, at)
    \/ \E runAt \in Time : yield_runtime_job(j, token, at, runAt)
    \/ complete_runtime_job(j, token, at)
    \/ \E next \in Time : fail_runtime_job_retry(j, token, at, next)
    \/ \E status \in {"failed", "dead_lettered"} :
            fail_runtime_job(j, token, at, status)
    \/ cancel_runtime_job(j, "any", token, at)

Others(j, at) ==
    \/ \E status \in {"any", "queued"} \cup Active :
            \/ cancel_runtime_job(j, status, 0, at)
            \/ cancel_for_service_shutdown(j, status, at)
    \/ \E source \in Sources : wake_runtime_job(j, source, at)

Next ==
    \/ \E j \in Jobs, runAt \in Time : schedule_runtime_job(j, runAt)
    \/ \E at \in Reading, wanted \in SUBSET Jobs, limit \in 1..ClaimLimit :
            claim_due_runtime_jobs(at, wanted, limit)
    \/ \E j \in Jobs, at \in Reading : \E token \in 1..minted[j] :
            Worker(j, token, at)
    \/ \E j \in Jobs, at \in Reading : Others(j, at)
    \/ \E at \in Reading : reclaim_expired_runtime_job_leases(at)
    \/ \E j \in Jobs : \E generation \in 0..outbox[j].generation :
            mark_runtime_job_outbox_published(j, generation)
    \/ Tick

Spec == Init /\ [][Next]_vars

\* The maintenance loop calls reclaim again and again while the host is up.
FairSpec == Spec /\ WF_vars(reclaim_expired_runtime_job_leases(now))

\* A host on which every worker dies with its first claim: nobody reports.
\* The loops poll far more often than leases and backoffs run out, so the
\* clock does not pass over work they could do; time in which no job waits
\* for anything is skipped.
CrashNext ==
    \/ \E j \in Jobs, runAt \in now..(now + LeaseMs) :
            schedule_runtime_job(j, runAt)
    \/ \E limit \in 1..ClaimLimit : claim_due_runtime_jobs(now, Jobs, limit)
    \/ \E j \in Jobs : start_runtime_job(j, minted[j], now)
    \/ reclaim_expired_runtime_job_leases(now)
    \/ /\ \A j \in Jobs : ~Due(job[j], now) /\ ~Expired(job[j], now)
       /\ \E j \in Jobs : job[j].status \in Active \cup {"queued"}
       /\ Tick

CrashFairness == WF_vars(CrashNext)

CrashSpec == Init /\ [][CrashNext]_vars /\ CrashFairness

-----------------------------------------------------------------------------
(* Properties.                                                             *)

OutboxRow == [state : {"none", "pending", "published"}, generation : Nat]

\* The columns of the tables and the history have their types.
TypeOK ==
    /\ job \in [Jobs -> Row]
    /\ wakeAt \in [Jobs -> [Sources -> Nat]]
    /\ consumed \in [Jobs -> SUBSET Sources]
    /\ outbox \in [Jobs -> OutboxRow]
    /\ stopMarks \subseteq Jobs
    /\ now \in Time
    /\ minted \in [Jobs -> Nat]
    /\ ended \in [Jobs -> SUBSET Nat]
    /\ settledBy \in [Jobs -> Nat]
    /\ owed \in [Jobs -> BOOLEAN]
    /\ retryAt \in [Jobs -> Nat]

\* A row carries a lease exactly while it is leased or running, and the lease
\* belongs to the newest claim: no path out of an active status (yield, retry,
\* reclaim, completion, failure, cancellation) leaves a token behind.
LeaseOfLatestClaim ==
    \A j \in Jobs : /\ job[j].status \in Active => job[j].owner = minted[j]
                    /\ job[j].owner # 0 <=> job[j].status \in Active

\* A worker whose lease ended by yield, retry or reclaim never again holds the
\* job and never decides its outcome, however late its calls arrive: a claim
\* mints a fresh token and every worker write compares it.
LateOwnerFenced ==
    \A j \in Jobs : job[j].owner \notin ended[j] /\ settledBy[j] \notin ended[j]

\* The window a worker derives its heartbeat interval from is never empty:
\* run_claimed_subagent_job_async gives up on lease_expires <= heartbeat.
LeaseWindowOpen ==
    \A j \in Jobs : job[j].status \in Active => job[j].heartbeat < job[j].expires

\* The outbox holds a row exactly for the terminal jobs, and always of
\* generation 0: a job becomes terminal once, in the transaction that queues
\* its delivery, so the delivery is neither missed nor renewed.
OneTerminalDelivery ==
    \A j \in Jobs : /\ outbox[j].state # "none" <=> job[j].status \in Terminal
                    /\ outbox[j].generation = 0

\* A job is reclaimed at most MaxReclaims + 1 times, and the last time retires
\* it: the allowance survives new leases, wakes, retries and yields.
CrashBudget ==
    \A j \in Jobs : /\ job[j].reclaims <= MaxReclaims + 1
                    /\ job[j].reclaims > MaxReclaims
                           => job[j].status = "dead_lettered"

\* While a crash backoff runs the row is not scheduled before its end: wakes
\* pull a queued job forward, but never through lease_reclaim_not_before_ms.
CrashBackoffKept ==
    \A j \in Jobs : job[j].status = "queued" /\ now < job[j].notBefore
                        => job[j].runAt >= job[j].notBefore

\* No wake-up is lost.  A queued job that was woken since its last claim is
\* due, or waits only for a crash backoff or a retry it reported itself: a
\* wake that met the job active is honoured by the yield that follows.
WokenJobIsDue ==
    \A j \in Jobs : job[j].status = "queued" /\ owed[j]
        => job[j].runAt <= Larger(now, Larger(job[j].notBefore, retryAt[j]))

\* A wake that met the job active stays pending until the job gives its lease
\* back, whatever other wakes were recorded or consumed before.
WakeRemembered ==
    \A j \in Jobs : job[j].status \in Active /\ owed[j] => PendingWakes(j) # {}

\* The marker of a service stop is only found on cancelled jobs: marker and
\* cancellation commit together, and a job that finished first has none.
StopMarkMeansCancelled ==
    \A j \in stopMarks : job[j].status = "cancelled" /\ settledBy[j] = 0

\* Once a job is terminal its row never changes again and its delivery only
\* goes from pending to published, whatever late workers, wakes, cancels and
\* reclaims do.
SettledForever ==
    [][\A j \in Jobs : job[j].status \in Terminal =>
          /\ job'[j] = job[j]
          /\ outbox'[j].generation = outbox[j].generation
          /\ outbox'[j].state \in {outbox[j].state, "published"}]_vars

\* As long as a lease has not run out on the host clock nobody takes it away:
\* it ends by its holder's report or by a cancellation, never by a reclaim or
\* a second claim.
LiveLeaseKept ==
    [][\A j \in Jobs : job[j].status \in Active /\ job[j].expires > now =>
          /\ job'[j].reclaims = job[j].reclaims
          /\ job'[j].owner \in {job[j].owner, 0}]_vars

\* The store implements the status table every client relies on.
Lifecycle ==
    INSTANCE JobLifecycle WITH status <- [j \in Jobs |-> job[j].status]

\* Every status change is one can_transition_to allows.
ImplementsLifecycle == Lifecycle!Spec

\* A lease that has run out is eventually renewed in time by its holder or
\* taken from it, though a reclaim call handles a bounded batch only.
ExpiredLeaseRecovered ==
    \A j \in Jobs : \A token \in 1..MaxClaims :
        (job[j].owner = token /\ job[j].expires <= now)
            ~> (job[j].owner # token \/ job[j].expires > now)

\* A job that kills every worker is retired as dead-lettered instead of being
\* recovered forever, and its delivery is queued (used with CrashSpec).
PoisonJobRetired ==
    \A j \in Jobs : (job[j].status # "absent")
        ~> (job[j].status = "dead_lettered" /\ outbox[j].state = "pending")

\* The fencing of leases: a row's lease is that of the newest claim, what an
\* overtaken worker reports changes nothing, and an expired lease is no lease
\* (claim token and lease_expires_at_ms in every worker's transaction).
LeaseFencing == LeaseOfLatestClaim /\ LateOwnerFenced /\ LeaseWindowOpen

\* A finished job has one terminal event to deliver, and a service stop marks
\* only jobs that it cancelled (runtime_job_outbox, stop events).
TerminalDeliveries == OneTerminalDelivery /\ StopMarkMeansCancelled

\* A wake-up is neither lost, whatever the job was doing when it came, nor does
\* it cut short the backoff of a job whose workers crash (request and consumption
\* of wake events).
WakesKept == WokenJobIsDue /\ WakeRemembered /\ CrashBackoffKept

\* Expired leases are taken back, one row a call, until a job that kills every
\* worker is retired with its delivery queued (used with CrashSpec).
JobsRecovered == ExpiredLeaseRecovered /\ PoisonJobRetired
=============================================================================
