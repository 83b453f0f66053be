----------------------------- MODULE CapacityWait -----------------------------
(***************************************************************************)
(* How a hosted run waits for room on its host                             *)
(* (runtime_server/src/postgres_store/capacity_wait.rs, residency.rs and   *)
(* residency/preparation_wait.rs, the claims of execution_capacity.rs).    *)
(* A preparation that finds no room, or finds the host's lock taken,       *)
(* yields its job until a timer; a generation clock makes it due earlier.  *)
(*                                                                         *)
(* A waiter only compares the generation it observed with the clock's, so  *)
(* the model keeps, for each waiter, whether the clock has advanced since. *)
(* Notifications are hints to look at the clock and are not modelled.      *)
(***************************************************************************)
EXTENDS Integers, FiniteSets

CONSTANTS
    Jobs,         \* lifecycle jobs, numbers in order of creation
    Maintenance,  \* retirement requests
    Env,          \* job or request -> environment, named by its job
    Limit,        \* resident sandboxes the host admits
    Timers,       \* TRUE: a queued job's run_at may pass
    MaxFaults     \* bound: connections lost, job rows found locked

Procs == Jobs \cup Maintenance
None == 0

ASSUME CapacityBounds ==
    /\ Jobs \subseteq Nat \ {0} /\ Limit \in Nat \ {0} /\ Timers \in BOOLEAN /\ MaxFaults \in Nat
    /\ Env \in [Procs -> Jobs] /\ \A j \in Jobs : Env[j] = j

VARIABLES
    pc,         \* process -> its position; "queued" and "leased" steps of a job
    due,        \* jobs whose run_at has passed
    marked,     \* job -> "no", or last_error is HOST_PREPARATION_WAIT: "now" with
                \* the event of the waiter's owner, "before" with an earlier one's
    waiter,     \* job -> its resident_capacity_waiters row: "none", "current" if it
                \* observed the clock's generation, "passed" if the clock went on
    taken,      \* host_preparation_claim exists for the clock's generation
    held,       \* jobs with a row in resident_sandboxes
    envGate, hostGate,  \* holders of the advisory locks
    global,     \* processes whose environment lock has acquired_global
    outcome,    \* process -> what the call in progress returns
    unhinted,   \* history: jobs refused an environment whose row was locked
    faults

clock == <<waiter, taken>>
gates == <<envGate, hostGate, global>>
seen == <<unhinted, faults>>
vars == <<pc, due, marked, waiter, taken, held, gates, outcome, seen>>

Init ==
    /\ pc = [p \in Procs |-> IF p \in Jobs THEN "queued" ELSE "idle"]
    /\ due = Jobs /\ marked = [j \in Jobs |-> "no"]
    /\ waiter = [j \in Jobs |-> "none"] /\ taken = FALSE
    /\ held = {} /\ envGate = [j \in Jobs |-> None] /\ hostGate = None /\ global = {}
    /\ outcome = [p \in Procs |-> "wait"] /\ unhinted = {} /\ faults = 0

At(p, at) == pc[p] = at
Go(p, at) == pc' = [pc EXCEPT ![p] = at]

\* The clock advances: every registered waiter is behind it, and the new
\* generation has no claim yet.
Advanced(w) == [j \in Jobs |-> IF w[j] = "none" THEN "none" ELSE "passed"]
Advance == waiter' = Advanced(waiter) /\ taken' = FALSE

-----------------------------------------------------------------------------
(* Claims. *)

\* preparation_candidate: of the contended preparations the clock has passed,
\* the oldest, once per generation.
Contenders == {j \in Jobs : At(j, "queued") /\ marked[j] # "no" /\ waiter[j] = "passed"}
Candidate(j) == ~taken /\ j \in Contenders /\ \A k \in Contenders : j <= k

\* DUE_AT
Due(j) ==
    \/ j \in due
    \/ IF marked[j] # "no" THEN Candidate(j) ELSE waiter[j] = "passed"

\* claim_worker_jobs and the trigger that consumes the waiter.
claim(j) ==
    /\ At(j, "queued") /\ Due(j) /\ Go(j, "register")
    /\ taken' = (taken \/ (j \notin due /\ marked[j] # "no"))
    /\ waiter' = [waiter EXCEPT ![j] = "none"]
    /\ marked' = [marked EXCEPT ![j] = IF @ = "no" THEN "no" ELSE "before"]
    /\ unhinted' = unhinted \ {j}
    /\ UNCHANGED <<due, held, gates, outcome, faults>>

timer(j) ==
    /\ Timers /\ At(j, "queued") /\ j \notin due /\ due' = due \cup {j}
    /\ UNCHANGED <<pc, marked, clock, held, gates, outcome, seen>>

-----------------------------------------------------------------------------
(* A preparation, up to its reservation. *)

\* The generation is observed before anything is looked at.
register(j) ==
    /\ At(j, "register") /\ Go(j, "env")
    /\ waiter' = [waiter EXCEPT ![j] = "current"]
    /\ outcome' = [outcome EXCEPT ![j] = "wait"]
    /\ UNCHANGED <<due, marked, taken, held, gates, seen>>

TakeEnv(p) == envGate[Env[p]] = None /\ envGate' = [envGate EXCEPT ![Env[p]] = p]

\* lock_environment_for_run: refused, it records that it waits and tries once
\* more before it gives up.
lock_environment_for_run(j) ==
    /\ \/ At(j, "env") /\ TakeEnv(j) /\ Go(j, "host") /\ UNCHANGED marked
       \/ At(j, "env") /\ envGate[j] # None /\ Go(j, "env_wait") /\ UNCHANGED <<envGate, marked>>
       \/ /\ At(j, "env_wait") /\ Go(j, "env_retry")
          /\ marked' = [marked EXCEPT ![j] = "now"] /\ UNCHANGED envGate
       \/ At(j, "env_retry") /\ TakeEnv(j) /\ Go(j, "host") /\ UNCHANGED marked
       \/ At(j, "env_retry") /\ envGate[j] # None /\ Go(j, "yield") /\ UNCHANGED <<envGate, marked>>
    /\ UNCHANGED <<due, clock, held, hostGate, global, outcome, seen>>

\* register_environment does not wait for the row of the job: when another
\* transaction has it, nothing is recorded and the second try follows.
register_environment_locked(j) ==
    /\ At(j, "env_wait") /\ Go(j, "env_retry")
    /\ faults < MaxFaults /\ faults' = faults + 1
    /\ unhinted' = unhinted \cup {j}
    /\ UNCHANGED <<due, marked, clock, held, gates, outcome>>

\* The lock is taken and with it the mark goes.
TakeHost(j) ==
    /\ hostGate = None /\ hostGate' = j /\ global' = global \cup {j}
    /\ marked' = [marked EXCEPT ![j] = "no"] /\ Go(j, "reserve")

\* lock_host_for_run: refused, it records that it waits and tries once more;
\* the previous owner may have gone before the record was there to see.
lock_host_for_run(j) ==
    /\ \/ At(j, "host") /\ TakeHost(j)
       \/ At(j, "host") /\ hostGate # None /\ Go(j, "host_wait") /\ UNCHANGED <<hostGate, global, marked>>
       \/ /\ At(j, "host_wait") /\ Go(j, "host_retry")
          /\ marked' = [marked EXCEPT ![j] = "now"] /\ UNCHANGED <<hostGate, global>>
       \/ At(j, "host_retry") /\ TakeHost(j)
       \/ At(j, "host_retry") /\ hostGate # None /\ Go(j, "drop_env") /\ UNCHANGED <<hostGate, global, marked>>
    /\ UNCHANGED <<due, clock, held, envGate, outcome, seen>>

\* Admission and reservation, in one transaction under the host's lock.
reserve(j) ==
    /\ At(j, "reserve") /\ Go(j, "drop_host")
    /\ \/ Cardinality(held) < Limit /\ held' = held \cup {j} /\ outcome' = [outcome EXCEPT ![j] = "ready"]
       \/ Cardinality(held) >= Limit /\ UNCHANGED <<held, outcome>>
    /\ UNCHANGED <<due, marked, clock, gates, seen>>

-----------------------------------------------------------------------------
(* The locks are dropped, each followed by its signal. *)

\* Mutant: a contender whose job is not queued again yet does not count.
Waiting_queued == \E j \in Jobs : marked[j] = "now" /\ waiter[j] # "none" /\ At(j, "queued")

\* preparation_wait::signal: someone waits, in the queue or in an attempt.
Waiting == \E j \in Jobs : marked[j] = "now" /\ waiter[j] # "none"
Signal == IF Waiting THEN Advance ELSE UNCHANGED clock

drop_host(p) ==
    /\ At(p, "drop_host") /\ hostGate' = None /\ Go(p, "signal_host")
    /\ UNCHANGED <<due, marked, clock, held, envGate, global, outcome, seen>>

signal_host(p) ==
    /\ At(p, "signal_host") /\ Signal
    /\ Go(p, IF outcome[p] = "ready" THEN "create" ELSE "drop_env")
    /\ UNCHANGED <<due, marked, held, gates, outcome, seen>>

\* The container: confirmed, which advances the clock; or given up before it
\* was asked for, which deletes the holding and advances the clock with it.
create(j) ==
    /\ At(j, "create") /\ Go(j, "drop_env") /\ Advance
    /\ \/ UNCHANGED <<held, outcome>>
       \/ held' = held \ {j} /\ outcome' = [outcome EXCEPT ![j] = "over"]
    /\ UNCHANGED <<due, marked, gates, seen>>

Returned(p) == CASE p \in Maintenance -> "idle"
                 [] outcome[p] = "wait" -> "yield"
                 [] outcome[p] = "ready" -> "run"
                 [] OTHER -> "over"

\* A call that is not left waiting has no waiter.
Cleared(p) == waiter' = IF p \in Jobs /\ outcome[p] # "wait" THEN [waiter EXCEPT ![p] = "none"] ELSE waiter

\* The environment's lock signals only for a holder of the host's lock.
drop_env(p) ==
    /\ At(p, "drop_env") /\ envGate' = [envGate EXCEPT ![Env[p]] = None]
    /\ IF p \in global THEN Go(p, "signal_env") /\ UNCHANGED waiter ELSE Go(p, Returned(p)) /\ Cleared(p)
    /\ UNCHANGED <<due, marked, taken, held, hostGate, global, outcome, seen>>

signal_env(p) ==
    /\ At(p, "signal_env") /\ Go(p, Returned(p)) /\ global' = global \ {p}
    /\ LET signalled == IF Waiting THEN Advanced(waiter) ELSE waiter IN
       waiter' = IF p \in Jobs /\ outcome[p] # "wait" THEN [signalled EXCEPT ![p] = "none"] ELSE signalled
    /\ taken' = (taken /\ ~Waiting)
    /\ UNCHANGED <<due, marked, held, envGate, hostGate, outcome, seen>>

\* Mutant: the generation is observed once more when the job is queued.
yield_runtime_job_late(j) ==
    /\ At(j, "yield") /\ Go(j, "queued") /\ due' = due \ {j}
    /\ waiter' = [waiter EXCEPT ![j] = "current"]
    /\ UNCHANGED <<marked, taken, held, gates, outcome, seen>>

\* The job is queued with a later run_at; the waiter stays.
yield_runtime_job(j) ==
    /\ At(j, "yield") /\ Go(j, "queued") /\ due' = due \ {j}
    /\ UNCHANGED <<marked, clock, held, gates, outcome, seen>>

-----------------------------------------------------------------------------
(* The end of a run, and maintenance. *)

\* The run is over and is cleaned up, or an environment is to be retired: the
\* environment's lock is tried, and tried again later when it is taken.
lock_environment(p) ==
    /\ At(p, IF p \in Jobs THEN "run" ELSE "idle") /\ TakeEnv(p)
    /\ Go(p, IF p \in Jobs THEN "wait_host" ELSE "try_host")
    /\ outcome' = [outcome EXCEPT ![p] = "over"]
    /\ UNCHANGED <<due, marked, clock, held, hostGate, global, seen>>

\* Cleanup takes its turn behind the host lock's owner.
wait_for_host_inventory(j) ==
    /\ At(j, "wait_host") /\ hostGate = None /\ hostGate' = j /\ global' = global \cup {j}
    /\ Go(j, "refund")
    /\ UNCHANGED <<due, marked, clock, held, envGate, outcome, seen>>

\* The holding is deleted; its trigger advances the clock in the transaction.
refund(j) ==
    /\ At(j, "refund") /\ Go(j, "drop_host") /\ held' = held \ {j} /\ Advance
    /\ UNCHANGED <<due, marked, gates, outcome, seen>>

\* Retirement gives up when the host's lock is taken; here its physical
\* outcome stays unknown and refunds nothing.
lock_host(m) ==
    /\ At(m, "try_host")
    /\ \/ hostGate = None /\ hostGate' = m /\ global' = global \cup {m} /\ Go(m, "drop_host")
       \/ hostGate # None /\ Go(m, "drop_env") /\ UNCHANGED <<hostGate, global>>
    /\ UNCHANGED <<due, marked, clock, held, envGate, outcome, seen>>

\* A connection ends with its locks and without its signals.  The lease of a
\* job expires, and the job is reclaimed: it is due again after a delay, its
\* waiter stays.  A reservation stays until its run is cleaned.
disconnect(p) ==
    /\ faults < MaxFaults /\ faults' = faults + 1
    /\ pc[p] \notin {"queued", "run", "over", "idle"}
    /\ envGate' = [e \in Jobs |-> IF envGate[e] = p THEN None ELSE envGate[e]]
    /\ hostGate' = IF hostGate = p THEN None ELSE hostGate
    /\ global' = global \ {p}
    /\ CASE p \in Maintenance -> Go(p, "idle") /\ UNCHANGED <<due, marked>>
         [] p \in held /\ p \in Jobs -> Go(p, "run") /\ UNCHANGED <<due, marked>>
         [] p \notin held /\ p \in Jobs /\ outcome[p] = "over" -> Go(p, "over") /\ UNCHANGED <<due, marked>>
         [] OTHER -> /\ Go(p, "queued") /\ due' = due \cup {p}
                     /\ marked' = [marked EXCEPT ![p] = "no"]
    /\ UNCHANGED <<clock, held, outcome, unhinted>>

Step(j) ==
    \/ claim(j) \/ register(j) \/ lock_environment_for_run(j) \/ lock_host_for_run(j) \/ reserve(j)
    \/ create(j) \/ yield_runtime_job(j) \/ wait_for_host_inventory(j) \/ refund(j)

Release(p) == drop_host(p) \/ signal_host(p) \/ drop_env(p) \/ signal_env(p)

Next ==
    \/ \E j \in Jobs : Step(j) \/ register_environment_locked(j) \/ timer(j)
    \/ \E p \in Procs : Release(p) \/ lock_environment(p) \/ disconnect(p)
    \/ \E m \in Maintenance : lock_host(m)

Spec == Init /\ [][Next]_vars

\* The workers claim what is due and every call runs to its end.
Fairness == \A j \in Jobs : WF_vars(Step(j)) /\ WF_vars(Release(j)) /\ WF_vars(lock_environment(j))

-----------------------------------------------------------------------------
\* Jobs, waiters and locks have their types; a gate is held by a process of its
\* environment.
TypeOK ==
    /\ \A j \in Jobs : /\ pc[j] \in {"queued", "register", "env", "env_wait", "env_retry", "host",
                               "host_wait", "host_retry", "reserve", "drop_host", "signal_host", "create",
                               "drop_env", "signal_env", "yield", "run", "wait_host", "refund", "over"}
                       /\ envGate[j] \in {None} \cup {p \in Procs : Env[p] = j}
    /\ \A m \in Maintenance : pc[m] \in {"idle", "try_host", "drop_host", "signal_host", "drop_env", "signal_env"}
    /\ due \subseteq Jobs /\ held \subseteq Jobs /\ global \subseteq Procs
    /\ marked \in [Jobs -> {"no", "now", "before"}]
    /\ waiter \in [Jobs -> {"none", "current", "passed"}] /\ taken \in BOOLEAN
    /\ hostGate \in Procs \cup {None} /\ faults \in 0..MaxFaults
    /\ outcome \in [Procs -> {"wait", "ready", "over"}] /\ unhinted \subseteq Jobs
    /\ Cardinality(held) <= Limit

\* No release is missed: a job that was queued because the host was full, and
\* is not due, still faces a full host.  (One refused an environment while its
\* row was locked is not told apart in the store; it waits for its timer, "the
\* normal timed retry".)  The generation is observed before the
\* room is looked at, and a deletion advances it in its own transaction, so
\* this holds through lost connections and without notifications.
ReleaseIsSeen == \A j \in Jobs :
    At(j, "queued") /\ marked[j] = "no" /\ j \notin due \cup unhinted /\ waiter[j] # "passed"
        => Cardinality(held) >= Limit

\* No contended preparation is forgotten: with no call in progress, a job that
\* was queued because a lock was taken is due, or another is that will signal
\* in its turn.  The record of the wait precedes the second try, and every
\* holder of the host's lock signals after it dropped the lock.
ContenderIsWoken ==
    (\A p \in Procs : pc[p] \in {"queued", "run", "over", "idle"})
        => \A j \in Jobs : At(j, "queued") /\ marked[j] # "no"
                           => \E k \in Jobs : At(k, "queued") /\ Due(k)

\* Every job gets its environment without the help of a timer.
EveryJobPrepared == \A j \in Jobs : At(j, "queued") ~> (At(j, "run") \/ At(j, "over"))
=============================================================================
