----------------------------- MODULE WorkerLease -----------------------------
(***************************************************************************)
(* A hosted worker and the lease of the job it holds                       *)
(* (worker/worker.py, runtime_server/src/postgres_store/lease_renewal.rs). *)
(*                                                                         *)
(* One thread of the worker does the job's steps, another renews the lease *)
(* over HTTP.  The worker counts on the lease until a deadline of its own, *)
(* the start of the last confirmed request plus the lease's length less a  *)
(* margin.  A request may be answered, refused, delayed past its timeout   *)
(* and carried out later, or lost.                                         *)
(*                                                                         *)
(* Time is one clock that may advance between any two steps; the margin    *)
(* stands for the drift between the worker's and the database's.           *)
(***************************************************************************)
EXTENDS Integers

CONSTANTS
    Lease,      \* LEASE_MS, in ticks
    Margin,     \* what the worker takes off its deadline
    MaxClaims,  \* bound: claims of the job; a claim mints a new lease owner
    MaxBeats,   \* bound: renewals an owner sends
    MaxYields,  \* the attempts of yield_job
    MaxTime     \* bound: the clock

Owners == 1..MaxClaims

ASSUME LeaseBounds ==
    /\ Lease \in Nat /\ Margin \in 0..(Lease - 1)
    /\ MaxClaims \in Nat /\ MaxBeats \in Nat /\ MaxYields \in Nat \ {0} /\ MaxTime \in Nat

VARIABLES
    now,
    job,      \* the row: status, lease owner (0: none) and expiry
    claims,
    yielded,  \* owners with a runtime_job_yielded event
    pc,       \* owner -> where the thread that does the job is
    guard,    \* owner -> the state lease_heartbeats keeps
    net,      \* requests the runtime has not carried out yet
    acks      \* answers on their way

vars == <<now, job, claims, yielded, pc, guard, net, acks>>

NoJob(status) == [status |-> status, owner |-> 0, expires |-> 0]
NoGuard == [status |-> "unconfirmed", deadline |-> 0, stopped |-> FALSE, thread |-> "none",
            renewing |-> FALSE, started |-> 0, beats |-> 0, yields |-> 0, at |-> 0]

Init ==
    /\ now = 0 /\ job = NoJob("queued") /\ claims = 0 /\ yielded = {}
    /\ pc = [o \in Owners |-> "idle"]
    /\ guard = [o \in Owners |-> NoGuard]
    /\ net = {} /\ acks = {}

At(o, l) == pc[o] = l
Go(o, l) == pc' = [pc EXCEPT ![o] = l]
Set(o, g) == guard' = [guard EXCEPT ![o] = g]
lose(o) == Set(o, [guard[o] EXCEPT !.status = "lost"])
Holds(o) == job.owner = o /\ job.expires > now
Request(kind, o, n) == [kind |-> kind, owner |-> o, n |-> n]
Answer(q, ok) == [kind |-> q.kind, owner |-> q.owner, n |-> q.n, ok |-> ok]
\* Nobody is left to read the answer to a request that was given up.
Awaited(q) ==
    \/ q.kind = "beat" /\ guard[q.owner].renewing /\ guard[q.owner].beats = q.n
    \/ q.kind = "yield" /\ At(q.owner, "await_yield") /\ guard[q.owner].yields = q.n
answer(q, ok) == acks' = IF Awaited(q) THEN acks \cup {Answer(q, ok)} ELSE acks
GivenUp(q) == acks' = acks \ {Answer(q, TRUE), Answer(q, FALSE)}
\* The row without its lease.
Released(status) == job' = NoJob(status)
server == <<job, claims, yielded>>
channel == <<net, acks>>

-----------------------------------------------------------------------------
(* The job's row in the runtime. *)

tick ==
    /\ now < MaxTime /\ now' = now + 1
    /\ UNCHANGED <<server, pc, guard, channel>>

claim_due_runtime_jobs ==
    /\ job.status = "queued" /\ claims < MaxClaims /\ now + Lease <= MaxTime
    /\ claims' = claims + 1
    /\ job' = [status |-> "leased", owner |-> claims', expires |-> now + Lease]
    /\ Go(claims', "start")
    /\ UNCHANGED <<now, yielded, guard, channel>>

\* The job is queued again, or dead-lettered after too many reclaims; "failed"
\* stands for both ways a job ends without success.
reclaim_expired_runtime_job_leases ==
    /\ job.owner # 0 /\ job.expires <= now
    /\ \E s \in {"queued", "failed"} : Released(s)
    /\ UNCHANGED <<now, claims, yielded, pc, guard, channel>>

cancel_runtime_job ==
    /\ job.status \in {"queued", "leased", "running"}
    /\ Released("cancelled")
    /\ UNCHANGED <<now, claims, yielded, pc, guard, channel>>

\* Under the row's lock, against the database's clock.
renew_worker_job_lease(q) ==
    /\ q.kind = "beat"
    /\ answer(q, Holds(q.owner))
    /\ job' = IF Holds(q.owner) THEN [job EXCEPT !.expires = now + Lease] ELSE job
    /\ UNCHANGED <<claims, yielded>>

\* A yield gives the lease back, if it had not run out when the worker
\* wrote the request.  The exact request is confirmed again while the job
\* is queued.
yield_runtime_job(q) ==
    LET fits == job.owner = q.owner /\ job.expires > guard[q.owner].at
        replay == job.status = "queued" /\ q.owner \in yielded IN
    /\ q.kind = "yield"
    /\ answer(q, fits \/ replay)
    /\ yielded' = IF fits THEN yielded \cup {q.owner} ELSE yielded
    /\ IF fits THEN Released("queued") ELSE UNCHANGED job
    /\ UNCHANGED claims

complete_runtime_job(q) ==
    LET fits == job.owner = q.owner /\ job.expires > guard[q.owner].at IN
    /\ q.kind = "complete"
    /\ UNCHANGED acks
    /\ IF fits THEN Released("succeeded") ELSE UNCHANGED job
    /\ UNCHANGED <<claims, yielded>>

\* Against the time in the request as well (failed_at_ms, the request's n).
fail_runtime_job(q) ==
    LET fits == job.owner = q.owner /\ job.expires > q.n IN
    /\ q.kind = "fail"
    /\ UNCHANGED acks
    /\ IF fits THEN \E s \in {"queued", "failed"} : Released(s) ELSE UNCHANGED job
    /\ UNCHANGED <<claims, yielded>>

serve(q) ==
    /\ net' = net \ {q}
    /\ \/ renew_worker_job_lease(q) \/ yield_runtime_job(q)
       \/ complete_runtime_job(q) \/ fail_runtime_job(q)
    /\ UNCHANGED <<now, pc, guard>>

-----------------------------------------------------------------------------
(* The renewal: attempt() of lease_heartbeats, by the job's thread the first *)
(* time and by the renewal thread after it.                                  *)

Healthy(o) == guard[o].status = "healthy" /\ now < guard[o].deadline
Gone(o) == guard[o].status \in {"lost", "graceful_stop"} \/ now >= guard[o].deadline
Initial(o) == At(o, "initial")
Beat(o) == Request("beat", o, guard[o].beats)

\* A start the runtime refuses or does not confirm is reported as a failure;
\* a cancelled job is left alone.
start_job(o) ==
    /\ At(o, "start")
    /\ \/ /\ Holds(o) /\ job' = [job EXCEPT !.status = "running"]
          /\ \E l \in {"initial", "failing"} : Go(o, l)
       \/ ~Holds(o) /\ Go(o, IF job.status = "cancelled" THEN "done" ELSE "failing") /\ UNCHANGED job
       \/ Go(o, "failing") /\ UNCHANGED job
    /\ UNCHANGED <<now, claims, yielded, guard, channel>>

\* The bound: a request starts while its window can still pass.
attempt(o) ==
    /\ Initial(o) \/ guard[o].thread = "wait"
    /\ ~guard[o].renewing /\ guard[o].beats < MaxBeats /\ now + Lease <= MaxTime
    /\ ~guard[o].stopped /\ guard[o].status # "lost" /\ (Initial(o) \/ now < guard[o].deadline)
    /\ Set(o, [guard[o] EXCEPT !.renewing = TRUE, !.started = now, !.beats = @ + 1])
    /\ net' = net \cup {Request("beat", o, guard[o].beats + 1)}
    /\ UNCHANGED <<now, server, pc, acks>>

\* The renewal thread ends when it is told to or has nothing left to renew.
attempt_ends(o) ==
    /\ guard[o].thread = "wait" /\ ~guard[o].renewing
    /\ \/ guard[o].stopped \/ guard[o].status = "lost"
       \/ now >= guard[o].deadline
    /\ Set(o, [guard[o] EXCEPT !.thread = "ended",
                               !.status = IF guard[o].stopped THEN @ ELSE "lost"])
    /\ UNCHANGED <<now, server, pc, channel>>

\* What a state change leaves to the thread that made the attempt.
Settled(o, status, deadline) ==
    /\ Set(o, [guard[o] EXCEPT !.renewing = FALSE, !.started = 0, !.status = status, !.deadline = deadline,
                               !.thread = IF status = "lost" /\ ~Initial(o) THEN "ended"
                                          ELSE IF Initial(o) /\ status = "healthy" THEN "wait"
                                          ELSE @])
    /\ IF Initial(o)
       THEN Go(o, CASE status = "healthy" -> "work" [] status = "lost" -> "done" [] OTHER -> "failing")
       ELSE UNCHANGED pc
    /\ UNCHANGED <<now, server, net>>

\* Mutant: the window is counted from the answer's arrival.
attempt_confirmed_late(o) ==
    LET g == guard[o] IN
    /\ g.renewing /\ Answer(Beat(o), TRUE) \in acks
    /\ GivenUp(Beat(o))
    /\ IF g.status = "lost" \/ (~Initial(o) /\ now >= g.deadline)
       THEN Settled(o, "lost", g.deadline)
       ELSE Settled(o, "healthy", now + Lease - Margin)

\* Mutant: an answer counts whatever became of the guard meanwhile.
attempt_confirmed_revives(o) ==
    LET g == guard[o] IN
    /\ g.renewing /\ Answer(Beat(o), TRUE) \in acks
    /\ GivenUp(Beat(o))
    /\ IF now >= g.started + Lease - Margin
       THEN Settled(o, "lost", g.deadline)
       ELSE Settled(o, "healthy", g.started + Lease - Margin)

\* Confirmed: the window is counted from the request's start, and an answer
\* that comes after the previous window does not open a new one.
attempt_confirmed(o) ==
    LET g == guard[o] IN
    /\ g.renewing /\ Answer(Beat(o), TRUE) \in acks
    /\ GivenUp(Beat(o))
    /\ IF g.status = "lost" \/ (~Initial(o) /\ now >= g.deadline) \/ now >= g.started + Lease - Margin
       THEN Settled(o, "lost", g.deadline)
       ELSE Settled(o, "healthy", g.started + Lease - Margin)

\* Refused, a 409: the lease is another's.
attempt_rejected(o) ==
    /\ guard[o].renewing /\ Answer(Beat(o), FALSE) \in acks
    /\ GivenUp(Beat(o))
    /\ Settled(o, "lost", guard[o].deadline)

\* No answer: a timeout, a lost answer or a 503.  The last confirmed window
\* still stands.
attempt_unavailable(o) ==
    LET g == guard[o] IN
    /\ g.renewing
    /\ GivenUp(Beat(o))
    /\ Settled(o, IF ~Initial(o) /\ now >= g.deadline THEN "lost" ELSE "unconfirmed", g.deadline)

-----------------------------------------------------------------------------
(* The job's thread. *)

\* require_healthy_lease before a step of the job: it goes on when the lease
\* is confirmed, waits while it is not, and gives up when it is lost.
dispatch(o) ==
    /\ At(o, "work")
    /\ \/ Healthy(o) /\ Go(o, "busy") /\ UNCHANGED guard
       \/ Gone(o) /\ lose(o) /\ Go(o, "exit")
    /\ UNCHANGED <<now, server, channel>>

\* The step's answer: more to do, the end of the job, a wait, or a failure.
step_returns(o) ==
    /\ At(o, "busy")
    /\ \/ \E l \in {"work", "completing", "stepfailed"} : Go(o, l) /\ UNCHANGED guard
       \/ Go(o, "yielding") /\ Set(o, [guard[o] EXCEPT !.at = now])
    /\ UNCHANGED <<now, server, channel>>

\* Only a confirmed owner with no renewal under way stops its renewals.
terminal_handoff(o) ==
    /\ pc[o] \in {"yielding", "completing"}
    /\ \/ Gone(o) /\ lose(o) /\ Go(o, "exit")
       \/ /\ Healthy(o) /\ ~guard[o].renewing
          /\ Set(o, [guard[o] EXCEPT !.stopped = TRUE])
          /\ Go(o, IF At(o, "yielding") THEN "join_yield" ELSE "join_complete")
    /\ UNCHANGED <<now, server, channel>>

\* The renewal thread has ended; the window is looked at once more.
handoff_joined(o) ==
    /\ pc[o] \in {"join_yield", "join_complete"} /\ guard[o].thread = "ended"
    /\ \/ ~Healthy(o) /\ lose(o) /\ Go(o, "done")
       \/ /\ Healthy(o)
          /\ Set(o, [guard[o] EXCEPT !.status = "graceful_stop"])
          /\ Go(o, IF At(o, "join_yield") THEN "send_yield" ELSE "send_complete")
    /\ UNCHANGED <<now, server, channel>>

\* The same request, up to MaxYields times within the confirmed window.
yield_job(o) ==
    /\ At(o, "send_yield")
    /\ \/ /\ guard[o].yields < MaxYields /\ now < guard[o].deadline
          /\ net' = net \cup {Request("yield", o, guard[o].yields + 1)}
          /\ Set(o, [guard[o] EXCEPT !.yields = @ + 1]) /\ Go(o, "await_yield")
       \/ /\ guard[o].yields = MaxYields \/ now >= guard[o].deadline
          /\ Go(o, "done") /\ UNCHANGED <<guard, net>>
    /\ UNCHANGED <<now, server, acks>>

\* The exact acknowledgement ends it; after a refusal or no answer the
\* delivery is unknown and the job is looked up.
yield_answered(o) ==
    LET q == Request("yield", o, guard[o].yields) IN
    /\ At(o, "await_yield")
    /\ \/ Answer(q, TRUE) \in acks /\ GivenUp(q) /\ Go(o, "yielded")
       \/ Answer(q, FALSE) \in acks /\ GivenUp(q) /\ Go(o, "query")
       \/ Go(o, "query") /\ GivenUp(q)
    /\ UNCHANGED <<now, server, guard, net>>

\* Queued alone does not say that this yield was carried out; it is sent
\* again.  A job that is another's, ended or past its lease is left alone,
\* and the delivery stays unknown.
yield_query(o) ==
    /\ At(o, "query")
    /\ \/ now >= guard[o].deadline /\ Go(o, "done")
       \/ /\ now < guard[o].deadline
          /\ Go(o, IF Holds(o) \/ job.status = "queued" THEN "send_yield" ELSE "done")
       \/ now < guard[o].deadline /\ Go(o, "send_yield")
    /\ UNCHANGED <<now, server, guard, channel>>

\* One request; whatever comes of it, the guard is not started again.
complete_job(o) ==
    /\ \/ /\ At(o, "send_complete")
          /\ net' = net \cup {Request("complete", o, 1)}
          /\ Set(o, [guard[o] EXCEPT !.at = now]) /\ Go(o, "await_complete")
       \/ At(o, "await_complete") /\ Go(o, "done") /\ UNCHANGED <<net, guard>>
    /\ UNCHANGED <<now, server, acks>>

\* The way out of the guard after a failed step or a lost lease: renewals
\* are stopped and their thread is waited for.  Only a failure is reported.
leave_guard(o) ==
    /\ pc[o] \in {"exit", "stepfailed"}
    /\ \/ ~guard[o].stopped /\ Set(o, [guard[o] EXCEPT !.stopped = TRUE]) /\ UNCHANGED pc
       \/ /\ guard[o].stopped /\ guard[o].thread = "ended"
          /\ Set(o, [guard[o] EXCEPT !.status = IF @ = "lost" THEN @ ELSE "graceful_stop"])
          /\ Go(o, IF At(o, "exit") THEN "done" ELSE "failing")
    /\ UNCHANGED <<now, server, channel>>

fail_claimed_job(o) ==
    /\ At(o, "failing")
    /\ net' = net \cup {Request("fail", o, now)} /\ Go(o, "done")
    /\ UNCHANGED <<now, server, guard, acks>>

Renewal(o) == attempt(o) \/ attempt_ends(o) \/ attempt_confirmed(o) \/ attempt_rejected(o)
              \/ attempt_unavailable(o)
Main(o) == start_job(o) \/ dispatch(o) \/ step_returns(o) \/ terminal_handoff(o)
           \/ handoff_joined(o) \/ yield_job(o) \/ yield_answered(o) \/ yield_query(o)
           \/ complete_job(o) \/ leave_guard(o) \/ fail_claimed_job(o)

Next ==
    \/ tick \/ claim_due_runtime_jobs \/ reclaim_expired_runtime_job_leases \/ cancel_runtime_job
    \/ \E q \in net : serve(q)
    \/ \E o \in Owners : Renewal(o) \/ Main(o)

Spec == Init /\ [][Next]_vars

-----------------------------------------------------------------------------
Statuses == {"queued", "leased", "running", "succeeded", "failed", "cancelled"}
Pcs == {"idle", "start", "initial", "work", "busy", "yielding", "completing", "stepfailed", "exit",
        "join_yield", "join_complete", "send_yield", "await_yield", "query", "send_complete",
        "await_complete", "failing", "yielded", "done"}

GuardRow == [status : {"healthy", "unconfirmed", "lost", "graceful_stop"}, deadline : Nat,
             stopped : BOOLEAN, thread : {"none", "wait", "ended"}, renewing : BOOLEAN,
             started : Nat, beats : 0..MaxBeats, yields : 0..MaxYields, at : Nat]
RequestRow == [kind : {"beat", "yield", "complete", "fail"}, owner : Owners, n : Nat]
AnswerRow == [kind : {"beat", "yield"}, owner : Owners, n : Nat, ok : BOOLEAN]
JobRow == [status : Statuses, owner : Owners \cup {0}, expires : Nat]

\* The states of the row, the guards and the channel; a lease has an owner
\* exactly while the job is leased or running.
TypeOK ==
    /\ now \in 0..MaxTime /\ claims \in 0..MaxClaims /\ yielded \subseteq Owners
    /\ job \in JobRow /\ (job.owner # 0 <=> job.status \in {"leased", "running"})
    /\ pc \in [Owners -> Pcs] /\ guard \in [Owners -> GuardRow]
    /\ net \subseteq RequestRow /\ acks \subseteq AnswerRow

\* While the worker counts on its lease, the row has it: whatever was lost,
\* delayed or carried out late, require_healthy_lease never lets a step
\* through after the runtime may have given the job to another, unless the
\* job was cancelled.
ConfirmedIsLeased ==
    \A o \in Owners :
        guard[o].status \in {"healthy", "unconfirmed"} /\ now < guard[o].deadline
            => Holds(o) \/ job.status = "cancelled"

\* An owner that gave up its lease never counts on it again: no late answer
\* revives it.
LostIsFinal ==
    [][\A o \in Owners : guard[o].status = "lost" => guard'[o].status = "lost"]_vars

\* A worker that reports its job as handed back did hand it back: the
\* runtime has the event of its yield.
YieldedIsCommitted == \A o \in Owners : At(o, "yielded") => o \in yielded

\* A lease ends because it ran out, because the job was cancelled or by a
\* request of its own owner: a yield, completion or failure of an earlier
\* owner that arrives late changes nothing.
LeaseEndsByItsOwner ==
    [][job.owner # 0 /\ job'.owner # job.owner
          => \/ job.expires <= now \/ job'.status = "cancelled"
             \/ \E q \in net \ net' : q.owner = job.owner]_vars

\* What the worker believes is so: a lease it counts on is its own, a job it
\* reports as handed back was handed back (lease_heartbeats, yield_job).
WorkerKnows == TypeOK /\ ConfirmedIsLeased /\ YieldedIsCommitted

\* A lease is ended by nobody but its owner before its time, and the owner that
\* gave it up does not return to it.
LeaseEndsOnce == LostIsFinal /\ LeaseEndsByItsOwner
=============================================================================
