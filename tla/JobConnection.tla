---------------------------- MODULE JobConnection ----------------------------
(***************************************************************************)
(* How a runtime-job operation reaches SQLite: SqliteJobStore::execute     *)
(* (packages/runtime_sqlite, job_store.rs) and the Driver of one           *)
(* connection, called an epoch (sqlite_job_connection.rs).  A call takes   *)
(* the owner lock, replaces an unhealthy epoch after draining it, takes a  *)
(* local and a shared permit, is admitted and queued on the connection     *)
(* thread, runs, and answers with what is known of its transaction.  Every *)
(* await is a point where the caller may be dropped; the closure it queued *)
(* runs on.                                                                *)
(*                                                                         *)
(* tokio-rusqlite is external: one thread per connection that runs closures*)
(* in order.  Permits and tracker tokens are owned by the call or closure  *)
(* that took them, so they are functions of where the calls are.  Job      *)
(* operations set no deadline, and every write reports Began before it     *)
(* succeeds, so those two rejections of the driver do not occur.           *)
(***************************************************************************)
EXTENDS Integers, Sequences, FiniteSets

CONSTANTS
    Calls,          \* calls of the store, each made at most once
    Kinds,          \* what calls do: "read", "write", or "reclaim", the FULL write
    Limit,          \* local capacity of an epoch
    Budget,         \* accepted work shared with the snapshot actor
    MaxEpochs,      \* bound: connections opened
    NoCall          \* nobody

ASSUME CapacityAssumption ==
    Limit \in Nat \ {0} /\ Budget \in Nat \ {0} /\ MaxEpochs \in Nat \ {0}
ASSUME CallAssumption ==
    /\ NoCall \notin Calls /\ IsFiniteSet(Calls)
    /\ Kinds \subseteq {"read", "write", "reclaim"}

VARIABLES
    call,       \* per call: where it is, what it does, how it was answered
    driver,     \* per epoch: Admission and the result of closing
    current,    \* the epoch of Owner.driver
    queue,      \* per epoch: closures the connection thread has yet to run
    owner,      \* who holds the owner lock
    closing,    \* SqliteJobStore.closing
    closer,     \* the task close() spawns
    actorHeld,  \* shared permits held by the snapshot actor
    applied,    \* history: calls whose transaction is in the database
    before      \* history: work that was accepted when the call was made

vars == <<call, driver, current, queue, owner, closing, closer, actorHeld,
          applied, before>>

Epochs == 1..MaxEpochs
Outcomes == {"ReadOnly", "NotExecuted", "RolledBack", "Committed", "Unknown"}

\* Ok(value), or a storage error with its outcome.
Answers == Outcomes \cup {"Ok"}

\* In the closure's hands: permits and tracker token live until "done".
Accepted == {"queued", "running"}
Places == {"idle", "owner", "draining", "opening", "permit", "shared", "admitting",
           "done"} \cup Accepted

FreshDriver == [accepting |-> TRUE, healthy |-> TRUE, closing |-> FALSE,
                closed |-> "no", lost |-> FALSE]

Init ==
    /\ call = [c \in Calls |-> [at |-> "idle", kind |-> "none", epoch |-> 0,
                                waiter |-> FALSE, answer |-> "none"]]
    /\ driver = [e \in Epochs |-> FreshDriver]
    /\ current = 1
    /\ queue = [e \in Epochs |-> <<>>]
    /\ owner = NoCall
    /\ closing = FALSE
    /\ closer = "none"
    /\ actorHeld = 0
    /\ applied = {}
    /\ before = [c \in Calls |-> {}]

\* Permits of the local and of the shared semaphore in use, and what the
\* tracker of an epoch waits for.
LocalUse(e) ==
    {c \in Calls : call[c].epoch = e
                     /\ call[c].at \in Accepted \cup {"shared", "admitting"}}
SharedUse == {c \in Calls : call[c].at \in Accepted \cup {"admitting"}}
Tracked(e) == {c \in Calls : call[c].epoch = e /\ call[c].at \in Accepted}

Answered(r, answer) ==
    [r EXCEPT !.at = "done", !.waiter = FALSE,
              !.answer = IF r.waiter THEN answer ELSE "none"]

\* Every rejection before the closure is queued reports NotExecuted.
Reject(c) == call' = [call EXCEPT ![c] = Answered(@, "NotExecuted")]

MoveTo(c, place) == call' = [call EXCEPT ![c].at = place]

BeginClose(d) == [d EXCEPT !.closing = TRUE, !.accepting = FALSE]

-----------------------------------------------------------------------------
(* SqliteJobStore::execute and ::connection.                               *)

invoke(c, kind) ==
    /\ call[c].at = "idle"
    /\ call' = [call EXCEPT ![c] =
                  IF closing
                  THEN Answered([@ EXCEPT !.kind = kind, !.waiter = TRUE],
                                "NotExecuted")
                  ELSE [@ EXCEPT !.kind = kind, !.waiter = TRUE, !.at = "owner"]]
    /\ before' = [before EXCEPT ![c] = {d \in Calls : call[d].at \in Accepted}]
    /\ UNCHANGED <<driver, current, queue, owner, closing, closer, actorHeld, applied>>

\* With the owner lock: use the current epoch, or begin to retire it.
lock_owner(c) ==
    /\ call[c].at = "owner"
    /\ owner = NoCall
    /\ \/ closing /\ Reject(c) /\ UNCHANGED <<driver, owner>>
       \/ /\ ~closing /\ driver[current].healthy
          /\ call' = [call EXCEPT ![c].at = "permit", ![c].epoch = current]
          /\ UNCHANGED <<driver, owner>>
       \/ /\ ~closing /\ ~driver[current].healthy
          /\ driver' = [driver EXCEPT ![current] = BeginClose(@)]
          /\ owner' = c
          /\ MoveTo(c, "draining")
    /\ UNCHANGED <<current, queue, closing, closer, actorHeld, applied, before>>

\* Mutant: the replacement does not wait for the retired epoch to close.
Drained_at_once(e) == driver[e].closing

Drained(e) == driver[e].closed # "no"

finish_drain(c) ==
    /\ call[c].at = "draining"
    /\ Drained(current)
    /\ IF closing \/ driver[current].closed = "failed"
       THEN Reject(c) /\ owner' = NoCall
       ELSE MoveTo(c, "opening") /\ UNCHANGED owner
    /\ UNCHANGED <<driver, current, queue, closing, closer, actorHeld, applied, before>>

\* Opening the replacement may fail; the retired epoch then stays current.
open_epoch(c) ==
    /\ call[c].at = "opening"
    /\ owner' = NoCall
    /\ \/ Reject(c) /\ UNCHANGED current
       \/ /\ current < MaxEpochs
          /\ current' = current + 1
          /\ IF closing THEN Reject(c)
             ELSE call' = [call EXCEPT ![c].at = "permit", ![c].epoch = current']
    /\ UNCHANGED <<driver, queue, closing, closer, actorHeld, applied, before>>

-----------------------------------------------------------------------------
(* Driver::submit.                                                         *)

\* A permit of the epoch's semaphore, which begin_close closes.
acquire_local(c) ==
    LET e == call[c].epoch
    IN  /\ call[c].at = "permit"
        /\ \/ driver[e].closing /\ Reject(c)
           \/ /\ ~driver[e].closing
              /\ Cardinality(LocalUse(e)) < Limit
              /\ MoveTo(c, "shared")
        /\ UNCHANGED <<driver, current, queue, owner, closing, closer, actorHeld,
                       applied, before>>

\* A permit of the shared budget, unless the stop token comes first.
acquire_shared(c) ==
    /\ call[c].at = "shared"
    /\ \/ driver[call[c].epoch].closing /\ Reject(c)
       \/ /\ ~driver[call[c].epoch].closing
          /\ Cardinality(SharedUse) + actorHeld < Budget
          /\ MoveTo(c, "admitting")
    /\ UNCHANGED <<driver, current, queue, owner, closing, closer, actorHeld,
                   applied, before>>

\* Mutant: admission only looks at the health of the connection.
Admissible_healthy(d) == d.healthy

Admissible(d) == d.accepting /\ d.healthy

\* Under the state lock that begin_close takes too: tracker token and queue.
admit(c) ==
    LET e == call[c].epoch
    IN  /\ call[c].at = "admitting"
        /\ \/ ~Admissible(driver[e]) /\ Reject(c) /\ UNCHANGED queue
           \/ /\ Admissible(driver[e])
              /\ MoveTo(c, "queued")
              /\ queue' = [queue EXCEPT ![e] = Append(@, c)]
        /\ UNCHANGED <<driver, current, owner, closing, closer, actorHeld,
                       applied, before>>

\* Mutant: the owner lock is not given back by a dropped caller.
abandon_keeping_lock(c) ==
    /\ call[c].waiter
    /\ call[c].at # "admitting"
    /\ call' = [call EXCEPT ![c].waiter = FALSE,
                            ![c].at = IF @ \in Accepted THEN @ ELSE "done"]
    /\ UNCHANGED <<driver, current, queue, owner, closing, closer, actorHeld,
                   applied, before>>

\* The caller is dropped at an await.  A queued closure keeps its permits.
abandon(c) ==
    /\ call[c].waiter
    /\ call[c].at # "admitting"
    /\ call' = [call EXCEPT ![c].waiter = FALSE,
                            ![c].at = IF @ \in Accepted THEN @ ELSE "done"]
    /\ owner' = IF owner = c THEN NoCall ELSE owner
    /\ UNCHANGED <<driver, current, queue, closing, closer, actorHeld, applied, before>>

-----------------------------------------------------------------------------
(* The connection thread.                                                  *)

\* A closure behind one that retired the connection is answered unexecuted.
start_closure(e) ==
    /\ queue[e] # <<>> /\ ~driver[e].lost
    /\ \A c \in Tracked(e) : call[c].at # "running"
    /\ LET c == Head(queue[e])
       IN  IF driver[e].healthy THEN MoveTo(c, "running") ELSE Reject(c)
    /\ queue' = [queue EXCEPT ![e] = Tail(@)]
    /\ UNCHANGED <<driver, current, owner, closing, closer, actorHeld, applied, before>>

\* Where a closure can end.  Of a write: raising synchronous (reclaim only) or
\* BEGIN fails; the statements fail and ROLLBACK succeeds or fails; COMMIT
\* fails; all is done; or a panic strikes before BEGIN, among the statements
\* (with the rollback of the unwinding done or stuck), in COMMIT or after it.
\* A panic outside catch_unwind ends the connection thread, and the reply is
\* lost.
Panics == {"panic_early", "panic_in_write", "panic_stuck", "panic_in_commit",
           "panic_late"}
WriteEnds == {"begin_failed", "write_failed", "rollback_failed", "commit_failed",
              "done"} \cup Panics
Ends(kind) == CASE kind = "read" -> {"read_failed", "done", "panic_early", "lost"}
                [] kind = "write" -> WriteEnds \cup {"lost"}
                [] kind = "reclaim" -> WriteEnds \cup {"sync_failed", "lost"}

\* What the observer of TransactionEvents has recorded of a write.
Observed(end) ==
    CASE end \in {"sync_failed", "begin_failed", "panic_early"} -> "NotExecuted"
      [] end = "write_failed" -> "RolledBack"
      [] end \in {"done", "panic_late"} -> "Committed"
      [] OTHER -> "Unknown"

\* Mutant: any panic of an open transaction counts as rolled back.
OutcomeOf_hopeful(kind, end) ==
    CASE kind = "read" -> "ReadOnly"
      [] kind # "read" /\ end \in {"panic_in_write", "panic_stuck", "panic_in_commit"}
           -> "RolledBack"
      [] OTHER -> Observed(end)

\* A panic before the commit attempt that left the connection in autocommit
\* mode has rolled back.
OutcomeOf(kind, end) ==
    CASE kind = "read" -> "ReadOnly"
      [] kind # "read" /\ end = "panic_in_write" -> "RolledBack"
      [] OTHER -> Observed(end)

\* Whether the transaction took effect: a failed or interrupted COMMIT leaves
\* it open, and so does a lost reply.
Effects(kind, end) ==
    IF kind = "read" THEN {FALSE}
    ELSE CASE end \in {"done", "panic_late"} -> {TRUE}
           [] end \in {"commit_failed", "panic_in_commit", "lost"} -> BOOLEAN
           [] OTHER -> {FALSE}

\* restored: the synchronous setting is back to what it was.
Healthy(kind, end, restored) ==
    /\ end \notin Panics \cup {"rollback_failed", "lost"}
    /\ restored
    /\ OutcomeOf(kind, end) # "Unknown"

\* A lost reply is noticed, and the epoch retired, by the caller alone.
finish_closure(e) ==
    \E c \in Tracked(e) :
        /\ call[c].at = "running"
        /\ \E end \in Ends(call[c].kind), effect \in BOOLEAN, restored \in BOOLEAN :
             /\ effect \in Effects(call[c].kind, end)
             /\ call[c].kind # "reclaim" => restored
             /\ call' = [call EXCEPT ![c] =
                           Answered(@, IF end = "done" THEN "Ok"
                                                       ELSE OutcomeOf(@.kind, end))]
             /\ applied' = IF effect THEN applied \cup {c} ELSE applied
             /\ driver' = [driver EXCEPT
                    ![e].healthy = @ /\ (\/ Healthy(call[c].kind, end, restored)
                                         \/ end = "lost" /\ ~call[c].waiter),
                    ![e].lost = (end = "lost")]
        /\ UNCHANGED <<current, queue, owner, closing, closer, actorHeld, before>>

\* Without a thread a closure is dropped unexecuted, but its caller cannot
\* know: a write is in doubt.
reply_unavailable(e) ==
    /\ queue[e] # <<>> /\ driver[e].lost
    /\ \A c \in Tracked(e) : call[c].at # "running"
    /\ LET c == Head(queue[e])
       IN  /\ call' = [call EXCEPT ![c] = Answered(@, OutcomeOf(@.kind, "lost"))]
           /\ driver' = [driver EXCEPT ![e].healthy = @ /\ ~call[c].waiter]
    /\ queue' = [queue EXCEPT ![e] = Tail(@)]
    /\ UNCHANGED <<current, owner, closing, closer, actorHeld, applied, before>>

\* The task begin_close spawns: wait for the tracker, close the connection.
close_connection(e) ==
    /\ driver[e].closing
    /\ driver[e].closed = "no"
    /\ Tracked(e) = {}
    /\ \E result \in {"ok", "failed"} :
            driver' = [driver EXCEPT ![e].closed = result]
    /\ UNCHANGED <<call, current, queue, owner, closing, closer, actorHeld,
                   applied, before>>

-----------------------------------------------------------------------------
(* SqliteJobStore::close and the snapshot actor.                           *)

close_store ==
    /\ ~closing
    /\ closing' = TRUE
    /\ closer' = "owner"
    /\ UNCHANGED <<call, driver, current, queue, owner, actorHeld, applied, before>>

closer_locks ==
    /\ closer = "owner"
    /\ owner = NoCall
    /\ driver' = [driver EXCEPT ![current] = BeginClose(@)]
    /\ closer' = "draining"
    /\ UNCHANGED <<call, current, queue, owner, closing, actorHeld, applied, before>>

closer_finishes ==
    /\ closer = "draining"
    /\ Drained(current)
    /\ closer' = "done"
    /\ UNCHANGED <<call, driver, current, queue, owner, closing, actorHeld,
                   applied, before>>

actor_acquires ==
    /\ Cardinality(SharedUse) + actorHeld < Budget
    /\ actorHeld' = actorHeld + 1
    /\ UNCHANGED <<call, driver, current, queue, owner, closing, closer, applied, before>>

actor_releases ==
    /\ actorHeld > 0
    /\ actorHeld' = actorHeld - 1
    /\ UNCHANGED <<call, driver, current, queue, owner, closing, closer, applied, before>>

-----------------------------------------------------------------------------
Advance(c) ==
    \/ lock_owner(c) \/ finish_drain(c) \/ open_epoch(c)
    \/ acquire_local(c) \/ acquire_shared(c) \/ admit(c)

Thread(e) == start_closure(e) \/ finish_closure(e) \/ reply_unavailable(e)
                 \/ close_connection(e)

Closer == closer_locks \/ closer_finishes

Next ==
    \/ \E c \in Calls : (\E kind \in Kinds : invoke(c, kind)) \/ Advance(c) \/ abandon(c)
    \/ \E e \in Epochs : Thread(e)
    \/ close_store \/ Closer
    \/ actor_acquires \/ actor_releases

Spec == Init /\ [][Next]_vars

\* Tasks and connection threads keep running; tokio's mutex and semaphores
\* serve their waiters in order, so none is passed over for ever; the actor
\* finishes the work it has accepted.
Fairness ==
    /\ \A c \in Calls : SF_vars(Advance(c))
    /\ \A e \in Epochs : WF_vars(Thread(e))
    /\ SF_vars(Closer)
    /\ WF_vars(actor_releases)

FairSpec == Spec /\ Fairness

-----------------------------------------------------------------------------
(* Properties.                                                             *)

CallRow == [at : Places, kind : Kinds \cup {"none"}, epoch : 0..MaxEpochs,
            waiter : BOOLEAN, answer : Answers \cup {"none"}]
DriverRow == [accepting : BOOLEAN, healthy : BOOLEAN, closing : BOOLEAN,
              closed : {"no", "ok", "failed"}, lost : BOOLEAN]

\* Calls, epochs and permits have their types.
TypeOK ==
    /\ call \in [Calls -> CallRow]
    /\ driver \in [Epochs -> DriverRow]
    /\ current \in Epochs
    /\ queue \in [Epochs -> Seq(Calls)]
    /\ owner \in Calls \cup {NoCall}
    /\ closing \in BOOLEAN
    /\ closer \in {"none", "owner", "draining", "done"}
    /\ actorHeld \in Nat
    /\ applied \subseteq Calls
    /\ before \in [Calls -> SUBSET Calls]

\* An answer never misstates the transaction: success and Committed mean it is
\* in the database, NotExecuted, RolledBack and ReadOnly that it is not.  Only
\* Unknown leaves the caller in doubt.
OutcomeHonest ==
    \A c \in Calls :
        /\ call[c].answer = "Ok" /\ call[c].kind # "read" => c \in applied
        /\ call[c].answer = "Committed" => c \in applied
        /\ call[c].answer \in {"NotExecuted", "RolledBack", "ReadOnly"}
               => c \notin applied

\* Work is only found on the current epoch, and none on a closed connection:
\* the replacement is opened after the retired epoch has drained, and no late
\* submit through an old clone of the driver gets past its closed admission.
OneEpochAtWork ==
    \A e \in Epochs : Tracked(e) # {} => e = current /\ driver[e].closed = "no"

\* When a call runs, all work that had been accepted when it was made has
\* ended, dropped callers or not: the read that settles an unknown write
\* cannot mistake a transaction in progress for one that was rolled back.
SettlementBarrier ==
    \A c \in Calls : call[c].at = "running" =>
        \A d \in before[c] : call[d].at = "done"

\* A transaction in doubt is the last thing its connection does: no call runs
\* on an epoch that ended a call with Unknown.
UnknownRetiresEpoch ==
    \A c \in Calls : call[c].answer = "Unknown" =>
        /\ ~driver[call[c].epoch].healthy
        /\ \A d \in Tracked(call[c].epoch) : call[d].at # "running"

\* When close() reports, no connection is open and no work is left, and none
\* comes back.
ClosedMeansIdle ==
    closer = "done" =>
        /\ owner = NoCall
        /\ \A e \in 1..current : driver[e].closed # "no"
        /\ \A e \in Epochs : Tracked(e) = {} /\ queue[e] = <<>>

\* A requested shutdown is reported, whatever epoch replacement it met.
CloseReports == closing ~> closer = "done"

\* Every call is answered, though the epoch it was sent to may be retired or
\* closed under it and the shared budget may be taken by others.
EveryCallEnds ==
    \A c \in Calls : call[c].at # "idle" ~> call[c].at = "done"

\* Epochs do not overlap, and one in doubt does nothing more: work is found on
\* the current epoch only, none runs behind an Unknown, and none is left when
\* close() reports (Driver::submit, begin_close, SqliteJobStore::close).
EpochsApart == OneEpochAtWork /\ UnknownRetiresEpoch /\ ClosedMeansIdle

\* Every call and every close() is answered.
ConnectionAnswers == EveryCallEnds /\ CloseReports
=============================================================================
