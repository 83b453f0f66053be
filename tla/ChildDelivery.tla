---------------------------- MODULE ChildDelivery ----------------------------
(***************************************************************************)
(* The life of sub-agent jobs of one parent session on the local host:     *)
(* the background worker (packages/runtime, subagent_scheduler.rs), the    *)
(* delivery of terminal jobs (subagent_delivery.rs) and the deletion of a  *)
(* child or of the parent (sessions.rs, delete_async), over the durable    *)
(* job rows, the outbox, the parent's snapshot and the child session logs. *)
(*                                                                         *)
(* Leases, retries and timing are RuntimeJobs: here a lease is lost when   *)
(* its worker is, and a job in crash backoff is one that is not due.  The  *)
(* registry is SessionRegistry: here a deletion gates its sessions and     *)
(* waits for the tokens others hold, which follow from where the worker    *)
(* is.  A job has one child session, whose AgentRun carries the job's id.  *)
(***************************************************************************)
EXTENDS Integers, FiniteSets, FiniteSetsExt

CONSTANTS
    Jobs,           \* numbered in the order of run_at_ms, created_at_ms, job_id
    Roots,          \* sessions that clients delete: children, and the Parent
    Stopped,        \* children whose run a user may cancel
    ParentRuns,     \* whether the parent has runs while its jobs are at work
    PageSize,       \* TERMINAL_DELIVERY_PAGE_SIZE
    MaxParallelism, \* DEFAULT_SUBAGENT_MAX_PARALLELISM
    MaxFaults       \* bound: failing store calls and process exits

Parent == 0

ASSUME JobOrder ==
    /\ Jobs \subseteq Nat \ {Parent}
    /\ Roots \subseteq Jobs \cup {Parent} /\ Stopped \subseteq Jobs
    /\ ParentRuns \in BOOLEAN
ASSUME PageBounds ==
    PageSize \in Nat \ {0} /\ MaxParallelism \in Nat \ {0} /\ MaxFaults \in Nat

VARIABLES
    job,        \* runtime_jobs: status of each row, "gone" when deleted
    outbox,     \* runtime_job_outbox: the terminal event of each job
    deferred,   \* jobs in crash backoff: queued, not due
    child,      \* children whose session files exist
    run,        \* child AgentRun in the log: "none", "open" or "closed"
    told,       \* jobs whose result is in the parent's snapshot
    lost,       \* history: results that a save of the parent's run has removed
    loop,       \* the copy of the snapshot that the parent's run holds, if any
    parentHere, \* the parent session exists
    gated,      \* sessions being deleted
    worker,     \* the background worker task
    cancel,     \* job -> the task a cancelled child run leaves behind
    del,        \* root -> its deletion
    faults,     \* store calls that failed and processes that exited
    deleted     \* history: children whose deletion completed

vars == <<job, outbox, deferred, child, run, told, lost, loop, parentHere, gated,
          worker, cancel, del, faults, deleted>>

durable == <<job, outbox, deferred, child, run, told, lost, parentHere, deleted>>
rows == <<job, outbox, deferred>>
snapshot == <<told, lost>>
sessions == <<child, run, parentHere, deleted>>
tasks == <<cancel, loop>>

Pending == {"queued", "leased", "running"}
Terminal == {"finished", "cancelled"}
Idle == [at |-> "startup", page |-> {}, short |-> TRUE, after |-> 0, record |-> 0,
         todo |-> {}, batch |-> FALSE, bound |-> {}, held |-> {}]
NoDeletion == [at |-> "none", seen |-> "none", guarded |-> {}]

\* The parent's turn has queued its jobs; each job's child is there unless the
\* update that creates it was lost.
Init ==
    /\ job = [j \in Jobs |-> "queued"]
    /\ outbox = [j \in Jobs |-> "none"]
    /\ deferred = {}
    /\ child \in SUBSET Jobs
    /\ run = [j \in Jobs |-> IF j \in child THEN "open" ELSE "none"]
    /\ told = {} /\ lost = {} /\ loop = {}
    /\ parentHere = TRUE
    /\ gated = {}
    /\ worker = Idle
    /\ cancel = [j \in Jobs |-> "none"]
    /\ del = [r \in Roots |-> NoDeletion]
    /\ faults = 0
    /\ deleted = {}

Queued == {j \in Jobs : job[j] = "queued"}
First(n, S) == {j \in S : Cardinality({i \in S : i < j}) < n}

\* A store call fails.
Fault == faults < MaxFaults /\ faults' = faults + 1
NoFault == UNCHANGED faults

\* The tokens the worker and the cancellation tasks hold.
Delivering == worker.at \in {"parent", "child"}
ParentWork ==
    \/ worker.batch \/ Delivering
    \/ \E j \in Jobs : cancel[j] # "none"
    \/ \E j \in Jobs \cap Roots : del[j].at = "tell"
ChildWork(j) == j \in worker.bound \/ (Delivering /\ worker.record = j)

\* A terminal row and its event in one transaction.
Settle(j, status) ==
    /\ job' = [job EXCEPT ![j] = status]
    /\ outbox' = [outbox EXCEPT ![j] = "pending"]
    /\ UNCHANGED deferred

-----------------------------------------------------------------------------
(* Delivery of terminal jobs by the worker. *)

\* The page after the cursor; both the loop and the end of a batch scan.
reconcile_terminal_jobs ==
    LET after == {j \in Jobs : outbox[j] = "pending" /\ j > worker.after}
        page == First(PageSize, after)
    IN  /\ worker.at = "scan"
        /\ worker' = [worker EXCEPT !.at = "deliver", !.page = page,
                                    !.short = Cardinality(page) < PageSize]
        /\ UNCHANGED <<durable, gated, tasks, del, faults>>

\* The scan cannot be read: the loop goes on without it.
scan_fails ==
    /\ worker.at = "scan"
    /\ Fault
    /\ worker' = IF worker.batch THEN [worker EXCEPT !.at = "scan", !.batch = FALSE, !.bound = {}]
                 ELSE [worker EXCEPT !.at = "select"]
    /\ UNCHANGED <<durable, gated, tasks, del>>

\* What deliver_terminal_job_in_scope requires before it writes.
Deliverable(j) == job[j] \in Terminal /\ Parent \notin gated /\ j \in child /\ run[j] # "none"

\* The cursor moves to the record before its delivery, which needs tokens of
\* the parent and of the child; a record that fails leaves its siblings alone.
deliver_begin ==
    LET j == Min(worker.page)
        deliverable == Deliverable(j) /\ j \notin gated
    IN  /\ worker.at = "deliver"
        /\ worker.page # {}
        /\ worker' = [worker EXCEPT !.page = @ \ {j}, !.after = j,
                                    !.record = IF deliverable THEN j ELSE @,
                                    !.at = IF deliverable THEN "parent" ELSE @]
        /\ UNCHANGED <<durable, gated, tasks, del, faults>>

\* First write: the parent's snapshot.
deliver_parent ==
    /\ worker.at = "parent"
    /\ told' = told \cup {worker.record} /\ lost' = lost \ {worker.record}
    /\ worker' = [worker EXCEPT !.at = "child"]
    /\ UNCHANGED <<rows, sessions, gated, tasks, del, faults>>

\* Second write: the child's terminal, unless its log has one.
deliver_child ==
    /\ worker.at = "child"
    /\ run' = [run EXCEPT ![worker.record] = "closed"]
    /\ worker' = [worker EXCEPT !.at = "acknowledge"]
    /\ UNCHANGED <<rows, child, snapshot, parentHere, deleted, gated, tasks, del, faults>>

\* Third write: the acknowledgement, with the tokens given back.
deliver_acknowledge ==
    /\ worker.at = "acknowledge"
    /\ outbox' = [outbox EXCEPT ![worker.record] = IF @ = "pending" THEN "published" ELSE @]
    /\ worker' = [worker EXCEPT !.at = "deliver"]
    /\ UNCHANGED <<job, deferred, sessions, snapshot, gated, tasks, del, faults>>

\* Mutant: a failed write is taken for a delivery.
deliver_fails_forward ==
    /\ Delivering \/ worker.at = "acknowledge"
    /\ Fault \/ (worker.at = "child" /\ worker.record \in gated /\ NoFault)
    /\ worker' = [worker EXCEPT !.at = IF @ = "acknowledge" THEN "deliver" ELSE "acknowledge"]
    /\ UNCHANGED <<durable, gated, tasks, del>>

\* A write fails, or the child's terminal loses to the one a deletion appends
\* meanwhile: the record stays pending.
deliver_fails ==
    /\ Delivering \/ worker.at = "acknowledge"
    /\ Fault \/ (worker.at = "child" /\ worker.record \in gated /\ NoFault)
    /\ worker' = [worker EXCEPT !.at = "deliver"]
    /\ UNCHANGED <<durable, gated, tasks, del>>

\* Mutant: the cursor never returns to the front.
deliver_end_forward ==
    /\ worker.at = "deliver"
    /\ worker.page = {}
    /\ worker' = [worker EXCEPT !.at = IF worker.batch THEN "scan" ELSE "select",
                                !.batch = FALSE, !.bound = {}]
    /\ UNCHANGED <<durable, gated, tasks, del, faults>>

\* Mutant: the batch's tokens outlive the batch.
deliver_end_keeps ==
    /\ worker.at = "deliver"
    /\ worker.page = {}
    /\ worker' = [worker EXCEPT !.after = IF worker.short THEN 0 ELSE @, !.at = "select"]
    /\ UNCHANGED <<durable, gated, tasks, del, faults>>

\* A short page is the tail: the next scan starts at the front.  After a batch
\* its tokens are dropped and the loop starts over.
deliver_end ==
    /\ worker.at = "deliver"
    /\ worker.page = {}
    /\ worker' = [worker EXCEPT !.after = IF worker.short THEN 0 ELSE @,
                                !.at = IF worker.batch THEN "scan" ELSE "select",
                                !.batch = FALSE, !.bound = {}]
    /\ UNCHANGED <<durable, gated, tasks, del, faults>>

-----------------------------------------------------------------------------
(* The worker's loop: startup, selection of work, one batch. *)

\* Startup, before anything else runs: pending jobs whose child run ended are
\* stopped (reconcile_stopped_jobs); then the loop begins with a scan.
startup ==
    LET stopped == {j \in Jobs : job[j] \in Pending /\ run[j] = "closed"}
    IN  /\ worker.at = "startup"
        /\ job' = [j \in Jobs |-> IF j \in stopped THEN "cancelled" ELSE job[j]]
        /\ outbox' = [j \in Jobs |-> IF j \in stopped THEN "pending" ELSE outbox[j]]
        /\ worker' = [worker EXCEPT !.at = "scan"]
        /\ UNCHANGED <<deferred, sessions, snapshot, gated, tasks, del, faults>>

\* next_queued_parent_session: expired leases, of workers that are gone, are
\* reclaimed into backoff or dead-lettered, and the queue is read.
select_work ==
    \E expired \in SUBSET {j \in Jobs : job[j] \in {"leased", "running"}},
       dead \in SUBSET Jobs :
        /\ worker.at = "select"
        /\ dead \subseteq expired
        /\ job' = [j \in Jobs |-> IF j \in dead THEN "finished"
                                  ELSE IF j \in expired THEN "queued" ELSE job[j]]
        /\ outbox' = [j \in Jobs |-> IF j \in dead THEN "pending" ELSE outbox[j]]
        /\ deferred' = deferred \cup (expired \ dead)
        /\ worker' = [worker EXCEPT !.at = "consider",
                                    !.todo = {j \in Jobs : job'[j] = "queued"}]
        /\ UNCHANGED <<sessions, snapshot, gated, tasks, del, faults>>

\* A queued job of the page just read, with no token and no second look at its
\* row: its child session and run are created if they are missing, provided
\* the parent exists, and a job that is ready chooses the parent for a batch.
consider ==
    LET j == Min(worker.todo)
    IN  /\ worker.at = "consider"
        /\ worker.todo # {}
        /\ IF parentHere
           THEN /\ child' = child \cup {j}
                /\ run' = [run EXCEPT ![j] = IF @ = "none" THEN "open" ELSE @]
           ELSE UNCHANGED <<child, run>>
        /\ worker' = [worker EXCEPT !.todo = @ \ {j},
                                    !.at = IF ~parentHere THEN "scan"
                                           ELSE IF run'[j] = "open" THEN "batch" ELSE @]
        /\ UNCHANGED <<rows, snapshot, parentHere, deleted, gated, tasks, del, faults>>

\* A job of a parent run that was cancelled or stopped is cancelled, and one
\* with a work packet that is refused is claimed and failed, which leaves one
\* that is not due; a row that is no longer queued is left as it is.
consider_stops ==
    LET j == Min(worker.todo)
    IN  /\ worker.at = "consider"
        /\ worker.todo # {}
        /\ parentHere
        /\ \/ job[j] = "queued" /\ Settle(j, "cancelled")
           \/ job[j] = "queued" /\ j \notin deferred /\ Settle(j, "finished")
           \/ (job[j] # "queued" \/ j \in deferred) /\ UNCHANGED rows
        /\ worker' = [worker EXCEPT !.todo = @ \ {j}]
        /\ UNCHANGED <<sessions, snapshot, gated, tasks, del, faults>>

\* Nothing is ready, or the child could not be created: on to the next job,
\* and from the last one back to the top of the loop.
consider_next ==
    /\ worker.at = "consider"
    /\ \/ worker.todo = {} /\ NoFault /\ worker' = [worker EXCEPT !.at = "scan"]
       \/ /\ worker.todo # {} /\ Fault
          /\ worker' = [worker EXCEPT !.todo = @ \ {Min(@)}]
    /\ UNCHANGED <<durable, gated, tasks, del>>

\* run_parent_batch: a token of the parent, which must exist, then the first queued jobs, due or not.
begin_batch ==
    /\ worker.at = "batch"
    /\ worker' = IF Parent \in gated \/ ~parentHere THEN [worker EXCEPT !.at = "scan"]
                 ELSE [worker EXCEPT !.at = "bind", !.batch = TRUE, !.bound = {},
                                     !.todo = First(MaxParallelism, Queued)]
    /\ UNCHANGED <<durable, gated, tasks, del, faults>>

\* Each listed job in turn: one that is not ready ends the list, and one whose
\* child is being deleted ends the batch.
bind ==
    LET j == Min(worker.todo)
        ready == j \in child /\ run[j] = "open"
    IN  /\ worker.at = "bind"
        /\ worker.todo # {}
        /\ worker' = IF ~ready THEN [worker EXCEPT !.at = "claim"]
                     ELSE IF j \in gated
                     THEN [worker EXCEPT !.at = "scan", !.batch = FALSE, !.bound = {}]
                     ELSE [worker EXCEPT !.todo = @ \ {j}, !.bound = @ \cup {j}]
        /\ UNCHANGED <<durable, gated, tasks, del, faults>>

bind_end ==
    /\ worker.at = "bind"
    /\ worker.todo = {}
    /\ worker' = [worker EXCEPT !.at = "claim"]
    /\ UNCHANGED <<durable, gated, tasks, del, faults>>

\* As many due jobs of the parent as were bound are claimed, in queue order:
\* not necessarily the bound ones.
claim ==
    LET claimed == First(Cardinality(worker.bound), Queued \ deferred)
    IN  /\ worker.at = "claim"
        /\ job' = [j \in Jobs |-> IF j \in claimed THEN "leased" ELSE job[j]]
        /\ worker' = IF worker.bound = {} THEN [worker EXCEPT !.at = "scan", !.batch = FALSE]
                     ELSE [worker EXCEPT !.at = "work", !.held = claimed]
        /\ UNCHANGED <<outbox, deferred, sessions, snapshot, gated, tasks, del, faults>>

\* The claim fails or its answer is lost: leases nobody works on, for reclaim.
claim_fails ==
    LET claimed == First(Cardinality(worker.bound), Queued \ deferred)
    IN  /\ worker.at = "claim"
        /\ Fault
        /\ \/ job' = [j \in Jobs |-> IF j \in claimed THEN "leased" ELSE job[j]]
           \/ UNCHANGED job
        /\ worker' = [worker EXCEPT !.at = "scan"]
        /\ UNCHANGED <<outbox, deferred, sessions, snapshot, gated, tasks, del>>

\* A claimed job starts; a row that is no longer leased to the worker is left.
start_job(j) ==
    /\ worker.at = "work"
    /\ j \in worker.held
    /\ \/ /\ job[j] = "leased"
          /\ job' = [job EXCEPT ![j] = "running"]
          /\ UNCHANGED worker
       \/ /\ job[j] \notin {"leased", "running"}
          /\ worker' = [worker EXCEPT !.held = @ \ {j}]
          /\ UNCHANGED job
    /\ UNCHANGED <<outbox, deferred, sessions, snapshot, gated, tasks, del, faults>>

\* The runner returns, with a result or with an error such as a child session
\* that is not there, and the row is settled.
finish_job(j) ==
    /\ worker.at = "work"
    /\ j \in worker.held
    /\ job[j] = "running"
    /\ Settle(j, "finished")
    /\ worker' = [worker EXCEPT !.held = @ \ {j}]
    /\ UNCHANGED <<sessions, snapshot, gated, tasks, del, faults>>

\* A panic with retries left puts the job back; a storage error leaves the row
\* as it is, for reclaim to find.
lose_job(j) ==
    /\ worker.at = "work"
    /\ j \in worker.held
    /\ job[j] \in {"leased", "running"}
    /\ Fault
    /\ \/ job' = [job EXCEPT ![j] = "queued"]
       \/ UNCHANGED job
    /\ worker' = [worker EXCEPT !.held = @ \ {j}]
    /\ UNCHANGED <<outbox, deferred, sessions, snapshot, gated, tasks, del>>

\* The pool returns; the batch scans for deliveries with its tokens held.
end_batch ==
    /\ worker.at = "work"
    /\ worker.held = {}
    /\ worker' = [worker EXCEPT !.at = "scan"]
    /\ UNCHANGED <<durable, gated, tasks, del, faults>>

\* Time passes: a crash backoff ends.
due(j) ==
    /\ j \in deferred
    /\ deferred' = deferred \ {j}
    /\ UNCHANGED <<job, outbox, sessions, snapshot, gated, worker, tasks, del, faults>>

-----------------------------------------------------------------------------
(* A user cancels the run of a child session. *)

\* The run is not in the registry, so its terminal is appended at once; then a
\* task with a token of the parent is left to cancel the job.
cancel_run(j) ==
    /\ j \in child
    /\ run[j] = "open"
    /\ run' = [run EXCEPT ![j] = "closed"]
    /\ cancel' = [cancel EXCEPT ![j] = IF Parent \in gated THEN "none" ELSE "cancel"]
    /\ UNCHANGED <<rows, child, snapshot, parentHere, deleted, gated, worker, loop, del, faults>>

\* The task: cancel the job whatever its status, then tell the parent.
cancel_job(j) ==
    /\ cancel[j] = "cancel"
    /\ IF job[j] \in Pending THEN Settle(j, "cancelled") ELSE UNCHANGED rows
    /\ cancel' = [cancel EXCEPT ![j] = IF job[j] \in Pending THEN "tell" ELSE "none"]
    /\ UNCHANGED <<sessions, snapshot, gated, worker, loop, del, faults>>

cancel_tell(j) ==
    /\ cancel[j] = "tell"
    /\ told' = told \cup {j} /\ lost' = lost \ {j}
    /\ cancel' = [cancel EXCEPT ![j] = "none"]
    /\ UNCHANGED <<rows, sessions, gated, worker, loop, del, faults>>

cancel_fails(j) ==
    /\ cancel[j] # "none"
    /\ Fault
    /\ cancel' = [cancel EXCEPT ![j] = "none"]
    /\ UNCHANGED <<durable, gated, worker, loop, del>>

-----------------------------------------------------------------------------
(* A run of the parent session, which its deletion waits for. *)

\* A step of the run reads the snapshot; the first needs an open session.
load_session ==
    /\ ParentRuns
    /\ loop = {} => worker.at # "startup" /\ parentHere /\ Parent \notin gated
    /\ loop' = {told}
    /\ UNCHANGED <<durable, gated, worker, cancel, del, faults>>

\* It saves what it read, without a look at what others wrote since.
save_session ==
    \E copy \in loop :
        /\ told' = copy
        /\ lost' = (lost \cup told) \ copy
        /\ UNCHANGED <<rows, sessions, gated, worker, tasks, del, faults>>

end_run ==
    /\ loop # {}
    /\ loop' = {}
    /\ UNCHANGED <<durable, gated, worker, cancel, del, faults>>

-----------------------------------------------------------------------------
(* Deletion of a child session: delete_async with a bound job. *)

delete_child(j) ==
    /\ del[j].at = "none"
    /\ worker.at # "startup"
    /\ j \in child \ gated
    /\ gated' = gated \cup {j}
    /\ del' = [del EXCEPT ![j].at = "cancel"]
    /\ UNCHANGED <<durable, worker, tasks, faults>>

\* cancel_session_execution_for_deletion: the child's run gets its terminal.
delete_cancel(j) ==
    /\ del[j].at = "cancel"
    /\ run' = [run EXCEPT ![j] = IF @ = "open" THEN "closed" ELSE @]
    /\ del' = [del EXCEPT ![j].at = "look"]
    /\ UNCHANGED <<rows, child, snapshot, parentHere, deleted, gated, worker, tasks, faults>>

\* The bound job is read once...
delete_look(j) ==
    /\ del[j].at = "look"
    /\ job[j] # "gone"
    /\ del' = [del EXCEPT ![j].at = IF job[j] \in Terminal THEN "drain" ELSE "stop",
                          ![j].seen = job[j]]
    /\ UNCHANGED <<durable, gated, worker, tasks, faults>>

\* ... and stopped with the status that was read.  A row that has moved on is
\* left to whoever moved it.
delete_stop(j) ==
    /\ del[j].at = "stop"
    /\ IF job[j] = del[j].seen THEN Settle(j, "cancelled") ELSE UNCHANGED rows
    /\ del' = [del EXCEPT ![j].at = "drain"]
    /\ UNCHANGED <<sessions, snapshot, gated, worker, tasks, faults>>

\* Mutant: the deletion does not wait for the child's background work.
delete_drain_at_once(j) ==
    /\ del[j].at = "drain"
    /\ del' = [del EXCEPT ![j].at = "pending"]
    /\ UNCHANGED <<durable, gated, worker, tasks, faults>>

\* The child's background work is waited for.
delete_drain(j) ==
    /\ del[j].at = "drain"
    /\ ~ChildWork(j)
    /\ del' = [del EXCEPT ![j].at = "pending"]
    /\ UNCHANGED <<durable, gated, worker, tasks, faults>>

\* finish_child_delivery_before_deletion: is there something to deliver?
delete_pending(j) ==
    /\ del[j].at = "pending"
    /\ outbox[j] = "pending" => Deliverable(j)
    /\ del' = [del EXCEPT ![j].at = IF outbox[j] = "pending" THEN "tell" ELSE "remove"]
    /\ UNCHANGED <<durable, gated, worker, tasks, faults>>

delete_tell(j) ==
    /\ del[j].at = "tell"
    /\ told' = told \cup {j} /\ lost' = lost \ {j}
    /\ run' = [run EXCEPT ![j] = "closed"]
    /\ del' = [del EXCEPT ![j].at = "acknowledge"]
    /\ UNCHANGED <<rows, child, parentHere, deleted, gated, worker, tasks, faults>>

delete_acknowledge(j) ==
    /\ del[j].at = "acknowledge"
    /\ outbox' = [outbox EXCEPT ![j] = IF @ = "pending" THEN "published" ELSE @]
    /\ del' = [del EXCEPT ![j].at = "remove"]
    /\ UNCHANGED <<job, deferred, sessions, snapshot, gated, worker, tasks, faults>>

\* (The loop of delete_async cancels the closed run once more, which changes
\* nothing.)  delete_with_session_gates: the child's rows and files go, then the gate.
delete_remove(j) ==
    /\ del[j].at = "remove"
    /\ child' = child \ {j}
    /\ run' = [run EXCEPT ![j] = "none"]
    /\ deleted' = deleted \cup {j}
    /\ gated' = gated \ {j}
    /\ del' = [del EXCEPT ![j] = NoDeletion]
    /\ UNCHANGED <<rows, snapshot, parentHere, worker, tasks, faults>>

\* A step of a deletion fails: its job is missing, its delivery is refused, or
\* a call fails.  The gates open and the session stays.
delete_fails(r) ==
    /\ del[r].at # "none"
    /\ \/ Fault
       \/ /\ r # Parent /\ del[r].at = "look" /\ job[r] = "gone" /\ NoFault
       \/ /\ r # Parent /\ del[r].at = "pending" /\ NoFault
          /\ outbox[r] = "pending" /\ ~Deliverable(r)
       \/ /\ r = Parent /\ del[r].at = "gate" /\ NoFault
          /\ (child \ del[r].guarded) \cap gated # {}
    /\ gated' = gated \ ({r} \cup del[r].guarded)
    /\ del' = [del EXCEPT ![r] = NoDeletion]
    /\ UNCHANGED <<durable, worker, tasks>>

-----------------------------------------------------------------------------
(* Deletion of the parent session: delete_async without a bound job. *)

delete_parent ==
    /\ del[Parent].at = "none"
    /\ worker.at # "startup"
    /\ parentHere /\ Parent \notin gated
    /\ gated' = gated \cup {Parent}
    /\ del' = [del EXCEPT ![Parent].at = "gate"]
    /\ UNCHANGED <<durable, worker, tasks, faults>>

\* The parent's run is cancelled and waited for; then the children that exist
\* are gated too.
parent_gate ==
    LET added == child \ del[Parent].guarded
    IN  /\ del[Parent].at = "gate"
        /\ loop = {}
        /\ added \cap gated = {}
        /\ gated' = gated \cup added
        /\ del' = [del EXCEPT ![Parent].at = "stop", ![Parent].guarded = @ \cup added]
        /\ UNCHANGED <<durable, worker, tasks, faults>>

\* Every pending job of the parent is stopped; the list is read again until it
\* is empty, so a job that moved between list and stop is met again.
parent_stop ==
    /\ del[Parent].at = "stop"
    /\ \/ \E j \in Jobs : /\ job[j] \in Pending
                          /\ Settle(j, "cancelled")
                          /\ UNCHANGED del
       \/ /\ \A j \in Jobs : job[j] \notin Pending
          /\ del' = [del EXCEPT ![Parent].at = "cancel"]
          /\ UNCHANGED rows
    /\ UNCHANGED <<sessions, snapshot, gated, worker, tasks, faults>>

\* The runs of the gated sessions get their terminals.
parent_cancel ==
    /\ del[Parent].at = "cancel"
    /\ run' = [j \in Jobs |-> IF j \in del[Parent].guarded /\ run[j] = "open" THEN "closed"
                              ELSE run[j]]
    /\ del' = [del EXCEPT ![Parent].at = "drain"]
    /\ UNCHANGED <<rows, child, snapshot, parentHere, deleted, gated, worker, tasks, faults>>

\* All background work of the gated sessions is waited for; a child that has
\* appeared since starts another round.
parent_drain ==
    /\ del[Parent].at = "drain"
    /\ ~ParentWork
    /\ \A j \in del[Parent].guarded : ~ChildWork(j)
    /\ del' = [del EXCEPT ![Parent].at = IF child \subseteq del[Parent].guarded
                                         THEN "rows" ELSE "gate"]
    /\ UNCHANGED <<durable, gated, worker, tasks, faults>>

\* delete_session_data: the jobs go with their events and the snapshot...
parent_rows ==
    /\ del[Parent].at = "rows"
    /\ job' = [j \in Jobs |-> "gone"]
    /\ outbox' = [j \in Jobs |-> "none"]
    /\ deferred' = {}
    /\ told' = {} /\ lost' = {}
    /\ del' = [del EXCEPT ![Parent].at = "files"]
    /\ UNCHANGED <<sessions, gated, worker, tasks, faults>>

\* ... then the files of the parent and of the children there are now.
parent_files ==
    /\ del[Parent].at = "files"
    /\ parentHere' = FALSE
    /\ child' = {}
    /\ run' = [j \in Jobs |-> "none"]
    /\ deleted' = Jobs
    /\ gated' = gated \ ({Parent} \cup del[Parent].guarded)
    /\ del' = [del EXCEPT ![Parent] = NoDeletion]
    /\ UNCHANGED <<rows, snapshot, worker, tasks, faults>>

-----------------------------------------------------------------------------
\* The process exits: what is not durable is lost.
crash ==
    /\ Fault
    /\ gated' = {}
    /\ worker' = Idle
    /\ cancel' = [j \in Jobs |-> "none"]
    /\ loop' = {}
    /\ del' = [r \in Roots |-> NoDeletion]
    /\ UNCHANGED durable

Deliver ==
    \/ reconcile_terminal_jobs \/ deliver_begin \/ deliver_parent \/ deliver_child
    \/ deliver_acknowledge \/ deliver_end

Work ==
    \/ startup \/ select_work \/ consider \/ consider_stops \/ consider_next \/ begin_batch \/ bind
    \/ bind_end \/ claim \/ end_batch
    \/ \E j \in Jobs : start_job(j) \/ finish_job(j)

CancelTask(j) == cancel_job(j) \/ cancel_tell(j)

DeleteChild(j) ==
    \/ delete_cancel(j) \/ delete_look(j) \/ delete_stop(j) \/ delete_drain(j)
    \/ delete_pending(j) \/ delete_tell(j) \/ delete_acknowledge(j) \/ delete_remove(j)

DeleteParent ==
    \/ parent_gate \/ parent_stop \/ parent_cancel \/ parent_drain \/ parent_rows
    \/ parent_files

Delete(r) ==
    \/ r = Parent /\ DeleteParent
    \/ r \in Jobs /\ DeleteChild(r)
    \/ delete_fails(r)

Next ==
    \/ Deliver \/ scan_fails \/ deliver_fails
    \/ Work \/ claim_fails
    \/ \E j \in Jobs : lose_job(j) \/ due(j)
    \/ \E j \in Stopped : cancel_run(j)
    \/ \E j \in Jobs : CancelTask(j) \/ cancel_fails(j)
    \/ load_session \/ save_session \/ end_run
    \/ \E r \in Roots : IF r = Parent THEN delete_parent ELSE delete_child(r)
    \/ \E r \in Roots : Delete(r)
    \/ crash

Spec == Init /\ [][Next]_vars

\* The worker task, each cancellation task and each deletion that has begun
\* are tokio tasks whose calls return, and a run of the parent that is told to
\* stop ends; clients and failures promise nothing.
Fairness ==
    /\ WF_vars(Deliver \/ Work)
    /\ \A j \in Jobs : WF_vars(CancelTask(j)) /\ WF_vars(due(j))
    /\ \A r \in Roots : WF_vars(Delete(r))
    /\ WF_vars(Parent \in gated /\ end_run)

FairSpec == Spec /\ Fairness

-----------------------------------------------------------------------------
(* Properties. *)

WorkerPlaces ==
    {"startup", "scan", "deliver", "parent", "child", "acknowledge", "select", "consider",
     "batch", "bind", "claim", "work"}
DeletionPlaces ==
    {"none", "cancel", "look", "stop", "drain", "pending", "tell", "acknowledge", "remove",
     "gate", "rows", "files"}

WorkerRow ==
    [at : WorkerPlaces, page : SUBSET Jobs, short : BOOLEAN, after : Jobs \cup {0},
     record : Jobs \cup {0}, todo : SUBSET Jobs, batch : BOOLEAN, bound : SUBSET Jobs,
     held : SUBSET Jobs]
DeletionRow ==
    [at : DeletionPlaces, seen : Pending \cup Terminal \cup {"none"}, guarded : SUBSET Jobs]

\* Rows, sessions, the worker and the deletions stay within their types.
TypeOK ==
    /\ job \in [Jobs -> Pending \cup Terminal \cup {"gone"}]
    /\ outbox \in [Jobs -> {"none", "pending", "published"}]
    /\ deferred \subseteq Jobs /\ child \subseteq Jobs
    /\ told \subseteq Jobs /\ lost \subseteq Jobs /\ loop \subseteq SUBSET Jobs
    /\ run \in [Jobs -> {"none", "open", "closed"}]
    /\ parentHere \in BOOLEAN /\ gated \subseteq Jobs \cup {Parent}
    /\ worker \in WorkerRow
    /\ cancel \in [Jobs -> {"none", "cancel", "tell"}]
    /\ del \in [Roots -> DeletionRow]
    /\ faults \in 0 .. MaxFaults
    /\ deleted \subseteq Jobs

\* deliver_terminal_job writes the parent, then the child, and only then is the
\* outbox event acknowledged (subagent_delivery.rs:71-80): however the writes
\* are cut by failures, exits, cancellations and deletions, the child run of an
\* acknowledged result has ended, and the result was written to the parent's
\* snapshot: it is there, or a run of the parent, which saves the snapshot as it
\* read it (session/manager.rs:30-39), has overwritten it.
AcknowledgedMeansTold ==
    \A j \in Jobs :
        outbox[j] = "published" =>
            j \in told \cup lost /\ (run[j] # "open" \/ j \in deleted)

\* "SQLite and PostgreSQL must reject stale snapshot writes and preserve both
\* results" (ReleaseGate.md:792-793): an acknowledged result stays.
\* It does not hold (README, section 6).
AcknowledgedStaysTold == \A j \in Jobs : outbox[j] = "published" => j \in told

\* A deletion of the parent closes admission, drains the sessions' work and
\* then removes rows before files (sessions.rs:449-555): after it no job row,
\* no child and no result is left, and no claimed job, delivery, cancellation
\* task or run of the parent is still at work that could write one.
ParentDeletionComplete ==
    ~parentHere =>
        /\ \A j \in Jobs : job[j] = "gone" /\ outbox[j] = "none"
        /\ child = {} /\ told = {}
        /\ worker.held = {} /\ ~Delivering /\ \A j \in Jobs : cancel[j] = "none"
        /\ loop = {}

\* wait_for_background_work (sessions.rs:531) closes the child to the worker for
\* good: from the drain to the removal no batch is bound to it and no delivery
\* of the worker writes to it, although batches and deliveries go on around it.
RemovalFindsNoBoundWork ==
    \A j \in Jobs \cap Roots : del[j].at \in {"pending", "tell", "remove"} => ~ChildWork(j)

\* The cursor of reconcile_terminal_jobs moves past a record before delivering
\* it and returns to the front after a short page (subagent_delivery.rs:70, 88),
\* so a record that keeps failing does not starve its siblings: a pending event
\* whose child exists is delivered, unless its child or the parent is deleted.
SiblingsDelivered ==
    \A j \in Jobs :
        (outbox[j] = "pending" /\ j \in child /\ run[j] # "none")
            ~> (outbox[j] # "pending" \/ j \notin child)

\* A deletion that has begun ends: its gates refuse the tokens it then waits
\* for (sessions.rs:483-543), so neither the worker nor a job can keep it waiting.
DeletionEnds == \A r \in Roots : del[r].at # "none" ~> del[r].at = "none"

\* "A direct child finishes pending parent delivery before its binding
\* disappears" (JobStorage.md:101): a deleted child's result was delivered.
\* It does not hold (README, section 6).
DeletedChildDelivered == \A j \in deleted : parentHere => outbox[j] = "published"

\* "no late result or recreated child rows" (JobStorage.md:137): a child whose
\* deletion completed does not come back.
\* It does not hold (README, section 6).
DeletedStaysDeleted == \A j \in deleted : j \notin child

\* What a deletion removes nobody works on, and a parent goes last: after its
\* children, with nothing left to deliver (delete_async).
RemovedClean == TypeOK /\ RemovalFindsNoBoundWork /\ ParentDeletionComplete
==============================================================================
