# Centaeris: TLA+ models and proofs

Centaeris runs coding agents. A local host (`packages/runtime`) or a hosted
server (`packages/runtime_server`) drives the agent core (`packages/core`);
what must survive a crash is kept in a database, in session logs and in
snapshots, and no transaction spans them. This directory models the protocols
that keep these stores in step: who may touch a job, a session, a file or a
sandbox when, what a caller may conclude from an answer, and what is eventually
guaranteed.

Run everything from this directory: `tlc -config RuntimeJobs.cfg MCRuntimeJobs`,
`tlapm RuntimeJobsProofs.tla`, and so on; `PROJECT.json` lists runs, mutants,
the map from definitions to source lines, hazards and theorems.

## 1. Inventory

| part | state | operations | what makes it hard | module |
|---|---|---|---|---|
| Job store (`sqlite_reliability.rs`, `reliability.rs`) | `runtime_jobs`, `runtime_job_outbox`, wake and stop events | schedule, claim, start, renew, yield, wake, complete, fail, retry, cancel, stop, reclaim, acknowledge | late workers with old tokens and clock readings, dead workers, wakes that meet an active job | `RuntimeJobs`, `JobBackoff`, `JobLifecycle` |
| Job connection (`job_store.rs`, `sqlite_job_connection.rs`) | owner lock, epochs, permits, queue | execute, replace a retired epoch, submit, close | dropped callers, failed commits, shutdown at any await | `JobConnection` |
| Store actor (`session/store/actor.rs`) | bounded channel, deadlines, shared budget | send, send_blocking, settle, close | timeouts of calls that still execute | `StoreActor` |
| Run registry (`runtime_server/lease.rs`) | active runs, deletion gates, work trackers | start, stop, finish, begin and end deletion, begin work, drain | finish in two steps, deletions and drains that await the same work | `SessionRegistry` |
| Sub-agent jobs (`subagent_scheduler.rs`, `subagent_delivery.rs`, `sessions.rs`) | job rows, outbox, parent snapshot, child logs | scan, materialise, claim, run, project, end child, acknowledge, delete | three writes with crashes between, deletion against all of it | `ChildDelivery` |
| Turn inputs (`sqlite_turn_supplement.rs`, `driver.rs`, `loop_runtime.rs`) | queue row, log, snapshot | submit, claim, write, commit, remember, acknowledge, close, tear down | commit, snapshot and acknowledgement are separate, attempts may overlap | `TurnInputs` |
| Runtime waits (`loop_runtime.rs`, `tool_execution.rs`) | snapshot, checkpoint, wait and hook events | save, resolve, run hooks, consume, resume, project | four stores, crash after any write | `RuntimeWait` |
| Tool calls (`tool_execution.rs`, `agent_runtime.rs`) | intent, receipt, tool_call, tool_result, terminal | execute a batch, recover, close the run | at most one execution, whatever crashes | `ToolReceipts` |
| File tools (`layer/mutation.rs`, `hosted_execution/memory.rs`) | process lease, claim row, file, mutation record | guard, read, record, replace, release | claims that expire, owners that share a name | `FileMutation` |
| Session logs (`message_log.rs`, `session_catalog.rs`) | logs, cached reducer state, index | append, mark, refresh, query, rewrite, rebuild | two stores, torn tails, failed transactions | `SessionCatalog` |
| Session list (`paging.rs`, `sessionCatalogClient.ts`) | numbered entries, windows, cursor | publish, prune, page, follow changes | changes between any two requests, forgotten deletions | `CatalogFeed` |
| Hosted worker (`worker.py`, `lease_renewal.rs`) | job row, deadline, requests in flight | claim, heartbeat, complete, yield | late and lost answers | `WorkerLease` |
| Hosted sandboxes (`residency.rs`, `residency/retained.rs`, `residency/retirement.rs`) | ledger, containers, receipts | reserve, dispatch, create, confirm, reconcile, clean, retire | a ledger that must cover what another system holds | `EnvironmentAllocation` |
| Hosted capacity waits (`capacity_wait.rs`, `preparation_wait.rs`) | waiters, generations, locks | try, register, yield, release, wake | a release between the try and the registration | `CapacityWait` |

How they interact. The scheduler and the worker pool call the job store through
the connection; each store operation is one transaction run by one closure. The
store actor and the connection share one budget of accepted operations. A
transaction that finishes a job queues its terminal event in the outbox;
delivery reads it, tells the parent's snapshot and the child's log, and
acknowledges it. A turn reads inputs from its queue, runs tools with an intent
and a receipt each, and may end waiting for jobs whose results it takes up when
it is run again. Deleting a session stops its jobs, drains its work and delivers
what is pending. Every record reaches a session log, which the catalog indexes
and the desktop's list follows. On the hosted server a worker holds a job by a
lease it renews over HTTP; preparing its sandbox may find the host full, and the
job then yields and waits for room.

Not modelled: prompt compaction, model clients and their polling, MCP, plugins
and skills, operating-system processes and terminals, schedules, the control
plane, the document processor, front ends, build scripts. `PROJECT.json` lists
each with the reason: their state is the operating system's or a remote
service's, or they are formatting and validation without a protocol.

## 2. Modules

Besides the modules named above: `RuntimeJobsProofs`, `JobConnectionProofs`,
`StoreActorProofs`, `SessionRegistryProofs`, `ChildDeliveryProofs`,
`ToolReceiptsProofs`, `FileMutationProofs` and `WorkerLeaseProofs` hold theorems
(section 4), and the `MC` modules hold instances for TLC.

Protocols that share no state are checked side by side in one `MC` module: the
variable `part` is chosen in the initial state, and only the protocol it names
moves, so a run explores the sum and not the product of their state spaces.
`MCTurn` and `MCTurnProgress` hold the protocols of a turn, `MCRecords` those
that write files, `MCHosted` the hosted ones, `MCJobProgress` the job connection
and jobs whose workers die; `MCSessionRegistry` and `MCCapacityWait` hold two
instances of one module. Similarly `overlap` (`ToolReceipts`, `RuntimeWait`),
`superseded` (`TurnInputs`) and `memory` (`FileMutation`) are chosen once: whether
an execution that lost its lease may go on beside its successor, and whether the
path lies in Agent Memory.

### RuntimeJobs

`job[j]` holds the columns of the row that steer the queue: `status`, `runAt`
(`run_at_ms`), `owner` (`lease_owner`), `expires`, `heartbeat`, `reclaims`
(`lease_reclaim_count`) and `notBefore` (`lease_reclaim_not_before_ms`); 0 is
NULL. `wakeAt` and `consumed` are the wake events and their consumption
markers, `outbox` the terminal record, `stopMarks` the service-stop events.
`minted`, `ended`, `settledBy`, `owed` and `retryAt` are history; only the
freshness of a claim token reads them.

An immediate SQLite transaction excludes every other, so each operation is one
action. Its caller read the clock earlier: an action carries any time
`at \in 1..now`. A worker presents any token ever issued for the job, so late
and superseded workers are ordinary behaviour, and a crashed worker is one that
presents nothing. An operation the code refuses (unknown token, expired lease,
wrong status, conflicting wake) rolls back and is the absence of a step.
A claim and a reclaim choose rows by `ORDER BY ... LIMIT`; rows that tie are
chosen freely. Job payloads, error texts and `retry_count`, which no operation
compares, are left out. The delay a failing worker asks for is any time.

### JobLifecycle

The status table is in the source but no store consults it. The refinement
`ImplementsLifecycle` (the status column as the abstract state) shows that the
transactions respect it, several jobs moving in one transaction included.

### JobConnection

A call is at one *place*: waiting for the owner lock, draining a retired epoch,
opening its replacement, waiting for a local and then a shared permit, being
admitted, queued, running, done. Each await in the code is a place, and
`abandon` may drop the caller there; a queued closure then runs on without a
waiter. Permits and tracker tokens are owned values in the code, so they are
derived from where the calls are. `finish_closure` chooses one of the ways a
transaction can end (BEGIN, statements, ROLLBACK, COMMIT or the synchronous
setting fail, or a panic at each point) together with what SQLite may then have
in the file; outcome, health of the connection and answer follow as in the
code. A panic the closure does not catch ends the connection's thread (`lost`);
calls queued behind it are then answered by `reply_unavailable`, as read-only or
as unknown, and a caller that waits for that answer retires the epoch.
`close_store` may come at any time.

Closing and opening a connection may fail; a failed close makes later calls
that need a replacement fail as well, as in the code. tokio-rusqlite is external: one thread, closures
in order. `Limit` and `Budget` stand for the two semaphores of 129 permits that
the local host passes (`RUNTIME_STORE_ACCEPTED_WORK_LIMIT`).

### StoreActor

An operation moves through `phase` (asking, admitted, in the channel, running,
ended); `answer` is what its caller was told. The caller's deadline is monotonic
time, the actor's look at it wall time, so either may find it passed without the
other. `accepted` is history: the order of the channel, which defines what a
settling read must come after.

### SessionRegistry

One mutex guards three maps; each hold of it is an action. `finish()` finds the
run, closes its control outside the mutex, removes the entry and notifies: four
steps. A deletion waits on a condition variable and then on the trackers it has
cloned; the drain waits on all of them. A lease is an index into `leases`,
because an entry may belong to another run by the time it is removed. In the
code a run calls `finish()` when its registration is dropped, once, and only logs
a failure (`agent_runtime.rs:180-189`): `drop_agent_run`.

### ChildDelivery

The worker task is at one place at a time: scanning a page of the outbox,
telling the parent, ending the child, acknowledging, choosing a parent, creating
children, binding work, claiming. `del` follows a deletion through cancel, look,
stop, drain, pending delivery, removal. What the scheduler read before an await
is kept with it and used after, as in the code. `consider_stops` stands for the
jobs the scheduler cancels because their parent run was stopped and for those it
claims and fails because their work packet is refused. A run of the parent
(`load_session`, `save_session`, `end_run`) reads the snapshot and saves its copy
without comparing, while deliveries add results to the stored one; `lost` is
history: results such a save has removed. Leases and times are those of
`RuntimeJobs` and appear here as a lost claim and as a job that is not due.

### TurnInputs

An attempt is one claim of the run's lifecycle job. Its loop takes inputs from
the queue, writes their records, freezes the members of the next request in the
snapshot, commits it to the log (fenced by the lease), remembers it in the
snapshot (not fenced), acknowledges the queue, and may find the answer final, in
which case taking nothing closes the queue. With `superseded` an attempt may go
on after its lease was lost.

### RuntimeWait

The pending batch in the snapshot, the checkpoint, the wait-result events and
the hooks' intents and receipts are separate stores; an attempt is a sequence of
single writes and may crash after each. Projection writers add child results to
the snapshot by compare-and-save while the loop saves without comparing. A
request to answer now and a cancellation may come at any time and wake the run
(`request_control`); a job that is not over then gives an abandoned result. Times
matter only as "whose": an event carries the number of the attempt that made it.

### ToolReceipts

An attempt writes intent, tool_call record, receipt and tool_result record for
each call and runs concurrent calls in any order; a later attempt recovers what
it finds, and a closer closes what is open before it writes the run's terminal.
The intents of two attempts differ in `recorded_at_ms`, so the second writer is
refused; that refusal is what keeps a tool from running twice. Post-tool hooks
are in `RuntimeWait`.

### FileMutation

One path, writers in one or two processes. A writer takes the process's lease,
then the claim row with its time to live, reads, records the mutation, writes in
place or, for Agent Memory, compares and renames under a lock file, and releases
by owner name. The owner name is the agent run (`main.rs:2562`,
`agent_runtime.rs:1928`): two writers of one run in one process share it, and so
do a superseded attempt of a hosted run and its successor in another process,
against whom the process's lease does not help. `Process` and `Owner` are any
functions of the writers, and the history variable `shared` notes the runs that
have held the guard in two processes at a time. Both stores treat the claim
alike (`sqlite_reliability.rs:354-499`, PostgreSQL `reliability.rs:478-507`).
Programs other than these tools, `DeleteFile`, and the lease pins that fence the
hosted writes of a superseded attempt (`residency/retained.rs:258`) are not
modelled, so the model allows more than the hosted server does.

### SessionCatalog and CatalogFeed

A log is a sequence of records and may end in a torn line. Marking a log dirty,
appending each record and refreshing the index are separate steps that may fail
or be cut off by a crash; a query refreshes dirty logs before it answers. The
cached reducer state is extended by the tail of the file when it can be.
`CatalogFeed` is the next stage: numbered entries, pages, an answer about
changes that ends in a reset when the cursor is too old, and the client that
starts to observe before it loads. The first two pages are requested together;
when one fails the other stays under way outside the client's queue (`stray`) and
is merged whenever it comes. Scopes by working directory and the order of
pinned sessions are left out.

### WorkerLease

The worker's main thread and its heartbeat thread, the requests in flight, the
answers in flight and the job row. A request may be carried out after its sender
gave up. The worker's deadline counts from the start of the last confirmed
request, less a margin that stands for the drift of two clocks.

### EnvironmentAllocation and CapacityWait

The ledger of one host against Docker, which may finish a creation after the
caller is gone and, with `Vanishes`, may lose a container. A process that
prepares, cleans or retires holds advisory locks and acts on an inventory it
took earlier. Left out: pausing and memory rotation, shared-memory samples,
several hosts, the recovery of a lost host. The runs of an environment are those
tried between two cleanups, and a forced removal of an orphan is a vanishing.
`CapacityWait` keeps, instead of generation numbers, whether the clock has
advanced since a waiter registered. A registration that finds the job's row locked
by the job's own earlier request records nothing (`register_environment_locked`;
`unhinted` is history) and leaves the job to its timer, as the comment at
`residency.rs:113-116` intends. Notifications are hints and are left out, so
nothing depends on them.

## 3. Runs

| run | instance | checks |
|---|---|---|
| `jobs` | 1 job, 2 wake sources, lease 1, 1 reclaim, clock to 4, 3 claims | types, fencing, crash budget, outbox, stop marks, wakes, backoff, finality, exclusivity, status table |
| `job_connection` | 3 calls that read or reclaim (the write with most ways to end), 2 epochs, 2 local and 2 shared permits, symmetric | honest outcomes, one epoch at work, settlement barrier, closed means idle |
| `job_progress` | 2 calls that read or reclaim, 1 permit; 2 jobs whose workers die, 2 reclaims, 1 row a call | every call and shutdown ends; leases are recovered, poison jobs retired |
| `store_actor` | 1 synchronous, 1 asynchronous, 1 settling operation, channel of 1, budget of 2 | true refusals, settlement barrier, drain on close, calls and close return |
| `session_registry` | 2 sessions, 1 work, 2 deletions, 1 lease, 2 trackers; and 2 finishers over 2 leases | exclusion of deletions, runs and work, finish and stop, deletions get through unless a run could not be finished |
| `child_delivery` | 2 jobs, one may be cancelled, a run of the parent, deletion of a child and of the parent, pages of 1, 2 parallel, 1 fault | acknowledged means told, removal finds no bound work, parent deletion is complete |
| `child_progress` | 2 jobs, deletion of the first child, the second may be cancelled, pages of 1, 1 fault | a failing record does not starve its sibling, deletions end |
| `turn` | 2 tool calls, 2 attempts, 1 closer, 1 crash; 2 inputs, 2 attempts; 2 waits, 2 attempts, 1 crash, answer-now or cancellation; overlapping or not | tools and hooks run once, records agree, inputs are read once, in order, and not lost, waits resume with their results |
| `turn_progress` | the same protocols, no overlap; 2 crashes of tool attempts | inputs are read, waits resume, logged calls close |
| `records` | 4 writers, 2 runs, 2 processes, 1 crash, 1 expiry; 1 log of up to 6 records with an ended run, 2 faults; 2 logs of up to 2, 1 fault; 2 sessions, windows of 1, retention of 1, 4 changes, or 2 changes and a failed request | claims, recorded writes, whole memory files; catalog, cache and locations; the client's list |
| `hosted` | 2 owners, 2 heartbeats each, 2 yields, clock to 5; 3 executions, 2 environments, full or per run; 2 executions, 1 environment, retained and retired | confirmed means leased, late yields; ledger covers containers, limits, cleanup receipts |
| `capacity` | 3 jobs, room for 2, no timers; 2 jobs, room for 1, timers, a retirement, 2 lost connections or locked rows | no lost release, every job is prepared |

All pass. In `PROJECT.json` each property has a mutant, a plausible bug of the
code under which the same run reports a violation.

**Bounds.** Jobs never read each other's rows, so one job shows everything
except the batch limits, which get two jobs and a limit of one. Three claims are
a late worker, its successor and a third lease after a further crash; with one
permitted reclaim the budget is both used and exceeded. Three calls on the
connection are a writer in doubt, a dropped or queued follower and the read that
settles; two epochs are a retired connection and its replacement. A page of one
makes two jobs need two pages, so the scan's cursor matters. Two attempts and
one crash put the crash between any two writes and let the second attempt find
every intermediate state; two closers or a second crash add only repetitions of
idempotent steps. Four writers are two alike in one process, and in the other
one of another run and one of the same run, the superseded attempt. A log of six
records holds an ended run, the tombstone of its rewritten input and the run that
replaces it, started and ended, so a rewrite meets rows that were projected. The
child run that may be cancelled is the one that is deleted in `child_delivery`
and its sibling in `child_progress`, where the parent has no run. A window, a change limit and a retention of one put a client at each edge with two
sessions. Two heartbeats are an answered and a late one. Three executions are
two attempts on one environment and a competitor for room. Where a bound cuts a
counter (clock, claims, versions, changes, faults), its name starts with `Max`.

`CHECK_DEADLOCK FALSE` is used where the system may stop: clocks, claims and
attempts run out, or every client is served. The connection and the two child
runs check deadlock.

**Fairness.** `RuntimeJobs.CrashFairness`: time passes and the loops poll faster
than leases expire (250 ms against 120 s). `JobConnection` and `StoreActor`: the
threads and tasks run, and waiting for a semaphore or the owner lock is strongly
fair, because tokio queues waiters in order. `SessionRegistry`: a run ends and
calls `finish()` once, accepted work ends, woken threads run; nothing is assumed
of a `finish()` that failed. `ChildDelivery`: worker, cancellation and deletion tasks run and
their calls return; failures are bounded by the number of faults.
`TurnInputs`, `RuntimeWait`, `ToolReceipts`: a claimed attempt goes on, an
expired lease is claimed again, a stopped run is closed. `CapacityWait`: workers
claim what is due and calls end. Nothing is assumed of clients, who may drop a
call at any await, nor of failures.

Two scopes are deliberate. `child_progress` deletes the child only: clients that
repeat the deletions of a parent and a child for ever can keep gating each
other's delivery, which is their doing. `ContenderIsWoken` and
`EveryJobPrepared` are checked without retirements and lost connections: a lock
that ends with its connection signals nobody, and the contender is left to its
timer by design. So is a job whose registration found its row locked, which
`ReleaseIsSeen` exempts.

## 4. Proofs

Each proof module extends the module of its component, defines an inductive
invariant `IInv`, shows `Init => IInv` and `IInv /\ [Next]_vars => IInv'`, one
lemma per action or group of alike actions, and draws the theorems from
`Invariance == Spec => []IInv`. They hold for every value of the constants that
satisfies the named assumption of the module; TLC evaluates those assumptions in
the runs. A bound whose name starts with `Max` is any natural number there.

**`RuntimeJobsProofs`** (positive lease, natural budget, natural delays; any jobs
and wake sources): `TypeCorrect`, `Fencing`, `TerminalDelivery`,
`FiniteCrashBudget` and `NoLostWake` are the invariants of `jobs`, `Finality` and
`Exclusivity` its action properties, and `Refinement` says that the store
implements `JobLifecycle`. `LateOwnerFenced`, for instance, needs to know that
every ended or settling token was minted, that a claim's token is newer than all
of them, and that an active row carries the newest one. `IInv` is `TypeOK` and,
for every job, `JobInv`: token history, lease, delivery, budget and wake-ups. It
speaks about one job at a time, so two lemmas carry all actions: a job the step
leaves alone keeps its invariant (the clock only grows), and a touched job is
treated row by row. Claims and reclaims, which move a set of jobs, use the row
lemmas for every member of the set. The action properties and the refinement
follow from one case analysis of what a step does to a job.

**`JobConnectionProofs`** (any calls, epochs, local and shared permits):
`HonestAnswers`, `Epochal` and `Settlement`, the three invariants of
`job_connection`. Added to them: which epoch a call has by its place, that an
epoch closes only after its admission is shut, who owns the lock, that the queue
of an epoch holds exactly its queued calls, that one closure runs on an epoch and
none behind a transaction in doubt or on a thread that died, and that accepted
work stays ahead of a call made after it. The last is what makes the settlement barrier inductive: in the
queue, work that was accepted earlier has a smaller index.

**`StoreActorProofs`** (any finite sets of callers, channel capacity and budget):
`Answering`, the invariant of `store_actor`. `IInv` says that the channel is the
end of the order of acceptance, that everything before it but the last taken has
settled, and that an operation is in that order exactly when it is past its
caller. The budget needs that a move of one operation adds at most one holder,
which rests on the library's facts about cardinality.

**`SessionRegistryProofs`** (any sessions, runs, works, deletions and finishers):
`Exclusion`, the invariant of `session_registry`, and `Lifetime`, for the action
property `RunLifetime`, which the run checks on two leases within
`FinishingRuns`. Added: what a `finish()` between its two holds knows of its lease,
and that a deletion or drain that waits still has before it the tracker of every
work that is left.

**`ChildDeliveryProofs`** (any jobs numbered in queue order, roots, page size,
parallelism, faults): `Acknowledging` and `Removal`, the two invariants of
`child_delivery`. The properties mention neither who is writing nor who holds a
gate, so `IInv` adds what the worker and each deletion have established where
they are: a row in delivery is terminal, told before the child is ended and ended
before it is acknowledged; a deletion past its drain has no work on its child;
the gates of the parent's deletion are no other deletion's, and after its drain
nobody works for the parent. That others cannot undo this is one relation
(`Grows`: rows only move on, results stay told, an ended run stays ended or its
child is deleted) which every step but `parent_rows` satisfies. A save by a run of
the parent can take a told result out of the snapshot; `Acknowledging` says that
this alone can.

**`ToolReceiptsProofs`** (any batch without repetition, attempts, closers,
crashes, overlapping or not): `EffectOnce` and `Agreement`. Added: a call an
attempt has yet to run carries the attempt's own intent and has not run; a result
in hand is the receipt; every call is still owed or reported as logged; and,
without overlap, one actor works at a time.

**`FileMutationProofs`** (any writers, in any processes and runs): `Guarded` and
the action property `Observed`. Added: one writer of a process is past the lease,
so that two writers with the guard and the claim's owner name are one unless the
run is in `shared`, and what a writer has seen is on disk while no claim has
expired and no run is in `shared`.

**`WorkerLeaseProofs`** (any lease longer than its margin): `Knowledge` and the
action property `EndsOnce`. Added: the worker's window lies within the row's
lease, and so does the one that a confirmation on its way would open; an owner
sends a request that ends its lease only after its last renewal is over, so a
late one finds no window open.

Only model-checked:

* all liveness properties (`ENABLED` and fairness are out of the prover's reach);
* the arithmetic of `JobBackoff`, whose powers the provers do not interpret (the
  proofs take any natural delay);
* `TurnInputs`, `RuntimeWait`, `SessionCatalog`, `CatalogFeed`,
  `EnvironmentAllocation` and `CapacityWait`: their safety properties hold in the
  instances of section 3, and no inductive invariant has been worked out.

## 5. What is left out of the models

* Job store: `dead_letters` rows, the combined writes (object and completion,
  dead letter and failure, object and schedule), which are the same row changes
  in a larger transaction; job ids that share an idempotency key.
* Connection: contents of reads, migration at opening, metrics, deadlines (no job
  operation sets one).
* The worker pool's panic recovery and several batches of one claim; the service
  stop's reconciliation at start.
* Turns: prompt assembly and compaction, approval, the permits of a tool batch,
  host events that share the input queue, attachments.
* Tool calls: two intents of one call always differ in `ToolReceipts`. In the
  code they differ by `recorded_at_ms` (`tool_execution.rs:1132`), so two attempts
  that reach the same call in the same millisecond would write equal intents, and
  the second would not be refused.
* Logs: archives and imports.
* Hosted: the HTTP surface, event stream, terminal dispatcher, lifecycle
  reconciler, and what section 2 lists for the sandboxes.
* Clocks of one host never go back. `i64` overflow of times is out of reach of
  real clocks.

The models cover the protocol code; most of the repository (interfaces, services
in Python and TypeScript, network clients, tests of them, formatting and
validation) has no state that several actors change, and a model of it would
restate it.

## 6. Where the code and its documents disagree

Met while modelling. Each statement is in its module, or is the stated condition
of a property, and no run lists it, since it fails; setting it as the only
property of the instance named here shows the trace.

* `SessionRegistry.DrainReturns`: dropping a deletion registration reopens a
  tracker with work in it (`lease.rs:433`) also when a service drain has closed
  and awaits it. The drain then runs into its limit and reports "Accepted
  background sequences remain unfinished" (`runtime_server_transport.rs:184`)
  with none left. (`session_registry`, under `FairSpec`)
* `SessionRegistry.DeletionAlwaysClears`: `finish()` leaves a run in its session
  when its control cannot be closed, and the test
  `failed_control_close_keeps_ownership_until_a_successful_retry` (`lease.rs:596`)
  expects a retry; the one caller is a `drop` that logs the error
  (`agent_runtime.rs:180-189`). The session then stays busy and a deletion of it
  waits. `DeletionClears` excepts such a run. (`session_registry`)
* `ChildDelivery.AcknowledgedStaysTold`: a run of the parent saves the snapshot it
  read without comparing (`session/manager.rs:30-39`), so a result delivered and
  acknowledged in between is removed. `ReleaseGate.md:792-793`: "SQLite and
  PostgreSQL must reject stale snapshot writes and preserve both results".
  `AcknowledgedMeansTold` says what is left: the result was written.
  (`child_delivery`)
* `ChildDelivery.DeletedChildDelivered`: the worker holds tokens for the jobs it
  listed but claims as many due jobs of the parent, not those
  (`subagent_scheduler.rs:413-469`); a child whose deletion has read its job as
  queued may then be removed while the job is leased. `JobStorage.md:101-102`:
  "A direct child finishes pending parent delivery before its binding
  disappears." (`child_delivery` with `Roots = {2}` and `PageSize = 2`)
* `ChildDelivery.DeletedStaysDeleted`: the scheduler creates the children of a
  page of jobs it read earlier (`subagent_scheduler.rs:237-289`); one deleted
  since is created again. `JobStorage.md:136-137` asks for "no late result or
  recreated child rows". (`child_delivery`)
* `TurnInputs.CompletedReadsAll` without its condition `~superseded`: an attempt
  that lost its lease saves the snapshot after its successor read it; the
  successor then has nothing to acknowledge and completes with the queue open
  (`loop_runtime.rs:1423`). `SessionEvents.md:336-338`: "This fence coordinates
  Final and a racing input". (`turn`)
* `RuntimeWait.ConsumedWaitResumes`: after a crash between consuming the
  checkpoint and saving the snapshot, the checkpoint is restored from the pending
  batch (`loop_runtime.rs:403`) and the wait resolved again with a new time, which
  the event store refuses. `ReleaseGate.md:791` asks for "exactly-once consumption
  after both waited Jobs complete". (`RuntimeWait` with one wait, two attempts and one crash)
* `RuntimeWait.PendingNotResurrected` without its condition `~overlap`: the turn
  loop saves without comparing (`loop_runtime.rs:823`), so an execution that goes
  on after losing its lease can bring a consumed batch back. (`turn`)
* `CatalogFeed.NothingHidden` without its condition on failures: `initial()` keeps
  its revision when a page then fails, and later calls ask only for newer changes
  (`sessionCatalogClient.ts:76`), although "concurrent changes cannot be lost" is
  the purpose (`:75`). (`records`)
* `CatalogFeed.ShownIsAlwaysCurrent`: `Promise.all` rejects with the first page
  that fails (`sessionCatalogClient.ts:96`); the next operation starts while the
  other page is under way, and that page, served before later changes, is merged
  over them. "all requests share one queue" (`:24`). `ShownIsCurrent` excepts a
  view into which such a late page was merged. (`records`)
* `FileMutation.ClaimHeldByWriter`: a claim is adopted and released by the name of
  the run, so an attempt that lost its lease and its successor elsewhere can
  release each other's claim (PostgreSQL `reliability.rs:485`, `494-496`).
  `mutation.rs:240-241`: "Reject a concurrent local writer before adopting a
  same-owner durable claim. Otherwise its failed acquisition would release the
  active writer's claim." `ClaimHeldWhileWriting` and `WriteReplacesObserved`
  except runs at work on the path in two processes; for files of the hosted
  environment the pins of section 2 prevent the write. (`records`)
* `ToolReceipts.TerminalIsClosed` without its condition `~overlap`: open calls are
  read under one lock and the terminal written under another
  (`message_log.rs:918`), while the attempt of a cancelled child works on until
  its next heartbeat; "AgentRun terminal requires every ToolCall to be closed"
  (`message_log.rs:921`). (`turn`)
* `EnvironmentAllocation.GlobalCoversCreation`: the host's lock is dropped after
  the reservation (`residency/retained.rs:250`); `SessionEnvironments.md:86` says
  that it covers dispatch, creation and confirmation. The properties of `hosted`
  hold without that. (`hosted`)
