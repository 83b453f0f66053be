------------------------------ MODULE TurnInputs ------------------------------
(***************************************************************************)
(* Inputs that reach an AgentRun while it runs: the durable queue of one   *)
(* run (sqlite_turn_supplement.rs, postgres_store/turn_supplement.rs), the *)
(* TurnControl of the process that holds the lifecycle job (driver.rs),    *)
(* the loop that reads the inputs into main model requests                 *)
(* (loop_runtime.rs) and what it keeps across a crash: the session log,    *)
(* which is fenced by the job's lease, and the runtime snapshot, which is  *)
(* not.                                                                    *)
(*                                                                         *)
(* An input is the id of a user supplement; the queue holds ids in the     *)
(* order of their sequence numbers.  Host events, which share the queue    *)
(* and follow the supplements of a take, are left out.  A turn is a        *)
(* number, new_turn_id the next one.  An attempt is one claim              *)
(* of the lifecycle job: it stands for the lease owner and for the claim   *)
(* token, which are both new with every claim.                             *)
(***************************************************************************)
EXTENDS Integers, Sequences, FiniteSets, SequencesExt

CONSTANTS
    Inputs,      \* ids that clients submit
    Capacity,    \* MAX_PENDING_TURN_SUPPLEMENTS
    MaxAttempts, \* bound: claims of the lifecycle job
    MaxTools,    \* bound: responses that call tools
    Overlaps     \* the values of superseded, a subset of BOOLEAN

QueueBounds == Capacity \in Nat \ {0} /\ MaxAttempts \in Nat \ {0}

VARIABLES
    queue,    \* the queue's row
    job,      \* the lifecycle job and the run's outcome
    log,      \* committed main requests: turn and input_uptake
    written,  \* inputs with a record in the session log
    snap,     \* the session's runtime snapshot
    loop,     \* attempt -> the process that runs it
    turns, tools,
    superseded \* whether an attempt may outlive its lease

vars == <<queue, job, log, written, snap, loop, turns, tools>>

Attempts == 1..MaxAttempts
NoTurn == 0
InitialTurn == 1
Nothing == [turn |-> NoTurn, ids |-> <<>>]
Absent == [at |-> "none", take |-> 1, turn |-> NoTurn, committed |-> {}, prepared |-> Nothing,
           deferred |-> <<>>, claimed |-> {}, consumed |-> {}, ready |-> <<>>, next |-> <<>>,
           basis |-> [committed |-> {}, prepared |-> Nothing, tools |-> FALSE, wait |-> FALSE],
           batch |-> <<>>, fresh |-> <<>>]

Running == {"begin", "head", "take", "reconcile", "write", "load", "save", "commit",
            "record", "remember", "ack", "respond", "final"}

Init ==
    /\ queue = [accepting |-> TRUE, entries |-> <<>>, dedupe |-> <<>>, closed |-> "no"]
    /\ job = [owner |-> 0, attempts |-> 0, cancelled |-> FALSE, lost |-> 0, over |-> "no"]
    /\ log = <<>> /\ written = {}
    /\ snap = Absent.basis
    /\ loop = [a \in Attempts |-> Absent]
    /\ turns = InitialTurn /\ tools = 0
    /\ superseded \in Overlaps

Ids(entries) == {entries[k].id : k \in DOMAIN entries}
Admitted == Range(queue.dedupe)
Read == UNION {Range(log[k].ids) : k \in DOMAIN log}
Sequence(i) == CHOOSE k \in DOMAIN queue.dedupe : queue.dedupe[k] = i

\* validate_active_job with a lease.
Holds(a) == job.owner = a /\ job.over = "no"

Step(a, from, record) ==
    /\ loop[a].at = from
    /\ loop' = [loop EXCEPT ![a] = record]

(***************************************************************************)
(* The queue's row.                                                        *)
(***************************************************************************)

\* A client submits i.  The job's row is active until the run is torn down.  A
\* repeated submission is answered from the retained digests and changes nothing.
enqueue_turn_supplement(i) ==
    /\ ~job.cancelled
    /\ i \notin Admitted
    /\ queue.accepting
    /\ Len(queue.entries) < Capacity
    /\ queue' = [queue EXCEPT !.entries = Append(@, [id |-> i, token |-> 0]),
                              !.dedupe = Append(@, i)]
    /\ UNCHANGED <<job, log, written, snap, loop, turns, tools>>

\* The entries that a claim by attempt a takes over: those it has not claimed.
Claimed(a) ==
    LET free == SelectSeq(queue.entries, LAMBDA e : e.token # a)
    IN  [k \in DOMAIN free |-> free[k].id]

claimed_queue(a, close) ==
    LET shut == close /\ queue.entries = <<>>
    IN  [queue EXCEPT !.entries = [k \in DOMAIN @ |-> [@[k] EXCEPT !.token = a]],
                      !.accepting = @ /\ ~shut,
                      !.closed = IF shut THEN "safe_point" ELSE @]

\* What acknowledging ids leaves: the store refuses an id that is pending under
\* another claim, and answers a repeated acknowledgement without a change.
Acknowledgeable(a, ids) ==
    LET matched == {k \in DOMAIN queue.entries : queue.entries[k].id \in ids}
    IN  matched = {} \/ (/\ Cardinality(matched) = Cardinality(ids)
                         /\ \A k \in matched : queue.entries[k].token = a)

acknowledged_queue(ids) ==
    [queue EXCEPT !.entries = SelectSeq(@, LAMBDA e : e.id \notin ids)]

request_cancel ==
    /\ job.over = "no" /\ ~job.cancelled
    /\ job' = [job EXCEPT !.cancelled = TRUE]
    /\ UNCHANGED <<queue, log, written, snap, loop, turns, tools>>

\* The worker's teardown of a terminal run.
teardown ==
    /\ job.over # "no" /\ queue.closed # "agent_run_terminal"
    /\ queue' = [queue EXCEPT !.accepting = FALSE, !.entries = <<>>,
                              !.closed = "agent_run_terminal"]
    /\ UNCHANGED <<job, log, written, snap, loop, turns, tools>>

(***************************************************************************)
(* Attempts: claims of the lifecycle job, and how they end.                *)
(***************************************************************************)

\* The lease of the last attempt was given back or has run out.
Claim(a) ==
    /\ job.over = "no" /\ a = job.attempts + 1
    /\ superseded \/ \A b \in Attempts : loop[b] = Absent
    /\ job' = [job EXCEPT !.owner = a, !.attempts = a]
    /\ loop' = [loop EXCEPT ![a] = [Absent EXCEPT !.at = "begin"]]
    /\ UNCHANGED <<queue, log, written, snap, turns, tools>>

claim_job(a) == ~snap.wait /\ Claim(a)

\* The user answers the question the run waits for, or its job is done.
resume_job(a) == snap.wait /\ Claim(a)

\* The process dies.  Bound: not in the last attempt.
crash(a) ==
    /\ loop[a].at \in Running /\ a < MaxAttempts
    /\ loop' = [loop EXCEPT ![a] = Absent]
    /\ UNCHANGED <<queue, job, log, written, snap, turns, tools>>

\* An error of a store call, a refused fence, or the cancellation the loop
\* polls ends the loop; the run's terminal record is fenced by the lease.
end_loop(a) ==
    /\ loop[a].at \in {"head", "take", "reconcile", "write", "save", "commit", "ack", "final"}
    /\ loop' = [loop EXCEPT ![a] = Absent]
    /\ job' = IF Holds(a) THEN [job EXCEPT !.over = IF job.cancelled THEN "cancelled" ELSE "failed"]
              ELSE job
    /\ UNCHANGED <<queue, log, written, snap, turns, tools>>

(***************************************************************************)
(* The loop.                                                               *)
(***************************************************************************)

\* The snapshot that the first n requests of the log determine.
FromLog(n) ==
    LET last == log[n].turn
        ids == FoldSeq(LAMBDA r, acc : acc \o SelectSeq(r.ids, LAMBDA i : i \notin Range(acc)),
                       <<>>, SelectSeq(SubSeq(log, 1, n), LAMBDA r : r.turn = last))
    IN  [committed |-> UNION {Range(log[k].ids) : k \in 1..n},
         prepared |-> [turn |-> last, ids |-> ids], tools |-> FALSE, wait |-> FALSE]

\* The new process replays the log when the execution was lost, resumes a wait
\* on a turn of its own, settles the tool calls of the prepared turn and prepares
\* their continuation, or goes back to the prepared turn.
begin(a) ==
    LET base == IF job.lost > 0 THEN FromLog(job.lost) ELSE snap
        fresh == turns + 1
    IN  /\ job' = [job EXCEPT !.lost = 0]
        /\ \/ /\ base.wait
              /\ snap' = [base EXCEPT !.wait = FALSE]
              /\ Step(a, "begin", [loop[a] EXCEPT !.at = "head", !.turn = fresh])
              /\ turns' = fresh
           \/ /\ ~base.wait /\ base.tools
              /\ snap' = [base EXCEPT !.tools = FALSE, !.prepared = [turn |-> fresh, ids |-> <<>>]]
              /\ Step(a, "begin", [loop[a] EXCEPT !.at = "head", !.turn = fresh])
              /\ turns' = fresh
           \/ /\ ~base.wait /\ ~base.tools
              /\ snap' = base
              /\ Step(a, "begin", [loop[a] EXCEPT !.at = "head",
                        !.turn = IF base.prepared = Nothing THEN InitialTurn ELSE base.prepared.turn])
              /\ UNCHANGED turns
        /\ UNCHANGED <<queue, log, written, tools>>

\* The head of the loop tells TurnControl what the snapshot knows of this turn.
configure_input_recovery(a) ==
    /\ Step(a, "head", [loop[a] EXCEPT !.at = "take", !.take = 1, !.committed = snap.committed,
            !.prepared = IF snap.prepared.turn = loop[a].turn THEN snap.prepared ELSE Nothing])
    /\ ~job.cancelled
    /\ UNCHANGED <<queue, job, log, written, snap, turns, tools>>

\* Where a finished take leads: two takes prepare a request, the third is the
\* one that closes the queue when the model gave its final answer.
AfterTake(r) ==
    CASE r.take = 1 -> "load"
      [] r.take = 2 -> "save"
      [] OTHER -> IF r.next = <<>> THEN "final" ELSE "head"

Route(r) ==
    [r EXCEPT !.at = CASE r.consumed # {} -> "reconcile"
                       [] r.ready # <<>> -> "write"
                       [] OTHER -> AfterTake(r)]

in_sequence(ids) == SortSeq(ids, LAMBDA i, j : Sequence(i) < Sequence(j))

\* Mutant: inputs outside the prepared turn are kept from every later turn.
defers_any_turn(r, i) == r.prepared # Nothing /\ i \notin Range(r.prepared.ids)

\* A recovered turn keeps the inputs it was prepared with.
defers(r, i) == r.prepared # Nothing /\ r.prepared.turn = r.turn /\ i \notin Range(r.prepared.ids)

claim_durable(a) ==
    LET r == loop[a]
        all == in_sequence(Claimed(a) \o r.deferred)
        left == SelectSeq(all, LAMBDA i : i \notin r.committed)
    IN  /\ Holds(a) /\ ~job.cancelled
        /\ queue' = claimed_queue(a, r.take = 3)
        /\ Step(a, "take", Route([r EXCEPT
                 !.claimed = @ \cup Range(all),
                 !.consumed = Range(all) \cap r.committed,
                 !.deferred = SelectSeq(left, LAMBDA i : defers(r, i)),
                 !.ready = SelectSeq(left, LAMBDA i : ~defers(r, i))]))
        /\ UNCHANGED <<job, log, written, snap, turns, tools>>

\* Inputs a committed request has read are acknowledged under the new claim.
reconcile_acknowledgements(a) ==
    LET r == loop[a] IN
    /\ Holds(a) /\ ~job.cancelled /\ Acknowledgeable(a, r.consumed)
    /\ queue' = acknowledged_queue(r.consumed)
    /\ Step(a, "reconcile", Route([r EXCEPT !.consumed = {}, !.claimed = @ \ r.consumed]))
    /\ UNCHANGED <<job, log, written, snap, turns, tools>>

\* Mutant: an input that has its record is taken off the queue.
materialize_acknowledges(a) ==
    LET r == loop[a] IN
    /\ Holds(a)
    /\ written' = written \cup Range(r.ready)
    /\ queue' = acknowledged_queue(Range(r.ready))
    /\ Step(a, "write", Route([r EXCEPT !.next = @ \o r.ready, !.ready = <<>>]))
    /\ UNCHANGED <<job, log, snap, turns, tools>>

\* The inputs get their records in the log, those that have none yet.
materialize(a) ==
    LET r == loop[a] IN
    /\ Holds(a)
    /\ written' = written \cup Range(r.ready)
    /\ Step(a, "write", Route([r EXCEPT !.next = @ \o r.ready, !.ready = <<>>]))
    /\ UNCHANGED <<queue, job, log, snap, turns, tools>>

load_session(a) ==
    /\ Step(a, "load", [loop[a] EXCEPT !.at = "take", !.take = 2, !.basis = snap])
    /\ UNCHANGED <<queue, job, log, written, snap, turns, tools>>

\* Mutant: the members of a request are kept in memory only.
freeze_prepared_unsaved(a) ==
    LET r == loop[a]
        ids == IF r.prepared.turn = r.turn THEN r.prepared.ids ELSE r.next
    IN  /\ Step(a, "save", [r EXCEPT !.at = "commit", !.batch = ids, !.next = <<>>])
        /\ UNCHANGED <<queue, job, log, written, snap, turns, tools>>

\* The members of the request: what the takes gave, or what the turn was
\* prepared with before a crash.  They are saved with the request's messages,
\* in a write that no lease fences.
freeze_prepared(a) ==
    LET r == loop[a]
        ids == IF r.prepared.turn = r.turn THEN r.prepared.ids ELSE r.next
    IN  /\ ~(r.basis.prepared.turn = r.turn /\ r.basis.prepared.ids # ids)
        /\ snap' = [r.basis EXCEPT !.prepared = [turn |-> r.turn, ids |-> ids], !.tools = FALSE]
        /\ Step(a, "save", [r EXCEPT !.at = "commit", !.batch = ids, !.next = <<>>])
        /\ UNCHANGED <<queue, job, log, written, turns, tools>>

\* What the request reads that no earlier one has.
Uptake(ids) == SelectSeq(ids, LAMBDA i : i \notin snap.committed)

\* The main request is committed to the log under the lease.
commit_request(a) ==
    LET r == loop[a]
        fresh == Uptake(r.batch)
    IN  /\ Holds(a)
        /\ log' = Append(log, [turn |-> r.turn, ids |-> fresh])
        /\ Step(a, "commit", [r EXCEPT !.at = IF fresh = <<>> THEN "respond" ELSE "record",
                                       !.fresh = fresh])
        /\ UNCHANGED <<queue, job, written, snap, turns, tools>>

\* The execution's sandbox is gone: the request is committed with a recovery
\* checkpoint, and the attempt gives the job back.
commit_lost(a) ==
    LET r == loop[a] IN
    /\ Holds(a) /\ a < MaxAttempts
    /\ log' = Append(log, [turn |-> r.turn, ids |-> Uptake(r.batch)])
    /\ job' = [job EXCEPT !.owner = 0, !.lost = Len(log')]
    /\ Step(a, "commit", Absent)
    /\ UNCHANGED <<queue, written, snap, turns, tools>>

\* commit_with_input_ack, after the commit: load the snapshot,
record_committed(a) ==
    /\ Step(a, "record", [loop[a] EXCEPT !.at = "remember", !.basis = snap])
    /\ UNCHANGED <<queue, job, log, written, snap, turns, tools>>

\* save it with the inputs read,
record_committed_input_ids(a) ==
    LET r == loop[a] IN
    /\ snap' = [r.basis EXCEPT !.committed = @ \cup Range(r.fresh)]
    /\ Step(a, "remember", [r EXCEPT !.at = "ack", !.committed = @ \cup Range(r.fresh)])
    /\ UNCHANGED <<queue, job, log, written, turns, tools>>

\* and acknowledge those that came through the queue.
acknowledge_inputs(a) ==
    LET r == loop[a]
        queued == Range(r.fresh) \cap r.claimed
    IN  /\ queued = {} \/ (Holds(a) /\ ~job.cancelled /\ Acknowledgeable(a, queued))
        /\ queue' = acknowledged_queue(queued)
        /\ Step(a, "ack", [r EXCEPT !.at = "respond", !.claimed = @ \ queued])
        /\ UNCHANGED <<job, log, written, snap, turns, tools>>

\* The model calls tools: they run, and the loop goes on.
respond_tools(a) ==
    /\ tools < MaxTools /\ tools' = tools + 1
    /\ snap' = [snap EXCEPT !.tools = TRUE]
    /\ turns' = turns + 1
    /\ Step(a, "respond", [loop[a] EXCEPT !.at = "head", !.turn = turns + 1])
    /\ UNCHANGED <<queue, job, log, written>>

\* A tool waits for an answer or a job: the attempt ends, the queue stays open.
respond_wait(a) ==
    /\ Holds(a) /\ tools < MaxTools /\ tools' = tools + 1
    /\ a < MaxAttempts
    /\ snap' = [snap EXCEPT !.wait = TRUE]
    /\ job' = [job EXCEPT !.owner = 0]
    /\ Step(a, "respond", Absent)
    /\ UNCHANGED <<queue, log, written, turns>>

\* The model answers: the queue is closed, or gives inputs for another turn.
respond_final(a) ==
    /\ turns' = turns + 1
    /\ Step(a, "respond", [loop[a] EXCEPT !.at = "take", !.take = 3, !.turn = turns + 1])
    /\ UNCHANGED <<queue, job, log, written, snap, tools>>

\* The run's terminal record.
complete_run(a) ==
    /\ Holds(a)
    /\ job' = [job EXCEPT !.over = "completed"]
    /\ Step(a, "final", Absent)
    /\ UNCHANGED <<queue, log, written, snap, turns, tools>>

LoopStep(a) ==
    \/ begin(a) \/ configure_input_recovery(a) \/ claim_durable(a)
    \/ reconcile_acknowledgements(a) \/ materialize(a) \/ load_session(a)
    \/ freeze_prepared(a) \/ commit_request(a) \/ commit_lost(a) \/ record_committed(a)
    \/ record_committed_input_ids(a) \/ acknowledge_inputs(a)
    \/ respond_tools(a) \/ respond_wait(a) \/ respond_final(a) \/ complete_run(a)

Next ==
    /\ \/ \E i \in Inputs : enqueue_turn_supplement(i)
       \/ request_cancel
       \/ teardown
       \/ \E a \in Attempts :
           \/ claim_job(a) \/ resume_job(a) \/ crash(a) \/ end_loop(a) \/ LoopStep(a)
    /\ UNCHANGED superseded

Spec == Init /\ [][Next]_<<vars, superseded>>

\* A claimed job is worked on, an expired lease is claimed again, a terminal
\* run is torn down.  Nothing is assumed of clients, of answers or of failures.
Fairness ==
    /\ WF_vars(teardown)
    /\ \A a \in Attempts : WF_vars(claim_job(a)) /\ WF_vars(LoopStep(a) \/ end_loop(a))

(***************************************************************************)
(* Properties.                                                             *)
(***************************************************************************)

Snapshots == [committed : SUBSET Inputs, prepared : [turn : Nat, ids : Seq(Inputs)],
              tools : BOOLEAN, wait : BOOLEAN]

\* The queue row stays within its capacity and accepts an input once; rows, snapshot
\* and loops have their types.
TypeOK ==
    /\ queue.accepting \in BOOLEAN
    /\ queue.entries \in Seq([id : Inputs, token : 0..MaxAttempts])
    /\ Len(queue.entries) <= Capacity
    /\ queue.dedupe \in Seq(Inputs) /\ IsInjective(queue.dedupe)
    /\ queue.closed \in {"no", "safe_point", "agent_run_terminal"}
    /\ job \in [owner : 0..MaxAttempts, attempts : 0..MaxAttempts, cancelled : BOOLEAN,
                lost : Nat, over : {"no", "completed", "failed", "cancelled"}]
    /\ log \in Seq([turn : Nat, ids : Seq(Inputs)])
    /\ written \subseteq Inputs
    /\ snap \in Snapshots
    /\ \A a \in Attempts : loop[a].at \in Running \cup {"none"}
    /\ turns \in Nat /\ tools \in 0..MaxTools

\* The inputs of a run are read by one turn each: whatever crashes happen
\* between the request's commit, the snapshot's write and the queue's
\* acknowledgement, no two turns of the log take up the same input.
ReadByOneTurn ==
    \A j, k \in DOMAIN log :
        Range(log[j].ids) \cap Range(log[k].ids) # {} => log[j].turn = log[k].turn

\* An input the queue accepted is pending, or a committed request has read it,
\* until the teardown of a terminal run drops what is left.
NoInputLost ==
    \A i \in Admitted :
        \/ i \in Ids(queue.entries)
        \/ i \in Read \cap written
        \/ queue.closed = "agent_run_terminal"

\* A run that completes has read every input it accepted: the close that races
\* an arriving input refuses it, or leaves the queue open and the run goes on.
CompletedReadsAll == job.over = "completed" /\ ~superseded => Admitted \subseteq Read

FirstRead(i) == CHOOSE k \in DOMAIN log : /\ i \in Range(log[k].ids)
                                          /\ \A j \in 1..(k - 1) : i \notin Range(log[j].ids)
Place(k, i) == CHOOSE n \in DOMAIN log[k].ids : log[k].ids[n] = i

\* Inputs are read in the order in which they were accepted, also when a crash
\* left some of them to a recovered turn and the others to the next.
ReadInOrder ==
    \A i, j \in Read : Sequence(i) < Sequence(j) =>
        \/ FirstRead(i) < FirstRead(j)
        \/ FirstRead(i) = FirstRead(j) /\ Place(FirstRead(i), i) < Place(FirstRead(i), j)

\* An accepted input is eventually read, unless the run fails, is cancelled or
\* waits for someone else: no claim, crash or recovered turn strands it.
AcceptedIsRead ==
    \A i \in Inputs :
        i \in Admitted ~> (i \in Read \/ job.over \in {"failed", "cancelled"} \/ snap.wait)

\* Inputs are read once and in the order in which they were accepted, across
\* crashes between commit, snapshot and acknowledgement.
ReadOnceInOrder == ReadByOneTurn /\ ReadInOrder

\* An accepted input is not lost, and a run does not complete without it
\* (the queue's claims, the final fence, the teardown).
NothingUnread == TypeOK /\ NoInputLost /\ CompletedReadsAll
=============================================================================
