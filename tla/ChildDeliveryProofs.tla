------------------------- MODULE ChildDeliveryProofs -------------------------
(***************************************************************************)
(* That an acknowledged result was told and that deletions leave nothing   *)
(* behind, for any number of jobs, deletions, cancellations and faults.    *)
(* The invariant says what the worker and each deletion have established   *)
(* at the place where they are, and that nobody else can undo it: a        *)
(* terminal row stays terminal, an ended run is not opened again, a gate   *)
(* belongs to one deletion.                                                *)
(***************************************************************************)
EXTENDS ChildDelivery, WellFoundedInduction, TLAPS

-----------------------------------------------------------------------------
(* The inductive invariant. *)

USE DEF snapshot, tasks

\* The results that were written to the parent's snapshot, overwritten or not.
Written == told \cup lost

\* The child's run has ended, or the child was deleted with it.
Ended(j) == run[j] = "closed" \/ j \in deleted

\* An event belongs to a terminal row, and a published one was delivered.
RowInv(j) ==
    /\ outbox[j] # "none" => job[j] \in Terminal
    /\ outbox[j] = "published" => j \in Written /\ Ended(j)

\* What the worker has written of the delivery at hand, and that claimed jobs
\* are held within a batch.
WorkerInv ==
    /\ worker.at \in {"parent", "child", "acknowledge"} =>
           worker.record \in Jobs /\ job[worker.record] \notin Pending
    /\ worker.at \in {"child", "acknowledge"} /\ outbox[worker.record] = "pending" =>
           worker.record \in Written
    /\ worker.at = "acknowledge" => Ended(worker.record)
    /\ worker.held # {} => worker.at = "work"
    /\ worker.at \in {"bind", "claim", "work"} => worker.batch

\* A child's deletion, from its gate to its removal.
ChildInv(j) ==
    /\ del[j].at # "none" => j \in gated
    /\ del[j].guarded = {}
    /\ del[j].at = "stop" => del[j].seen \in Pending
    /\ del[j].at \in {"tell", "acknowledge"} => job[j] \notin Pending
    /\ del[j].at = "acknowledge" => (outbox[j] = "pending" => j \in Written) /\ Ended(j)
    /\ del[j].at \in {"pending", "tell", "acknowledge", "remove"} => ~ChildWork(j)

\* Nothing of the parent's jobs is left and nobody works for it.
Nothing ==
    /\ \A j \in Jobs : job[j] = "gone" /\ outbox[j] = "none"
    /\ told = {} /\ loop = {} /\ worker.held = {} /\ ~ParentWork

\* The parent's deletion: its gates are no other deletion's.
ParentInv ==
    /\ del[Parent].at # "none" => Parent \in gated
    /\ del[Parent].guarded \subseteq gated
    /\ \A j \in Jobs \cap Roots : j \in del[Parent].guarded => del[j].at = "none"
    /\ del[Parent].at \notin {"none", "gate"} => loop = {}
    /\ del[Parent].at \in {"rows", "files"} => ~ParentWork
    /\ del[Parent].at = "files" => Nothing

IInv ==
    /\ TypeOK /\ WorkerInv
    /\ \A j \in Jobs : RowInv(j)
    /\ \A j \in Jobs \cap Roots : ChildInv(j)
    /\ Parent \in Roots => ParentInv
    /\ ~parentHere => Nothing /\ child = {}

-----------------------------------------------------------------------------
(* General steps. *)

\* The parent takes no new work.
Shut == Parent \in gated \/ ~parentHere

\* What may happen to a row: it stays, it moves while it is pending, it ends
\* with an event, or the event of a delivered result is published.
RowStep(j) ==
    \/ job'[j] = job[j] /\ outbox'[j] = outbox[j]
    \/ job[j] \in Pending /\ job'[j] \in Pending /\ outbox'[j] = outbox[j]
    \/ job[j] \in Pending /\ job'[j] \in Terminal /\ outbox'[j] = "pending"
    \/ job'[j] = job[j] /\ outbox[j] = "pending" /\ outbox'[j] = "published" /\ (j \in Written /\ Ended(j))'

\* What no step but parent_rows undoes.
Grows ==
    /\ \A j \in Jobs : RowStep(j)
    /\ Written \subseteq Written'
    /\ \A j \in Jobs : Ended(j) => Ended(j)'

\* A step that the parent's deletion and its gates survive.
ParentKept ==
    /\ del'[Parent] = del[Parent]
    /\ Parent \in gated => Parent \in gated'
    /\ del[Parent].guarded \subseteq gated'
    /\ \A j \in Jobs \cap Roots : del'[j].at # "none" => del[j].at # "none" \/ j \notin gated

\* The invariant from what a step does to each part.
LEMMA Moves ==
    ASSUME IInv, TypeOK', WorkerInv', Grows,
           \A j \in Jobs : ChildWork(j)' => ChildWork(j) \/ j \notin gated,
           Shut /\ ParentWork' => ParentWork,
           Shut /\ Nothing => told' = {} /\ worker'.held = {},
           Shut /\ loop = {} => loop' = {},
           \A j \in Jobs \cap Roots :
               ChildInv(j)' \/ (del'[j] = del[j] /\ (del[j].at # "none" => j \in gated')),
           Parent \in Roots => ParentInv' \/ ParentKept,
           ~parentHere' => child' = {} /\ (~parentHere \/ (Shut /\ Nothing))
    PROVE  IInv'
<1>1. \A j \in Jobs : RowInv(j)'
  BY DEF IInv, RowInv, Grows, RowStep, Pending, Terminal
<1>2. ASSUME NEW j \in Jobs \cap Roots PROVE ChildInv(j)'
  <2>1. CASE del'[j] = del[j] /\ (del[j].at # "none" => j \in gated')
    <3>1. ChildInv(j) /\ RowInv(j) /\ RowStep(j) /\ Written \subseteq Written' /\ (Ended(j) => Ended(j)')
      BY DEF IInv, Grows
    <3>2. ChildWork(j)' => ChildWork(j) \/ j \notin gated
      OBVIOUS
    <3> QED
      BY <2>1, <3>1, <3>2 DEF ChildInv, RowInv, RowStep, Pending, Terminal
  <2> QED
    BY <2>1
<1>3. ASSUME Shut, Nothing PROVE Nothing'
  <2>1. ~ParentWork' /\ told' = {} /\ loop' = {} /\ worker'.held = {}
    BY <1>3 DEF Nothing
  <2>2. \A j \in Jobs : job'[j] = "gone" /\ outbox'[j] = "none"
    BY <1>3 DEF Nothing, Grows, RowStep, Pending
  <2> QED
    BY <2>1, <2>2 DEF Nothing
<1>4. ASSUME Parent \in Roots PROVE ParentInv'
  <2>1. CASE ParentKept
    <3>1. ParentInv
      BY <1>4 DEF IInv
    <3>2. del[Parent].at # "none" => Shut
      BY <3>1 DEF ParentInv, Shut
    <3>3. ASSUME NEW j \in Jobs \cap Roots, j \in del'[Parent].guarded PROVE del'[j].at = "none"
      BY <2>1, <3>1, <3>3 DEF ParentInv, ParentKept
    <3> QED
      BY <1>3, <2>1, <3>1, <3>2, <3>3 DEF ParentInv, ParentKept
  <2> QED
    BY <1>4, <2>1
<1>5. ~parentHere' => Nothing' /\ child' = {}
  BY <1>3 DEF IInv, Shut
<1> QED
  BY <1>1, <1>2, <1>4, <1>5 DEF IInv

\* What the worker has in hand survives a step that leaves it there.
LEMMA WorkerKept ==
    ASSUME IInv, Grows,
           worker'.at \in {"parent", "child", "acknowledge"} =>
               worker'.at = worker.at /\ worker'.record = worker.record,
           worker'.held # {} => worker'.at = "work",
           worker'.at \in {"bind", "claim", "work"} => worker'.batch
    PROVE  WorkerInv'
<1>1. CASE worker'.at \in {"parent", "child", "acknowledge"}
  <2>1. PICK j \in Jobs : /\ j = worker.record /\ worker'.record = j /\ worker'.at = worker.at
                         /\ job[j] \notin Pending
    BY <1>1 DEF IInv, WorkerInv
  <2>2. RowStep(j) /\ Written \subseteq Written' /\ (Ended(j) => Ended(j)')
    BY <2>1 DEF Grows
  <2>3. /\ worker.at \in {"child", "acknowledge"} /\ outbox[j] = "pending" => j \in Written
        /\ worker.at = "acknowledge" => Ended(j)
    BY <2>1 DEF IInv, WorkerInv
  <2>4. job'[j] \notin Pending /\ (outbox'[j] = "pending" => outbox[j] = "pending")
    BY <2>1, <2>2 DEF RowStep
  <2>5. (worker.at = "acknowledge" => Ended(j)')
    BY <2>2, <2>3
  <2> QED
    BY <2>1, <2>2, <2>3, <2>4, <2>5 DEF WorkerInv, Ended
<1>2. CASE worker'.at \notin {"parent", "child", "acknowledge"}
  BY <1>2 DEF WorkerInv
<1> QED
  BY <1>1, <1>2

\* The worker, field by field.
LEMMA AtWorker ==
    ASSUME IInv
    PROVE  /\ worker \in WorkerRow /\ worker.at \in WorkerPlaces /\ worker.page \subseteq Jobs
           /\ worker.after \in Jobs \cup {0} /\ worker.record \in Jobs \cup {0}
           /\ worker.todo \subseteq Jobs /\ worker.bound \subseteq Jobs /\ worker.held \subseteq Jobs
           /\ WorkerInv
  BY DEF IInv, TypeOK, WorkerRow

\* A step of the worker that leaves the sessions alone.
LEMMA WorkerMoves ==
    ASSUME IInv, worker' \in WorkerRow, faults' \in 0..MaxFaults, WorkerInv',
           UNCHANGED <<sessions, told, lost, gated, cancel, loop, del>>,
           job' \in [Jobs -> Pending \cup Terminal \cup {"gone"}],
           outbox' \in [Jobs -> {"none", "pending", "published"}], deferred' \subseteq Jobs,
           \A j \in Jobs : RowStep(j),
           worker'.held \subseteq worker.held \cup {j \in Jobs : job[j] # "gone"},
           worker'.bound \subseteq worker.bound \cup (Jobs \ gated),
           worker'.batch => worker.batch \/ ~Shut,
           worker'.at \in {"parent", "child"} =>
               \/ worker.at \in {"parent", "child"} /\ worker'.record = worker.record
               \/ /\ worker'.record \in Jobs \ gated /\ Parent \notin gated
                  /\ job[worker'.record] # "gone"
    PROVE  IInv'
<1>1. Grows
  BY DEF Grows, Written, Ended, sessions
<1>2. TypeOK'
  BY DEF IInv, TypeOK, sessions
<1>3. ASSUME NEW j \in Jobs, ChildWork(j)' PROVE ChildWork(j) \/ j \notin gated
  BY <1>3 DEF ChildWork, Delivering
<1>4. ASSUME Shut, ParentWork' PROVE ParentWork
  <2>1. worker'.at \in {"parent", "child"} => worker.at \in {"parent", "child"}
    BY <1>4 DEF IInv, Shut, Nothing
  <2> QED
    BY <1>4, <2>1 DEF ParentWork, Delivering
<1>5. Nothing => told' = {} /\ worker'.held = {}
  BY DEF Nothing
<1>6. \A j \in Jobs \cap Roots : del'[j] = del[j] /\ (del[j].at # "none" => j \in gated')
  BY DEF IInv, ChildInv
<1>7. Parent \in Roots => ParentKept
  BY DEF IInv, ParentInv, ParentKept
<1>8. ~parentHere' => child' = {} /\ ~parentHere
  BY DEF IInv, sessions
<1> QED
  BY <1>1, <1>2, <1>3, <1>4, <1>5, <1>6, <1>7, <1>8, Moves

\* The same with the rows left alone.
LEMMA WorkerOnly ==
    ASSUME IInv, worker' \in WorkerRow, faults' \in 0..MaxFaults, WorkerInv',
           UNCHANGED <<durable, gated, cancel, loop, del>>,
           worker'.held \subseteq worker.held,
           worker'.bound \subseteq worker.bound \cup (Jobs \ gated),
           worker'.batch => worker.batch \/ ~Shut,
           worker'.at \in {"parent", "child"} =>
               \/ worker.at \in {"parent", "child"} /\ worker'.record = worker.record
               \/ /\ worker'.record \in Jobs \ gated /\ Parent \notin gated
                  /\ job[worker'.record] # "gone"
    PROVE  IInv'
<1>1. /\ job' \in [Jobs -> Pending \cup Terminal \cup {"gone"}]
      /\ outbox' \in [Jobs -> {"none", "pending", "published"}] /\ deferred' \subseteq Jobs
  BY DEF IInv, TypeOK, durable
<1>2. (\A j \in Jobs : RowStep(j)) /\ UNCHANGED <<sessions, told, lost, gated, cancel, loop, del>>
  BY DEF RowStep, durable, sessions
<1> QED
  BY <1>1, <1>2, WorkerMoves

\* Where the worker's rows and sessions stay, so does what it knows.
LEMMA DurableGrows ==
    ASSUME UNCHANGED durable PROVE Grows
  BY DEF Grows, Written, RowStep, Ended, durable

\* Failures are counted within their bound.
LEMMA FaultCounted ==
    ASSUME IInv, Fault \/ UNCHANGED faults PROVE faults' \in 0..MaxFaults
  BY PageBounds DEF IInv, TypeOK, Fault

\* The first of a set of jobs.
LEMMA FirstJob ==
    ASSUME NEW S \in SUBSET Jobs, S # {} PROVE Min(S) \in S
<1> DEFINE R == OpToRel(<, Nat)
<1>1. IsWellFoundedOn(R, Nat)
  BY NatLessThanWellFounded, Zenon
<1>2. R = {ss \in Nat \X Nat : ss[1] < ss[2]}
  BY Zenon DEF OpToRel
<1> HIDE DEF R
<1>3. \A x, y \in Nat : <<y, x>> \in R <=> y < x
  BY <1>2
<1>4. S \subseteq Nat
  BY JobOrder
<1>5. PICK x \in S : \A y \in S : ~(<<y, x>> \in R)
  BY <1>1, <1>4, WFMin, Zenon
<1>6. ASSUME NEW y \in S PROVE x <= y
  <2>1. x \in Nat /\ y \in Nat /\ ~(y < x)
    BY <1>3, <1>4, <1>5, Zenon
  <2> QED
    BY <2>1
<1> QED
  BY <1>6 DEF Min

-----------------------------------------------------------------------------
(* The worker: scans and deliveries. *)

\* A step that puts the worker at a place outside a delivery.
LEMMA WorkerGoes ==
    ASSUME IInv, UNCHANGED <<durable, gated, cancel, loop, del>>, Fault \/ UNCHANGED faults,
           worker' \in WorkerRow, worker'.at \notin {"parent", "child", "acknowledge"},
           worker'.held = worker.held, worker'.held # {} => worker'.at = "work",
           worker'.at \in {"bind", "claim", "work"} => worker'.batch,
           worker'.bound \subseteq worker.bound \cup (Jobs \ gated),
           worker'.batch => worker.batch \/ ~Shut
    PROVE  IInv'
<1>1. faults' \in 0..MaxFaults
  BY FaultCounted
<1>2. WorkerInv'
  BY DurableGrows, WorkerKept
<1> QED
  BY <1>1, <1>2, WorkerOnly

\* The scan of the outbox, failed or not, and the end of a page.
LEMMA ScanStep ==
    ASSUME IInv, reconcile_terminal_jobs \/ scan_fails \/ deliver_end PROVE IInv'
<1>1. /\ UNCHANGED <<durable, gated, cancel, loop, del>> /\ (Fault \/ UNCHANGED faults)
      /\ worker.at \in {"scan", "deliver"} /\ worker.held = {}
  BY AtWorker DEF reconcile_terminal_jobs, scan_fails, deliver_end, WorkerInv
<1>2. /\ worker' \in WorkerRow /\ worker'.at \in {"deliver", "scan", "select"} /\ worker'.held = worker.held
      /\ worker'.bound \subseteq worker.bound /\ (worker'.batch => worker.batch)
  <2>1. CASE reconcile_terminal_jobs
    <3>1. PICK p \in SUBSET Jobs, b \in BOOLEAN :
              worker' = [worker EXCEPT !.at = "deliver", !.page = p, !.short = b]
      <4> DEFINE p == First(PageSize, {j \in Jobs : outbox[j] = "pending" /\ j > worker.after})
                 b == Cardinality(p) < PageSize
      <4>1. worker' = [worker EXCEPT !.at = "deliver", !.page = p, !.short = b]
        BY <2>1 DEF reconcile_terminal_jobs
      <4>2. p \subseteq Jobs
        BY DEF First
      <4> HIDE DEF p
      <4>3. b \in BOOLEAN
        OBVIOUS
      <4> HIDE DEF b
      <4> QED
        BY <4>1, <4>2, <4>3, Zenon
    <3> QED
      BY <3>1, AtWorker, Zenon DEF WorkerRow, WorkerPlaces
  <2>2. CASE scan_fails
    BY <2>2, AtWorker, Zenon DEF scan_fails, WorkerRow, WorkerPlaces
  <2>3. CASE deliver_end
    BY <2>3, AtWorker, Zenon DEF deliver_end, WorkerRow, WorkerPlaces
  <2> QED
    BY <2>1, <2>2, <2>3
<1> QED
  BY <1>1, <1>2, WorkerGoes

\* The next record of the page: skipped, or taken up with both tokens.
LEMMA BeginStep ==
    ASSUME IInv, deliver_begin PROVE IInv'
<1>1. /\ UNCHANGED <<durable, gated, cancel, loop, del>> /\ UNCHANGED faults
      /\ worker.at = "deliver" /\ worker.held = {}
  BY AtWorker DEF deliver_begin, WorkerInv
<1>2. PICK j \in worker.page : j = Min(worker.page)
  BY FirstJob, AtWorker DEF deliver_begin
<1>3. j \in Jobs
  BY <1>2, AtWorker
<1>4. CASE Deliverable(j) /\ j \notin gated
  <2>1. /\ worker' \in WorkerRow /\ worker'.at = "parent" /\ worker'.record = j
        /\ worker'.held = {} /\ worker'.bound = worker.bound /\ worker'.batch = worker.batch
    <3>1. worker' = [worker EXCEPT !.page = @ \ {j}, !.after = j, !.record = j, !.at = "parent"]
      BY <1>2, <1>4 DEF deliver_begin
    <3> QED
      BY <1>1, <1>3, <3>1, AtWorker, Zenon DEF WorkerRow, WorkerPlaces
  <2>2. Parent \notin gated /\ job[j] \in Terminal /\ job'[j] = job[j]
    BY <1>1, <1>4 DEF Deliverable, durable
  <2>3. WorkerInv'
    BY <1>3, <2>1, <2>2 DEF WorkerInv, Terminal, Pending
  <2>4. faults' \in 0..MaxFaults
    BY <1>1, FaultCounted
  <2> QED
    BY <1>1, <1>3, <1>4, <2>1, <2>2, <2>3, <2>4, WorkerOnly DEF Terminal
<1>5. CASE ~(Deliverable(j) /\ j \notin gated)
  <2>1. /\ worker' \in WorkerRow /\ worker'.at = "deliver"
        /\ worker'.held = worker.held /\ worker'.bound = worker.bound /\ worker'.batch = worker.batch
    <3>1. worker' = [worker EXCEPT !.page = @ \ {j}, !.after = j, !.record = @, !.at = @]
      BY <1>2, <1>5, Zenon DEF deliver_begin
    <3> QED
      BY <1>1, <1>3, <3>1, AtWorker, Zenon DEF WorkerRow, WorkerPlaces
  <2> QED
    BY <1>1, <2>1, WorkerGoes
<1> QED
  BY <1>4, <1>5

\* A step that leaves the deletions and their gates alone.
LEMMA PlainMoves ==
    ASSUME IInv, TypeOK', WorkerInv', Grows, UNCHANGED <<gated, del, parentHere>>,
           \A j \in Jobs : ChildWork(j)' => ChildWork(j) \/ j \notin gated,
           Shut /\ ParentWork' => ParentWork,
           Shut /\ Nothing => told' = {} /\ worker'.held = {},
           Shut /\ loop = {} => loop' = {},
           ~parentHere => child' = child
    PROVE  IInv'
<1>1. \A j \in Jobs \cap Roots : del'[j] = del[j] /\ (del[j].at # "none" => j \in gated')
  BY DEF IInv, ChildInv
<1>2. Parent \in Roots => ParentKept
  BY DEF IInv, ParentInv, ParentKept
<1>3. ~parentHere' => child' = {} /\ ~parentHere
  BY DEF IInv
<1> QED
  BY <1>1, <1>2, <1>3, Moves

\* What a step does to the parent's snapshot: it adds a result or leaves all.
Tells(j) == told' = told \cup {j} /\ lost' = lost \ {j}
Holds == told' = told /\ lost' = lost

\* Either way the results written so far remain so.
LEMMA SnapshotGrows ==
    ASSUME IInv, NEW j \in Jobs, Tells(j) \/ Holds
    PROVE  /\ Written \subseteq Written' /\ told' \subseteq Jobs /\ lost' \subseteq Jobs
           /\ Tells(j) => j \in Written'
  BY DEF IInv, TypeOK, Written, Tells, Holds

\* The two writes of a delivery: the parent's snapshot and the child's log.
LEMMA DeliverStep ==
    ASSUME IInv, deliver_parent \/ deliver_child PROVE IInv'
<1>1. PICK j \in Jobs : j = worker.record /\ job[j] \notin Pending
  BY AtWorker DEF deliver_parent, deliver_child, WorkerInv
<1>2. /\ UNCHANGED <<rows, child, parentHere, deleted, gated, cancel, loop, del, faults>>
      /\ worker.at \in {"parent", "child"} /\ worker.held = {}
  BY AtWorker DEF deliver_parent, deliver_child, WorkerInv, sessions
<1>3. /\ worker' \in WorkerRow /\ worker'.record = j /\ worker'.held = {} /\ worker'.bound = worker.bound
      /\ worker'.batch = worker.batch
      /\ \/ worker.at = "parent" /\ worker'.at = "child" /\ Tells(j) /\ run' = run
         \/ /\ worker.at = "child" /\ worker'.at = "acknowledge" /\ Holds
            /\ run' = [run EXCEPT ![j] = "closed"]
  BY <1>1, <1>2, AtWorker DEF deliver_parent, deliver_child, WorkerRow, WorkerPlaces, sessions, Tells, Holds
<1>4. run \in [Jobs -> {"none", "open", "closed"}]
  BY DEF IInv, TypeOK
<1>5. run' \in [Jobs -> {"none", "open", "closed"}] /\ \A i \in Jobs : run'[i] = run[i] \/ run'[i] = "closed"
  BY <1>3, <1>4
<1>6. Grows
  <2>1. Written \subseteq Written'
    BY <1>3, SnapshotGrows
  <2> QED
    BY <1>2, <1>3, <1>5, <2>1 DEF Grows, RowStep, Ended, rows
<1>7. TypeOK'
  <2>1. told' \subseteq Jobs /\ lost' \subseteq Jobs
    BY <1>3, SnapshotGrows
  <2> QED
    BY <1>2, <1>3, <1>5, <2>1 DEF IInv, TypeOK, rows
<1>8. WorkerInv'
  <2>1. worker.at = "child" /\ outbox[j] = "pending" => j \in Written
    BY <1>1, AtWorker DEF WorkerInv
  <2>2. worker'.at = "acknowledge" => run'[j] = "closed"
    BY <1>3, <1>4
  <2>3. worker.at = "parent" \/ (worker.at = "child" /\ outbox[j] = "pending") => j \in Written'
    BY <1>3, <2>1, SnapshotGrows
  <2> QED
    BY <1>1, <1>2, <1>3, <2>2, <2>3 DEF WorkerInv, Ended, rows
<1>9. \A i \in Jobs : ChildWork(i)' => ChildWork(i)
  BY <1>1, <1>2, <1>3 DEF ChildWork, Delivering
<1>10. ParentWork
  BY <1>2 DEF ParentWork, Delivering
<1>11. ~Nothing
  BY <1>10 DEF Nothing
<1> QED
  BY <1>2, <1>6, <1>7, <1>8, <1>9, <1>10, <1>11, PlainMoves

\* The acknowledgement.
LEMMA AcknowledgeStep ==
    ASSUME IInv, deliver_acknowledge PROVE IInv'
<1>1. PICK j \in Jobs : /\ j = worker.record /\ Ended(j) /\ job[j] \notin Pending
                        /\ outbox[j] = "pending" => j \in Written
  BY AtWorker DEF deliver_acknowledge, WorkerInv
<1>2. /\ UNCHANGED <<job, deferred, sessions, told, lost, gated, cancel, loop, del, faults>>
      /\ worker.at = "acknowledge" /\ worker.held = {}
      /\ outbox' = [outbox EXCEPT ![j] = IF @ = "pending" THEN "published" ELSE @]
  BY <1>1, AtWorker DEF deliver_acknowledge, WorkerInv
<1>3. /\ worker' \in WorkerRow /\ worker'.at = "deliver" /\ worker'.held = {}
      /\ worker'.bound = worker.bound /\ worker'.batch = worker.batch
  BY <1>2, AtWorker DEF deliver_acknowledge, WorkerRow, WorkerPlaces
<1>4. /\ outbox \in [Jobs -> {"none", "pending", "published"}]
      /\ job' \in [Jobs -> Pending \cup Terminal \cup {"gone"}] /\ deferred' \subseteq Jobs
      /\ faults' \in 0..MaxFaults
  BY <1>2 DEF IInv, TypeOK
<1>5. /\ outbox' \in [Jobs -> {"none", "pending", "published"}]
      /\ \A i \in Jobs : i # j => outbox'[i] = outbox[i]
      /\ outbox'[j] = outbox[j] \/ (outbox[j] = "pending" /\ outbox'[j] = "published")
  BY <1>2, <1>4
<1>6. \A i \in Jobs : RowStep(i)
  <2>1. Ended(j)' /\ (outbox[j] = "pending" => j \in Written')
    BY <1>1, <1>2 DEF Ended, Written, sessions
  <2> QED
    BY <1>1, <1>2, <1>5, <2>1 DEF RowStep
<1>7. WorkerInv'
  BY <1>3 DEF WorkerInv
<1> QED
  BY <1>2, <1>3, <1>4, <1>5, <1>6, <1>7, WorkerMoves

\* A delivery is given up where it is.
LEMMA FailStep ==
    ASSUME IInv, deliver_fails PROVE IInv'
<1>1. /\ UNCHANGED <<durable, gated, cancel, loop, del>> /\ (Fault \/ UNCHANGED faults)
      /\ worker.held = {}
  BY AtWorker DEF deliver_fails, NoFault, Delivering, WorkerInv
<1>2. /\ worker' \in WorkerRow /\ worker'.at = "deliver" /\ worker'.held = worker.held
      /\ worker'.bound = worker.bound /\ worker'.batch = worker.batch
  BY AtWorker DEF deliver_fails, WorkerRow, WorkerPlaces
<1> QED
  BY <1>1, <1>2, WorkerGoes

-----------------------------------------------------------------------------
(* The worker: selection of work and batches. *)

\* The selection's ends and the steps of a batch that change no row.
LEMMA LoopStep ==
    ASSUME IInv, consider_next \/ begin_batch \/ bind \/ bind_end \/ end_batch PROVE IInv'
<1>1. /\ UNCHANGED <<durable, gated, cancel, loop, del>> /\ (Fault \/ UNCHANGED faults)
      /\ worker.held = {}
  BY AtWorker DEF consider_next, begin_batch, bind, bind_end, end_batch, NoFault, WorkerInv
<1>2. CASE consider_next \/ end_batch
  <2>1. /\ worker' \in WorkerRow /\ worker'.at \in {"scan", "consider"} /\ worker'.held = worker.held
        /\ worker'.bound = worker.bound /\ worker'.batch = worker.batch
    BY <1>2, AtWorker DEF consider_next, end_batch, WorkerRow, WorkerPlaces
  <2> QED
    BY <1>1, <2>1, WorkerGoes
<1>3. CASE begin_batch
  <2>1. /\ worker' \in WorkerRow /\ worker'.held = worker.held /\ worker'.bound \subseteq worker.bound
        /\ \/ worker'.at = "scan" /\ worker'.batch = worker.batch
           \/ worker'.at = "bind" /\ worker'.batch = TRUE /\ ~Shut
    <3>1. First(MaxParallelism, Queued) \subseteq Jobs
      BY DEF First, Queued
    <3> QED
      BY <1>3, <3>1, AtWorker, Zenon DEF begin_batch, WorkerRow, WorkerPlaces, Shut
  <2> QED
    BY <1>1, <2>1, WorkerGoes
<1>4. CASE bind
  <2>1. PICK j \in worker.todo : j = Min(worker.todo)
    BY <1>4, FirstJob, AtWorker DEF bind
  <2>2. j \in Jobs /\ worker.batch
    BY <1>4, <2>1, AtWorker DEF bind, WorkerInv
  <2>3. /\ worker' \in WorkerRow /\ worker'.held = worker.held
        /\ \/ worker'.at \in {"claim", "bind"} /\ worker'.batch = worker.batch
           \/ worker'.at = "scan" /\ worker'.batch = FALSE
        /\ worker'.bound \subseteq worker.bound \cup (Jobs \ gated)
    BY <1>4, <2>1, <2>2, AtWorker, Zenon DEF bind, WorkerRow, WorkerPlaces
  <2> QED
    BY <1>1, <2>2, <2>3, WorkerGoes, Zenon
<1>5. CASE bind_end
  <2>1. /\ worker' \in WorkerRow /\ worker'.at = "claim" /\ worker'.held = worker.held
        /\ worker'.bound = worker.bound /\ worker'.batch = worker.batch /\ worker.batch
    BY <1>5, AtWorker DEF bind_end, WorkerRow, WorkerPlaces, WorkerInv
  <2> QED
    BY <1>1, <2>1, WorkerGoes
<1> QED
  BY <1>2, <1>3, <1>4, <1>5

\* A step of the worker, outside deliveries, that moves rows.
LEMMA RowsMove ==
    ASSUME IInv, UNCHANGED <<sessions, told, lost, gated, cancel, loop, del>>, Fault \/ UNCHANGED faults,
           job' \in [Jobs -> Pending \cup Terminal \cup {"gone"}],
           outbox' \in [Jobs -> {"none", "pending", "published"}], deferred' \subseteq Jobs,
           \A j \in Jobs : RowStep(j),
           worker' \in WorkerRow, worker'.bound \subseteq worker.bound, worker'.batch => worker.batch,
           worker' = worker \/ worker'.at \notin {"parent", "child", "acknowledge"},
           worker'.held \subseteq worker.held \cup {j \in Jobs : job[j] # "gone"},
           worker'.held # {} => worker'.at = "work",
           worker'.at \in {"bind", "claim", "work"} => worker'.batch
    PROVE  IInv'
<1>1. faults' \in 0..MaxFaults
  BY FaultCounted
<1>2. Grows
  BY DEF Grows, Written, Ended, sessions
<1>3. WorkerInv'
  BY <1>2, WorkerKept
<1> QED
  BY <1>1, <1>3, WorkerMoves

\* The rows' types.
LEMMA AtRows ==
    ASSUME IInv
    PROVE  /\ job \in [Jobs -> Pending \cup Terminal \cup {"gone"}]
           /\ outbox \in [Jobs -> {"none", "pending", "published"}] /\ deferred \subseteq Jobs
           /\ told \subseteq Jobs /\ child \subseteq Jobs
           /\ run \in [Jobs -> {"none", "open", "closed"}]
  BY DEF IInv, TypeOK

\* One row is settled.
LEMMA Settling ==
    ASSUME IInv, NEW j \in Jobs, NEW status \in Terminal, job[j] \in Pending, Settle(j, status)
    PROVE  /\ job' \in [Jobs -> Pending \cup Terminal \cup {"gone"}]
           /\ outbox' \in [Jobs -> {"none", "pending", "published"}] /\ deferred' \subseteq Jobs
           /\ \A i \in Jobs : RowStep(i)
<1>1. job' = [job EXCEPT ![j] = status] /\ outbox' = [outbox EXCEPT ![j] = "pending"] /\ deferred' = deferred
  BY DEF Settle
<1>2. /\ job'[j] = status /\ outbox'[j] = "pending"
      /\ \A i \in Jobs : i # j => job'[i] = job[i] /\ outbox'[i] = outbox[i]
  BY <1>1, AtRows
<1> QED
  BY <1>1, <1>2, AtRows DEF RowStep

\* Startup and the selection, which may settle and requeue several rows.
LEMMA SelectStep ==
    ASSUME IInv, startup \/ select_work PROVE IInv'
<1>1. /\ UNCHANGED <<sessions, told, lost, gated, cancel, loop, del>> /\ UNCHANGED faults /\ worker.held = {}
  BY AtWorker, Zenon DEF startup, select_work, WorkerInv
<1>2. /\ worker' \in WorkerRow /\ worker'.at \in {"scan", "consider"} /\ worker'.held = worker.held
      /\ worker'.bound = worker.bound /\ worker'.batch = worker.batch
  <2>1. CASE startup
    BY <2>1, AtWorker DEF startup, WorkerRow, WorkerPlaces
  <2>2. CASE select_work
    <3>1. PICK S \in SUBSET Jobs : worker' = [worker EXCEPT !.at = "consider", !.todo = S]
      BY <2>2, Zenon DEF select_work
    <3> QED
      BY <3>1, AtWorker, Zenon DEF WorkerRow, WorkerPlaces
  <2> QED
    BY <2>1, <2>2
<1>3. /\ job' \in [Jobs -> Pending \cup Terminal \cup {"gone"}]
      /\ outbox' \in [Jobs -> {"none", "pending", "published"}] /\ deferred' \subseteq Jobs
      /\ \A j \in Jobs : RowStep(j)
  <2>1. CASE startup
    BY <2>1, AtRows DEF startup, RowStep, Terminal
  <2>2. CASE select_work
    <3>1. PICK expired \in SUBSET {j \in Jobs : job[j] \in {"leased", "running"}}, dead \in SUBSET Jobs :
              /\ dead \subseteq expired
              /\ job' = [j \in Jobs |-> IF j \in dead THEN "finished"
                                        ELSE IF j \in expired THEN "queued" ELSE job[j]]
              /\ outbox' = [j \in Jobs |-> IF j \in dead THEN "pending" ELSE outbox[j]]
              /\ deferred' = deferred \cup (expired \ dead)
      BY <2>2 DEF select_work
    <3>2. \A j \in expired : job[j] \in Pending
      BY DEF Pending
    <3> QED
      BY <3>1, <3>2, AtRows DEF RowStep, Terminal, Pending
  <2> QED
    BY <2>1, <2>2
<1> QED
  BY <1>1, <1>2, <1>3, RowsMove

\* The claim of the batch, and one whose answer is lost.
LEMMA ClaimStep ==
    ASSUME IInv, claim \/ claim_fails PROVE IInv'
<1> DEFINE S == First(Cardinality(worker.bound), Queued \ deferred)
<1>1. \A j \in S : j \in Jobs /\ job[j] = "queued"
  BY DEF First, Queued
<1>2. /\ job' = [j \in Jobs |-> IF j \in S THEN "leased" ELSE job[j]] \/ job' = job
      /\ UNCHANGED <<outbox, deferred, sessions, told, lost, gated, cancel, loop, del>> /\ (Fault \/ UNCHANGED faults)
      /\ worker.held = {} /\ worker.at = "claim" /\ worker.batch
  BY AtWorker DEF claim, claim_fails, WorkerInv
<1>3. worker' \in {[worker EXCEPT !.at = "scan", !.batch = FALSE], [worker EXCEPT !.at = "work", !.held = S],
                   [worker EXCEPT !.at = "scan"]}
  BY DEF claim, claim_fails
<1> HIDE DEF S
<1>4. /\ job' \in [Jobs -> Pending \cup Terminal \cup {"gone"}]
      /\ outbox' \in [Jobs -> {"none", "pending", "published"}] /\ deferred' \subseteq Jobs
      /\ \A j \in Jobs : RowStep(j)
  BY <1>1, <1>2, AtRows DEF RowStep, Pending
<1>5. /\ worker' \in WorkerRow /\ worker'.bound = worker.bound
      /\ \/ worker'.at = "scan" /\ worker'.held = worker.held
         \/ worker'.at = "work" /\ worker'.held = S /\ worker'.batch = worker.batch
  <2>1. S \subseteq Jobs
    BY <1>1
  <2>2. CASE worker' = [worker EXCEPT !.at = "scan", !.batch = FALSE]
    BY <2>2, AtWorker DEF WorkerRow, WorkerPlaces
  <2>3. CASE worker' = [worker EXCEPT !.at = "work", !.held = S]
    BY <2>1, <2>3, AtWorker DEF WorkerRow, WorkerPlaces
  <2>4. CASE worker' = [worker EXCEPT !.at = "scan"]
    BY <2>4, AtWorker DEF WorkerRow, WorkerPlaces
  <2> QED
    BY <1>3, <2>2, <2>3, <2>4, Zenon
<1>6. worker'.held \subseteq {j \in Jobs : job[j] # "gone"}
  BY <1>1, <1>2, <1>5, Zenon
<1> QED
  BY <1>2, <1>4, <1>5, <1>6, RowsMove, Zenon

\* A held job starts, ends or is lost, and a crash backoff ends.
LEMMA JobStep ==
    ASSUME IInv, NEW j \in Jobs, start_job(j) \/ finish_job(j) \/ lose_job(j) \/ due(j) PROVE IInv'
<1>1. UNCHANGED <<sessions, told, lost, gated, cancel, loop, del>> /\ (Fault \/ UNCHANGED faults)
  BY DEF start_job, finish_job, lose_job, due
<1>2. /\ worker' \in WorkerRow /\ worker'.bound = worker.bound /\ worker'.batch = worker.batch
      /\ worker'.held \subseteq worker.held
      /\ worker' = worker \/ (worker.at = "work" /\ worker'.at = "work")
  <2>1. worker' = worker \/ (worker.at = "work" /\ worker' = [worker EXCEPT !.held = @ \ {j}])
    BY DEF start_job, finish_job, lose_job, due
  <2> QED
    BY <2>1, AtWorker DEF WorkerRow
<1>3. /\ worker'.held # {} => worker'.at = "work"
      /\ worker'.at \in {"bind", "claim", "work"} => worker'.batch
  BY <1>2, AtWorker DEF WorkerInv
<1>4. /\ job' \in [Jobs -> Pending \cup Terminal \cup {"gone"}]
      /\ outbox' \in [Jobs -> {"none", "pending", "published"}] /\ deferred' \subseteq Jobs
      /\ \A i \in Jobs : RowStep(i)
  <2>1. CASE finish_job(j)
    BY <2>1, Settling DEF finish_job, Pending, Terminal
  <2>2. CASE start_job(j) \/ lose_job(j)
    <3>1. /\ \/ job' = job
             \/ job[j] \in Pending /\ \E v \in Pending : job' = [job EXCEPT ![j] = v]
          /\ outbox' = outbox /\ deferred' = deferred
      BY <2>2 DEF start_job, lose_job, Pending
    <3> QED
      BY <3>1, AtRows DEF RowStep
  <2>3. CASE due(j)
    BY <2>3, AtRows DEF due, RowStep
  <2> QED
    BY <2>1, <2>2, <2>3
<1> QED
  BY <1>1, <1>2, <1>3, <1>4, RowsMove

\* The child of a queued job is created.
LEMMA ConsiderStep ==
    ASSUME IInv, consider PROVE IInv'
<1>1. PICK j \in worker.todo : j = Min(worker.todo)
  BY FirstJob, AtWorker DEF consider
<1>2. /\ UNCHANGED <<rows, told, lost, parentHere, deleted, gated, cancel, loop, del, faults>> /\ j \in Jobs
      /\ worker.at = "consider" /\ worker.held = {}
  BY <1>1, AtWorker DEF consider, WorkerInv
<1>3. \/ child' = child /\ run' = run
      \/ /\ parentHere /\ child' = child \cup {j}
         /\ run' = [run EXCEPT ![j] = IF @ = "none" THEN "open" ELSE @]
  BY <1>1 DEF consider
<1>4. /\ worker' \in WorkerRow /\ worker'.at \in {"consider", "batch", "scan"} /\ worker'.held = worker.held
      /\ worker'.bound = worker.bound /\ worker'.batch = worker.batch
  <2>1. PICK p \in {"consider", "batch", "scan"} : worker' = [worker EXCEPT !.todo = @ \ {j}, !.at = p]
    BY <1>1, <1>2, Zenon DEF consider
  <2> QED
    BY <2>1, AtWorker, Zenon DEF WorkerRow, WorkerPlaces
<1>5. /\ run' \in [Jobs -> {"none", "open", "closed"}] /\ child' \subseteq Jobs
      /\ \A i \in Jobs : run[i] = "closed" => run'[i] = "closed"
  BY <1>2, <1>3, AtRows
<1>6. Grows
  BY <1>2, <1>5 DEF Grows, Written, RowStep, Ended, rows
<1>7. TypeOK'
  BY <1>2, <1>4, <1>5 DEF IInv, TypeOK, rows
<1>8. WorkerInv'
  BY <1>2, <1>4, <1>6, WorkerKept
<1>9. \A i \in Jobs : ChildWork(i)' => ChildWork(i)
  BY <1>4 DEF ChildWork, Delivering
<1>10. ParentWork' => ParentWork
  BY <1>2, <1>4 DEF ParentWork, Delivering
<1>11. Nothing => told' = {} /\ worker'.held = {}
  BY <1>2, <1>4 DEF Nothing
<1>12. ~parentHere => child' = child
  BY <1>3
<1> QED
  BY <1>2, <1>6, <1>7, <1>8, <1>9, <1>10, <1>11, <1>12, PlainMoves

\* A queued job is stopped, or left because its row has moved or is not due.
LEMMA ConsiderStopStep ==
    ASSUME IInv, consider_stops PROVE IInv'
<1>1. PICK j \in worker.todo : j = Min(worker.todo)
  BY FirstJob, AtWorker DEF consider_stops
<1>2. /\ UNCHANGED <<sessions, told, lost, gated, cancel, loop, del, faults>> /\ j \in Jobs
      /\ worker.at = "consider" /\ worker.held = {}
  BY <1>1, AtWorker DEF consider_stops, WorkerInv
<1>3. /\ worker' \in WorkerRow /\ worker'.at = "consider" /\ worker'.held = worker.held
      /\ worker'.bound = worker.bound /\ worker'.batch = worker.batch
  <2>1. worker' = [worker EXCEPT !.todo = @ \ {j}]
    BY <1>1 DEF consider_stops
  <2> QED
    BY <1>2, <2>1, AtWorker, Zenon DEF WorkerRow
<1>4. /\ job' \in [Jobs -> Pending \cup Terminal \cup {"gone"}]
      /\ outbox' \in [Jobs -> {"none", "pending", "published"}] /\ deferred' \subseteq Jobs
      /\ \A i \in Jobs : RowStep(i)
  <2>1. ASSUME NEW status \in Terminal, job[j] = "queued", Settle(j, status)
        PROVE  /\ job' \in [Jobs -> Pending \cup Terminal \cup {"gone"}]
               /\ outbox' \in [Jobs -> {"none", "pending", "published"}] /\ deferred' \subseteq Jobs
               /\ \A i \in Jobs : RowStep(i)
    BY <1>2, <2>1, Settling DEF Pending
  <2>2. CASE UNCHANGED rows
    BY <2>2, AtRows DEF RowStep, rows
  <2> QED
    BY <1>1, <2>1, <2>2 DEF consider_stops, Terminal
<1> QED
  BY <1>2, <1>3, <1>4, RowsMove

-----------------------------------------------------------------------------
(* Cancelled runs, and the runs of the parent. *)

\* A step that leaves the worker where it is.
LEMMA WorkerStays ==
    ASSUME IInv, Grows, worker' = worker PROVE WorkerInv'
  BY WorkerKept, AtWorker DEF WorkerInv

\* A step of a cancellation task.
LEMMA CancelMoves ==
    ASSUME IInv, TypeOK', Grows, UNCHANGED <<worker, child, parentHere, gated, del, loop>>,
           Shut /\ (\E j \in Jobs : cancel'[j] # "none") => \E j \in Jobs : cancel[j] # "none",
           told' = told \/ \E j \in Jobs : cancel[j] # "none"
    PROVE  IInv'
<1>1. WorkerInv'
  BY WorkerStays
<1>2. \A j \in Jobs : ChildWork(j)' => ChildWork(j)
  BY DEF ChildWork, Delivering
<1>3. Shut /\ ParentWork' => ParentWork
  BY DEF ParentWork, Delivering
<1>4. Nothing => told' = {} /\ worker'.held = {}
  BY DEF Nothing, ParentWork
<1> QED
  BY <1>1, <1>2, <1>3, <1>4, PlainMoves

\* The run is closed, and a task is left if the parent takes one.
LEMMA CancelRunStep ==
    ASSUME IInv, NEW j \in Jobs, cancel_run(j) PROVE IInv'
<1>1. /\ UNCHANGED <<job, outbox, deferred, child, told, lost, parentHere, deleted, gated, worker, del, loop, faults>>
      /\ run' = [run EXCEPT ![j] = "closed"] /\ j \in child
      /\ cancel' = [cancel EXCEPT ![j] = IF Parent \in gated THEN "none" ELSE "cancel"]
  BY DEF cancel_run, rows
<1>2. cancel \in [Jobs -> {"none", "cancel", "tell"}]
  BY DEF IInv, TypeOK
<1>3. run' \in [Jobs -> {"none", "open", "closed"}] /\ \A i \in Jobs : run[i] = "closed" => run'[i] = "closed"
  BY <1>1, AtRows
<1>4. cancel' \in [Jobs -> {"none", "cancel", "tell"}]
  BY <1>1, <1>2
<1>5. TypeOK'
  BY <1>1, <1>3, <1>4 DEF IInv, TypeOK
<1>6. Grows
  BY <1>1, <1>3 DEF Grows, Written, RowStep, Ended
<1>7. Shut => Parent \in gated
  BY <1>1 DEF IInv, Shut
<1>8. Shut /\ (\E i \in Jobs : cancel'[i] # "none") => \E i \in Jobs : cancel[i] # "none"
  BY <1>1, <1>2, <1>7
<1> QED
  BY <1>1, <1>5, <1>6, <1>8, CancelMoves

\* The task cancels the job, tells the parent, or fails.
LEMMA CancelTaskStep ==
    ASSUME IInv, NEW j \in Jobs, CancelTask(j) \/ cancel_fails(j) PROVE IInv'
<1>1. /\ UNCHANGED <<child, run, parentHere, deleted, gated, worker, del, loop>> /\ (Fault \/ UNCHANGED faults)
      /\ cancel[j] # "none"
  BY DEF CancelTask, cancel_job, cancel_tell, cancel_fails, durable, sessions
<1>2. cancel' \in [Jobs -> {"none", "cancel", "tell"}]
  <2>1. PICK v \in {"none", "tell"} : cancel' = [cancel EXCEPT ![j] = v]
    BY DEF CancelTask, cancel_job, cancel_tell, cancel_fails
  <2> QED
    BY <2>1 DEF IInv, TypeOK
<1>3. Tells(j) \/ Holds
  BY DEF CancelTask, cancel_job, cancel_tell, cancel_fails, durable, Tells, Holds
<1>4. /\ job' \in [Jobs -> Pending \cup Terminal \cup {"gone"}]
      /\ outbox' \in [Jobs -> {"none", "pending", "published"}] /\ deferred' \subseteq Jobs
      /\ \A i \in Jobs : RowStep(i)
  <2>1. CASE job[j] \in Pending /\ Settle(j, "cancelled")
    BY <2>1, Settling DEF Terminal
  <2>2. CASE UNCHANGED rows
    BY <2>2, AtRows DEF RowStep, rows
  <2> QED
    BY <2>1, <2>2 DEF CancelTask, cancel_job, cancel_tell, cancel_fails, durable, rows
<1>5. faults' \in 0..MaxFaults
  BY <1>1, FaultCounted
<1>6. TypeOK'
  <2>1. told' \subseteq Jobs /\ lost' \subseteq Jobs
    BY <1>3, SnapshotGrows
  <2> QED
    BY <1>1, <1>2, <1>4, <1>5, <2>1 DEF IInv, TypeOK
<1>7. Grows
  <2>1. Written \subseteq Written'
    BY <1>3, SnapshotGrows
  <2> QED
    BY <1>1, <1>4, <2>1 DEF Grows, Ended
<1> QED
  BY <1>1, <1>6, <1>7, CancelMoves

\* A run of the parent reads the snapshot, saves what it read, or ends.
LEMMA ParentRunStep ==
    ASSUME IInv, load_session \/ save_session \/ end_run PROVE IInv'
<1>1. UNCHANGED <<rows, sessions, gated, worker, cancel, del, faults>>
  BY DEF load_session, save_session, end_run, durable, rows, sessions
<1>2. /\ told' \subseteq Jobs /\ lost' \subseteq Jobs /\ loop' \subseteq SUBSET Jobs
      /\ Written \subseteq Written' /\ (loop = {} => told' = told)
      /\ Shut /\ loop = {} => loop' = {}
  <2>1. told \subseteq Jobs /\ lost \subseteq Jobs /\ loop \subseteq SUBSET Jobs
    BY DEF IInv, TypeOK
  <2>2. CASE load_session \/ end_run
    BY <2>1, <2>2 DEF load_session, end_run, durable, Written, Shut
  <2>3. CASE save_session
    BY <2>1, <2>3 DEF save_session, Written
  <2> QED
    BY <2>2, <2>3
<1>3. TypeOK'
  BY <1>1, <1>2 DEF IInv, TypeOK, rows, sessions
<1>4. Grows
  BY <1>1, <1>2 DEF Grows, RowStep, Ended, rows, sessions
<1>5. WorkerInv'
  BY <1>1, <1>4, WorkerStays
<1>6. (\A j \in Jobs : ChildWork(j)' => ChildWork(j)) /\ (ParentWork' => ParentWork)
  BY <1>1 DEF ChildWork, ParentWork, Delivering
<1>7. Nothing => told' = {} /\ worker'.held = {}
  BY <1>1, <1>2 DEF Nothing
<1> QED
  BY <1>1, <1>2, <1>3, <1>4, <1>5, <1>6, <1>7, PlainMoves DEF sessions

-----------------------------------------------------------------------------
(* Deletion of a child. *)

\* A step of the deletion of one child.
LEMMA ChildMoves ==
    ASSUME IInv, NEW j \in Jobs \cap Roots, NEW d \in DeletionRow, del' = [del EXCEPT ![j] = d],
           UNCHANGED <<worker, cancel, loop, parentHere>>, TypeOK', Grows, ChildInv(j)', child' \subseteq child,
           d.at = "tell" => del[j].at = "tell" \/ ~Shut,
           told' = told \/ del[j].at = "tell",
           d.at # "none" => del[j].at # "none" \/ j \notin gated,
           \/ gated' = gated \/ gated' = gated \cup {j}
           \/ gated' = gated \ {j} /\ del[j].at # "none"
    PROVE  IInv'
<1>1. del \in [Roots -> DeletionRow] /\ Parent \notin Jobs
  BY JobOrder, Zenon DEF IInv, TypeOK
<1>2. del'[j] = d /\ \A r \in Roots : r # j => del'[r] = del[r]
  BY <1>1
<1>3. WorkerInv'
  BY WorkerStays
<1>4. \A i \in Jobs : ChildWork(i)' => ChildWork(i)
  BY DEF ChildWork, Delivering
<1>5. Shut /\ ParentWork' => ParentWork
  BY <1>2 DEF ParentWork, Delivering
<1>6. Nothing => told' = {} /\ worker'.held = {}
  BY DEF Nothing, ParentWork
<1>7. \A i \in Jobs \cap Roots :
          ChildInv(i)' \/ (del'[i] = del[i] /\ (del[i].at # "none" => i \in gated'))
  BY <1>2 DEF IInv, ChildInv
<1>8. Parent \in Roots => ParentKept
  <2> SUFFICES ASSUME Parent \in Roots PROVE ParentKept
    OBVIOUS
  <2>1. ParentInv /\ del'[Parent] = del[Parent]
    BY <1>1, <1>2 DEF IInv
  <2>2. del[Parent].guarded \subseteq gated'
    BY <2>1 DEF ParentInv
  <2>3. Parent \in gated => Parent \in gated'
    BY <1>1
  <2> QED
    BY <1>2, <2>1, <2>2, <2>3 DEF ParentKept
<1>9. ~parentHere' => child' = {} /\ ~parentHere
  BY DEF IInv
<1> QED
  BY <1>3, <1>4, <1>5, <1>6, <1>7, <1>8, <1>9, Moves

\* A deletion's row, field by field.
LEMMA AtDeletion ==
    ASSUME IInv, NEW j \in Jobs \cap Roots
    PROVE  /\ del[j] \in DeletionRow /\ ChildInv(j) /\ del \in [Roots -> DeletionRow]
           /\ del[j].guarded = {} /\ del[j].seen \in Pending \cup Terminal \cup {"none"}
  BY DEF IInv, TypeOK, ChildInv, DeletionRow

\* A deletion goes to another place.
LEMMA MovedTo ==
    ASSUME IInv, NEW j \in Jobs \cap Roots, NEW p \in DeletionPlaces, del' = [del EXCEPT ![j].at = p]
    PROVE  \E d \in DeletionRow : del' = [del EXCEPT ![j] = d] /\ d.at = p /\ d.guarded = {}
<1> DEFINE d == [del[j] EXCEPT !.at = p]
<1>1. del' = [del EXCEPT ![j] = d]
  BY AtDeletion
<1>2. d \in DeletionRow /\ d.at = p /\ d.guarded = {}
  BY AtDeletion DEF DeletionRow
<1> HIDE DEF d
<1> QED
  BY <1>1, <1>2, Zenon

\* A step that moves a child's deletion and nothing durable.
LEMMA DeletionGoes ==
    ASSUME IInv, NEW j \in Jobs \cap Roots, NEW d \in DeletionRow, del' = [del EXCEPT ![j] = d],
           UNCHANGED <<durable, worker, cancel, loop>>, Fault \/ UNCHANGED faults,
           d.guarded = {}, d.at \notin {"acknowledge"},
           d.at # "none" => j \in gated', d.at = "stop" => d.seen \in Pending,
           d.at = "tell" => job[j] \notin Pending /\ ~Shut,
           d.at \in {"pending", "tell", "remove"} => ~ChildWork(j),
           d.at # "none" => del[j].at # "none" \/ j \notin gated,
           \/ gated' = gated \/ gated' = gated \cup {j}
           \/ gated' = gated \ {j} /\ del[j].at # "none"
    PROVE  IInv'
<1>1. Grows
  BY DurableGrows
<1>2. faults' \in 0..MaxFaults
  BY FaultCounted
<1>3. TypeOK'
  BY <1>2 DEF IInv, TypeOK, durable
<1>4. del'[j] = d
  BY AtDeletion
<1>5. ChildInv(j)'
  BY <1>4 DEF ChildInv, ChildWork, Delivering, durable
<1> QED
  BY <1>1, <1>3, <1>5, ChildMoves, Zenon DEF durable

\* A deletion begins, reads its job, waits, and looks for what is pending.
LEMMA DeletionStep ==
    ASSUME IInv, NEW j \in Jobs \cap Roots,
           delete_child(j) \/ delete_look(j) \/ delete_drain(j) \/ delete_pending(j)
    PROVE  IInv'
<1>1. UNCHANGED <<durable, worker, cancel, loop>> /\ UNCHANGED faults
  BY DEF delete_child, delete_look, delete_drain, delete_pending
<1>2. CASE delete_child(j)
  <2>1. PICK d \in DeletionRow : /\ del' = [del EXCEPT ![j] = d] /\ d.at = "cancel" /\ d.guarded = {}
    BY <1>2, MovedTo, Zenon DEF delete_child, DeletionPlaces
  <2>2. gated' = gated \cup {j} /\ j \notin gated
    BY <1>2 DEF delete_child
  <2> QED
    BY <1>1, <2>1, <2>2, DeletionGoes, Zenon
<1>3. CASE delete_look(j)
  <2>1. gated' = gated /\ del[j].at = "look" /\ job[j] # "gone" /\ j \in gated
    BY <1>3, AtDeletion DEF delete_look, ChildInv
  <2>2. job[j] \in Pending \cup Terminal
    BY <2>1, AtRows
  <2>3. PICK d \in DeletionRow : /\ del' = [del EXCEPT ![j] = d] /\ d.guarded = {}
                                 /\ d.at = IF job[j] \in Terminal THEN "drain" ELSE "stop"
                                 /\ d.seen = job[j]
    <3> DEFINE p == IF job[j] \in Terminal THEN "drain" ELSE "stop"
               d == [del[j] EXCEPT !.at = p, !.seen = job[j]]
    <3>1. del' = [del EXCEPT ![j] = d]
      BY <1>3, AtDeletion, Zenon DEF delete_look
    <3>2. p \in DeletionPlaces
      BY DEF DeletionPlaces
    <3> HIDE DEF p
    <3>3. d \in DeletionRow /\ d.at = p /\ d.seen = job[j] /\ d.guarded = {}
      BY <2>2, <3>2, AtDeletion, Zenon DEF DeletionRow
    <3> HIDE DEF d
    <3> QED
      BY <3>1, <3>3, Zenon DEF p
  <2> QED
    BY <1>1, <2>1, <2>2, <2>3, DeletionGoes, Zenon
<1>4. CASE delete_drain(j)
  <2>1. PICK d \in DeletionRow : /\ del' = [del EXCEPT ![j] = d] /\ d.at = "pending" /\ d.guarded = {}
    BY <1>4, MovedTo, Zenon DEF delete_drain, DeletionPlaces
  <2>2. gated' = gated /\ j \in gated /\ del[j].at # "none" /\ ~ChildWork(j)
    BY <1>4, AtDeletion DEF delete_drain, ChildInv
  <2> QED
    BY <1>1, <2>1, <2>2, DeletionGoes, Zenon
<1>5. CASE delete_pending(j)
  <2>1. PICK d \in DeletionRow : /\ del' = [del EXCEPT ![j] = d] /\ d.guarded = {}
                                 /\ d.at = IF outbox[j] = "pending" THEN "tell" ELSE "remove"
    <3> DEFINE p == IF outbox[j] = "pending" THEN "tell" ELSE "remove"
    <3>1. del' = [del EXCEPT ![j].at = p]
      BY <1>5 DEF delete_pending
    <3>2. p \in DeletionPlaces
      BY DEF DeletionPlaces
    <3> HIDE DEF p
    <3>3. \E d \in DeletionRow : del' = [del EXCEPT ![j] = d] /\ d.at = p /\ d.guarded = {}
      BY <3>1, <3>2, MovedTo, Zenon
    <3> QED
      BY <3>3, Zenon DEF p
  <2>2. gated' = gated /\ j \in gated /\ del[j].at # "none" /\ ~ChildWork(j)
    BY <1>5, AtDeletion DEF delete_pending, ChildInv
  <2>3. outbox[j] = "pending" => job[j] \notin Pending /\ ~Shut
    BY <1>5 DEF delete_pending, Deliverable, Terminal, Pending, Shut, IInv, Nothing
  <2> QED
    BY <1>1, <2>1, <2>2, <2>3, DeletionGoes, Zenon
<1> QED
  BY <1>2, <1>3, <1>4, <1>5

\* A deletion fails and opens its gate.
LEMMA DeletionFails ==
    ASSUME IInv, NEW j \in Jobs \cap Roots, delete_fails(j) PROVE IInv'
<1>1. /\ UNCHANGED <<durable, worker, cancel, loop>> /\ (Fault \/ UNCHANGED faults)
      /\ del' = [del EXCEPT ![j] = NoDeletion] /\ del[j].at # "none"
  BY DEF delete_fails, NoFault
<1>2. gated' = gated \ {j}
  BY AtDeletion DEF delete_fails
<1>3. NoDeletion \in DeletionRow /\ NoDeletion.at = "none" /\ NoDeletion.guarded = {}
  BY DEF NoDeletion, DeletionRow, DeletionPlaces
<1> QED
  BY <1>1, <1>2, <1>3, DeletionGoes, Zenon

\* A step of a child's deletion that writes, with the gate held.
LEMMA DeletionWrites ==
    ASSUME IInv, NEW j \in Jobs \cap Roots, NEW d \in DeletionRow, del' = [del EXCEPT ![j] = d],
           d.guarded = {},
           UNCHANGED <<worker, cancel, loop, gated, child, parentHere, deleted, faults>>,
           d.at \in {"look", "drain", "acknowledge", "remove"}, del[j].at # "none",
           job' \in [Jobs -> Pending \cup Terminal \cup {"gone"}],
           outbox' \in [Jobs -> {"none", "pending", "published"}], deferred' \subseteq Jobs,
           \A i \in Jobs : RowStep(i),
           run' \in [Jobs -> {"none", "open", "closed"}],
           \A i \in Jobs : run[i] = "closed" => run'[i] = "closed",
           Holds \/ (Tells(j) /\ del[j].at = "tell"),
           d.at \in {"acknowledge", "remove"} => ~ChildWork(j),
           d.at = "acknowledge" => job'[j] \notin Pending /\ Tells(j) /\ run'[j] = "closed"
    PROVE  IInv'
<1>2. del'[j] = d /\ j \in gated
  BY AtDeletion DEF ChildInv
<1>1. /\ Written \subseteq Written' /\ told' \subseteq Jobs /\ lost' \subseteq Jobs
      /\ d.at = "acknowledge" => j \in Written'
  BY SnapshotGrows
<1>3. TypeOK'
  <2>1. del' \in [Roots -> DeletionRow]
    BY AtDeletion
  <2> QED
    BY <1>1, <2>1 DEF IInv, TypeOK
<1>4. Grows
  BY <1>1 DEF Grows, Ended
<1>5. ChildInv(j)'
  BY <1>1, <1>2 DEF ChildInv, ChildWork, Delivering, Ended
<1>6. told' = told \/ del[j].at = "tell"
  BY DEF Holds
<1> QED
  BY <1>3, <1>4, <1>5, <1>6, ChildMoves, Zenon

\* The child's run is ended, its job stopped, its result told and acknowledged.
LEMMA DeletionWriteStep ==
    ASSUME IInv, NEW j \in Jobs \cap Roots,
           delete_cancel(j) \/ delete_stop(j) \/ delete_tell(j) \/ delete_acknowledge(j)
    PROVE  IInv'
<1>1. /\ UNCHANGED <<worker, cancel, loop, gated, child, parentHere, deleted, faults>> /\ del[j].at # "none"
  BY DEF delete_cancel, delete_stop, delete_tell, delete_acknowledge, sessions
<1>2. CASE delete_cancel(j)
  <2>1. /\ del' = [del EXCEPT ![j].at = "look"] /\ UNCHANGED <<job, outbox, deferred, told, lost>>
        /\ run' = [run EXCEPT ![j] = IF @ = "open" THEN "closed" ELSE @]
    BY <1>2 DEF delete_cancel, rows
  <2>2. /\ run' \in [Jobs -> {"none", "open", "closed"}]
        /\ \A i \in Jobs : run[i] = "closed" => run'[i] = "closed"
    BY <2>1, AtRows
  <2>3. \A i \in Jobs : RowStep(i)
    BY <2>1 DEF RowStep
  <2> PICK d \in DeletionRow : del' = [del EXCEPT ![j] = d] /\ d.at = "look" /\ d.guarded = {}
    BY <2>1, MovedTo, Zenon DEF DeletionPlaces
  <2> QED
    BY <1>1, <2>1, <2>2, <2>3, AtRows, DeletionWrites, Zenon DEF Holds
<1>3. CASE delete_stop(j)
  <2>1. /\ del' = [del EXCEPT ![j].at = "drain"] /\ UNCHANGED <<run, told, lost>> /\ del[j].seen \in Pending
        /\ (job[j] = del[j].seen /\ Settle(j, "cancelled")) \/ UNCHANGED rows
    BY <1>3, AtDeletion DEF delete_stop, sessions, ChildInv
  <2>2. /\ job' \in [Jobs -> Pending \cup Terminal \cup {"gone"}]
        /\ outbox' \in [Jobs -> {"none", "pending", "published"}] /\ deferred' \subseteq Jobs
        /\ \A i \in Jobs : RowStep(i)
    <3>1. CASE job[j] = del[j].seen /\ Settle(j, "cancelled")
      BY <2>1, <3>1, Settling DEF Terminal
    <3>2. CASE UNCHANGED rows
      BY <3>2, AtRows DEF rows, RowStep
    <3> QED
      BY <2>1, <3>1, <3>2
  <2> PICK d \in DeletionRow : del' = [del EXCEPT ![j] = d] /\ d.at = "drain" /\ d.guarded = {}
    BY <2>1, MovedTo, Zenon DEF DeletionPlaces
  <2> QED
    BY <1>1, <2>1, <2>2, AtRows, DeletionWrites, Zenon DEF Holds
<1>4. CASE delete_tell(j)
  <2>1. /\ del' = [del EXCEPT ![j].at = "acknowledge"] /\ UNCHANGED <<job, outbox, deferred>>
        /\ Tells(j) /\ run' = [run EXCEPT ![j] = "closed"] /\ del[j].at = "tell"
    BY <1>4 DEF delete_tell, rows, Tells
  <2>2. /\ run' \in [Jobs -> {"none", "open", "closed"}] /\ run'[j] = "closed"
        /\ \A i \in Jobs : run[i] = "closed" => run'[i] = "closed"
    BY <2>1, AtRows
  <2>3. \A i \in Jobs : RowStep(i)
    BY <2>1 DEF RowStep
  <2>4. job'[j] \notin Pending /\ ~ChildWork(j)
    BY <2>1, AtDeletion DEF ChildInv
  <2> PICK d \in DeletionRow : del' = [del EXCEPT ![j] = d] /\ d.at = "acknowledge" /\ d.guarded = {}
    BY <2>1, MovedTo, Zenon DEF DeletionPlaces
  <2> QED
    BY <1>1, <2>1, <2>2, <2>3, <2>4, AtRows, DeletionWrites, Zenon
<1>5. CASE delete_acknowledge(j)
  <2>1. /\ del' = [del EXCEPT ![j].at = "remove"] /\ UNCHANGED <<job, deferred, run, told, lost, deleted>>
        /\ outbox' = [outbox EXCEPT ![j] = IF @ = "pending" THEN "published" ELSE @]
        /\ del[j].at = "acknowledge"
    BY <1>5 DEF delete_acknowledge, sessions
  <2>2. /\ outbox' \in [Jobs -> {"none", "pending", "published"}]
        /\ \A i \in Jobs : i # j => outbox'[i] = outbox[i]
        /\ outbox'[j] = outbox[j] \/ (outbox[j] = "pending" /\ outbox'[j] = "published")
    BY <2>1, AtRows
  <2>3. ~ChildWork(j) /\ Ended(j) /\ (outbox[j] = "pending" => j \in Written)
    BY <2>1, AtDeletion DEF ChildInv
  <2>4. \A i \in Jobs : RowStep(i)
    BY <2>1, <2>2, <2>3 DEF RowStep, Ended, Written
  <2>5. /\ job' \in [Jobs -> Pending \cup Terminal \cup {"gone"}] /\ deferred' \subseteq Jobs
        /\ run' \in [Jobs -> {"none", "open", "closed"}] /\ run' = run
    BY <2>1, AtRows
  <2>6. PICK d \in DeletionRow : del' = [del EXCEPT ![j] = d] /\ d.at = "remove" /\ d.guarded = {}
    BY <2>1, MovedTo, Zenon DEF DeletionPlaces
  <2>7. Holds /\ outbox' \in [Jobs -> {"none", "pending", "published"}]
    BY <2>1, <2>2 DEF Holds
  <2> QED
    BY <1>1, <2>3, <2>4, <2>5, <2>6, <2>7, DeletionWrites, Zenon
<1> QED
  BY <1>2, <1>3, <1>4, <1>5

\* The child is removed.
LEMMA RemoveStep ==
    ASSUME IInv, NEW j \in Jobs \cap Roots, delete_remove(j) PROVE IInv'
<1>1. /\ UNCHANGED <<job, outbox, deferred, told, lost, parentHere, worker, cancel, loop, faults>>
      /\ child' = child \ {j} /\ run' = [run EXCEPT ![j] = "none"] /\ deleted' = deleted \cup {j}
      /\ gated' = gated \ {j} /\ del' = [del EXCEPT ![j] = NoDeletion] /\ del[j].at # "none"
  BY DEF delete_remove, rows
<1>2. NoDeletion \in DeletionRow /\ NoDeletion.at = "none" /\ NoDeletion.guarded = {}
  BY DEF NoDeletion, DeletionRow, DeletionPlaces
<1>3. /\ run' \in [Jobs -> {"none", "open", "closed"}] /\ \A i \in Jobs : i # j => run'[i] = run[i]
      /\ child' \subseteq Jobs
  BY <1>1, AtRows
<1>4. TypeOK'
  BY <1>1, <1>2, <1>3 DEF IInv, TypeOK
<1>5. Grows
  BY <1>1, <1>3 DEF Grows, Written, RowStep, Ended
<1>6. ChildInv(j)'
  <2>1. del'[j] = NoDeletion
    BY <1>1, AtDeletion
  <2> QED
    BY <1>2, <2>1 DEF ChildInv
<1> QED
  BY <1>1, <1>2, <1>4, <1>5, <1>6, ChildMoves, Zenon

-----------------------------------------------------------------------------
(* The parent's deletion and the exit of the process. *)

\* The parent's deletion, field by field.
LEMMA AtParent ==
    ASSUME IInv, Parent \in Roots
    PROVE  /\ del[Parent] \in DeletionRow /\ ParentInv /\ del \in [Roots -> DeletionRow]
           /\ del[Parent].guarded \subseteq Jobs /\ Parent \notin Jobs
           /\ \A j \in Jobs \cap Roots : del[j].at # "none" => j \in gated
  BY JobOrder DEF IInv, TypeOK, DeletionRow, ChildInv

\* A step of the parent's deletion that leaves the worker and the snapshot.
LEMMA ParentMoves ==
    ASSUME IInv, Parent \in Roots, NEW d \in DeletionRow, del' = [del EXCEPT ![Parent] = d],
           UNCHANGED <<worker, cancel, loop, told, lost>>, Grows, TypeOK', ParentInv',
           \A j \in Jobs \cap Roots : del[j].at # "none" => j \in gated',
           ~parentHere' => child' = {} /\ (~parentHere \/ (Shut /\ Nothing))
    PROVE  IInv'
<1>1. \A j \in Jobs \cap Roots : del'[j] = del[j]
  BY AtParent
<1>2. WorkerInv'
  BY WorkerStays
<1>3. \A j \in Jobs : ChildWork(j)' => ChildWork(j)
  BY DEF ChildWork, Delivering
<1>4. ParentWork' => ParentWork
  BY <1>1 DEF ParentWork, Delivering
<1>5. Nothing => told' = {} /\ worker'.held = {}
  BY DEF Nothing
<1> QED
  BY <1>1, <1>2, <1>3, <1>4, <1>5, Moves

\* ParentWork and Nothing depend on the children's deletions only.
LEMMA SameParentWork ==
    ASSUME IInv, Parent \in Roots, NEW d \in DeletionRow, del' = [del EXCEPT ![Parent] = d],
           UNCHANGED <<worker, cancel, loop>>
    PROVE  ParentWork' <=> ParentWork
<1>1. \A j \in Jobs \cap Roots : del'[j] = del[j]
  BY AtParent
<1> QED
  BY <1>1 DEF ParentWork, Delivering

\* The parent is gated, then the children that exist.
LEMMA ParentGateStep ==
    ASSUME IInv, Parent \in Roots, delete_parent \/ parent_gate PROVE IInv'
<1>1. UNCHANGED <<durable, worker, cancel, loop, faults>>
  BY DEF delete_parent, parent_gate
<1>2. PICK d \in DeletionRow :
          /\ del' = [del EXCEPT ![Parent] = d] /\ d.at \in {"gate", "stop"}
          /\ gated' = gated \cup {Parent} \cup d.guarded
          /\ d.guarded \subseteq Jobs
          /\ \A j \in d.guarded : j \in del[Parent].guarded \/ j \notin gated
          /\ d.at = "stop" => loop = {}
  <2>1. CASE delete_parent
    <3> DEFINE d == [del[Parent] EXCEPT !.at = "gate"]
    <3>1. del' = [del EXCEPT ![Parent] = d]
      BY <2>1, AtParent DEF delete_parent
    <3>2. d \in DeletionRow /\ d.at = "gate" /\ d.guarded = del[Parent].guarded
      BY AtParent DEF DeletionRow, DeletionPlaces
    <3>3. gated' = gated \cup {Parent} /\ del[Parent].guarded \subseteq gated
      BY <2>1, AtParent DEF delete_parent, ParentInv
    <3> HIDE DEF d
    <3> QED
      BY <3>1, <3>2, <3>3, AtParent, Zenon
  <2>2. CASE parent_gate
    <3> DEFINE added == child \ del[Parent].guarded
               d == [del[Parent] EXCEPT !.at = "stop", !.guarded = @ \cup added]
    <3>1. del' = [del EXCEPT ![Parent] = d] /\ added \cap gated = {} /\ gated' = gated \cup added
      BY <2>2, AtParent, Zenon DEF parent_gate
    <3>2. d \in DeletionRow /\ d.at = "stop" /\ d.guarded = del[Parent].guarded \cup added
      BY AtParent, AtRows, Zenon DEF DeletionRow, DeletionPlaces
    <3>3. Parent \in gated /\ del[Parent].guarded \subseteq gated /\ loop = {}
      BY <2>2, AtParent DEF parent_gate, ParentInv
    <3>4. d.guarded \subseteq Jobs
      BY <3>2, Zenon DEF DeletionRow
    <3> HIDE DEF d, added
    <3> QED
      BY <3>1, <3>2, <3>3, <3>4, Zenon
  <2> QED
    BY <2>1, <2>2
<1>3. del'[Parent] = d /\ \A j \in Jobs \cap Roots : del'[j] = del[j]
  BY <1>2, AtParent
<1>4. TypeOK'
  <2>1. del' \in [Roots -> DeletionRow] /\ gated' \subseteq Jobs \cup {Parent}
    BY <1>2, AtParent DEF IInv, TypeOK
  <2> QED
    BY <1>1, <2>1 DEF IInv, TypeOK, durable
<1>5. ParentInv'
  BY <1>1, <1>2, <1>3, AtParent DEF ParentInv
<1>6. Grows
  BY <1>1, DurableGrows
<1>7. ~parentHere' => child' = {} /\ ~parentHere
  BY <1>1 DEF durable, IInv
<1>8. \A j \in Jobs \cap Roots : del[j].at # "none" => j \in gated'
  BY <1>2, AtParent
<1> QED
  BY <1>1, <1>2, <1>4, <1>5, <1>6, <1>7, <1>8, ParentMoves, Zenon DEF durable

\* A step of the parent's deletion within its gates.
LEMMA ParentGoes ==
    ASSUME IInv, Parent \in Roots, NEW p \in DeletionPlaces, del' = [del EXCEPT ![Parent].at = p],
           UNCHANGED <<worker, cancel, loop, told, lost, gated, child, parentHere, faults, deleted, rows>>,
           run' \in [Jobs -> {"none", "open", "closed"}],
           \A j \in Jobs : run[j] = "closed" => run'[j] = "closed",
           del[Parent].at \notin {"none", "gate"}, p # "files", p = "rows" => ~ParentWork
    PROVE  IInv'
<1> DEFINE d == [del[Parent] EXCEPT !.at = p]
<1>1. d \in DeletionRow /\ d.at = p /\ d.guarded = del[Parent].guarded
  BY AtParent DEF DeletionRow
<1>2. del' = [del EXCEPT ![Parent] = d]
  BY AtParent
<1> HIDE DEF d
<1>3. del'[Parent] = d /\ \A j \in Jobs \cap Roots : del'[j] = del[j]
  BY <1>2, AtParent
<1>4. TypeOK'
  <2>1. del' \in [Roots -> DeletionRow]
    BY <1>1, <1>2, AtParent
  <2> QED
    BY <2>1 DEF IInv, TypeOK, rows
<1>5. Grows
  BY DEF Grows, Written, RowStep, Ended, rows
<1>6. ParentInv'
  <2>1. ParentWork' <=> ParentWork
    BY <1>1, <1>2, SameParentWork, Zenon
  <2> QED
    BY <1>1, <1>3, <2>1, AtParent DEF ParentInv
<1>7. ~parentHere' => child' = {} /\ ~parentHere
  BY DEF IInv
<1>8. \A j \in Jobs \cap Roots : del[j].at # "none" => j \in gated'
  BY AtParent
<1> QED
  BY <1>1, <1>2, <1>4, <1>5, <1>6, <1>7, <1>8, ParentMoves, Zenon

\* Jobs are stopped, runs ended and work waited for.
LEMMA ParentStopStep ==
    ASSUME IInv, Parent \in Roots, parent_stop \/ parent_cancel \/ parent_drain PROVE IInv'
<1>1. CASE parent_stop
  <2>1. ASSUME NEW j \in Jobs, job[j] \in Pending, Settle(j, "cancelled"), UNCHANGED del PROVE IInv'
    <3>1. /\ job' \in [Jobs -> Pending \cup Terminal \cup {"gone"}]
          /\ outbox' \in [Jobs -> {"none", "pending", "published"}] /\ deferred' \subseteq Jobs
          /\ \A i \in Jobs : RowStep(i)
      BY <2>1, Settling DEF Terminal
    <3>2. UNCHANGED <<sessions, told, lost, gated, cancel, loop, del, worker, faults>>
      BY <1>1, <2>1 DEF parent_stop
    <3>3. WorkerInv /\ worker \in WorkerRow
      BY AtWorker
    <3> QED
      BY <3>1, <3>2, <3>3, RowsMove DEF WorkerInv
  <2>2. CASE del' = [del EXCEPT ![Parent].at = "cancel"] /\ UNCHANGED rows
    BY <1>1, <2>2, AtRows, ParentGoes DEF parent_stop, sessions, DeletionPlaces
  <2> QED
    BY <1>1, <2>1, <2>2 DEF parent_stop
<1>2. CASE parent_cancel
  <2>1. /\ run' \in [Jobs -> {"none", "open", "closed"}]
        /\ \A j \in Jobs : run[j] = "closed" => run'[j] = "closed"
    BY <1>2, AtRows DEF parent_cancel
  <2> QED
    BY <1>2, <2>1, ParentGoes DEF parent_cancel, DeletionPlaces
<1>3. CASE parent_drain
  <2> DEFINE p == IF child \subseteq del[Parent].guarded THEN "rows" ELSE "gate"
  <2>1. del' = [del EXCEPT ![Parent].at = p] /\ UNCHANGED <<durable, gated, worker, cancel, loop, faults>>
    BY <1>3 DEF parent_drain
  <2>2. p \in DeletionPlaces /\ p # "files" /\ ~ParentWork /\ del[Parent].at = "drain"
    BY <1>3 DEF parent_drain, DeletionPlaces
  <2> HIDE DEF p
  <2> QED
    BY <2>1, <2>2, AtRows, ParentGoes, Zenon DEF durable, rows
<1> QED
  BY <1>1, <1>2, <1>3

\* The rows, the events and the snapshot go.
LEMMA ParentRowsStep ==
    ASSUME IInv, Parent \in Roots, parent_rows PROVE IInv'
<1>1. /\ del[Parent].at = "rows" /\ del' = [del EXCEPT ![Parent].at = "files"] /\ deferred' = {} /\ told' = {} /\ lost' = {}
      /\ job' = [j \in Jobs |-> "gone"] /\ outbox' = [j \in Jobs |-> "none"]
      /\ UNCHANGED <<child, run, parentHere, deleted, gated, worker, cancel, loop, faults>>
  BY DEF parent_rows, sessions
<1>2. \A j \in Jobs : job'[j] = "gone" /\ outbox'[j] = "none"
  BY <1>1
<1> DEFINE d == [del[Parent] EXCEPT !.at = "files"]
<1>3. d \in DeletionRow /\ d.at = "files" /\ d.guarded = del[Parent].guarded
  BY AtParent DEF DeletionRow, DeletionPlaces
<1>4. del' = [del EXCEPT ![Parent] = d]
  BY <1>1, AtParent
<1> HIDE DEF d
<1>5. del'[Parent] = d /\ \A j \in Jobs \cap Roots : del'[j] = del[j]
  BY <1>4, AtParent
<1>6. TypeOK'
  <2>1. del' \in [Roots -> DeletionRow]
    BY <1>3, <1>4, AtParent
  <2>2. /\ job' \in [Jobs -> Pending \cup Terminal \cup {"gone"}]
        /\ outbox' \in [Jobs -> {"none", "pending", "published"}]
    BY <1>1
  <2> QED
    BY <1>1, <2>1, <2>2 DEF IInv, TypeOK
<1>7. WorkerInv'
  BY <1>1, <1>2, AtWorker DEF WorkerInv, Ended, Pending
<1>8. \A j \in Jobs : RowInv(j)'
  BY <1>2 DEF RowInv
<1>9. ASSUME NEW j \in Jobs \cap Roots PROVE ChildInv(j)'
  <2>1. ChildInv(j) /\ del'[j] = del[j] /\ (Ended(j)' <=> Ended(j)) /\ (ChildWork(j)' <=> ChildWork(j))
    BY <1>1, <1>5, AtDeletion DEF Ended, ChildWork, Delivering
  <2> QED
    BY <1>1, <1>2, <2>1 DEF ChildInv, Pending
<1>10. ~ParentWork' /\ Nothing'
  <2>1. ~ParentWork /\ loop = {}
    BY <1>1, AtParent DEF ParentInv
  <2>2. worker.held = {}
    BY <2>1, AtWorker DEF WorkerInv, ParentWork
  <2> QED
    BY <1>1, <1>2, <1>3, <1>4, <2>1, <2>2, SameParentWork, Zenon DEF Nothing
<1>11. ParentInv'
  BY <1>1, <1>3, <1>5, <1>10, AtParent DEF ParentInv
<1>12. ~parentHere' => child' = {}
  BY <1>1 DEF IInv
<1> QED
  BY <1>6, <1>7, <1>8, <1>9, <1>10, <1>11, <1>12 DEF IInv

\* The files go and the gates open, at the end or because a step failed.
LEMMA ParentEndStep ==
    ASSUME IInv, Parent \in Roots, parent_files \/ delete_fails(Parent) PROVE IInv'
<1>1. /\ del' = [del EXCEPT ![Parent] = NoDeletion] /\ gated' = gated \ ({Parent} \cup del[Parent].guarded)
      /\ UNCHANGED <<job, outbox, deferred, told, lost, worker, cancel, loop>> /\ (Fault \/ UNCHANGED faults)
  BY DEF parent_files, delete_fails, NoFault, durable, rows
<1>2. NoDeletion \in DeletionRow /\ NoDeletion.at = "none" /\ NoDeletion.guarded = {}
  BY DEF NoDeletion, DeletionRow, DeletionPlaces
<1>3. \/ UNCHANGED <<child, run, parentHere, deleted>>
      \/ /\ parentHere' = FALSE /\ child' = {} /\ run' = [j \in Jobs |-> "none"] /\ deleted' = Jobs
         /\ del[Parent].at = "files"
  BY DEF parent_files, delete_fails, durable
<1>4. TypeOK'
  <2>1. /\ run' \in [Jobs -> {"none", "open", "closed"}] /\ child' \subseteq Jobs /\ deleted' \subseteq Jobs
        /\ parentHere' \in BOOLEAN
    <3>1. CASE UNCHANGED <<child, run, parentHere, deleted>>
      BY <3>1 DEF IInv, TypeOK
    <3>2. CASE parentHere' = FALSE /\ child' = {} /\ run' = [j \in Jobs |-> "none"] /\ deleted' = Jobs
      BY <3>2
    <3> QED
      BY <1>3, <3>1, <3>2
  <2>2. del' \in [Roots -> DeletionRow] /\ faults' \in 0..MaxFaults
    BY <1>1, <1>2, AtParent, FaultCounted
  <2> QED
    BY <1>1, <2>1, <2>2 DEF IInv, TypeOK
<1>5. Grows
  BY <1>1, <1>3 DEF Grows, Written, RowStep, Ended
<1>6. ParentInv'
  <2>1. del'[Parent] = NoDeletion
    BY <1>1, AtParent
  <2> QED
    BY <1>2, <2>1 DEF ParentInv
<1>7. \A j \in Jobs \cap Roots : del[j].at # "none" => j \in gated'
  BY <1>1, AtParent DEF ParentInv
<1>8. ~parentHere' => child' = {} /\ (~parentHere \/ (Shut /\ Nothing))
  BY <1>3, AtParent DEF IInv, ParentInv, Shut
<1> QED
  BY <1>1, <1>2, <1>4, <1>5, <1>6, <1>7, <1>8, ParentMoves, Zenon

\* The process exits: gates, tokens and tasks are gone, the files are not.
LEMMA CrashStep ==
    ASSUME IInv, crash PROVE IInv'
<1>1. /\ UNCHANGED durable /\ gated' = {} /\ worker' = Idle /\ cancel' = [j \in Jobs |-> "none"]
      /\ loop' = {} /\ del' = [r \in Roots |-> NoDeletion] /\ faults' \in 0..MaxFaults
  BY FaultCounted DEF crash
<1>2. NoDeletion \in DeletionRow /\ NoDeletion.at = "none" /\ NoDeletion.guarded = {}
  BY DEF NoDeletion, DeletionRow, DeletionPlaces
<1>3. Idle \in WorkerRow /\ Idle.at = "startup" /\ Idle.held = {} /\ Idle.bound = {} /\ Idle.batch = FALSE
  BY DEF Idle, WorkerRow, WorkerPlaces
<1>4. TypeOK'
  BY <1>1, <1>2, <1>3 DEF IInv, TypeOK, durable
<1>5. WorkerInv' /\ Grows
  BY <1>1, <1>3, DurableGrows DEF WorkerInv
<1>6. \A r \in Roots : del'[r] = NoDeletion
  BY <1>1
<1>7. \A j \in Jobs : ~ChildWork(j)'
  BY <1>1, <1>3 DEF ChildWork, Delivering
<1>8. ~ParentWork'
  BY <1>1, <1>2, <1>3, <1>6 DEF ParentWork, Delivering
<1>9. Nothing => told' = {} /\ worker'.held = {}
  BY <1>1, <1>3 DEF Nothing, durable
<1>10. \A j \in Jobs \cap Roots : ChildInv(j)'
  BY <1>2, <1>6 DEF ChildInv
<1>11. Parent \in Roots => ParentInv'
  BY <1>2, <1>6 DEF ParentInv
<1>12. ~parentHere' => child' = {} /\ ~parentHere
  BY <1>1 DEF IInv, durable
<1> QED
  BY <1>1, <1>4, <1>5, <1>7, <1>8, <1>9, <1>10, <1>11, <1>12, Moves

-----------------------------------------------------------------------------
(* The theorems. *)

\* The jobs the parent's turn queued, with nothing begun, satisfy the invariant.
LEMMA InitIInv == Init => IInv
<1> SUFFICES ASSUME Init PROVE IInv
  OBVIOUS
<1>1. NoDeletion \in DeletionRow /\ NoDeletion.at = "none" /\ NoDeletion.guarded = {}
  BY DEF NoDeletion, DeletionRow, DeletionPlaces
<1>2. Idle \in WorkerRow /\ Idle.at = "startup" /\ Idle.held = {}
  BY DEF Idle, WorkerRow, WorkerPlaces
<1>3. TypeOK
  <2>1. job \in [Jobs -> Pending \cup Terminal \cup {"gone"}]
    BY DEF Init, Pending
  <2>2. outbox \in [Jobs -> {"none", "pending", "published"}] /\ run \in [Jobs -> {"none", "open", "closed"}]
    BY DEF Init
  <2> QED
    BY <1>1, <1>2, <2>1, <2>2, PageBounds DEF Init, TypeOK
<1>4. WorkerInv
  BY <1>2 DEF Init, WorkerInv
<1>5. \A j \in Jobs : RowInv(j)
  BY DEF Init, RowInv
<1>6. \A r \in Roots : del[r] = NoDeletion
  BY DEF Init
<1>7. \A j \in Jobs \cap Roots : ChildInv(j)
  BY <1>1, <1>6 DEF ChildInv
<1>8. Parent \in Roots => ParentInv
  BY <1>1, <1>6 DEF ParentInv
<1> QED
  BY <1>3, <1>4, <1>5, <1>7, <1>8 DEF Init, IInv

\* Every step of the worker, of a task, of a deletion or of the process keeps it.
LEMMA NextIInv == IInv /\ [Next]_vars => IInv'
<1> SUFFICES ASSUME IInv, [Next]_vars PROVE IInv'
  OBVIOUS
<1>1. CASE Deliver \/ scan_fails \/ deliver_fails
  BY <1>1, ScanStep, BeginStep, DeliverStep, AcknowledgeStep, FailStep DEF Deliver
<1>2. CASE Work \/ claim_fails
  BY <1>2, SelectStep, ConsiderStep, ConsiderStopStep, LoopStep, ClaimStep, JobStep DEF Work
<1>3. CASE \E j \in Jobs : lose_job(j) \/ due(j)
  BY <1>3, JobStep
<1>4. CASE \E j \in Stopped : cancel_run(j)
  BY <1>4, CancelRunStep, JobOrder
<1>5. CASE \E j \in Jobs : CancelTask(j) \/ cancel_fails(j)
  BY <1>5, CancelTaskStep
<1>6. CASE \E r \in Roots : IF r = Parent THEN delete_parent ELSE delete_child(r)
  <2>1. PICK r \in Roots : IF r = Parent THEN delete_parent ELSE delete_child(r)
    BY <1>6
  <2>2. CASE r = Parent
    BY <2>1, <2>2, ParentGateStep
  <2>3. CASE r # Parent
    <3>1. r \in Jobs \cap Roots /\ delete_child(r)
      BY <2>1, <2>3, JobOrder
    <3> QED
      BY <3>1, DeletionStep
  <2> QED
    BY <2>2, <2>3
<1>7. CASE \E r \in Roots : Delete(r)
  <2>1. PICK r \in Roots : Delete(r)
    BY <1>7
  <2>2. CASE r = Parent
    <3>1. Parent \in Roots /\ Parent \notin Jobs /\ (DeleteParent \/ delete_fails(Parent))
      BY <2>1, <2>2, JobOrder DEF Delete
    <3> QED
      BY <3>1, ParentGateStep, ParentStopStep, ParentRowsStep, ParentEndStep DEF DeleteParent
  <2>3. CASE r # Parent
    <3>1. r \in Jobs \cap Roots /\ (DeleteChild(r) \/ delete_fails(r))
      BY <2>1, <2>3, JobOrder DEF Delete
    <3> QED
      BY <3>1, DeletionStep, DeletionWriteStep, RemoveStep, DeletionFails DEF DeleteChild
  <2> QED
    BY <2>2, <2>3
<1>8. CASE crash
  BY <1>8, CrashStep
<1>9. CASE load_session \/ save_session \/ end_run
  BY <1>9, ParentRunStep
<1>10. CASE UNCHANGED vars
  <2>1. UNCHANGED <<durable, worker, cancel, loop, gated, del, faults>>
    BY <1>10 DEF vars, durable
  <2> QED
    BY <2>1, Zenon DEF IInv, TypeOK, WorkerInv, RowInv, ChildInv, ParentInv, Nothing, Ended, ParentWork,
                ChildWork, Delivering, Written, durable
<1> QED
  BY <1>1, <1>2, <1>3, <1>4, <1>5, <1>6, <1>7, <1>8, <1>9, <1>10 DEF Next

\* The worker, the parent's runs, cancellations, deletions and failures keep the
\* invariant, for any jobs, roots and bounds on pages, batches and faults.
THEOREM Invariance == Spec => []IInv
  BY InitIInv, NextIInv, PTL DEF Spec

\* An acknowledged result was written to the parent's snapshot, where only a run
\* of the parent overwrites it (SessionManager::save_session), and its child run
\* has ended (deliver_terminal_job, finish_child_delivery_before_deletion).
THEOREM Acknowledging == Spec => []AcknowledgedMeansTold
<1>1. IInv => AcknowledgedMeansTold
  BY DEF IInv, RowInv, Ended, Written, AcknowledgedMeansTold
<1> QED
  BY <1>1, Invariance, PTL

\* A deletion of a child finds no work bound to it, and a deleted parent leaves
\* no row, child, result, task or run (delete_async).
THEOREM Removal == Spec => []RemovedClean
<1>1. IInv => RemovedClean
  BY DEF IInv, ChildInv, Nothing, ParentWork, RemovedClean, RemovalFindsNoBoundWork, ParentDeletionComplete
<1> QED
  BY <1>1, Invariance, PTL
=============================================================================
