-------------------------- MODULE RuntimeJobsProofs --------------------------
(***************************************************************************)
(* The safety properties of RuntimeJobs for every set of jobs and wake     *)
(* sources, every lease length, reclaim budget and backoff.                *)
(***************************************************************************)
EXTENDS RuntimeJobs, TLAPS

\* What the invariants need to be inductive, job by job.  A token counts as
\* used only after it was issued; an outcome is reported only by the holder of
\* a lease; a claim waits for the crash backoff.
TokenHistory(j) ==
    /\ ended[j] \subseteq 1..minted[j]
    /\ job[j].status \notin Terminal => settledBy[j] = 0
    /\ job[j].status \in Active => minted[j] \notin ended[j] /\ job[j].notBefore <= now
    /\ job[j].status = "absent" => ~owed[j] /\ job[j].notBefore = 0
    /\ \A s \in consumed[j] : wakeAt[j][s] # 0

Lease(j) ==
    /\ job[j].status \in Active => job[j].owner = minted[j]
    /\ job[j].owner # 0 <=> job[j].status \in Active
    /\ job[j].status \in Active => job[j].heartbeat < job[j].expires
    /\ settledBy[j] \notin ended[j]

Delivery(j) ==
    /\ outbox[j].state # "none" <=> job[j].status \in Terminal
    /\ outbox[j].generation = 0
    /\ j \in stopMarks => job[j].status = "cancelled" /\ settledBy[j] = 0

Budget(j) ==
    /\ job[j].reclaims <= MaxReclaims + 1
    /\ job[j].reclaims > MaxReclaims => job[j].status = "dead_lettered"

Wakeups(j) ==
    /\ job[j].status = "queued" /\ now < job[j].notBefore
           => job[j].runAt >= job[j].notBefore
    /\ job[j].status = "queued" /\ owed[j]
           => job[j].runAt <= Larger(now, Larger(job[j].notBefore, retryAt[j]))
    /\ job[j].status \in Active /\ owed[j] => PendingWakes(j) # {}

JobInv(j) == TokenHistory(j) /\ Lease(j) /\ Delivery(j) /\ Budget(j) /\ Wakeups(j)

IInv == TypeOK /\ \A j \in Jobs : JobInv(j)

\* What one step may do to one job: the properties of steps, job by job.
Settled(j) ==
    job[j].status \in Terminal =>
        /\ job'[j] = job[j]
        /\ outbox'[j].generation = outbox[j].generation
        /\ outbox'[j].state \in {outbox[j].state, "published"}

LeaseKept(j) ==
    job[j].status \in Active /\ job[j].expires > now =>
        /\ job'[j].reclaims = job[j].reclaims
        /\ job'[j].owner \in {job[j].owner, 0}

Stepped(j) ==
    /\ Settled(j)
    /\ LeaseKept(j)
    /\ Lifecycle!Step(job[j].status, job'[j].status)

-----------------------------------------------------------------------------
\* The store starts empty.
LEMMA InitIInv == Init => IInv
<1> SUFFICES ASSUME Init PROVE IInv
  OBVIOUS
<1>1. TypeOK
  BY BoundAssumption DEF Init, TypeOK, Row, Status, OutboxRow, Time
<1>2. \A j \in Jobs : JobInv(j)
  BY ReclaimAssumption
  DEF Init, JobInv, TokenHistory, Lease, Delivery, Budget, Wakeups,
      PendingWakes, Larger, Active, Terminal
<1> QED
  BY <1>1, <1>2 DEF IInv

\* A released row differs in owner and expiry only.
LEMMA ReleasedRow ==
  ASSUME NEW r \in Row
  PROVE  /\ Released(r) \in Row
         /\ Released(r).status = r.status /\ Released(r).runAt = r.runAt
         /\ Released(r).owner = 0 /\ Released(r).expires = 0
         /\ Released(r).heartbeat = r.heartbeat
         /\ Released(r).reclaims = r.reclaims
         /\ Released(r).notBefore = r.notBefore
  BY Zenon DEF Released, Row

\* A claimed row: a new owner, its window and nothing else.
LEMMA ClaimedRow ==
  ASSUME NEW r \in Row, NEW token \in Nat, NEW at \in Nat
  PROVE  /\ Claimed(r, token, at) \in Row
         /\ Claimed(r, token, at).status = "leased"
         /\ Claimed(r, token, at).owner = token
         /\ Claimed(r, token, at).expires = at + LeaseMs
         /\ Claimed(r, token, at).heartbeat = at
         /\ Claimed(r, token, at).reclaims = r.reclaims
         /\ Claimed(r, token, at).notBefore = r.notBefore
<1>1. at + LeaseMs \in Nat /\ "leased" \in Status
  BY LeaseAssumption DEF Status, Active
<1> QED
  BY <1>1, Zenon DEF Claimed, Row

\* A wake moves run_at_ms of a queued row only, back to the end of its backoff.
LEMMA WokenRow ==
  ASSUME NEW r \in Row, NEW at \in Nat
  PROVE  /\ Woken(r, at) \in Row
         /\ Woken(r, at).status = r.status /\ Woken(r, at).owner = r.owner
         /\ Woken(r, at).expires = r.expires
         /\ Woken(r, at).heartbeat = r.heartbeat
         /\ Woken(r, at).reclaims = r.reclaims
         /\ Woken(r, at).notBefore = r.notBefore
         /\ Woken(r, at).runAt <= r.runAt
         /\ Woken(r, at).runAt # r.runAt
               => Woken(r, at).runAt = Larger(at, r.notBefore)
         /\ r.status = "queued" => Woken(r, at).runAt <= Larger(at, r.notBefore)
         /\ r.status # "queued" => Woken(r, at) = r
  BY DEF Woken, Larger, Row

\* A reclaimed row: no owner, one reclaim more, a new backoff.
LEMMA ReclaimedRow ==
  ASSUME NEW r \in Row, NEW at \in Nat, NEW delay \in Nat
  PROVE  /\ Reclaimed(r, at, delay) \in Row
         /\ Reclaimed(r, at, delay).status
               = IF Exhausted(r) THEN "dead_lettered" ELSE "queued"
         /\ Reclaimed(r, at, delay).owner = 0
         /\ Reclaimed(r, at, delay).reclaims = r.reclaims + 1
         /\ Reclaimed(r, at, delay).runAt = at + delay
         /\ Reclaimed(r, at, delay).notBefore = at + delay
<1> DEFINE q == Released(r)
           s == IF Exhausted(r) THEN "dead_lettered" ELSE "queued"
<1>1. s \in Status /\ r.reclaims + 1 \in Nat /\ at + delay \in Nat
  BY DEF Status, Terminal, Row
<1>2. q \in Row /\ q.owner = 0
  BY ReleasedRow
<1>3. Reclaimed(r, at, delay)
        = [q EXCEPT !.status = s, !.reclaims = r.reclaims + 1,
                    !.runAt = at + delay, !.notBefore = at + delay]
  BY DEF Reclaimed
<1> HIDE DEF q, s
<1>4. /\ Reclaimed(r, at, delay) \in Row
      /\ Reclaimed(r, at, delay).status = s
      /\ Reclaimed(r, at, delay).owner = 0
      /\ Reclaimed(r, at, delay).reclaims = r.reclaims + 1
      /\ Reclaimed(r, at, delay).runAt = at + delay
      /\ Reclaimed(r, at, delay).notBefore = at + delay
  BY <1>1, <1>2, <1>3, Zenon DEF Row
<1> QED
  BY <1>4 DEF s

\* The delivery of a first terminal status is of generation 0.
LEMMA UpsertedRow ==
  ASSUME NEW o \in OutboxRow
  PROVE  /\ Upserted(o) \in OutboxRow
         /\ Upserted(o).state = "pending"
         /\ o.state = "none" => Upserted(o).generation = 0
  BY DEF Upserted, OutboxRow

\* A step that leaves everything about a job alone, time aside, keeps its part
\* of the invariant.
LEMMA Untouched ==
  ASSUME IInv, NEW k \in Jobs, now' \in Nat, now' >= now,
         job'[k] = job[k], wakeAt'[k] = wakeAt[k], consumed'[k] = consumed[k],
         outbox'[k] = outbox[k], k \in stopMarks' <=> k \in stopMarks,
         minted'[k] = minted[k], ended'[k] = ended[k],
         settledBy'[k] = settledBy[k], owed'[k] = owed[k],
         retryAt'[k] = retryAt[k]
  PROVE  JobInv(k)'
<1>1. job[k] \in Row /\ now \in Nat /\ retryAt[k] \in Nat /\ JobInv(k)
  BY BoundAssumption DEF IInv, TypeOK, Time
<1>2. TokenHistory(k)'
  BY <1>1 DEF JobInv, TokenHistory, Row
<1>3. Lease(k)' /\ Delivery(k)' /\ Budget(k)'
  BY <1>1 DEF JobInv, Lease, Delivery, Budget
<1>4. Wakeups(k)'
  BY <1>1 DEF JobInv, Wakeups, PendingWakes, Larger, Row
<1> QED
  BY <1>2, <1>3, <1>4 DEF JobInv

\* A step that replaces the row of an unfinished job as the status table allows,
\* without a new owner or a reclaim behind the holder's back, is a legal step.
LEMMA Touched ==
  ASSUME IInv, NEW j \in Jobs, NEW row, job' = [job EXCEPT ![j] = row],
         job[j].status \notin Terminal,
         Lifecycle!Step(job[j].status, row.status),
         row.reclaims = job[j].reclaims, row.owner \in {job[j].owner, 0},
         \A k \in Jobs \ {j} : outbox'[k] = outbox[k]
  PROVE  \A k \in Jobs : Stepped(k)
<1>1. \A k \in Jobs \ {j} : job'[k] = job[k]
  BY DEF IInv, TypeOK
<1>2. \A k \in Jobs \ {j} : Stepped(k)
  BY <1>1 DEF Stepped, Settled, LeaseKept, Lifecycle!Step,
              Lifecycle!can_transition_to
<1>3. job'[j] = row
  BY DEF IInv, TypeOK
<1>4. Stepped(j)
  BY <1>3 DEF Stepped, Settled, LeaseKept
<1> QED
  BY <1>2, <1>4

\* Scheduling fills an empty row.
LEMMA ScheduleIInv ==
  ASSUME IInv, NEW j \in Jobs, NEW runAt \in Time,
         schedule_runtime_job(j, runAt)
  PROVE  IInv' /\ \A k \in Jobs : Stepped(k)
<1> DEFINE row == [job[j] EXCEPT !.status = "queued", !.runAt = runAt]
<1> USE DEF schedule_runtime_job, history
<1>1. job[j] \in Row /\ Released(job[j]) \in Row /\ JobInv(j)
  BY ReleasedRow DEF IInv, TypeOK
<1>2. runAt \in Nat /\ now \in Nat
  BY BoundAssumption, LeaseAssumption DEF IInv, TypeOK, Reading, Time
<1>3. job' = [job EXCEPT ![j] = row]
  BY Zenon DEF IInv, TypeOK
<1>4. row \in Row
  BY <1>1, <1>2, Zenon DEF Row, Status, Active, Terminal
<1>5. /\ job'[j].status = "queued"
      /\ job'[j].runAt = runAt
      /\ job'[j].owner = job[j].owner
      /\ job'[j].expires = job[j].expires
      /\ job'[j].heartbeat = job[j].heartbeat
      /\ job'[j].reclaims = job[j].reclaims
      /\ job'[j].notBefore = job[j].notBefore
  BY <1>1, <1>2, <1>3, ReleasedRow DEF IInv, TypeOK, Row
<1> HIDE DEF row
<1>6. TypeOK'
  BY <1>2, <1>3, <1>4, Zenon DEF IInv, TypeOK
<1>7. ASSUME NEW k \in Jobs \ {j} PROVE JobInv(k)'
  <2>1. job'[k] = job[k]
    BY <1>3, Zenon DEF IInv, TypeOK
  <2>2. /\ wakeAt'[k] = wakeAt[k] /\ consumed'[k] = consumed[k]
        /\ outbox'[k] = outbox[k] /\ minted'[k] = minted[k] /\ ended'[k] = ended[k]
        /\ settledBy'[k] = settledBy[k] /\ owed'[k] = owed[k]
        /\ retryAt'[k] = retryAt[k]
        /\ (k \in stopMarks' <=> k \in stopMarks) /\ now' = now
    BY DEF IInv, TypeOK
  <2>3. k \in Jobs /\ now' \in Nat /\ now' >= now
    BY <1>2, <2>2
  <2> QED
    BY <2>1, <2>2, <2>3, Untouched, Zenon
<1>8. JobInv(j)'
  BY <1>1, <1>2, <1>5, LeaseAssumption DEF IInv, TypeOK, Row, Reading, JobInv, TokenHistory, Lease, Delivery, Budget, Wakeups,
      PendingWakes, Larger, Active, Terminal
<1>9. Lifecycle!Step(job[j].status, row.status) /\ job[j].status \notin Terminal
  BY <1>1, <1>3, <1>5
  DEF IInv, TypeOK, Lifecycle!Step, Lifecycle!can_transition_to,
      Lifecycle!is_terminal, Row, Status, Active, Terminal
<1>10. row.reclaims = job[j].reclaims /\ row.owner \in {job[j].owner, 0}
  BY <1>3, <1>5, Zenon DEF IInv, TypeOK
<1>11. \A k \in Jobs : Stepped(k)
  BY <1>3, <1>9, <1>10, Touched, Zenon DEF IInv, TypeOK
<1> QED
  BY <1>6, <1>7, <1>8, <1>11 DEF IInv

\* Starting needs the lease and keeps it.
LEMMA StartIInv ==
  ASSUME IInv, NEW j \in Jobs, NEW at \in Reading, NEW token \in 1..minted[j],
         start_runtime_job(j, token, at)
  PROVE  IInv' /\ \A k \in Jobs : Stepped(k)
<1> DEFINE row == [job[j] EXCEPT !.status = "running", !.heartbeat = at]
<1> USE DEF start_runtime_job, Fenced, history
<1>1. job[j] \in Row /\ Released(job[j]) \in Row /\ JobInv(j)
  BY ReleasedRow DEF IInv, TypeOK
<1>2. at \in Nat /\ now \in Nat
  BY BoundAssumption, LeaseAssumption DEF IInv, TypeOK, Reading, Time
<1>3. job' = [job EXCEPT ![j] = row]
  BY Zenon DEF IInv, TypeOK
<1>4. row \in Row
  BY <1>1, <1>2, Zenon DEF Row, Status, Active, Terminal
<1>5. /\ job'[j].status = "running"
      /\ job'[j].runAt = job[j].runAt
      /\ job'[j].owner = job[j].owner
      /\ job'[j].expires = job[j].expires
      /\ job'[j].heartbeat = at
      /\ job'[j].reclaims = job[j].reclaims
      /\ job'[j].notBefore = job[j].notBefore
  BY <1>1, <1>2, <1>3, ReleasedRow DEF IInv, TypeOK, Row
<1> HIDE DEF row
<1>6. TypeOK'
  BY <1>2, <1>3, <1>4, Zenon DEF IInv, TypeOK
<1>7. ASSUME NEW k \in Jobs \ {j} PROVE JobInv(k)'
  <2>1. job'[k] = job[k]
    BY <1>3, Zenon DEF IInv, TypeOK
  <2>2. /\ wakeAt'[k] = wakeAt[k] /\ consumed'[k] = consumed[k]
        /\ outbox'[k] = outbox[k] /\ minted'[k] = minted[k] /\ ended'[k] = ended[k]
        /\ settledBy'[k] = settledBy[k] /\ owed'[k] = owed[k]
        /\ retryAt'[k] = retryAt[k]
        /\ (k \in stopMarks' <=> k \in stopMarks) /\ now' = now
    BY DEF IInv, TypeOK
  <2>3. k \in Jobs /\ now' \in Nat /\ now' >= now
    BY <1>2, <2>2
  <2> QED
    BY <2>1, <2>2, <2>3, Untouched, Zenon
<1>8. JobInv(j)'
  BY <1>1, <1>2, <1>5, LeaseAssumption DEF IInv, TypeOK, Row, Reading, JobInv, TokenHistory, Lease, Delivery, Budget, Wakeups,
      PendingWakes, Larger, Active, Terminal
<1>9. Lifecycle!Step(job[j].status, row.status) /\ job[j].status \notin Terminal
  BY <1>1, <1>3, <1>5
  DEF IInv, TypeOK, Lifecycle!Step, Lifecycle!can_transition_to,
      Lifecycle!is_terminal, Row, Status, Active, Terminal
<1>10. row.reclaims = job[j].reclaims /\ row.owner \in {job[j].owner, 0}
  BY <1>3, <1>5, Zenon DEF IInv, TypeOK
<1>11. \A k \in Jobs : Stepped(k)
  BY <1>3, <1>9, <1>10, Touched, Zenon DEF IInv, TypeOK
<1> QED
  BY <1>6, <1>7, <1>8, <1>11 DEF IInv

\* Renewal moves heartbeat and expiry together.
LEMMA RenewIInv ==
  ASSUME IInv, NEW j \in Jobs, NEW at \in Reading, NEW token \in 1..minted[j],
         renew_runtime_job_lease(j, token, at)
  PROVE  IInv' /\ \A k \in Jobs : Stepped(k)
<1> DEFINE row == [job[j] EXCEPT !.heartbeat = at, !.expires = at + LeaseMs]
<1> USE DEF renew_runtime_job_lease, Fenced, history
<1>1. job[j] \in Row /\ Released(job[j]) \in Row /\ JobInv(j)
  BY ReleasedRow DEF IInv, TypeOK
<1>2. at \in Nat /\ now \in Nat /\ at + LeaseMs \in Nat
  BY BoundAssumption, LeaseAssumption DEF IInv, TypeOK, Reading, Time
<1>3. job' = [job EXCEPT ![j] = row]
  BY Zenon DEF IInv, TypeOK
<1>4. row \in Row
  BY <1>1, <1>2, Zenon DEF Row, Status, Active, Terminal
<1>5. /\ job'[j].status = job[j].status
      /\ job'[j].runAt = job[j].runAt
      /\ job'[j].owner = job[j].owner
      /\ job'[j].expires = at + LeaseMs
      /\ job'[j].heartbeat = at
      /\ job'[j].reclaims = job[j].reclaims
      /\ job'[j].notBefore = job[j].notBefore
  BY <1>1, <1>2, <1>3, ReleasedRow DEF IInv, TypeOK, Row
<1> HIDE DEF row
<1>6. TypeOK'
  BY <1>2, <1>3, <1>4, Zenon DEF IInv, TypeOK
<1>7. ASSUME NEW k \in Jobs \ {j} PROVE JobInv(k)'
  <2>1. job'[k] = job[k]
    BY <1>3, Zenon DEF IInv, TypeOK
  <2>2. /\ wakeAt'[k] = wakeAt[k] /\ consumed'[k] = consumed[k]
        /\ outbox'[k] = outbox[k] /\ minted'[k] = minted[k] /\ ended'[k] = ended[k]
        /\ settledBy'[k] = settledBy[k] /\ owed'[k] = owed[k]
        /\ retryAt'[k] = retryAt[k]
        /\ (k \in stopMarks' <=> k \in stopMarks) /\ now' = now
    BY DEF IInv, TypeOK
  <2>3. k \in Jobs /\ now' \in Nat /\ now' >= now
    BY <1>2, <2>2
  <2> QED
    BY <2>1, <2>2, <2>3, Untouched, Zenon
<1>8. JobInv(j)'
  BY <1>1, <1>2, <1>5, LeaseAssumption DEF IInv, TypeOK, Row, Reading, JobInv, TokenHistory, Lease, Delivery, Budget, Wakeups,
      PendingWakes, Larger, Active, Terminal
<1>9. Lifecycle!Step(job[j].status, row.status) /\ job[j].status \notin Terminal
  BY <1>1, <1>3, <1>5
  DEF IInv, TypeOK, Lifecycle!Step, Lifecycle!can_transition_to,
      Lifecycle!is_terminal, Row, Status, Active, Terminal
<1>10. row.reclaims = job[j].reclaims /\ row.owner \in {job[j].owner, 0}
  BY <1>3, <1>5, Zenon DEF IInv, TypeOK
<1>11. \A k \in Jobs : Stepped(k)
  BY <1>3, <1>9, <1>10, Touched, Zenon DEF IInv, TypeOK
<1> QED
  BY <1>6, <1>7, <1>8, <1>11 DEF IInv

\* Completion settles the job and queues its delivery.
LEMMA CompleteIInv ==
  ASSUME IInv, NEW j \in Jobs, NEW at \in Reading, NEW token \in 1..minted[j],
         complete_runtime_job(j, token, at)
  PROVE  IInv' /\ \A k \in Jobs : Stepped(k)
<1> DEFINE row == [Released(job[j]) EXCEPT !.status = "succeeded"]
<1> USE DEF complete_runtime_job, Fenced
<1>1. job[j] \in Row /\ Released(job[j]) \in Row /\ JobInv(j)
  BY ReleasedRow DEF IInv, TypeOK
<1>2. token \in Nat /\ now \in Nat
  BY BoundAssumption, LeaseAssumption DEF IInv, TypeOK, Reading, Time
<1>3. job' = [job EXCEPT ![j] = row]
  BY DEF IInv, TypeOK
<1>4. row \in Row
  BY <1>1, <1>2, UpsertedRow DEF Row, Status, Active, Terminal
<1>5. /\ job'[j].status = "succeeded"
      /\ job'[j].runAt = job[j].runAt
      /\ job'[j].owner = 0
      /\ job'[j].expires = 0
      /\ job'[j].heartbeat = job[j].heartbeat
      /\ job'[j].reclaims = job[j].reclaims
      /\ job'[j].notBefore = job[j].notBefore
  BY <1>1, <1>2, <1>3, ReleasedRow, UpsertedRow DEF IInv, TypeOK, Row
<1> HIDE DEF row
<1>6. TypeOK'
  BY <1>2, <1>3, <1>4, UpsertedRow, Zenon DEF IInv, TypeOK
<1>7. ASSUME NEW k \in Jobs \ {j} PROVE JobInv(k)'
  <2>1. job'[k] = job[k]
    BY <1>3, Zenon DEF IInv, TypeOK
  <2>2. /\ wakeAt'[k] = wakeAt[k] /\ consumed'[k] = consumed[k]
        /\ outbox'[k] = outbox[k] /\ minted'[k] = minted[k] /\ ended'[k] = ended[k]
        /\ settledBy'[k] = settledBy[k] /\ owed'[k] = owed[k]
        /\ retryAt'[k] = retryAt[k]
        /\ (k \in stopMarks' <=> k \in stopMarks) /\ now' = now
    BY DEF IInv, TypeOK
  <2>3. k \in Jobs /\ now' \in Nat /\ now' >= now
    BY <1>2, <2>2
  <2> QED
    BY <2>1, <2>2, <2>3, Untouched, Zenon
<1>8. JobInv(j)'
  BY <1>1, <1>2, <1>5, LeaseAssumption, UpsertedRow DEF IInv, TypeOK, Row, Reading, JobInv, TokenHistory, Lease, Delivery, Budget, Wakeups,
      PendingWakes, Larger, Active, Terminal
<1>9. Lifecycle!Step(job[j].status, row.status) /\ job[j].status \notin Terminal
  BY <1>1, <1>3, <1>5
  DEF IInv, TypeOK, Lifecycle!Step, Lifecycle!can_transition_to,
      Lifecycle!is_terminal, Row, Status, Active, Terminal
<1>10. row.reclaims = job[j].reclaims /\ row.owner \in {job[j].owner, 0}
  BY <1>3, <1>5, Zenon DEF IInv, TypeOK
<1>11. \A k \in Jobs : Stepped(k)
  BY <1>3, <1>9, <1>10, Touched, Zenon DEF IInv, TypeOK
<1> QED
  BY <1>6, <1>7, <1>8, <1>11 DEF IInv

\* A reported retry gives the lease back and names the next time.
LEMMA RetryIInv ==
  ASSUME IInv, NEW j \in Jobs, NEW at \in Reading, NEW token \in 1..minted[j],
         NEW next \in Time,
         fail_runtime_job_retry(j, token, at, next)
  PROVE  IInv' /\ \A k \in Jobs : Stepped(k)
<1> DEFINE row == [Released(job[j]) EXCEPT !.status = "queued", !.runAt = next]
<1> USE DEF fail_runtime_job_retry, Fenced
<1>1. job[j] \in Row /\ Released(job[j]) \in Row /\ JobInv(j)
  BY ReleasedRow DEF IInv, TypeOK
<1>2. token \in Nat /\ next \in Nat /\ now \in Nat
  BY BoundAssumption, LeaseAssumption DEF IInv, TypeOK, Reading, Time
<1>3. job' = [job EXCEPT ![j] = row]
  BY DEF IInv, TypeOK
<1>4. row \in Row
  BY <1>1, <1>2, Zenon DEF Row, Status, Active, Terminal
<1>5. /\ job'[j].status = "queued"
      /\ job'[j].runAt = next
      /\ job'[j].owner = 0
      /\ job'[j].expires = 0
      /\ job'[j].heartbeat = job[j].heartbeat
      /\ job'[j].reclaims = job[j].reclaims
      /\ job'[j].notBefore = job[j].notBefore
  BY <1>1, <1>2, <1>3, ReleasedRow DEF IInv, TypeOK, Row
<1> HIDE DEF row
<1>6. TypeOK'
  BY <1>2, <1>3, <1>4 DEF IInv, TypeOK
<1>7. ASSUME NEW k \in Jobs \ {j} PROVE JobInv(k)'
  <2>1. job'[k] = job[k]
    BY <1>3, Zenon DEF IInv, TypeOK
  <2>2. /\ wakeAt'[k] = wakeAt[k] /\ consumed'[k] = consumed[k]
        /\ outbox'[k] = outbox[k] /\ minted'[k] = minted[k] /\ ended'[k] = ended[k]
        /\ settledBy'[k] = settledBy[k] /\ owed'[k] = owed[k]
        /\ retryAt'[k] = retryAt[k]
        /\ (k \in stopMarks' <=> k \in stopMarks) /\ now' = now
    BY DEF IInv, TypeOK
  <2>3. k \in Jobs /\ now' \in Nat /\ now' >= now
    BY <1>2, <2>2
  <2> QED
    BY <2>1, <2>2, <2>3, Untouched, Zenon
<1>8. JobInv(j)'
  BY <1>1, <1>2, <1>5, LeaseAssumption DEF IInv, TypeOK, Row, Reading, JobInv, TokenHistory, Lease, Delivery, Budget, Wakeups,
      PendingWakes, Larger, Active, Terminal
<1>9. Lifecycle!Step(job[j].status, row.status) /\ job[j].status \notin Terminal
  BY <1>1, <1>3, <1>5, Zenon
  DEF IInv, TypeOK, Lifecycle!Step, Lifecycle!can_transition_to,
      Lifecycle!is_terminal, Row, Status, Active, Terminal
<1>10. row.reclaims = job[j].reclaims /\ row.owner \in {job[j].owner, 0}
  BY <1>3, <1>5, Zenon DEF IInv, TypeOK
<1>11. \A k \in Jobs : Stepped(k)
  BY <1>3, <1>9, <1>10, Touched, Zenon DEF IInv, TypeOK
<1> QED
  BY <1>6, <1>7, <1>8, <1>11 DEF IInv

\* A final failure settles the job and queues its delivery.
LEMMA FailIInv ==
  ASSUME IInv, NEW j \in Jobs, NEW at \in Reading, NEW token \in 1..minted[j],
         NEW status \in {"failed", "dead_lettered"},
         fail_runtime_job(j, token, at, status)
  PROVE  IInv' /\ \A k \in Jobs : Stepped(k)
<1> DEFINE row == [Released(job[j]) EXCEPT !.status = status, !.runAt = at]
<1> USE DEF fail_runtime_job, Fenced
<1>1. job[j] \in Row /\ Released(job[j]) \in Row /\ JobInv(j)
  BY ReleasedRow DEF IInv, TypeOK
<1>2. token \in Nat /\ at \in Nat /\ now \in Nat
  BY BoundAssumption, LeaseAssumption DEF IInv, TypeOK, Reading, Time
<1>3. job' = [job EXCEPT ![j] = row]
  BY DEF IInv, TypeOK
<1>4. row \in Row
  BY <1>1, <1>2, UpsertedRow, Zenon DEF Row, Status, Active, Terminal
<1>5. /\ job'[j].status = status
      /\ job'[j].runAt = at
      /\ job'[j].owner = 0
      /\ job'[j].expires = 0
      /\ job'[j].heartbeat = job[j].heartbeat
      /\ job'[j].reclaims = job[j].reclaims
      /\ job'[j].notBefore = job[j].notBefore
  BY <1>1, <1>2, <1>3, ReleasedRow, UpsertedRow DEF IInv, TypeOK, Row
<1> HIDE DEF row
<1>6. TypeOK'
  BY <1>2, <1>3, <1>4, UpsertedRow DEF IInv, TypeOK
<1>7. ASSUME NEW k \in Jobs \ {j} PROVE JobInv(k)'
  <2>1. job'[k] = job[k]
    BY <1>3, Zenon DEF IInv, TypeOK
  <2>2. /\ wakeAt'[k] = wakeAt[k] /\ consumed'[k] = consumed[k]
        /\ outbox'[k] = outbox[k] /\ minted'[k] = minted[k] /\ ended'[k] = ended[k]
        /\ settledBy'[k] = settledBy[k] /\ owed'[k] = owed[k]
        /\ retryAt'[k] = retryAt[k]
        /\ (k \in stopMarks' <=> k \in stopMarks) /\ now' = now
    BY DEF IInv, TypeOK
  <2>3. k \in Jobs /\ now' \in Nat /\ now' >= now
    BY <1>2, <2>2
  <2> QED
    BY <2>1, <2>2, <2>3, Untouched, Zenon
<1>8. JobInv(j)'
  BY <1>1, <1>2, <1>5, LeaseAssumption, UpsertedRow DEF IInv, TypeOK, Row, Reading, JobInv, TokenHistory, Lease, Delivery, Budget, Wakeups,
      PendingWakes, Larger, Active, Terminal
<1>9. Lifecycle!Step(job[j].status, row.status) /\ job[j].status \notin Terminal
  BY <1>1, <1>3, <1>5, Zenon
  DEF IInv, TypeOK, Lifecycle!Step, Lifecycle!can_transition_to,
      Lifecycle!is_terminal, Row, Status, Active, Terminal
<1>10. row.reclaims = job[j].reclaims /\ row.owner \in {job[j].owner, 0}
  BY <1>3, <1>5, Zenon DEF IInv, TypeOK
<1>11. \A k \in Jobs : Stepped(k)
  BY <1>3, <1>9, <1>10, Touched, Zenon DEF IInv, TypeOK
<1> QED
  BY <1>6, <1>7, <1>8, <1>11 DEF IInv

\* A cancellation settles any unfinished job and queues its delivery.
LEMMA CancelIInv ==
  ASSUME IInv, NEW j \in Jobs, NEW at \in Reading, NEW expectedStatus,
         NEW token \in 0..minted[j], cancel_runtime_job(j, expectedStatus, token, at)
  PROVE  IInv' /\ \A k \in Jobs : Stepped(k)
<1> DEFINE row == [Released(job[j]) EXCEPT !.status = "cancelled"]
<1> USE DEF cancel_runtime_job, Cancellable, Fenced
<1>1. job[j] \in Row /\ Released(job[j]) \in Row /\ JobInv(j)
  BY ReleasedRow DEF IInv, TypeOK
<1>2. token \in Nat /\ at \in Nat /\ now \in Nat
  BY BoundAssumption, LeaseAssumption DEF IInv, TypeOK, Reading, Time
<1>3. job' = [job EXCEPT ![j] = row]
  BY DEF IInv, TypeOK
<1>4. row \in Row
  BY <1>1, <1>2, UpsertedRow DEF Row, Status, Active, Terminal
<1>5. /\ job'[j].status = "cancelled"
      /\ job'[j].runAt = job[j].runAt
      /\ job'[j].owner = 0
      /\ job'[j].expires = 0
      /\ job'[j].heartbeat = job[j].heartbeat
      /\ job'[j].reclaims = job[j].reclaims
      /\ job'[j].notBefore = job[j].notBefore
  BY <1>1, <1>2, <1>3, ReleasedRow, UpsertedRow DEF IInv, TypeOK, Row
<1> HIDE DEF row
<1>6. TypeOK'
  BY <1>2, <1>3, <1>4, UpsertedRow, Zenon DEF IInv, TypeOK
<1>7. ASSUME NEW k \in Jobs \ {j} PROVE JobInv(k)'
  <2>1. job'[k] = job[k]
    BY <1>3, Zenon DEF IInv, TypeOK
  <2>2. /\ wakeAt'[k] = wakeAt[k] /\ consumed'[k] = consumed[k]
        /\ outbox'[k] = outbox[k] /\ minted'[k] = minted[k] /\ ended'[k] = ended[k]
        /\ settledBy'[k] = settledBy[k] /\ owed'[k] = owed[k]
        /\ retryAt'[k] = retryAt[k]
        /\ (k \in stopMarks' <=> k \in stopMarks) /\ now' = now
    BY DEF IInv, TypeOK
  <2>3. k \in Jobs /\ now' \in Nat /\ now' >= now
    BY <1>2, <2>2
  <2> QED
    BY <2>1, <2>2, <2>3, Untouched, Zenon
<1>8. JobInv(j)'
  BY <1>1, <1>2, <1>5, LeaseAssumption, UpsertedRow DEF IInv, TypeOK, Row, Reading, JobInv, TokenHistory, Lease, Delivery, Budget, Wakeups,
      PendingWakes, Larger, Active, Terminal
<1>9. Lifecycle!Step(job[j].status, row.status) /\ job[j].status \notin Terminal
  BY <1>1, <1>3, <1>5
  DEF IInv, TypeOK, Lifecycle!Step, Lifecycle!can_transition_to,
      Lifecycle!is_terminal, Row, Status, Active, Terminal
<1>10. row.reclaims = job[j].reclaims /\ row.owner \in {job[j].owner, 0}
  BY <1>3, <1>5, Zenon DEF IInv, TypeOK
<1>11. \A k \in Jobs : Stepped(k)
  BY <1>3, <1>9, <1>10, Touched, Zenon DEF IInv, TypeOK
<1> QED
  BY <1>6, <1>7, <1>8, <1>11 DEF IInv

\* A service stop marks the job it cancels.
LEMMA ServiceStopIInv ==
  ASSUME IInv, NEW j \in Jobs, NEW at \in Reading, NEW expectedStatus,
         cancel_for_service_shutdown(j, expectedStatus, at)
  PROVE  IInv' /\ \A k \in Jobs : Stepped(k)
<1> DEFINE row == [Released(job[j]) EXCEPT !.status = "cancelled"]
<1> USE DEF cancel_for_service_shutdown, Cancellable, history
<1>1. job[j] \in Row /\ Released(job[j]) \in Row /\ JobInv(j)
  BY ReleasedRow DEF IInv, TypeOK
<1>2. at \in Nat /\ now \in Nat
  BY BoundAssumption, LeaseAssumption DEF IInv, TypeOK, Reading, Time
<1>3. job' = [job EXCEPT ![j] = row]
  BY DEF IInv, TypeOK
<1>4. row \in Row
  BY <1>1, <1>2, UpsertedRow DEF Row, Status, Active, Terminal
<1>5. /\ job'[j].status = "cancelled"
      /\ job'[j].runAt = job[j].runAt
      /\ job'[j].owner = 0
      /\ job'[j].expires = 0
      /\ job'[j].heartbeat = job[j].heartbeat
      /\ job'[j].reclaims = job[j].reclaims
      /\ job'[j].notBefore = job[j].notBefore
  BY <1>1, <1>2, <1>3, ReleasedRow, UpsertedRow DEF IInv, TypeOK, Row
<1> HIDE DEF row
<1>6. TypeOK'
  BY <1>2, <1>3, <1>4, UpsertedRow, Zenon DEF IInv, TypeOK
<1>7. ASSUME NEW k \in Jobs \ {j} PROVE JobInv(k)'
  <2>1. job'[k] = job[k]
    BY <1>3, Zenon DEF IInv, TypeOK
  <2>2. /\ wakeAt'[k] = wakeAt[k] /\ consumed'[k] = consumed[k]
        /\ outbox'[k] = outbox[k] /\ minted'[k] = minted[k] /\ ended'[k] = ended[k]
        /\ settledBy'[k] = settledBy[k] /\ owed'[k] = owed[k]
        /\ retryAt'[k] = retryAt[k]
        /\ (k \in stopMarks' <=> k \in stopMarks) /\ now' = now
    BY DEF IInv, TypeOK
  <2>3. k \in Jobs /\ now' \in Nat /\ now' >= now
    BY <1>2, <2>2
  <2> QED
    BY <2>1, <2>2, <2>3, Untouched, Zenon
<1>8. JobInv(j)'
  BY <1>1, <1>2, <1>5, LeaseAssumption, UpsertedRow DEF IInv, TypeOK, Row, Reading, JobInv, TokenHistory, Lease, Delivery, Budget, Wakeups,
      PendingWakes, Larger, Active, Terminal
<1>9. Lifecycle!Step(job[j].status, row.status) /\ job[j].status \notin Terminal
  BY <1>1, <1>3, <1>5
  DEF IInv, TypeOK, Lifecycle!Step, Lifecycle!can_transition_to,
      Lifecycle!is_terminal, Row, Status, Active, Terminal
<1>10. row.reclaims = job[j].reclaims /\ row.owner \in {job[j].owner, 0}
  BY <1>3, <1>5, Zenon DEF IInv, TypeOK
<1>11. \A k \in Jobs : Stepped(k)
  BY <1>3, <1>9, <1>10, Touched, Zenon DEF IInv, TypeOK
<1> QED
  BY <1>6, <1>7, <1>8, <1>11 DEF IInv

\* A yield queues the job, at once if a wake is pending.
LEMMA YieldIInv ==
  ASSUME IInv, NEW j \in Jobs, NEW at \in Reading, NEW token \in 1..minted[j],
         NEW runAt \in Time, yield_runtime_job(j, token, at, runAt)
  PROVE  IInv' /\ \A k \in Jobs : Stepped(k)
<1> DEFINE next == YieldedRunAt(j, at, runAt)
           row == [Released(job[j]) EXCEPT !.status = "queued", !.heartbeat = 0,
                                           !.runAt = next]
<1> USE DEF yield_runtime_job, Fenced
<1>1. job[j] \in Row /\ Released(job[j]) \in Row /\ JobInv(j)
  BY ReleasedRow DEF IInv, TypeOK
<1>2. token \in Nat /\ at \in Nat /\ now \in Nat /\ at <= now /\ runAt \in Nat
  BY BoundAssumption DEF IInv, TypeOK, Reading, Time
<1>3. next \in Nat /\ (PendingWakes(j) # {} => next = at)
  BY <1>2 DEF YieldedRunAt
<1>4. job' = [job EXCEPT ![j] = row]
  OBVIOUS
<1> HIDE DEF next
<1>5. row \in Row
  BY <1>1, <1>3, Zenon DEF Row, Status
<1>6. /\ job'[j].status = "queued" /\ job'[j].runAt = next
      /\ job'[j].owner = 0 /\ job'[j].reclaims = job[j].reclaims
      /\ job'[j].notBefore = job[j].notBefore
  <2>1. job'[j] = row
    BY <1>4 DEF IInv, TypeOK
  <2>2. /\ row.status = "queued" /\ row.runAt = next
        /\ row.owner = Released(job[j]).owner
        /\ row.reclaims = Released(job[j]).reclaims
        /\ row.notBefore = Released(job[j]).notBefore
    BY <1>1 DEF Row
  <2> QED
    BY <1>1, <2>1, <2>2, ReleasedRow, Zenon
<1> HIDE DEF row
<1>7. TypeOK'
  <2>1. consumed' \in [Jobs -> SUBSET Sources]
    BY DEF IInv, TypeOK, PendingWakes
  <2>2. ended' \in [Jobs -> SUBSET Nat]
    BY <1>2 DEF IInv, TypeOK
  <2> QED
    BY <1>4, <1>5, <2>1, <2>2 DEF IInv, TypeOK
<1>8. \A k \in Jobs \ {j} : JobInv(k)'
  BY <1>2, <1>4, Untouched DEF IInv, TypeOK
<1>9. JobInv(j)'
  <2>1. /\ settledBy'[j] = settledBy[j] /\ minted'[j] = minted[j]
        /\ ended'[j] = ended[j] \cup {token} /\ owed'[j] = owed[j]
        /\ now' = now /\ retryAt'[j] = retryAt[j] /\ retryAt[j] \in Nat
        /\ outbox'[j] = outbox[j] /\ stopMarks' = stopMarks /\ minted[j] \in Nat
        /\ \A s \in consumed'[j] : wakeAt'[j][s] # 0
    BY <1>1 DEF IInv, TypeOK, JobInv, TokenHistory, PendingWakes
  <2>2. TokenHistory(j)' /\ Lease(j)'
    BY <1>1, <1>2, <1>6, <2>1 DEF JobInv, TokenHistory, Lease, Row, Active, Terminal
  <2>3. Delivery(j)' /\ Budget(j)'
    BY <1>1, <1>6, <2>1, ReclaimAssumption
    DEF JobInv, Delivery, Budget, Row, Active, Terminal
  <2>4. Wakeups(j)'
    BY <1>1, <1>2, <1>3, <1>6, <2>1
    DEF JobInv, TokenHistory, Wakeups, Larger, Row, Active
  <2> QED
    BY <2>2, <2>3, <2>4 DEF JobInv
<1>10. Lifecycle!Step(job[j].status, row.status) /\ job[j].status \notin Terminal
  BY <1>1, <1>4, <1>6, Zenon
  DEF IInv, TypeOK, Lifecycle!Step, Lifecycle!can_transition_to,
      Lifecycle!is_terminal, Active, Terminal
<1>11. row.reclaims = job[j].reclaims /\ row.owner \in {job[j].owner, 0}
  BY <1>4, <1>6, Zenon DEF IInv, TypeOK
<1>12. \A k \in Jobs : Stepped(k)
  BY <1>4, <1>10, <1>11, Touched, Zenon
<1> QED
  BY <1>7, <1>8, <1>9, <1>12 DEF IInv

\* A wake is remembered, and pulls forward a job that is queued.
LEMMA WakeIInv ==
  ASSUME IInv, NEW j \in Jobs, NEW at \in Reading, NEW source \in Sources,
         wake_runtime_job(j, source, at)
  PROVE  IInv' /\ \A k \in Jobs : Stepped(k)
<1> DEFINE row == Woken(job[j], at)
<1> USE DEF wake_runtime_job
<1>1. job[j] \in Row /\ JobInv(j)
  BY DEF IInv, TypeOK
<1>2. at \in Nat \ {0} /\ now \in Nat /\ at <= now
  BY BoundAssumption DEF IInv, TypeOK, Reading, Time
<1>3. job' = [job EXCEPT ![j] = row] /\ row \in Row
  BY <1>1, <1>2, WokenRow
<1> HIDE DEF row
<1>4. TypeOK'
  BY <1>2, <1>3 DEF IInv, TypeOK
<1>5. \A k \in Jobs \ {j} : JobInv(k)'
  BY <1>2, <1>3, Untouched DEF IInv, TypeOK
<1>6. JobInv(j)'
  <2>1. /\ settledBy'[j] = settledBy[j] /\ minted'[j] = minted[j]
        /\ ended'[j] = ended[j] /\ now' = now
        /\ retryAt'[j] = retryAt[j] /\ retryAt[j] \in Nat
        /\ outbox'[j] = outbox[j] /\ stopMarks' = stopMarks
        /\ job'[j] = row /\ consumed'[j] = consumed[j]
        /\ owed'[j] = (owed[j] \/ wakeAt[j][source] = 0)
    BY <1>3 DEF IInv, TypeOK
  <2>2. /\ row.status = job[j].status /\ row.owner = job[j].owner
        /\ row.expires = job[j].expires /\ row.heartbeat = job[j].heartbeat
        /\ row.reclaims = job[j].reclaims /\ row.notBefore = job[j].notBefore
        /\ row.runAt <= job[j].runAt /\ row.runAt \in Nat
        /\ row.runAt # job[j].runAt => row.runAt = Larger(at, row.notBefore)
        /\ job[j].status = "queued" => row.runAt <= Larger(at, row.notBefore)
    BY <1>1, <1>2, WokenRow DEF row, Row
  <2>3. TokenHistory(j)' /\ Lease(j)'
    BY <1>1, <2>1, <2>2 DEF JobInv, TokenHistory, Lease, Row, Active, Terminal
  <2>4. Delivery(j)' /\ Budget(j)'
    BY <1>1, <2>1, <2>2 DEF JobInv, Delivery, Budget
  <2>5. job[j].status \in Active /\ owed'[j] => PendingWakes(j)' # {}
    <3>1. /\ wakeAt'[j][source] = at
          /\ \A s \in Sources : wakeAt[j][s] # 0 => wakeAt'[j][s] # 0
      BY <1>2 DEF IInv, TypeOK
    <3>2. CASE owed[j]
      BY <1>1, <2>1, <3>1, <3>2 DEF JobInv, Wakeups, PendingWakes
    <3>3. CASE wakeAt[j][source] = 0
      <4>1. source \notin consumed[j]
        BY <1>1, <3>3 DEF JobInv, TokenHistory
      <4> QED
        BY <1>2, <2>1, <3>1, <4>1 DEF PendingWakes
    <3> QED
      BY <2>1, <3>2, <3>3, Zenon
  <2>6. Wakeups(j)'
    BY <1>1, <1>2, <2>1, <2>2, <2>5 DEF JobInv, Wakeups, Larger, Row
  <2> QED
    BY <2>3, <2>4, <2>6 DEF JobInv
<1>7. ASSUME NEW k \in Jobs PROVE Stepped(k)
  <2>1. /\ job'[k].status = job[k].status /\ job'[k].owner = job[k].owner
        /\ job'[k].reclaims = job[k].reclaims
        /\ job[k].status \in Terminal => job'[k] = job[k]
    <3>1. CASE k # j
      BY <1>3, <3>1 DEF IInv, TypeOK
    <3>2. CASE k = j
      <4>1. job'[k] = Woken(job[j], at)
        BY <1>3, <3>2 DEF IInv, TypeOK, row
      <4>2. job[j].status \in Terminal => job[j].status # "queued"
        BY DEF Terminal
      <4> QED
        BY <1>1, <1>2, <3>2, <4>1, <4>2, WokenRow
    <3> QED
      BY <3>1, <3>2
  <2> QED
    BY <2>1 DEF Stepped, Settled, LeaseKept, Lifecycle!Step,
                Lifecycle!can_transition_to
<1> QED
  BY <1>4, <1>5, <1>6, <1>7 DEF IInv

\* An acknowledgement changes one delivery from pending to published.
LEMMA PublishIInv ==
  ASSUME IInv, NEW j \in Jobs, NEW generation,
         mark_runtime_job_outbox_published(j, generation)
  PROVE  IInv' /\ \A k \in Jobs : Stepped(k)
<1> USE DEF mark_runtime_job_outbox_published, history
<1>1. outbox[j] \in OutboxRow /\ now \in Nat
  BY BoundAssumption DEF IInv, TypeOK, Time
<1>2. /\ outbox' = [outbox EXCEPT ![j] = [outbox[j] EXCEPT !.state = "published"]]
      /\ [outbox[j] EXCEPT !.state = "published"] \in OutboxRow
  BY <1>1 DEF IInv, TypeOK, OutboxRow
<1>3. TypeOK'
  BY <1>2 DEF IInv, TypeOK
<1>4. \A k \in Jobs \ {j} : JobInv(k)'
  BY <1>1, <1>2, Untouched DEF IInv, TypeOK
<1>5. outbox'[j].state = "published" /\ outbox'[j].generation = outbox[j].generation
  BY <1>1, <1>2 DEF IInv, TypeOK, OutboxRow
<1>6. JobInv(j)'
  BY <1>1, <1>5 DEF IInv, JobInv, TokenHistory, Lease, Delivery, Budget, Wakeups,
                    PendingWakes
<1>7. ASSUME NEW k \in Jobs PROVE Stepped(k)
  <2>1. /\ outbox'[k].generation = outbox[k].generation
        /\ outbox'[k].state \in {outbox[k].state, "published"}
    BY <1>2, <1>5 DEF IInv, TypeOK
  <2> QED
    BY <2>1 DEF Stepped, Settled, LeaseKept, Lifecycle!Step,
                Lifecycle!can_transition_to
<1> QED
  BY <1>3, <1>4, <1>6, <1>7 DEF IInv

\* Time passes.
LEMMA TickIInv ==
  ASSUME IInv, Tick
  PROVE  IInv' /\ \A k \in Jobs : Stepped(k)
<1> USE DEF Tick, store, history
<1>1. now \in Nat /\ now' = now + 1 /\ now' \in Time
  BY BoundAssumption DEF IInv, TypeOK, Time
<1>2. TypeOK'
  BY <1>1 DEF IInv, TypeOK
<1>3. \A k \in Jobs : JobInv(k)'
  BY <1>1, Untouched
<1>4. \A k \in Jobs : Stepped(k)
  BY DEF Stepped, Settled, LeaseKept, Lifecycle!Step, Lifecycle!can_transition_to
<1> QED
  BY <1>2, <1>3, <1>4 DEF IInv

\* A claim issues a token nobody has used, to jobs whose backoff is over.
LEMMA ClaimIInv ==
  ASSUME IInv, NEW at \in Reading, NEW wanted \in SUBSET Jobs, NEW limit,
         claim_due_runtime_jobs(at, wanted, limit)
  PROVE  IInv' /\ \A k \in Jobs : Stepped(k)
<1>1. PICK S \in SUBSET {j \in wanted : Due(job[j], at)} :
        /\ job' = [j \in Jobs |->
                     IF j \in S THEN Claimed(job[j], FreshToken(j), at) ELSE job[j]]
        /\ minted' = [j \in Jobs |-> IF j \in S THEN minted[j] + 1 ELSE minted[j]]
        /\ owed' = [j \in Jobs |-> IF j \in S THEN FALSE ELSE owed[j]]
        /\ UNCHANGED <<wakeAt, consumed, outbox, stopMarks, now,
                       ended, settledBy, retryAt>>
  BY Zenon DEF claim_due_runtime_jobs
<1>2. at \in Nat /\ now \in Nat /\ at <= now
  BY BoundAssumption DEF IInv, TypeOK, Reading, Time
<1>3. \A j \in Jobs : job[j] \in Row /\ minted[j] \in Nat /\ FreshToken(j) \in Nat
  BY DEF IInv, TypeOK, FreshToken
<1>4. \A j \in Jobs : Claimed(job[j], FreshToken(j), at) \in Row
  BY <1>2, <1>3, ClaimedRow
<1>5. TypeOK'
  <2>1. job' \in [Jobs -> Row]
    BY <1>1, <1>3, <1>4
  <2>2. minted' \in [Jobs -> Nat]
    BY <1>1, <1>3
  <2>3. owed' \in [Jobs -> BOOLEAN]
    BY <1>1, Zenon DEF IInv, TypeOK
  <2> QED
    BY <1>1, <2>1, <2>2, <2>3, Zenon DEF IInv, TypeOK
<1>6. ASSUME NEW j \in Jobs, j \notin S PROVE JobInv(j)'
  <2>1. job'[j] = job[j] /\ minted'[j] = minted[j] /\ owed'[j] = owed[j]
    BY <1>1, <1>6
  <2>2. now' \in Nat /\ now' >= now
    BY <1>1, <1>2
  <2> QED
    BY <1>1, <2>1, <2>2, Untouched, Zenon
<1>7. ASSUME NEW j \in S PROVE JobInv(j)'
  <2>1. j \in Jobs /\ job[j].status = "queued" /\ job[j].notBefore <= at /\ JobInv(j)
    BY DEF Due, IInv
  <2>2. /\ job'[j].status = "leased" /\ job'[j].owner = minted[j] + 1
        /\ job'[j].expires = at + LeaseMs /\ job'[j].heartbeat = at
        /\ job'[j].reclaims = job[j].reclaims
        /\ job'[j].notBefore = job[j].notBefore
    <3>1. job'[j] = Claimed(job[j], FreshToken(j), at)
      BY <1>1, <2>1
    <3>2. FreshToken(j) = minted[j] + 1
      BY DEF FreshToken
    <3>3. job[j] \in Row /\ minted[j] + 1 \in Nat
      BY <1>3, <2>1
    <3>4. job'[j] = Claimed(job[j], minted[j] + 1, at)
      BY <3>1, <3>2
    <3> QED
      BY <3>3, <3>4 DEF Claimed, Row
  <2>3. minted'[j] = minted[j] + 1 /\ owed'[j] = FALSE
    BY <1>1, <2>1
  <2>4. TokenHistory(j)'
    <3>1. /\ ended'[j] = ended[j] /\ settledBy'[j] = settledBy[j] /\ now' = now
          /\ wakeAt' = wakeAt /\ consumed' = consumed
      BY <1>1
    <3>2. minted[j] \in Nat /\ job[j].notBefore \in Nat
      BY <1>3, <2>1 DEF Row
    <3>3. ended'[j] \subseteq 1..minted'[j] /\ minted'[j] \notin ended'[j]
      BY <2>1, <2>3, <3>1, <3>2 DEF JobInv, TokenHistory
    <3>4. job'[j].notBefore <= now'
      BY <1>2, <2>1, <2>2, <3>1, <3>2
    <3> QED
      BY <2>1, <2>2, <3>1, <3>3, <3>4 DEF JobInv, TokenHistory, Active, Terminal
  <2>5. Lease(j)'
    <3>1. settledBy'[j] \notin ended'[j]
      BY <1>1, <2>1 DEF JobInv, Lease
    <3>2. at < at + LeaseMs /\ minted[j] + 1 # 0
      BY <1>2, <1>3, <2>1, LeaseAssumption
    <3> QED
      BY <2>2, <2>3, <3>1, <3>2 DEF Lease, Active
  <2>6. Delivery(j)' /\ Budget(j)' /\ Wakeups(j)'
    BY <1>1, <2>1, <2>2, <2>3, ReclaimAssumption
    DEF JobInv, Delivery, Budget, Wakeups, Terminal, Active
  <2> QED
    BY <2>4, <2>5, <2>6 DEF JobInv
<1>8. ASSUME NEW k \in Jobs PROVE Stepped(k)
  <2>1. \/ job'[k] = job[k]
        \/ job[k].status = "queued" /\ job'[k].status = "leased"
    <3>1. CASE k \notin S
      BY <1>1, <3>1
    <3>2. CASE k \in S
      <4>1. job'[k] = Claimed(job[k], FreshToken(k), at)
        BY <1>1, <3>2
      <4>2. Claimed(job[k], FreshToken(k), at).status = "leased"
        BY <1>3 DEF Claimed, Row
      <4> QED
        BY <3>2, <4>1, <4>2 DEF Due
    <3> QED
      BY <3>1, <3>2
  <2>2. outbox' = outbox
    BY <1>1
  <2> QED
    BY <2>1, <2>2 DEF Stepped, Settled, LeaseKept, Lifecycle!Step,
                      Lifecycle!can_transition_to, Active, Terminal
<1> QED
  BY <1>5, <1>6, <1>7, <1>8 DEF IInv

\* A reclaim ends expired leases, backs the jobs off or retires them.
LEMMA ReclaimIInv ==
  ASSUME IInv, NEW at \in Reading, reclaim_expired_runtime_job_leases(at)
  PROVE  IInv' /\ \A k \in Jobs : Stepped(k)
<1>0. PICK S \in SUBSET {j \in Jobs : Expired(job[j], at)} :
        /\ \E delay \in [S -> UNION {ReclaimDelays(job[j]) : j \in S}] :
             /\ \A j \in S : delay[j] \in ReclaimDelays(job[j])
             /\ job' = [j \in Jobs |-> IF j \in S
                                       THEN Reclaimed(job[j], at, delay[j])
                                       ELSE job[j]]
        /\ outbox' = [j \in Jobs |-> IF j \in S /\ Exhausted(job[j])
                                     THEN Upserted(outbox[j]) ELSE outbox[j]]
        /\ ended' = [j \in Jobs |-> IF j \in S THEN ended[j] \cup {job[j].owner}
                                               ELSE ended[j]]
        /\ UNCHANGED <<wakeAt, consumed, stopMarks, now,
                       minted, settledBy, owed, retryAt>>
  BY Zenon DEF reclaim_expired_runtime_job_leases
<1>1. PICK delay \in [S -> UNION {ReclaimDelays(job[j]) : j \in S}] :
        /\ \A j \in S : delay[j] \in ReclaimDelays(job[j])
        /\ job' = [j \in Jobs |-> IF j \in S THEN Reclaimed(job[j], at, delay[j])
                                             ELSE job[j]]
  BY <1>0
<1>2. at \in Nat /\ now \in Nat /\ at <= now
  BY BoundAssumption DEF IInv, TypeOK, Reading, Time
<1>3. \A j \in Jobs : job[j] \in Row /\ outbox[j] \in OutboxRow /\ job[j].owner \in Nat
  BY DEF IInv, TypeOK, Row
<1>4. \A j \in S : j \in Jobs /\ delay[j] \in Nat
  <2> TAKE j \in S
  <2>1. j \in Jobs /\ job[j].reclaims \in Nat
    BY <1>3 DEF Row
  <2>2. delay[j] \in ReclaimDelays(job[j])
    BY <1>1
  <2>3. CASE Exhausted(job[j])
    BY <2>1, <2>2, <2>3 DEF ReclaimDelays
  <2>4. CASE ~Exhausted(job[j])
    <3>1. job[j].reclaims + 1 \in 1..MaxReclaims
      BY <2>1, <2>4, ReclaimAssumption DEF Exhausted
    <3> QED
      BY <2>1, <2>2, <2>4, <3>1, DelayAssumption DEF ReclaimDelays
  <2> QED
    BY <2>3, <2>4
<1>5. \A j \in S : Reclaimed(job[j], at, delay[j]) \in Row
  BY <1>2, <1>3, <1>4, ReclaimedRow
<1>6. TypeOK'
  <2>1. job' \in [Jobs -> Row]
    BY <1>0, <1>1, <1>3, <1>5
  <2>2. outbox' \in [Jobs -> OutboxRow]
    BY <1>0, <1>3, UpsertedRow
  <2>3. ended' \in [Jobs -> SUBSET Nat]
    <3>1. \A j \in Jobs : /\ ended[j] \in SUBSET Nat
                          /\ ended[j] \cup {job[j].owner} \in SUBSET Nat
      BY <1>3 DEF IInv, TypeOK
    <3> QED
      BY <1>0, <3>1
  <2> QED
    BY <1>0, <1>1, <2>1, <2>2, <2>3, Zenon DEF IInv, TypeOK
<1>7. ASSUME NEW j \in Jobs, j \notin S PROVE JobInv(j)'
  <2>1. job'[j] = job[j] /\ outbox'[j] = outbox[j] /\ ended'[j] = ended[j]
    BY <1>0, <1>1, <1>7
  <2>2. now' \in Nat /\ now' >= now
    BY <1>0, <1>2
  <2> QED
    BY <1>0, <2>1, <2>2, Untouched, Zenon
<1>8. ASSUME NEW j \in S PROVE JobInv(j)'
  <2> DEFINE d == delay[j]
  <2>0. d \in Nat
    BY <1>4
  <2>1. j \in Jobs /\ job[j].status \in Active /\ JobInv(j) /\ job[j] \in Row
    BY <1>3 DEF Expired, IInv
  <2>2. /\ job'[j].status = IF Exhausted(job[j]) THEN "dead_lettered" ELSE "queued"
        /\ job'[j].owner = 0 /\ job'[j].reclaims = job[j].reclaims + 1
        /\ job'[j].runAt = at + d /\ job'[j].notBefore = at + d
    <3>1. job'[j] = Reclaimed(job[j], at, d)
      BY <1>1, <2>1
    <3> HIDE DEF d
    <3>2. /\ Reclaimed(job[j], at, d).status
               = IF Exhausted(job[j]) THEN "dead_lettered" ELSE "queued"
          /\ Reclaimed(job[j], at, d).owner = 0
          /\ Reclaimed(job[j], at, d).reclaims = job[j].reclaims + 1
          /\ Reclaimed(job[j], at, d).runAt = at + d
          /\ Reclaimed(job[j], at, d).notBefore = at + d
      BY <1>2, <2>0, <2>1, ReclaimedRow, ZenonT(40)
    <3> QED
      BY <3>1, <3>2, Zenon
  <2> HIDE DEF d
  <2>3. /\ ended'[j] = ended[j] \cup {minted[j]} /\ minted'[j] = minted[j]
        /\ settledBy'[j] = 0 /\ settledBy[j] = 0 /\ minted[j] \in Nat \ {0}
    BY <1>0, <1>1, <2>1, Zenon DEF IInv, TypeOK, JobInv, TokenHistory, Lease, Active, Terminal
  <2>4. TokenHistory(j)' /\ Lease(j)'
    BY <1>0, <1>1, <2>1, <2>2, <2>3 DEF JobInv, TokenHistory, Lease, Active, Terminal
  <2>5. Delivery(j)'
    BY <1>0, <1>1, <1>3, <2>1, <2>2, UpsertedRow DEF JobInv, Delivery, Active, Terminal
  <2>6. Budget(j)'
    BY <1>3, <2>1, <2>2, ReclaimAssumption
    DEF JobInv, Budget, Exhausted, Row, Active
  <2>7. Wakeups(j)'
    <3>1. now' = now /\ at + d \in Nat
      BY <1>0, <1>2, <2>0
    <3>2. retryAt'[j] \in Nat
      BY <1>0, <2>1 DEF IInv, TypeOK
    <3> QED
      BY <1>2, <2>2, <3>1, <3>2 DEF Wakeups, Larger, Active
  <2> QED
    BY <2>4, <2>5, <2>6, <2>7 DEF JobInv
<1>9. ASSUME NEW k \in Jobs PROVE Stepped(k)
  <2>1. CASE k \notin S
    <3>1. job'[k] = job[k] /\ outbox'[k] = outbox[k]
      BY <1>0, <1>1, <2>1
    <3> QED
      BY <3>1 DEF Stepped, Settled, LeaseKept, Lifecycle!Step,
                  Lifecycle!can_transition_to
  <2>2. CASE k \in S
    <3>1. job[k].status \in Active /\ job[k].expires <= at /\ job[k].expires \in Nat
      BY <1>3, <2>2 DEF Expired, Row
    <3>2. job'[k].status \in {"dead_lettered", "queued"}
      <4>1. job'[k] = Reclaimed(job[k], at, delay[k])
        BY <1>1, <2>2
      <4>2. Reclaimed(job[k], at, delay[k]).status
              = IF Exhausted(job[k]) THEN "dead_lettered" ELSE "queued"
        BY <1>2, <1>3, <1>4, <2>2, ReclaimedRow, ZenonT(40)
      <4> QED
        BY <4>1, <4>2
    <3>3. ~(job[k].expires > now)
      BY <1>2, <3>1
    <3> QED
      BY <3>1, <3>2, <3>3 DEF Stepped, Settled, LeaseKept, Active, Terminal,
         Lifecycle!Step, Lifecycle!can_transition_to, Lifecycle!is_terminal
  <2> QED
    BY <2>1, <2>2
<1> QED
  BY <1>6, <1>7, <1>8, <1>9 DEF IInv

\* Doing nothing.
LEMMA StutterIInv ==
  ASSUME IInv, UNCHANGED vars
  PROVE  IInv' /\ \A k \in Jobs : Stepped(k)
<1>1. IInv'
  BY DEF IInv, TypeOK, JobInv, TokenHistory, Lease, Delivery, Budget, Wakeups,
         PendingWakes, vars
<1>2. \A k \in Jobs : Stepped(k)
  BY DEF vars, Stepped, Settled, LeaseKept, Lifecycle!Step,
         Lifecycle!can_transition_to
<1> QED
  BY <1>1, <1>2

\* Every step of the store keeps the invariant and treats every job legally.
LEMMA NextIInv ==
  ASSUME IInv, [Next]_vars
  PROVE  IInv' /\ \A k \in Jobs : Stepped(k)
<1>1. CASE \E j \in Jobs, runAt \in Time : schedule_runtime_job(j, runAt)
  BY <1>1, ScheduleIInv
<1>2. CASE \E at \in Reading, wanted \in SUBSET Jobs, limit \in 1..ClaimLimit :
             claim_due_runtime_jobs(at, wanted, limit)
  BY <1>2, ClaimIInv
<1>3. CASE \E j \in Jobs, at \in Reading : \E token \in 1..minted[j] :
             Worker(j, token, at)
  <2>0. PICK j \in Jobs, at \in Reading : \E token \in 1..minted[j] :
             Worker(j, token, at)
    BY <1>3
  <2>1. PICK token \in 1..minted[j] : Worker(j, token, at)
    BY <2>0
  <2>2. token \in 0..minted[j]
    BY DEF IInv, TypeOK
  <2> QED
    BY <2>1, <2>2, StartIInv, RenewIInv, YieldIInv, CompleteIInv, RetryIInv,
       FailIInv, CancelIInv DEF Worker
<1>4. CASE \E j \in Jobs, at \in Reading : Others(j, at)
  <2>1. PICK j \in Jobs, at \in Reading : Others(j, at)
    BY <1>4
  <2>2. 0 \in 0..minted[j]
    BY DEF IInv, TypeOK
  <2> QED
    BY <2>1, <2>2, CancelIInv, ServiceStopIInv, WakeIInv DEF Others
<1>5. CASE \E at \in Reading : reclaim_expired_runtime_job_leases(at)
  BY <1>5, ReclaimIInv
<1>6. CASE \E j \in Jobs : \E generation \in 0..outbox[j].generation :
             mark_runtime_job_outbox_published(j, generation)
  BY <1>6, PublishIInv
<1>7. CASE Tick
  BY <1>7, TickIInv
<1>8. CASE UNCHANGED vars
  BY <1>8, StutterIInv
<1> QED
  BY <1>1, <1>2, <1>3, <1>4, <1>5, <1>6, <1>7, <1>8 DEF Next

-----------------------------------------------------------------------------
\* The inductive invariant holds in every reachable state.
THEOREM Invariance == Spec => []IInv
  BY InitIInv, NextIInv, PTL DEF Spec

\* The tables and the history keep their types.
THEOREM TypeCorrect == Spec => []TypeOK
<1>1. IInv => TypeOK
  BY DEF IInv
<1> QED
  BY <1>1, Invariance, PTL

\* Fencing: a lease belongs to the newest claim, its window is open, and a
\* worker whose lease ended neither holds the job nor decides its outcome.
THEOREM Fencing == Spec => []LeaseFencing
<1>1. IInv => LeaseFencing
  <2> SUFFICES ASSUME IInv, NEW j \in Jobs
               PROVE  /\ job[j].owner \notin ended[j] /\ settledBy[j] \notin ended[j]
                      /\ Lease(j)
    BY DEF LeaseFencing, LeaseOfLatestClaim, LateOwnerFenced, LeaseWindowOpen, Lease
  <2> QED
    BY DEF IInv, JobInv, TokenHistory, Lease
<1> QED
  BY <1>1, Invariance, PTL

\* A job is delivered when it is terminal, once, and only a cancelled job
\* carries the marker of a service stop.
THEOREM TerminalDelivery == Spec => []TerminalDeliveries
<1>1. IInv => TerminalDeliveries
  BY DEF IInv, TypeOK, JobInv, Delivery, TerminalDeliveries, OneTerminalDelivery,
         StopMarkMeansCancelled
<1> QED
  BY <1>1, Invariance, PTL

\* The crash allowance is finite and its exhaustion retires the job.
THEOREM FiniteCrashBudget == Spec => []CrashBudget
<1>1. IInv => CrashBudget
  BY DEF IInv, JobInv, Budget, CrashBudget
<1> QED
  BY <1>1, Invariance, PTL

\* No wake-up is lost and none breaks a crash backoff.
THEOREM NoLostWake == Spec => []WakesKept
<1>1. IInv => WakesKept
  BY DEF IInv, JobInv, Wakeups, WakesKept, WokenJobIsDue, WakeRemembered, CrashBackoffKept
<1> QED
  BY <1>1, Invariance, PTL

\* A terminal job never changes again, an acknowledged delivery stays so.
THEOREM Finality == Spec => SettledForever
<1>1. IInv /\ [Next]_vars => [\A j \in Jobs : Settled(j)]_vars
  BY NextIInv DEF Stepped
<1>2. (\A j \in Jobs : Settled(j)) =>
         \A j \in Jobs : job[j].status \in Terminal =>
            /\ job'[j] = job[j]
            /\ outbox'[j].generation = outbox[j].generation
            /\ outbox'[j].state \in {outbox[j].state, "published"}
  BY DEF Settled
<1> QED
  BY <1>1, <1>2, Invariance, PTL DEF Spec, SettledForever

\* Nobody takes a lease that has not run out.
THEOREM Exclusivity == Spec => LiveLeaseKept
<1>1. IInv /\ [Next]_vars => [\A j \in Jobs : LeaseKept(j)]_vars
  BY NextIInv DEF Stepped
<1>2. (\A j \in Jobs : LeaseKept(j)) =>
         \A j \in Jobs : job[j].status \in Active /\ job[j].expires > now =>
            /\ job'[j].reclaims = job[j].reclaims
            /\ job'[j].owner \in {job[j].owner, 0}
  BY DEF LeaseKept
<1> QED
  BY <1>1, <1>2, Invariance, PTL DEF Spec, LiveLeaseKept

\* The store implements the status table of RuntimeJobStatus.
THEOREM Refinement == Spec => ImplementsLifecycle
<1>1. Init => Lifecycle!Init
  BY DEF Init, Lifecycle!Init
<1>2. IInv /\ [Next]_vars => Lifecycle!Next
  BY NextIInv DEF Stepped, Lifecycle!Next
<1> QED
  BY <1>1, <1>2, Invariance, PTL DEF Spec, ImplementsLifecycle, Lifecycle!Spec
=============================================================================
