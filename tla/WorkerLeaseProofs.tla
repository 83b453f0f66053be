-------------------------- MODULE WorkerLeaseProofs --------------------------
(***************************************************************************)
(* That a worker never counts on a lease the runtime may have given away,  *)
(* for any lease and margin, any number of claims, renewals and yields and *)
(* whatever requests are lost, delayed or carried out late.  The invariant *)
(* ties the worker's window to the row's expiry: by the answer on its way  *)
(* while a renewal is out, and by the stop of all renewals before a request*)
(* that ends the lease is sent.                                            *)
(***************************************************************************)
EXTENDS WorkerLease, TLAPS

-----------------------------------------------------------------------------
(* The inductive invariant. *)

\* An owner that will never count on its lease again.
Over(o) ==
    /\ pc[o] \notin {"idle", "start", "initial"}
    /\ ~guard[o].renewing /\ guard[o].thread # "wait"
    /\ guard[o].status \in {"lost", "graceful_stop"} \/ guard[o].deadline = 0

\* The job's thread is past its renewals.
Closing == {"send_yield", "await_yield", "query", "send_complete", "await_complete", "yielded", "failing"}

\* Where the job's thread and the renewal thread are, together.
ThreadInv(o) ==
    /\ o > claims => pc[o] = "idle"
    /\ pc[o] \in {"idle", "start"} => guard[o] = NoGuard
    /\ pc[o] = "initial" => /\ guard[o].status = "unconfirmed" /\ guard[o].deadline = 0
                            /\ guard[o].thread = "none"
    /\ guard[o].thread = "wait" => guard[o].status # "graceful_stop"
    /\ guard[o].renewing => /\ pc[o] = "initial" \/ guard[o].thread = "wait"
                            /\ guard[o].started <= now
                            /\ guard[o].status = "lost" => guard[o].deadline <= now
    /\ pc[o] \in Closing => Over(o)

\* The confirmation of the renewal an owner has out.
Yes(o, n) == Answer(Request("beat", o, n), TRUE)

\* The worker's window lies within the row's, and so does the one that a
\* confirmation on its way will open.
WindowInv(o) ==
    /\ job.owner = o => guard[o].deadline <= job.expires
    /\ guard[o].status \in {"healthy", "unconfirmed"} /\ now < guard[o].deadline
          => Holds(o) \/ job.status = "cancelled"
    /\ guard[o].renewing /\ Yes(o, guard[o].beats) \in acks
          => \/ job.owner = o /\ guard[o].started + Lease <= job.expires
             \/ job.status = "cancelled"
             \/ guard[o].started + Lease <= now

\* A request that ends a lease comes from an owner that has stopped renewing.
NetInv ==
    \A q \in net : /\ q.kind = "beat" => q.n <= guard[q.owner].beats
                   /\ q.kind # "beat" => Over(q.owner)

\* An answer belongs to a request that was made, a yield confirmed to one that
\* was carried out.
AckInv ==
    \A a \in acks : /\ a.kind = "beat" => a.n <= guard[a.owner].beats
                    /\ a.kind = "yield" /\ a.ok => a.owner \in yielded

IInv ==
    /\ TypeOK /\ job.expires <= now + Lease
    /\ \A o \in Owners : ThreadInv(o) /\ WindowInv(o)
    /\ NetInv /\ AckInv /\ YieldedIsCommitted

-----------------------------------------------------------------------------
(* Rows and general steps. *)

\* What is known of an owner, its fields one by one.
LEMMA AtOwner ==
    ASSUME IInv, NEW o \in Owners
    PROVE  /\ guard[o] \in GuardRow /\ pc[o] \in Pcs /\ ThreadInv(o) /\ WindowInv(o)
           /\ guard[o].deadline \in Nat /\ guard[o].started \in Nat /\ guard[o].beats \in 0..MaxBeats
           /\ guard[o].yields \in 0..MaxYields /\ guard[o].beats \in Nat
           /\ now \in Nat /\ job \in JobRow /\ job.expires \in Nat /\ Lease \in Nat
           /\ Margin \in Nat /\ Margin < Lease /\ MaxBeats \in Nat /\ MaxYields \in Nat
<1>1. /\ guard[o] \in GuardRow /\ pc[o] \in Pcs /\ ThreadInv(o) /\ WindowInv(o)
      /\ job \in JobRow /\ now \in 0..MaxTime
  BY DEF IInv, TypeOK
<1>2. /\ guard[o].deadline \in Nat /\ guard[o].started \in Nat /\ guard[o].beats \in 0..MaxBeats
      /\ guard[o].yields \in 0..MaxYields
  BY <1>1 DEF GuardRow
<1>3. job.expires \in Nat
  BY <1>1 DEF JobRow
<1>4. /\ Lease \in Nat /\ Margin \in Nat /\ Margin < Lease /\ MaxBeats \in Nat /\ MaxYields \in Nat
      /\ MaxTime \in Nat
  BY LeaseBounds
<1> QED
  BY <1>1, <1>2, <1>3, <1>4

\* The fields of a confirmation.
LEMMA YesFields ==
    ASSUME NEW o, NEW n
    PROVE  Yes(o, n).kind = "beat" /\ Yes(o, n).owner = o /\ Yes(o, n).n = n /\ Yes(o, n).ok = TRUE
  BY DEF Yes, Answer, Request

\* A step of one owner's threads: it moves this owner, may send a request and
\* takes answers off the channel.  The row keeps its lease.
LEMMA WorkerMoves ==
    ASSUME IInv, NEW o \in Owners, NEW l \in Pcs, NEW r \in GuardRow,
           pc' = [pc EXCEPT ![o] = l], guard' = [guard EXCEPT ![o] = r],
           UNCHANGED <<now, claims, yielded>>,
           job' \in JobRow, job'.owner = job.owner, job'.expires = job.expires,
           job'.owner # 0 <=> job'.status \in {"leased", "running"},
           job'.status = "cancelled" <=> job.status = "cancelled",
           net' \subseteq RequestRow, acks' \subseteq acks,
           pc'[o] = l /\ guard'[o] = r => ThreadInv(o)' /\ WindowInv(o)',
           pc'[o] = l /\ guard'[o] = r /\ Over(o) => Over(o)',
           guard[o].beats <= r.beats,
           \A q \in net' : \/ q \in net
                           \/ /\ q.owner = o
                              /\ q.kind = "beat" => q.n <= r.beats
                              /\ q.kind # "beat" /\ pc'[o] = l /\ guard'[o] = r => Over(o)',
           l = "yielded" => pc[o] = "yielded" \/ o \in yielded
    PROVE  IInv'
<1>1. /\ pc' \in [Owners -> Pcs] /\ guard' \in [Owners -> GuardRow]
      /\ pc'[o] = l /\ guard'[o] = r
      /\ \A p \in Owners : p # o => pc'[p] = pc[p] /\ guard'[p] = guard[p]
  BY DEF IInv, TypeOK
<1>2. TypeOK' /\ (job.expires <= now + Lease)'
  BY <1>1 DEF IInv, TypeOK
<1>3. ASSUME NEW p \in Owners, p # o PROVE ThreadInv(p)' /\ WindowInv(p)' /\ (Over(p) => Over(p)')
  <2>1. pc'[p] = pc[p] /\ guard'[p] = guard[p]
    BY <1>1, <1>3
  <2>2. ThreadInv(p) /\ WindowInv(p)
    BY DEF IInv
  <2>3. ThreadInv(p)'
    BY <2>1, <2>2 DEF ThreadInv, Over, Closing
  <2>4. WindowInv(p)'
    BY <2>1, <2>2 DEF WindowInv, Holds
  <2> QED
    BY <2>1, <2>3, <2>4 DEF Over
<1>4. \A p \in Owners : ThreadInv(p)' /\ WindowInv(p)' /\ (Over(p) => Over(p)')
  BY <1>1, <1>3
<1>5. NetInv'
  <2> SUFFICES ASSUME NEW q \in net'
               PROVE  /\ q.kind = "beat" => q.n <= guard'[q.owner].beats
                      /\ q.kind # "beat" => Over(q.owner)'
    BY DEF NetInv
  <2>1. q.owner \in Owners
    BY DEF RequestRow
  <2>2. CASE q \in net
    <3>1. q.n \in Nat /\ guard[q.owner].beats \in Nat /\ r.beats \in Nat
      <4>1. q.n \in Nat /\ r.beats \in 0..MaxBeats
        BY DEF RequestRow, GuardRow
      <4> QED
        BY <2>1, <4>1, AtOwner
    <3>2. /\ q.kind = "beat" => q.n <= guard[q.owner].beats
          /\ q.kind # "beat" => Over(q.owner)
      BY <2>2 DEF IInv, NetInv
    <3> QED
      BY <1>1, <1>4, <2>1, <3>1, <3>2
  <2>3. CASE q \notin net
    BY <1>1, <2>3
  <2> QED
    BY <2>2, <2>3
<1>6. AckInv'
  <2> SUFFICES ASSUME NEW a \in acks'
               PROVE  /\ a.kind = "beat" => a.n <= guard'[a.owner].beats
                      /\ a.kind = "yield" /\ a.ok => a.owner \in yielded
    BY DEF AckInv
  <2>1. a \in acks /\ a \in AnswerRow
    BY DEF IInv, TypeOK
  <2>2. a.owner \in Owners /\ a.n \in Nat /\ guard[a.owner].beats \in Nat /\ r.beats \in Nat
    <3>1. a.owner \in Owners /\ a.n \in Nat /\ r.beats \in 0..MaxBeats
      BY <2>1 DEF AnswerRow, GuardRow
    <3> QED
      BY <3>1, AtOwner
  <2>3. /\ a.kind = "beat" => a.n <= guard[a.owner].beats
        /\ a.kind = "yield" /\ a.ok => a.owner \in yielded
    BY <2>1 DEF IInv, AckInv
  <2> QED
    BY <1>1, <2>2, <2>3
<1>7. YieldedIsCommitted'
  BY <1>1 DEF IInv, YieldedIsCommitted, At
<1> QED
  BY <1>2, <1>4, <1>5, <1>6, <1>7 DEF IInv

\* A step of the runtime: it moves no worker, and may answer one.
LEMMA ServerMoves ==
    ASSUME IInv, UNCHANGED <<now, pc, guard, claims>>,
           job' \in JobRow, job'.owner # 0 <=> job'.status \in {"leased", "running"},
           job'.expires <= now + Lease,
           yielded \subseteq yielded', yielded' \subseteq Owners,
           net' \subseteq net, acks' \subseteq AnswerRow,
           \A a \in acks' : \/ a \in acks
                            \/ /\ a.kind = "beat" => a.n <= guard[a.owner].beats
                               /\ a.kind = "yield" /\ a.ok => a.owner \in yielded',
           \A o \in Owners : WindowInv(o)'
    PROVE  IInv'
<1>1. TypeOK' /\ (job.expires <= now + Lease)'
  BY DEF IInv, TypeOK
<1>2. \A o \in Owners : ThreadInv(o)' /\ (Over(o) <=> Over(o)')
  BY DEF IInv, ThreadInv, Over
<1>3. NetInv'
  <2>1. \A q \in net' : q.owner \in Owners
    BY DEF IInv, TypeOK, RequestRow
  <2> QED
    BY <1>2, <2>1 DEF IInv, NetInv
<1>4. AckInv'
  BY DEF IInv, AckInv
<1>5. YieldedIsCommitted'
  BY DEF IInv, YieldedIsCommitted, At
<1> QED
  BY <1>1, <1>2, <1>3, <1>4, <1>5 DEF IInv

\* Nothing has been claimed at the start.
LEMMA InitIInv == Init => IInv
<1> SUFFICES ASSUME Init PROVE IInv
  OBVIOUS
<1>1. /\ NoGuard \in GuardRow /\ NoGuard.deadline = 0 /\ NoGuard.thread = "none"
      /\ ~NoGuard.renewing /\ NoGuard.status = "unconfirmed"
  BY LeaseBounds DEF NoGuard, GuardRow
<1>2. /\ job \in JobRow /\ job.owner = 0 /\ job.status = "queued" /\ job.expires = 0
  BY DEF Init, NoJob, JobRow, Statuses
<1>3. /\ now = 0 /\ claims = 0 /\ yielded = {} /\ net = {} /\ acks = {}
      /\ \A o \in Owners : pc[o] = "idle" /\ guard[o] = NoGuard
  BY DEF Init
<1>4. TypeOK
  <2>1. pc \in [Owners -> Pcs] /\ guard \in [Owners -> GuardRow]
    BY <1>1 DEF Init, Pcs
  <2> QED
    BY <1>2, <1>3, <2>1, LeaseBounds DEF TypeOK
<1>5. ASSUME NEW o \in Owners PROVE ThreadInv(o) /\ WindowInv(o)
  <2>1. o # 0
    BY LeaseBounds DEF Owners
  <2> QED
    BY <1>1, <1>2, <1>3, <1>5, <2>1 DEF ThreadInv, WindowInv, Closing
<1>6. NetInv /\ AckInv /\ YieldedIsCommitted
  BY <1>3 DEF NetInv, AckInv, YieldedIsCommitted, At
<1> QED
  BY <1>2, <1>3, <1>4, <1>5, <1>6, LeaseBounds DEF IInv

-----------------------------------------------------------------------------
(* The worker's steps. *)

\* A step that leaves the row alone and opens no window.
LEMMA GuardMoves ==
    ASSUME IInv, NEW o \in Owners, NEW l \in Pcs, NEW r \in GuardRow,
           pc' = [pc EXCEPT ![o] = l], guard' = [guard EXCEPT ![o] = r],
           UNCHANGED <<now, server>>,
           net' \subseteq RequestRow, acks' \subseteq acks,
           r.deadline = guard[o].deadline, guard[o].beats = r.beats,
           r.status \in {"healthy", "unconfirmed"} => guard[o].status \in {"healthy", "unconfirmed"},
           r.renewing => guard[o].renewing /\ r.started = guard[o].started,
           pc'[o] = l /\ guard'[o] = r => ThreadInv(o)',
           pc'[o] = l /\ guard'[o] = r /\ Over(o) => Over(o)',
           \A q \in net' : \/ q \in net
                           \/ /\ q.owner = o /\ q.kind # "beat"
                              /\ pc'[o] = l /\ guard'[o] = r => Over(o)',
           l = "yielded" => pc[o] = "yielded" \/ o \in yielded
    PROVE  IInv'
<1>1. /\ job' = job /\ claims' = claims /\ yielded' = yielded /\ now' = now
      /\ job \in JobRow /\ (job.owner # 0 <=> job.status \in {"leased", "running"})
  BY DEF server, IInv, TypeOK
<1>2. pc'[o] = l /\ guard'[o] = r => WindowInv(o)'
  <2>1. WindowInv(o)
    BY AtOwner
  <2> QED
    BY <1>1, <2>1 DEF WindowInv, Holds
<1>3. guard[o].beats <= r.beats
  BY AtOwner
<1>4. \A q \in net' : \/ q \in net
                      \/ /\ q.owner = o
                         /\ q.kind = "beat" => q.n <= r.beats
                         /\ q.kind # "beat" /\ pc'[o] = l /\ guard'[o] = r => Over(o)'
  OBVIOUS
<1> QED
  BY <1>1, <1>2, <1>3, <1>4, WorkerMoves, Zenon

\* The end of an attempt, with the window it leaves.
LEMMA SettledStep ==
    ASSUME IInv, NEW o \in Owners, NEW status \in {"healthy", "unconfirmed", "lost"}, NEW deadline \in Nat,
           guard[o].renewing, acks' \subseteq acks, Settled(o, status, deadline),
           job.owner = o => deadline <= job.expires,
           status \in {"healthy", "unconfirmed"} /\ now < deadline => Holds(o) \/ job.status = "cancelled",
           Initial(o) /\ status = "unconfirmed" => deadline = 0
    PROVE  IInv'
<1> DEFINE r == [guard[o] EXCEPT !.renewing = FALSE, !.started = 0, !.status = status, !.deadline = deadline,
                               !.thread = IF status = "lost" /\ ~Initial(o) THEN "ended"
                                          ELSE IF Initial(o) /\ status = "healthy" THEN "wait"
                                          ELSE @]
           l == IF Initial(o)
                THEN CASE status = "healthy" -> "work" [] status = "lost" -> "done" [] OTHER -> "failing"
                ELSE pc[o]
<1>1. /\ guard[o] \in GuardRow /\ pc[o] \in Pcs /\ ThreadInv(o) /\ guard[o].beats \in Nat
  BY AtOwner
<1>2. /\ r \in GuardRow /\ ~r.renewing /\ r.status = status /\ r.deadline = deadline
      /\ r.beats = guard[o].beats
      /\ r.thread = IF status = "lost" /\ ~Initial(o) THEN "ended"
                    ELSE IF Initial(o) /\ status = "healthy" THEN "wait"
                    ELSE guard[o].thread
  BY <1>1, Zenon DEF GuardRow
<1>3. guard' = [guard EXCEPT ![o] = r]
  BY DEF Settled, Set
<1>4. pc' = [pc EXCEPT ![o] = l] /\ l \in Pcs
  <2>1. pc \in [Owners -> Pcs]
    BY DEF IInv, TypeOK
  <2>2. CASE Initial(o)
    BY <2>1, <2>2 DEF Settled, Go, Pcs
  <2>3. CASE ~Initial(o)
    BY <1>1, <2>1, <2>3 DEF Settled
  <2> QED
    BY <2>2, <2>3
<1>5. /\ Initial(o) <=> pc[o] = "initial"
      /\ Initial(o) /\ status = "healthy" => l = "work"
      /\ Initial(o) /\ status = "lost" => l = "done"
      /\ Initial(o) /\ status = "unconfirmed" => l = "failing"
      /\ ~Initial(o) => l = pc[o]
  BY DEF Initial, At
<1> HIDE DEF r, l
<1>6. /\ job' = job /\ claims' = claims /\ yielded' = yielded /\ now' = now /\ net' = net
      /\ job \in JobRow /\ (job.owner # 0 <=> job.status \in {"leased", "running"})
      /\ net \subseteq RequestRow
  BY DEF Settled, server, IInv, TypeOK
<1>7. ASSUME pc'[o] = l, guard'[o] = r PROVE WindowInv(o)'
  BY <1>2, <1>6, <1>7 DEF WindowInv, Holds
<1>8. ASSUME pc'[o] = l, guard'[o] = r PROVE ThreadInv(o)'
  <2>1. CASE Initial(o)
    BY <1>1, <1>2, <1>5, <1>6, <1>8, <2>1 DEF ThreadInv, Over, Closing
  <2>2. CASE ~Initial(o)
    <3>1. /\ guard[o].thread = "wait" /\ ~Over(o) /\ pc[o] \notin {"idle", "start", "initial"}
      BY <1>1, <1>5, <2>2 DEF ThreadInv, Over, NoGuard
    <3> QED
      BY <1>1, <1>2, <1>5, <1>6, <1>8, <2>2, <3>1 DEF ThreadInv
  <2> QED
    BY <2>1, <2>2
<1>9. ~Over(o) /\ guard[o].beats <= r.beats
  BY <1>1, <1>2 DEF Over
<1>10. l = "yielded" => pc[o] = "yielded"
  BY <1>5
<1> QED
  BY <1>2, <1>3, <1>4, <1>6, <1>7, <1>8, <1>9, <1>10, WorkerMoves, Zenon

\* lease_heartbeats' attempt: confirmed in time, the window is within the
\* lease the runtime gave when it answered.
LEMMA ConfirmedStep ==
    ASSUME IInv, NEW o \in Owners, attempt_confirmed(o) PROVE IInv'
<1>1. /\ guard[o].renewing /\ Yes(o, guard[o].beats) \in acks /\ acks' \subseteq acks
  BY Zenon DEF attempt_confirmed, GivenUp, Yes, Beat
<1>2. /\ guard[o].deadline \in Nat /\ guard[o].started \in Nat /\ now \in Nat /\ job.expires \in Nat
      /\ Lease \in Nat /\ Margin \in Nat /\ Margin < Lease /\ WindowInv(o) /\ ThreadInv(o)
  BY AtOwner
<1>3. CASE Settled(o, "lost", guard[o].deadline)
  <2>1. job.owner = o => guard[o].deadline <= job.expires
    BY <1>2 DEF WindowInv
  <2> QED
    BY <1>1, <1>2, <1>3, <2>1, SettledStep
<1>4. CASE /\ now < guard[o].started + Lease - Margin
           /\ Settled(o, "healthy", guard[o].started + Lease - Margin)
  <2> DEFINE d == guard[o].started + Lease - Margin
  <2>1. d \in Nat /\ d <= guard[o].started + Lease /\ now < d
    BY <1>2, <1>4
  <2>2. \/ job.owner = o /\ guard[o].started + Lease <= job.expires
        \/ job.status = "cancelled"
    BY <1>1, <1>2, <2>1 DEF WindowInv
  <2>3. job.status = "cancelled" => job.owner # o
    BY LeaseBounds DEF IInv, TypeOK, Owners
  <2>4. job.owner = o => d <= job.expires
    BY <1>2, <2>1, <2>2, <2>3
  <2>5. Holds(o) \/ job.status = "cancelled"
    BY <1>2, <2>1, <2>2 DEF Holds
  <2> HIDE DEF d
  <2>6. Settled(o, "healthy", d)
    BY <1>4 DEF d
  <2> QED
    BY <1>1, <2>1, <2>4, <2>5, <2>6, SettledStep
<1> QED
  BY <1>2, <1>3, <1>4 DEF attempt_confirmed

\* Refused or unanswered, an attempt opens no window.
LEMMA UnconfirmedStep ==
    ASSUME IInv, NEW o \in Owners, attempt_rejected(o) \/ attempt_unavailable(o) PROVE IInv'
<1>1. /\ guard[o].renewing /\ acks' \subseteq acks
      /\ \/ Settled(o, "lost", guard[o].deadline)
         \/ /\ Settled(o, "unconfirmed", guard[o].deadline)
            /\ Initial(o) \/ ~(now >= guard[o].deadline)
  BY Zenon DEF attempt_rejected, attempt_unavailable, GivenUp
<1>2. /\ guard[o].deadline \in Nat /\ now \in Nat /\ WindowInv(o) /\ ThreadInv(o)
      /\ guard[o] \in GuardRow
  BY AtOwner
<1>3. job.owner = o => guard[o].deadline <= job.expires
  BY <1>2 DEF WindowInv
<1>4. CASE Settled(o, "lost", guard[o].deadline)
  BY <1>1, <1>2, <1>3, <1>4, SettledStep
<1>5. CASE /\ Settled(o, "unconfirmed", guard[o].deadline)
           /\ Initial(o) \/ ~(now >= guard[o].deadline)
  <2>1. Initial(o) => guard[o].deadline = 0
    BY <1>2 DEF ThreadInv, Initial, At
  <2>2. now < guard[o].deadline => Holds(o) \/ job.status = "cancelled"
    <3>1. guard[o].status \in {"healthy", "unconfirmed", "lost", "graceful_stop"}
      BY <1>2 DEF GuardRow
    <3>2. now < guard[o].deadline => guard[o].status \in {"healthy", "unconfirmed"}
      BY <1>1, <1>2, <3>1 DEF ThreadInv
    <3> QED
      BY <1>2, <3>2 DEF WindowInv
  <2> QED
    BY <1>1, <1>2, <1>3, <1>5, <2>1, <2>2, SettledStep
<1> QED
  BY <1>1, <1>4, <1>5

\* A renewal is sent under a new number, which nothing has answered yet.
LEMMA AttemptStep ==
    ASSUME IInv, NEW o \in Owners, attempt(o) PROVE IInv'
<1> DEFINE r == [guard[o] EXCEPT !.renewing = TRUE, !.started = now, !.beats = @ + 1]
           q == Request("beat", o, guard[o].beats + 1)
<1>1. /\ guard[o] \in GuardRow /\ pc[o] \in Pcs /\ ThreadInv(o) /\ WindowInv(o)
      /\ guard[o].beats \in Nat /\ MaxBeats \in Nat /\ now \in Nat /\ guard[o].deadline \in Nat
  BY AtOwner
<1>2. /\ guard[o].thread = "wait" \/ pc[o] = "initial"
      /\ guard[o].beats < MaxBeats /\ guard[o].status # "lost"
      /\ guard' = [guard EXCEPT ![o] = r] /\ net' = net \cup {q}
      /\ job' = job /\ claims' = claims /\ yielded' = yielded /\ now' = now /\ acks' = acks /\ pc' = pc
  BY DEF attempt, Initial, At, Set, server
<1>3. /\ r \in GuardRow /\ r.renewing /\ r.started = now /\ r.beats = guard[o].beats + 1
      /\ r.status = guard[o].status /\ r.deadline = guard[o].deadline /\ r.thread = guard[o].thread
  <2>1. guard[o].beats + 1 \in 0..MaxBeats
    BY <1>1, <1>2
  <2> QED
    BY <1>1, <2>1, Zenon DEF GuardRow
<1>4. q \in RequestRow /\ q.owner = o /\ q.kind = "beat" /\ q.n = guard[o].beats + 1
  BY <1>1 DEF Request, RequestRow
<1> HIDE DEF r, q
<1>5. /\ pc' = [pc EXCEPT ![o] = pc[o]] /\ net \subseteq RequestRow
      /\ job \in JobRow /\ (job.owner # 0 <=> job.status \in {"leased", "running"})
  BY <1>2 DEF IInv, TypeOK
<1>6. ~Over(o)
  BY <1>2 DEF Over
<1>7. Yes(o, guard[o].beats + 1) \notin acks
  <2>1. \A a \in acks : a.kind = "beat" => a.n <= guard[a.owner].beats
    BY DEF IInv, AckInv
  <2> DEFINE y == Yes(o, guard[o].beats + 1)
  <2>2. y.kind = "beat" /\ y.owner = o /\ y.n = guard[o].beats + 1
    BY DEF Yes, Answer, Request
  <2> HIDE DEF y
  <2>3. y \notin acks
    BY <1>1, <2>1, <2>2
  <2> QED
    BY <2>3 DEF y
<1>8. ASSUME pc'[o] = pc[o], guard'[o] = r PROVE ThreadInv(o)' /\ WindowInv(o)'
  <2>1. ThreadInv(o)'
    <3>1. pc[o] \notin {"idle", "start"} /\ pc[o] \notin Closing
      BY <1>1, <1>2, <1>6 DEF ThreadInv, NoGuard
    <3> QED
      BY <1>1, <1>2, <1>3, <1>8, <3>1 DEF ThreadInv
  <2>2. WindowInv(o)'
    BY <1>1, <1>2, <1>3, <1>7, <1>8 DEF WindowInv, Holds
  <2> QED
    BY <2>1, <2>2
<1>9. guard[o].beats <= r.beats
  BY <1>1, <1>3
<1>10. \A p \in net' : \/ p \in net
                       \/ /\ p.owner = o
                          /\ p.kind = "beat" => p.n <= r.beats
                          /\ p.kind # "beat" /\ pc'[o] = pc[o] /\ guard'[o] = r => Over(o)'
  BY <1>1, <1>2, <1>3, <1>4
<1>11. net' \subseteq RequestRow
  BY <1>2, <1>4, <1>5
<1> QED
  <2> DEFINE l == pc[o]
  <2>1. /\ l \in Pcs /\ pc' = [pc EXCEPT ![o] = l]
        /\ l = "yielded" => pc[o] = "yielded"
    BY <1>1, <1>5
  <2>2. pc'[o] = l /\ guard'[o] = r => ThreadInv(o)' /\ WindowInv(o)'
    BY <1>8
  <2>3. \A p \in net' : \/ p \in net
                       \/ /\ p.owner = o
                          /\ p.kind = "beat" => p.n <= r.beats
                          /\ p.kind # "beat" /\ pc'[o] = l /\ guard'[o] = r => Over(o)'
    BY <1>10
  <2>4. /\ UNCHANGED <<now, claims, yielded>> /\ acks' \subseteq acks
        /\ job' \in JobRow /\ job'.owner = job.owner /\ job'.expires = job.expires
        /\ job'.owner # 0 <=> job'.status \in {"leased", "running"}
        /\ job'.status = "cancelled" <=> job.status = "cancelled"
    BY <1>2, <1>5
  <2>5. guard' = [guard EXCEPT ![o] = r] /\ r \in GuardRow
    BY <1>2, <1>3
  <2> HIDE DEF l
  <2> QED
    BY <1>6, <1>9, <1>11, <2>1, <2>2, <2>3, <2>4, <2>5, WorkerMoves, Zenon

\* The renewal thread's end.
LEMMA AttemptEndsStep ==
    ASSUME IInv, NEW o \in Owners, attempt_ends(o) PROVE IInv'
<1> DEFINE r == [guard[o] EXCEPT !.thread = "ended", !.status = IF guard[o].stopped THEN @ ELSE "lost"]
<1>1. /\ guard[o] \in GuardRow /\ pc[o] \in Pcs /\ ThreadInv(o)
  BY AtOwner
<1>2. /\ guard[o].thread = "wait" /\ ~guard[o].renewing
      /\ guard' = [guard EXCEPT ![o] = r]
      /\ UNCHANGED <<now, server>> /\ claims' = claims /\ now' = now /\ net' = net /\ acks' = acks /\ pc' = pc
  BY DEF attempt_ends, Set, server, channel
<1>3. /\ r \in GuardRow /\ r.renewing = guard[o].renewing /\ r.beats = guard[o].beats
      /\ r.status \in {guard[o].status, "lost"} /\ r.deadline = guard[o].deadline /\ r.thread = "ended"
  BY <1>1, Zenon DEF GuardRow
<1> HIDE DEF r
<1>4. pc' = [pc EXCEPT ![o] = pc[o]] /\ net' \subseteq RequestRow
  BY <1>2 DEF IInv, TypeOK
<1>5. ~Over(o)
  BY <1>2 DEF Over
<1>6. ASSUME pc'[o] = pc[o], guard'[o] = r PROVE ThreadInv(o)'
  <2>1. pc[o] \notin {"idle", "start", "initial"} /\ pc[o] \notin Closing
    BY <1>1, <1>2, <1>5 DEF ThreadInv, NoGuard
  <2> QED
    BY <1>1, <1>2, <1>3, <1>6, <2>1 DEF ThreadInv
<1> QED
  BY <1>1, <1>2, <1>3, <1>4, <1>5, <1>6, GuardMoves, Zenon

\* A step of the job's thread once it has its first confirmation: the guard
\* keeps its window and its renewal, and nothing it gave up comes back.
LEMMA MainMoves ==
    ASSUME IInv, NEW o \in Owners, NEW l \in Pcs, NEW r \in GuardRow,
           pc' = [pc EXCEPT ![o] = l], guard' = [guard EXCEPT ![o] = r],
           UNCHANGED <<now, server>>,
           net' \subseteq RequestRow, acks' \subseteq acks,
           pc[o] \notin {"idle", "start", "initial"}, l \notin {"idle", "start", "initial"},
           r.deadline = guard[o].deadline, guard[o].beats = r.beats,
           r.renewing = guard[o].renewing, r.started = guard[o].started, r.thread = guard[o].thread,
           r.status \in {guard[o].status, "lost", "graceful_stop"},
           r.status = "graceful_stop" => guard[o].thread # "wait",
           r.status = "lost" => guard[o].status = "lost" \/ ~guard[o].renewing \/ guard[o].deadline <= now,
           l \in Closing => \/ Over(o)
                            \/ /\ guard[o].thread # "wait"
                               /\ r.status \in {"lost", "graceful_stop"},
           \A q \in net' : q \in net \/ (q.owner = o /\ q.kind # "beat" /\ Over(o)),
           l = "yielded" => pc[o] = "yielded" \/ o \in yielded
    PROVE  IInv'
<1>1. ThreadInv(o) /\ claims' = claims /\ now' = now
  BY AtOwner DEF server
<1>2. r.status = "lost" /\ r.renewing => guard[o].deadline <= now
  BY <1>1 DEF ThreadInv
<1>3. ASSUME pc'[o] = l, guard'[o] = r, Over(o) PROVE Over(o)'
  BY <1>3 DEF Over
<1>4. ASSUME pc'[o] = l, guard'[o] = r PROVE ThreadInv(o)'
  <2>1. l \in Closing => Over(o)'
    <3>1. CASE Over(o)
      BY <1>3, <1>4, <3>1
    <3>2. CASE /\ guard[o].thread # "wait"
               /\ r.status \in {"lost", "graceful_stop"}
      BY <1>1, <1>4, <3>2 DEF ThreadInv, Over
    <3> QED
      BY <3>1, <3>2
  <2>2. r.thread = "wait" => r.status # "graceful_stop"
    OBVIOUS
  <2> QED
    BY <1>1, <1>2, <1>4, <2>1, <2>2 DEF ThreadInv
<1>5. r.status \in {"healthy", "unconfirmed"} => guard[o].status \in {"healthy", "unconfirmed"}
  OBVIOUS
<1>6. \A q \in net' : q \in net \/ (q.owner = o /\ q.kind # "beat"
                                     /\ (pc'[o] = l /\ guard'[o] = r => Over(o)'))
  BY <1>3
<1> QED
  BY <1>3, <1>4, <1>5, <1>6, GuardMoves, Zenon

\* What a step of the job's thread starts from.
LEMMA AtMain ==
    ASSUME IInv, NEW o \in Owners
    PROVE  /\ pc = [pc EXCEPT ![o] = pc[o]] /\ guard = [guard EXCEPT ![o] = guard[o]]
           /\ net \subseteq RequestRow
           /\ pc[o] \in Closing => Over(o)
           /\ pc[o] = "yielded" => o \in yielded
           /\ "work" \in Pcs /\ "busy" \in Pcs /\ "exit" \in Pcs /\ "done" \in Pcs /\ "failing" \in Pcs
           /\ guard[o].status \in {"healthy", "unconfirmed", "lost", "graceful_stop"}
<1>1. guard[o] \in GuardRow /\ ThreadInv(o)
  BY AtOwner
<1>2. guard[o].status \in {"healthy", "unconfirmed", "lost", "graceful_stop"}
  BY <1>1 DEF GuardRow
<1> QED
  BY <1>1, <1>2 DEF IInv, TypeOK, ThreadInv, YieldedIsCommitted, At, Pcs

\* A step that only moves the job's thread.
LEMMA PcMoves ==
    ASSUME IInv, NEW o \in Owners, NEW l \in Pcs,
           pc' = [pc EXCEPT ![o] = l], UNCHANGED <<guard, now, server>>,
           net' \subseteq RequestRow, acks' \subseteq acks,
           pc[o] \notin {"idle", "start", "initial"}, l \notin {"idle", "start", "initial"},
           l \in Closing => Over(o),
           \A q \in net' : q \in net \/ (q.owner = o /\ q.kind # "beat" /\ Over(o)),
           l = "yielded" => o \in yielded
    PROVE  IInv'
<1> DEFINE r == guard[o]
<1>1. /\ r \in GuardRow /\ ThreadInv(o) /\ guard' = [guard EXCEPT ![o] = r]
      /\ UNCHANGED <<now, server>>
  BY AtOwner, AtMain
<1>2. r.status = "graceful_stop" => guard[o].thread # "wait"
  BY <1>1 DEF ThreadInv
<1>3. /\ r.deadline = guard[o].deadline /\ guard[o].beats = r.beats
      /\ r.renewing = guard[o].renewing /\ r.started = guard[o].started /\ r.thread = guard[o].thread
      /\ r.status = guard[o].status
  OBVIOUS
<1> HIDE DEF r
<1> QED
  BY <1>1, <1>2, <1>3, MainMoves, Zenon

\* What a step of the job's thread leaves to the renewal.
Keeps(r, g) ==
    /\ r.deadline = g.deadline /\ r.beats = g.beats /\ r.started = g.started
    /\ r.renewing = g.renewing /\ r.thread = g.thread

\* A step that gives the lease up, or stops the renewals, and nothing else.
LEMMA StatusMoves ==
    ASSUME IInv, NEW o \in Owners, NEW l \in Pcs, NEW r \in GuardRow, Keeps(r, guard[o]),
           pc' = [pc EXCEPT ![o] = l], guard' = [guard EXCEPT ![o] = r],
           UNCHANGED <<now, server, channel>>,
           pc[o] \notin {"idle", "start", "initial", "yielded"},
           l \notin {"idle", "start", "initial", "yielded"},
           r.status \in {guard[o].status, "lost", "graceful_stop"},
           r.status = "graceful_stop" => guard[o].thread # "wait",
           r.status = "lost" => guard[o].status = "lost" \/ ~guard[o].renewing \/ guard[o].deadline <= now,
           l \in Closing => \/ Over(o)
                            \/ guard[o].thread # "wait" /\ r.status \in {"lost", "graceful_stop"}
    PROVE  IInv'
<1>1. net \subseteq RequestRow
  BY AtMain
<1>2. /\ r.deadline = guard[o].deadline /\ guard[o].beats = r.beats
      /\ r.renewing = guard[o].renewing /\ r.started = guard[o].started /\ r.thread = guard[o].thread
  BY DEF Keeps
<1>3. UNCHANGED <<now, server>> /\ net' = net /\ acks' = acks
  BY DEF channel
<1> QED
  BY <1>1, <1>2, <1>3, MainMoves, Zenon

\* The rows such a step writes.
LEMMA MarkedRow ==
    ASSUME IInv, NEW o \in Owners, NEW s \in {"lost", "graceful_stop"}
    PROVE  LET r == [guard[o] EXCEPT !.status = s]
               t == [guard[o] EXCEPT !.stopped = TRUE]
               u == [guard[o] EXCEPT !.at = now]
           IN /\ r \in GuardRow /\ Keeps(r, guard[o]) /\ r.status = s
              /\ t \in GuardRow /\ Keeps(t, guard[o]) /\ t.status = guard[o].status
              /\ u \in GuardRow /\ Keeps(u, guard[o]) /\ u.status = guard[o].status
<1>1. guard[o] \in GuardRow /\ now \in Nat
  BY AtOwner
<1> QED
  BY <1>1, Zenon DEF GuardRow, Keeps

\* An owner whose lease is gone may say so: a renewal it still has out comes
\* too late for it.
LEMMA GoneOwner ==
    ASSUME IInv, NEW o \in Owners, Gone(o), pc[o] # "initial"
    PROVE  guard[o].status = "lost" \/ ~guard[o].renewing \/ guard[o].deadline <= now
<1>1. ThreadInv(o) /\ now \in Nat /\ guard[o].deadline \in Nat
  BY AtOwner
<1> QED
  BY <1>1 DEF Gone, ThreadInv

\* lose(), on the way out.
LEMMA LoseStep ==
    ASSUME IInv, NEW o \in Owners, NEW l \in {"exit", "done"}, lose(o), Go(o, l),
           UNCHANGED <<now, server, channel>>,
           pc[o] \notin {"idle", "start", "initial", "yielded"},
           Gone(o) \/ guard[o].thread = "ended"
    PROVE  IInv'
<1>1. guard[o].status = "lost" \/ ~guard[o].renewing \/ guard[o].deadline <= now
  <2>1. ThreadInv(o)
    BY AtOwner
  <2> QED
    BY <2>1, GoneOwner DEF ThreadInv
<1> DEFINE r == [guard[o] EXCEPT !.status = "lost"]
<1>2. /\ pc' = [pc EXCEPT ![o] = l] /\ guard' = [guard EXCEPT ![o] = r]
      /\ l \in Pcs /\ l \notin Closing /\ l \notin {"idle", "start", "initial", "yielded"}
  BY DEF lose, Set, Go, Pcs, Closing
<1>3. r \in GuardRow /\ Keeps(r, guard[o]) /\ r.status = "lost"
  BY MarkedRow, Zenon
<1> HIDE DEF r
<1> QED
  BY <1>1, <1>2, <1>3, StatusMoves, Zenon

\* require_healthy_lease and the step's answer.
LEMMA DispatchStep ==
    ASSUME IInv, NEW o \in Owners, dispatch(o) \/ step_returns(o) PROVE IInv'
<1>1. /\ UNCHANGED <<now, server, channel>> /\ pc[o] \in {"work", "busy"}
      /\ UNCHANGED <<now, server>> /\ net' = net /\ acks' = acks
      /\ net \subseteq RequestRow
  BY AtMain DEF dispatch, step_returns, channel, At
<1>2. CASE guard' = guard /\ \E l \in {"busy", "work", "completing", "stepfailed"} : Go(o, l)
  <2>1. PICK l \in {"busy", "work", "completing", "stepfailed"} : pc' = [pc EXCEPT ![o] = l]
    BY <1>2, Zenon DEF Go
  <2>2. l \in Pcs /\ l \notin Closing /\ l \notin {"idle", "start", "initial", "yielded"}
    BY DEF Pcs, Closing
  <2> QED
    BY <1>1, <1>2, <2>1, <2>2, PcMoves, Zenon
<1>3. CASE Gone(o) /\ lose(o) /\ Go(o, "exit")
  BY <1>1, <1>3, LoseStep
<1>4. CASE Go(o, "yielding") /\ Set(o, [guard[o] EXCEPT !.at = now])
  <2> DEFINE r == [guard[o] EXCEPT !.at = now]
  <2>1. /\ pc' = [pc EXCEPT ![o] = "yielding"] /\ guard' = [guard EXCEPT ![o] = r]
        /\ "yielding" \in Pcs /\ "yielding" \notin Closing
    BY <1>4 DEF Go, Set, Pcs, Closing
  <2>2. r \in GuardRow /\ Keeps(r, guard[o]) /\ r.status = guard[o].status
    BY MarkedRow, Zenon
  <2> HIDE DEF r
  <2>3. ThreadInv(o)
    BY AtOwner
  <2>4. r.status = "graceful_stop" => guard[o].thread # "wait"
    BY <2>2, <2>3 DEF ThreadInv
  <2>5. r.status = "lost" => guard[o].status = "lost"
    BY <2>2
  <2> QED
    BY <1>1, <2>1, <2>2, <2>4, <2>5, StatusMoves, Zenon
<1> QED
  BY <1>2, <1>3, <1>4 DEF dispatch, step_returns

\* The handoff, before and after the renewal thread is waited for.
LEMMA HandoffStep ==
    ASSUME IInv, NEW o \in Owners, terminal_handoff(o) \/ handoff_joined(o) PROVE IInv'
<1>1. /\ UNCHANGED <<now, server, channel>>
      /\ pc[o] \in {"yielding", "completing", "join_yield", "join_complete"}
  BY DEF terminal_handoff, handoff_joined
<1>2. CASE Gone(o) /\ lose(o) /\ Go(o, "exit")
  BY <1>1, <1>2, LoseStep
<1>3. CASE guard[o].thread = "ended" /\ lose(o) /\ Go(o, "done")
  BY <1>1, <1>3, LoseStep
<1>4. CASE /\ Set(o, [guard[o] EXCEPT !.stopped = TRUE])
           /\ Go(o, IF At(o, "yielding") THEN "join_yield" ELSE "join_complete")
  <2> DEFINE l == IF At(o, "yielding") THEN "join_yield" ELSE "join_complete"
             r == [guard[o] EXCEPT !.stopped = TRUE]
  <2>1. /\ pc' = [pc EXCEPT ![o] = l] /\ guard' = [guard EXCEPT ![o] = r]
        /\ l \in Pcs /\ l \notin Closing /\ l \notin {"idle", "start", "initial", "yielded"}
    BY <1>4 DEF Go, Set, Pcs, Closing
  <2>2. r \in GuardRow /\ Keeps(r, guard[o]) /\ r.status = guard[o].status
    BY MarkedRow, Zenon
  <2> HIDE DEF l, r
  <2>3. ThreadInv(o)
    BY AtOwner
  <2>4. r.status = "graceful_stop" => guard[o].thread # "wait"
    BY <2>2, <2>3 DEF ThreadInv
  <2>5. r.status = "lost" => guard[o].status = "lost"
    BY <2>2
  <2> QED
    BY <1>1, <2>1, <2>2, <2>4, <2>5, StatusMoves, Zenon
<1>5. CASE /\ guard[o].thread = "ended" /\ Set(o, [guard[o] EXCEPT !.status = "graceful_stop"])
           /\ Go(o, IF At(o, "join_yield") THEN "send_yield" ELSE "send_complete")
  <2> DEFINE l == IF At(o, "join_yield") THEN "send_yield" ELSE "send_complete"
             r == [guard[o] EXCEPT !.status = "graceful_stop"]
  <2>1. /\ pc' = [pc EXCEPT ![o] = l] /\ guard' = [guard EXCEPT ![o] = r]
        /\ l \in Pcs /\ l \notin {"idle", "start", "initial", "yielded"}
    BY <1>5 DEF Go, Set, Pcs
  <2>2. r \in GuardRow /\ Keeps(r, guard[o]) /\ r.status = "graceful_stop"
    BY MarkedRow, Zenon
  <2> HIDE DEF l, r
  <2>3. guard[o].thread # "wait"
    BY <1>5
  <2> QED
    BY <1>1, <2>1, <2>2, <2>3, StatusMoves, Zenon
<1> QED
  BY <1>2, <1>3, <1>4, <1>5 DEF terminal_handoff, handoff_joined

\* yield_job sends its request only after every renewal has stopped.
LEMMA YieldJobStep ==
    ASSUME IInv, NEW o \in Owners, yield_job(o) PROVE IInv'
<1>1. /\ pc[o] = "send_yield" /\ Over(o) /\ UNCHANGED <<now, server>> /\ acks' = acks
      /\ net \subseteq RequestRow /\ guard[o] \in GuardRow /\ MaxYields \in Nat
      /\ guard[o].yields \in 0..MaxYields
  BY AtMain, AtOwner DEF yield_job, At, Closing
<1>2. CASE /\ guard[o].yields < MaxYields
           /\ net' = net \cup {Request("yield", o, guard[o].yields + 1)}
           /\ Set(o, [guard[o] EXCEPT !.yields = @ + 1]) /\ Go(o, "await_yield")
  <2> DEFINE r == [guard[o] EXCEPT !.yields = @ + 1]
             q == Request("yield", o, guard[o].yields + 1)
  <2>1. guard[o].yields + 1 \in 0..MaxYields
    BY <1>1, <1>2
  <2>2. /\ r \in GuardRow /\ r.deadline = guard[o].deadline /\ guard[o].beats = r.beats
        /\ r.renewing = guard[o].renewing /\ r.started = guard[o].started /\ r.thread = guard[o].thread
        /\ r.status = guard[o].status
    BY <1>1, <2>1 DEF GuardRow
  <2>3. q \in RequestRow /\ q.owner = o /\ q.kind = "yield"
    BY <2>1 DEF Request, RequestRow
  <2>4. /\ guard' = [guard EXCEPT ![o] = r] /\ net' = net \cup {q}
        /\ pc' = [pc EXCEPT ![o] = "await_yield"] /\ "await_yield" \in Pcs
    BY <1>2 DEF Set, Go, Pcs
  <2> HIDE DEF r, q
  <2>5. /\ net' \subseteq RequestRow
        /\ \A p \in net' : p \in net \/ (p.owner = o /\ p.kind # "beat" /\ Over(o))
    BY <1>1, <2>3, <2>4
  <2>6. guard[o].thread # "wait"
    BY <1>1 DEF Over
  <2>7. acks' \subseteq acks
    BY <1>1
  <2> QED
    BY <1>1, <2>2, <2>4, <2>5, <2>6, <2>7, MainMoves, Zenon
<1>3. CASE Go(o, "done") /\ UNCHANGED <<guard, net>>
  BY <1>1, <1>3, AtMain, PcMoves, Zenon DEF Go
<1> QED
  BY <1>2, <1>3 DEF yield_job

\* An acknowledged yield was carried out.
LEMMA YieldAnsweredStep ==
    ASSUME IInv, NEW o \in Owners, yield_answered(o) PROVE IInv'
<1> DEFINE q == Request("yield", o, guard[o].yields)
<1>1. /\ pc[o] = "await_yield" /\ Over(o) /\ UNCHANGED <<guard, now, server>>
      /\ net' = net /\ acks' \subseteq acks /\ net \subseteq RequestRow
  BY AtMain, Zenon DEF yield_answered, At, GivenUp, Closing
<1>2. "yielded" \in Pcs /\ "query" \in Pcs
  BY DEF Pcs
<1>3. CASE Answer(q, TRUE) \in acks /\ Go(o, "yielded")
  <2>1. Answer(q, TRUE).kind = "yield" /\ Answer(q, TRUE).ok /\ Answer(q, TRUE).owner = o
    BY DEF Answer, Request
  <2>2. o \in yielded
    BY <1>3, <2>1, Zenon DEF IInv, AckInv
  <2>3. pc' = [pc EXCEPT ![o] = "yielded"]
    BY <1>3 DEF Go
  <2> QED
    BY <1>1, <1>2, <2>2, <2>3, PcMoves, Zenon
<1>4. CASE Go(o, "query")
  BY <1>1, <1>2, <1>4, PcMoves, Zenon DEF Go
<1> QED
  BY <1>3, <1>4, Zenon DEF yield_answered

\* yield_query and fail_claimed_job: the lease is past for this owner.
LEMMA YieldQueryStep ==
    ASSUME IInv, NEW o \in Owners, yield_query(o) \/ fail_claimed_job(o) PROVE IInv'
<1>1. /\ pc[o] \in {"query", "failing"} /\ Over(o) /\ UNCHANGED <<guard, now, server>>
      /\ acks' \subseteq acks /\ net \subseteq RequestRow
  BY AtMain DEF yield_query, fail_claimed_job, At, channel, Closing
<1>2. PICK l \in {"done", "send_yield"} : pc' = [pc EXCEPT ![o] = l]
  BY DEF yield_query, fail_claimed_job, Go
<1>3. l \in Pcs
  BY DEF Pcs
<1>4. /\ net' \subseteq RequestRow
      /\ \A p \in net' : p \in net \/ (p.owner = o /\ p.kind # "beat" /\ Over(o))
  <2>1. now \in Nat
    BY DEF IInv, TypeOK
  <2> QED
    BY <1>1, <2>1 DEF yield_query, fail_claimed_job, channel, Request, RequestRow
<1> QED
  BY <1>1, <1>2, <1>3, <1>4, PcMoves, Zenon

\* complete_job is sent once, after every renewal has stopped.
LEMMA CompleteJobStep ==
    ASSUME IInv, NEW o \in Owners, complete_job(o) PROVE IInv'
<1>1. /\ pc[o] \in {"send_complete", "await_complete"} /\ Over(o) /\ UNCHANGED <<now, server>>
      /\ acks' = acks /\ net \subseteq RequestRow /\ guard[o] \in GuardRow /\ now \in Nat
  BY AtMain, AtOwner DEF complete_job, At, Closing
<1>2. CASE /\ net' = net \cup {Request("complete", o, 1)}
           /\ Set(o, [guard[o] EXCEPT !.at = now]) /\ Go(o, "await_complete")
  <2> DEFINE r == [guard[o] EXCEPT !.at = now]
             q == Request("complete", o, 1)
  <2>1. /\ r \in GuardRow /\ r.deadline = guard[o].deadline /\ guard[o].beats = r.beats
        /\ r.renewing = guard[o].renewing /\ r.started = guard[o].started /\ r.thread = guard[o].thread
        /\ r.status = guard[o].status
    BY <1>1 DEF GuardRow
  <2>2. q \in RequestRow /\ q.owner = o /\ q.kind = "complete"
    BY DEF Request, RequestRow
  <2>3. /\ guard' = [guard EXCEPT ![o] = r] /\ net' = net \cup {q}
        /\ pc' = [pc EXCEPT ![o] = "await_complete"] /\ "await_complete" \in Pcs
    BY <1>2 DEF Set, Go, Pcs
  <2> HIDE DEF r, q
  <2>4. /\ net' \subseteq RequestRow
        /\ \A p \in net' : p \in net \/ (p.owner = o /\ p.kind # "beat" /\ Over(o))
    BY <1>1, <2>2, <2>3
  <2>5. guard[o].thread # "wait" /\ acks' \subseteq acks
    BY <1>1 DEF Over
  <2> QED
    BY <1>1, <2>1, <2>3, <2>4, <2>5, MainMoves, Zenon
<1>3. CASE Go(o, "done") /\ UNCHANGED <<net, guard>>
  BY <1>1, <1>3, AtMain, PcMoves, Zenon DEF Go
<1> QED
  BY <1>2, <1>3 DEF complete_job

\* The way out of the guard.
LEMMA LeaveGuardStep ==
    ASSUME IInv, NEW o \in Owners, leave_guard(o) PROVE IInv'
<1>1. /\ UNCHANGED <<now, server, channel>> /\ pc[o] \in {"exit", "stepfailed"}
      /\ ThreadInv(o) /\ pc[o] \in Pcs /\ pc = [pc EXCEPT ![o] = pc[o]]
  BY AtOwner, AtMain DEF leave_guard
<1>2. pc[o] \notin Closing
  BY <1>1 DEF Closing
<1>3. CASE Set(o, [guard[o] EXCEPT !.stopped = TRUE]) /\ UNCHANGED pc
  <2> DEFINE r == [guard[o] EXCEPT !.stopped = TRUE]
  <2>1. guard' = [guard EXCEPT ![o] = r] /\ pc' = [pc EXCEPT ![o] = pc[o]]
    BY <1>1, <1>3 DEF Set
  <2>2. r \in GuardRow /\ Keeps(r, guard[o]) /\ r.status = guard[o].status
    BY MarkedRow, Zenon
  <2> HIDE DEF r
  <2>3. r.status = "graceful_stop" => guard[o].thread # "wait"
    BY <1>1, <2>2 DEF ThreadInv
  <2>4. r.status = "lost" => guard[o].status = "lost"
    BY <2>2
  <2> QED
    BY <1>1, <1>2, <2>1, <2>2, <2>3, <2>4, StatusMoves, Zenon
<1>4. CASE /\ guard[o].thread = "ended"
           /\ Set(o, [guard[o] EXCEPT !.status = IF @ = "lost" THEN @ ELSE "graceful_stop"])
           /\ Go(o, IF At(o, "exit") THEN "done" ELSE "failing")
  <2> DEFINE s == IF guard[o].status = "lost" THEN "lost" ELSE "graceful_stop"
             l == IF At(o, "exit") THEN "done" ELSE "failing"
             r == [guard[o] EXCEPT !.status = s]
  <2>1. /\ guard' = [guard EXCEPT ![o] = r] /\ pc' = [pc EXCEPT ![o] = l]
        /\ l \in Pcs /\ l \notin {"idle", "start", "initial", "yielded"}
        /\ s \in {"lost", "graceful_stop"} /\ (s = "lost" => guard[o].status = "lost")
    BY <1>4, Zenon DEF Set, Go, Pcs
  <2> HIDE DEF s, l
  <2>2. r \in GuardRow /\ Keeps(r, guard[o]) /\ r.status = s
    BY <2>1, MarkedRow, Zenon
  <2> HIDE DEF r
  <2>3. guard[o].thread # "wait"
    BY <1>4
  <2> QED
    BY <1>1, <2>1, <2>2, <2>3, StatusMoves, Zenon
<1> QED
  BY <1>3, <1>4 DEF leave_guard

\* start_job changes the row's status and keeps its lease.
LEMMA StartJobStep ==
    ASSUME IInv, NEW o \in Owners, start_job(o) PROVE IInv'
<1> DEFINE r == guard[o]
<1>1. /\ pc[o] = "start" /\ now' = now /\ claims' = claims /\ yielded' = yielded /\ guard' = guard
      /\ net' = net /\ acks' = acks
      /\ job' = job \/ (Holds(o) /\ job' = [job EXCEPT !.status = "running"])
  BY DEF start_job, At, channel
<1>2. PICK l \in {"initial", "failing", "done"} : pc' = [pc EXCEPT ![o] = l]
  BY DEF start_job, Go
<1>3. /\ r \in GuardRow /\ guard' = [guard EXCEPT ![o] = r] /\ l \in Pcs
      /\ guard[o].beats <= r.beats /\ net' \subseteq RequestRow /\ acks' \subseteq acks
      /\ job \in JobRow /\ (job.owner # 0 <=> job.status \in {"leased", "running"})
  BY <1>1, AtOwner, AtMain DEF Pcs, IInv, TypeOK
<1>4. /\ r = NoGuard /\ ~r.renewing /\ r.thread = "none" /\ r.deadline = 0 /\ r.status = "unconfirmed"
  <2>1. ThreadInv(o)
    BY AtOwner
  <2>2. r = NoGuard
    BY <1>1, <2>1 DEF ThreadInv
  <2> QED
    BY <2>2 DEF NoGuard
<1>5. /\ job' \in JobRow /\ job'.owner = job.owner /\ job'.expires = job.expires
      /\ job'.owner # 0 <=> job'.status \in {"leased", "running"}
      /\ job'.status = "cancelled" <=> job.status = "cancelled"
  <2>1. CASE job' = job
    BY <1>3, <2>1
  <2>2. CASE Holds(o) /\ job' = [job EXCEPT !.status = "running"]
    <3>1. job.owner # 0
      BY <2>2 DEF Holds, Owners
    <3> QED
      BY <1>3, <2>2, <3>1 DEF JobRow, Statuses
  <2> QED
    BY <1>1, <2>1, <2>2
<1> HIDE DEF r
<1>6. ~Over(o) /\ WindowInv(o) /\ ThreadInv(o)
  BY <1>1, AtOwner DEF Over
<1>7. ASSUME pc'[o] = l, guard'[o] = r PROVE ThreadInv(o)' /\ WindowInv(o)'
  <2>1. ThreadInv(o)'
    BY <1>1, <1>4, <1>6, <1>7 DEF ThreadInv, Over, Closing
  <2>2. WindowInv(o)'
    BY <1>1, <1>4, <1>5, <1>7, AtOwner DEF WindowInv
  <2> QED
    BY <2>1, <2>2
<1>8. UNCHANGED <<now, claims, yielded>>
  BY <1>1
<1>9. \A p \in net' : p \in net
  BY <1>1
<1> QED
  BY <1>2, <1>3, <1>5, <1>6, <1>7, <1>8, <1>9, WorkerMoves, Zenon

-----------------------------------------------------------------------------
(* The runtime's steps. *)

\* No window is open for an owner that the row has lost before its time.
LEMMA ReleaseKeepsWindows ==
    ASSUME IInv, NEW s \in Statuses \ {"leased", "running"}, job' = NoJob(s),
           UNCHANGED <<now, guard>>,
           job.owner # 0 => job.expires <= now \/ Over(job.owner) \/ s = "cancelled",
           job.status # "cancelled",
           \A a \in acks' : a \in acks \/ a.kind # "beat"
    PROVE  \A o \in Owners : WindowInv(o)'
<1> SUFFICES ASSUME NEW o \in Owners PROVE WindowInv(o)'
  OBVIOUS
<1>1. /\ WindowInv(o) /\ now \in Nat /\ job.expires \in Nat /\ guard[o].deadline \in Nat
      /\ guard[o].started \in Nat /\ Lease \in Nat
  BY AtOwner
<1>2. job'.owner = 0 /\ job'.status = s /\ o # 0 /\ now' = now /\ guard' = guard
  BY DEF NoJob, Owners
<1>3. Yes(o, guard[o].beats) \in acks' => Yes(o, guard[o].beats) \in acks
  <2>1. Yes(o, guard[o].beats).kind = "beat"
    BY DEF Yes, Answer, Request
  <2> QED
    BY <2>1
<1>4. CASE job.owner # o
  BY <1>1, <1>2, <1>3, <1>4 DEF WindowInv, Holds
<1>5. CASE job.owner = o
  <2>1. CASE job.expires <= now
    BY <1>1, <1>2, <1>3, <1>5, <2>1 DEF WindowInv
  <2>2. CASE Over(o)
    BY <1>1, <1>2, <2>2 DEF WindowInv, Over
  <2>3. CASE s = "cancelled"
    BY <1>2, <2>3 DEF WindowInv
  <2> QED
    BY <1>2, <1>5, <2>1, <2>2, <2>3
<1> QED
  BY <1>4, <1>5

\* The row without its lease.
LEMMA ReleasedRow ==
    ASSUME NEW s \in Statuses \ {"leased", "running"}
    PROVE  /\ NoJob(s) \in JobRow /\ NoJob(s).owner = 0 /\ NoJob(s).expires = 0 /\ NoJob(s).status = s
  BY DEF NoJob, JobRow

\* A release by the runtime itself: the lease ran out, or the job is cancelled.
LEMMA ReleaseStep ==
    ASSUME IInv, reclaim_expired_runtime_job_leases \/ cancel_runtime_job PROVE IInv'
<1>1. /\ UNCHANGED <<now, guard>> /\ UNCHANGED <<now, pc, guard, claims>>
      /\ yielded' = yielded /\ net' = net /\ acks' = acks
  BY DEF reclaim_expired_runtime_job_leases, cancel_runtime_job, channel
<1>2. PICK s \in {"queued", "failed", "cancelled"} :
          job' = NoJob(s) /\ (s # "cancelled" => job.expires <= now)
  BY DEF reclaim_expired_runtime_job_leases, cancel_runtime_job, Released
<1>3. job.status # "cancelled"
  BY DEF reclaim_expired_runtime_job_leases, cancel_runtime_job, IInv, TypeOK
<1>4. s \in Statuses \ {"leased", "running"}
  BY <1>2 DEF Statuses
<1>5. \A o \in Owners : WindowInv(o)'
  BY <1>1, <1>2, <1>3, <1>4, ReleaseKeepsWindows
<1>6. job' \in JobRow /\ job'.owner = 0 /\ job'.expires = 0 /\ job'.status = s
  BY <1>2, <1>4, ReleasedRow
<1>7. /\ now \in Nat /\ Lease \in Nat /\ yielded \subseteq Owners /\ acks \subseteq AnswerRow
  BY LeaseBounds DEF IInv, TypeOK
<1> QED
  BY <1>1, <1>4, <1>5, <1>6, <1>7, ServerMoves

\* Time passes: windows only close.
LEMMA TickStep ==
    ASSUME IInv, tick PROVE IInv'
<1>1. /\ now' = now + 1 /\ now < MaxTime
      /\ job' = job /\ claims' = claims /\ yielded' = yielded /\ pc' = pc /\ guard' = guard
      /\ net' = net /\ acks' = acks
  BY DEF tick, server, channel
<1>2. /\ now \in 0..MaxTime /\ MaxTime \in Nat /\ job.expires \in Nat /\ Lease \in Nat
      /\ job.expires <= now + Lease
  BY LeaseBounds DEF IInv, TypeOK, JobRow
<1>3. TypeOK' /\ (job.expires <= now + Lease)'
  BY <1>1, <1>2 DEF IInv, TypeOK
<1>4. ASSUME NEW o \in Owners PROVE ThreadInv(o)' /\ WindowInv(o)' /\ (Over(o) <=> Over(o)')
  <2>1. /\ ThreadInv(o) /\ WindowInv(o) /\ guard[o].deadline \in Nat /\ guard[o].started \in Nat
    BY AtOwner
  <2>2. ThreadInv(o)' /\ (Over(o) <=> Over(o)')
    BY <1>1, <1>2, <2>1 DEF ThreadInv, Over
  <2>3. WindowInv(o)'
    BY <1>1, <1>2, <2>1 DEF WindowInv, Holds
  <2> QED
    BY <2>2, <2>3
<1>5. NetInv'
  <2>1. \A q \in net : q.owner \in Owners
    BY DEF IInv, TypeOK, RequestRow
  <2> QED
    BY <1>1, <1>4, <2>1 DEF IInv, NetInv
<1>6. AckInv' /\ YieldedIsCommitted'
  BY <1>1 DEF IInv, AckInv, YieldedIsCommitted, At
<1> QED
  BY <1>3, <1>4, <1>5, <1>6 DEF IInv

\* A claim finds no window open and makes an owner that has none.
LEMMA ClaimStep ==
    ASSUME IInv, claim_due_runtime_jobs PROVE IInv'
<1> DEFINE n == claims + 1
<1>1. /\ job.status = "queued" /\ claims < MaxClaims
      /\ claims' = n /\ job' = [status |-> "leased", owner |-> n, expires |-> now + Lease]
      /\ pc' = [pc EXCEPT ![n] = "start"] /\ guard' = guard
      /\ now' = now /\ yielded' = yielded /\ net' = net /\ acks' = acks
  BY DEF claim_due_runtime_jobs, Go, channel
<1>2. /\ now \in 0..MaxTime /\ claims \in 0..MaxClaims /\ pc \in [Owners -> Pcs] /\ job.owner = 0
      /\ MaxTime \in Nat /\ MaxClaims \in Nat /\ Lease \in Nat
  BY <1>1, LeaseBounds DEF IInv, TypeOK
<1>3. n \in Owners /\ n > claims /\ n \in 0..MaxClaims
  BY <1>1, <1>2 DEF Owners
<1>4. /\ pc[n] = "idle" /\ guard[n] = NoGuard
  BY <1>3 DEF IInv, ThreadInv
<1>5. NoGuard.deadline = 0 /\ NoGuard.thread = "none" /\ ~NoGuard.renewing
  BY DEF NoGuard
<1> HIDE DEF n
<1>6. /\ job' \in JobRow /\ job'.owner = n /\ job'.expires = now + Lease /\ job'.status = "leased"
      /\ job'.owner # 0
  BY <1>1, <1>2, <1>3 DEF JobRow, Statuses, Owners
<1>7. /\ pc' \in [Owners -> Pcs] /\ pc'[n] = "start"
      /\ \A o \in Owners : o # n => pc'[o] = pc[o]
  BY <1>1, <1>2, <1>3 DEF Pcs
<1>8. TypeOK' /\ (job.expires <= now + Lease)'
  BY <1>1, <1>2, <1>3, <1>6, <1>7 DEF IInv, TypeOK
<1>9. ASSUME NEW o \in Owners PROVE ThreadInv(o)' /\ WindowInv(o)' /\ (Over(o) => Over(o)')
  <2>1. /\ ThreadInv(o) /\ WindowInv(o) /\ guard[o].deadline \in Nat /\ guard[o].started \in Nat
        /\ now \in Nat /\ Lease \in Nat /\ o \in Int /\ o # 0
    BY AtOwner DEF Owners
  <2>2. CASE o = n
    <3>1. ThreadInv(o)'
      BY <1>1, <1>3, <1>4, <1>5, <1>7, <2>2 DEF ThreadInv, Closing
    <3>2. WindowInv(o)'
      BY <1>1, <1>2, <1>4, <1>5, <1>6, <2>1, <2>2 DEF WindowInv
    <3> QED
      BY <1>4, <2>2, <3>1, <3>2 DEF Over
  <2>3. CASE o # n
    <3>1. ThreadInv(o)' /\ (Over(o) => Over(o)')
      <4>1. o > n => o > claims
        BY <1>2, <2>1 DEF n
      <4> QED
        BY <1>1, <1>7, <2>1, <2>3, <4>1 DEF ThreadInv, Over
    <3>2. WindowInv(o)'
      BY <1>1, <1>2, <1>6, <2>1, <2>3 DEF WindowInv, Holds
    <3> QED
      BY <3>1, <3>2
  <2> QED
    BY <2>2, <2>3
<1>10. NetInv'
  <2>1. \A q \in net : q.owner \in Owners
    BY DEF IInv, TypeOK, RequestRow
  <2> QED
    BY <1>1, <1>9, <2>1 DEF IInv, NetInv
<1>11. AckInv' /\ YieldedIsCommitted'
  BY <1>1, <1>7 DEF IInv, AckInv, YieldedIsCommitted, At
<1> QED
  BY <1>8, <1>9, <1>10, <1>11 DEF IInv

\* An answer that someone waits for.
LEMMA AnswerRows ==
    ASSUME IInv, NEW q \in net, NEW ok \in BOOLEAN, answer(q, ok), q.kind \in {"beat", "yield"}
    PROVE  /\ acks' \subseteq AnswerRow
           /\ \A a \in acks' : \/ a \in acks
                               \/ a.kind = q.kind /\ a.owner = q.owner /\ a.n = q.n /\ a.ok = ok
<1> DEFINE a == Answer(q, ok)
<1>1. q.owner \in Owners /\ q.n \in Nat /\ acks \subseteq AnswerRow
  BY DEF IInv, TypeOK, RequestRow
<1>2. a \in AnswerRow /\ a.kind = q.kind /\ a.owner = q.owner /\ a.n = q.n /\ a.ok = ok
  BY <1>1 DEF Answer, AnswerRow
<1>3. acks' = acks \/ acks' = acks \cup {a}
  BY DEF answer
<1> HIDE DEF a
<1> QED
  BY <1>1, <1>2, <1>3

\* A renewal confirmed extends the lease to past the window its answer opens.
LEMMA RenewStep ==
    ASSUME IInv, NEW q \in net, serve(q), renew_worker_job_lease(q) PROVE IInv'
<1>1. /\ q.kind = "beat" /\ answer(q, Holds(q.owner)) /\ Holds(q.owner) \in BOOLEAN
      /\ job' = IF Holds(q.owner) THEN [job EXCEPT !.expires = now + Lease] ELSE job
      /\ UNCHANGED <<now, pc, guard, claims>> /\ yielded' = yielded /\ net' = net \ {q}
  BY DEF renew_worker_job_lease, serve, Holds
<1>2. /\ acks' \subseteq AnswerRow
      /\ \A a \in acks' : \/ a \in acks
                          \/ a.kind = q.kind /\ a.owner = q.owner /\ a.n = q.n /\ a.ok = Holds(q.owner)
  BY <1>1, AnswerRows
<1>3. /\ q.owner \in Owners /\ q.n <= guard[q.owner].beats /\ now \in Nat /\ Lease \in Nat
      /\ job \in JobRow /\ (job.owner # 0 <=> job.status \in {"leased", "running"})
      /\ job.expires \in Nat /\ job.expires <= now + Lease /\ yielded \subseteq Owners
  BY <1>1, LeaseBounds DEF IInv, TypeOK, RequestRow, NetInv, JobRow
<1>4. /\ job' \in JobRow /\ job'.owner = job.owner /\ job'.status = job.status
      /\ job'.expires = IF Holds(q.owner) THEN now + Lease ELSE job.expires
  BY <1>1, <1>3 DEF JobRow
<1>5. ASSUME NEW o \in Owners PROVE WindowInv(o)'
  <2>1. /\ WindowInv(o) /\ ThreadInv(o) /\ guard[o].deadline \in Nat /\ guard[o].started \in Nat
    BY AtOwner
  <2>2. job.expires <= job'.expires /\ job'.expires \in Nat
    BY <1>3, <1>4
  <2>3. /\ job'.owner = o => guard'[o].deadline <= job'.expires
        /\ guard'[o].status \in {"healthy", "unconfirmed"} /\ now' < guard'[o].deadline
              => Holds(o)' \/ job'.status = "cancelled"
    BY <1>1, <1>3, <1>4, <2>1, <2>2 DEF WindowInv, Holds
  <2>4. ASSUME guard[o].renewing, Yes(o, guard[o].beats) \in acks'
        PROVE  \/ job'.owner = o /\ guard[o].started + Lease <= job'.expires
               \/ job'.status = "cancelled"
               \/ guard[o].started + Lease <= now
    <3>1. CASE Yes(o, guard[o].beats) \in acks
      BY <1>3, <1>4, <2>1, <2>2, <2>4, <3>1 DEF WindowInv
    <3>2. CASE Yes(o, guard[o].beats) \notin acks
      <4> DEFINE y == Yes(o, guard[o].beats)
      <4>1. y.owner = o /\ y.ok = TRUE
        BY DEF Yes, Answer, Request
      <4>2. y \in acks' /\ y \notin acks
        BY <2>4, <3>2
      <4> HIDE DEF y
      <4>3. q.owner = o /\ Holds(o)
        BY <1>2, <4>1, <4>2
      <4>4. guard[o].started <= now
        BY <2>1, <2>4 DEF ThreadInv
      <4> QED
        BY <1>3, <1>4, <2>1, <4>3, <4>4 DEF Holds
    <3> QED
      BY <3>1, <3>2
  <2> QED
    BY <1>1, <2>3, <2>4 DEF WindowInv
<1>6. job'.expires <= now + Lease
  BY <1>3, <1>4
<1>7. \A a \in acks' : \/ a \in acks
                       \/ /\ a.kind = "beat" => a.n <= guard[a.owner].beats
                          /\ a.kind = "yield" /\ a.ok => a.owner \in yielded'
  BY <1>1, <1>2, <1>3
<1> QED
  BY <1>1, <1>2, <1>3, <1>4, <1>5, <1>6, <1>7, ServerMoves

\* A yield, completion or failure comes from an owner that counts on nothing
\* any more, so the row may lose its lease.
LEMMA ConcludeStep ==
    ASSUME IInv, NEW q \in net, serve(q),
           yield_runtime_job(q) \/ complete_runtime_job(q) \/ fail_runtime_job(q)
    PROVE  IInv'
<1>1. /\ q.kind \in {"yield", "complete", "fail"}
      /\ UNCHANGED <<now, pc, guard, claims>> /\ UNCHANGED <<now, guard>> /\ net' = net \ {q}
  BY DEF serve, yield_runtime_job, complete_runtime_job, fail_runtime_job
<1>2. /\ q.owner \in Owners /\ Over(q.owner) /\ now \in Nat /\ Lease \in Nat
      /\ job \in JobRow /\ (job.owner # 0 <=> job.status \in {"leased", "running"})
      /\ job.expires <= now + Lease /\ yielded \subseteq Owners /\ acks \subseteq AnswerRow
  BY <1>1, LeaseBounds DEF IInv, TypeOK, RequestRow, NetInv
<1>3. \/ job' = job
      \/ job.owner = q.owner /\ \E s \in {"queued", "succeeded", "failed"} : job' = NoJob(s)
  BY DEF yield_runtime_job, complete_runtime_job, fail_runtime_job, Released
<1>4. /\ yielded \subseteq yielded' /\ yielded' \subseteq Owners
  BY <1>2 DEF yield_runtime_job, complete_runtime_job, fail_runtime_job
<1>5. /\ acks' \subseteq AnswerRow
      /\ \A a \in acks' : \/ a \in acks
                          \/ a.kind = "yield" /\ (a.ok => a.owner \in yielded')
  <2>1. CASE acks' = acks
    BY <1>2, <2>1
  <2>2. CASE yield_runtime_job(q)
    <3> DEFINE ok == \/ job.owner = q.owner /\ job.expires > guard[q.owner].at
                     \/ job.status = "queued" /\ q.owner \in yielded
    <3>1. answer(q, ok) /\ ok \in BOOLEAN /\ q.kind = "yield" /\ (ok => q.owner \in yielded')
      BY <2>2, Zenon DEF yield_runtime_job
    <3> HIDE DEF ok
    <3>2. /\ acks' \subseteq AnswerRow
          /\ \A a \in acks' : \/ a \in acks
                              \/ a.kind = q.kind /\ a.owner = q.owner /\ a.n = q.n /\ a.ok = ok
      BY <3>1, AnswerRows
    <3> QED
      BY <3>1, <3>2
  <2> QED
    BY <2>1, <2>2 DEF complete_runtime_job, fail_runtime_job
<1>6. /\ job' \in JobRow /\ (job'.owner # 0 <=> job'.status \in {"leased", "running"})
      /\ job'.expires <= now + Lease /\ \A o \in Owners : WindowInv(o)'
  <2>1. CASE job' = job
    <3>1. ASSUME NEW o \in Owners PROVE WindowInv(o)'
      <4>1. WindowInv(o)
        BY AtOwner
      <4>2. Yes(o, guard[o].beats) \in acks' => Yes(o, guard[o].beats) \in acks
        <5>1. Yes(o, guard[o].beats).kind = "beat"
          BY DEF Yes, Answer, Request
        <5> QED
          BY <1>5, <5>1
      <4> QED
        BY <1>1, <2>1, <4>1, <4>2 DEF WindowInv, Holds
    <3> QED
      BY <1>2, <2>1, <3>1
  <2>2. CASE job.owner = q.owner /\ \E s \in {"queued", "succeeded", "failed"} : job' = NoJob(s)
    <3>1. PICK s \in {"queued", "succeeded", "failed"} : job' = NoJob(s)
      BY <2>2
    <3>2. s \in Statuses \ {"leased", "running"}
      BY DEF Statuses
    <3>3. job' \in JobRow /\ job'.owner = 0 /\ job'.expires = 0 /\ job'.status = s
      BY <3>1, <3>2, ReleasedRow
    <3>4. job.status # "cancelled" /\ Over(job.owner)
      BY <1>2, <2>2 DEF Owners
    <3>5. \A a \in acks' : a \in acks \/ a.kind # "beat"
      BY <1>5
    <3>6. \A o \in Owners : WindowInv(o)'
      BY <1>1, <3>1, <3>2, <3>4, <3>5, ReleaseKeepsWindows
    <3> QED
      BY <1>2, <3>2, <3>3, <3>6
  <2> QED
    BY <1>3, <2>1, <2>2
<1>7. \A a \in acks' : \/ a \in acks
                       \/ /\ a.kind = "beat" => a.n <= guard[a.owner].beats
                          /\ a.kind = "yield" /\ a.ok => a.owner \in yielded'
  BY <1>5
<1> QED
  BY <1>1, <1>4, <1>5, <1>6, <1>7, ServerMoves

-----------------------------------------------------------------------------
(* The theorems. *)

\* Every step keeps the invariant.
LEMMA NextIInv == IInv /\ [Next]_vars => IInv'
<1> SUFFICES ASSUME IInv, [Next]_vars PROVE IInv'
  OBVIOUS
<1>1. CASE tick
  BY <1>1, TickStep
<1>2. CASE claim_due_runtime_jobs
  BY <1>2, ClaimStep
<1>3. CASE reclaim_expired_runtime_job_leases \/ cancel_runtime_job
  BY <1>3, ReleaseStep
<1>4. ASSUME NEW q \in net, serve(q) PROVE IInv'
  <2>1. CASE renew_worker_job_lease(q)
    BY <1>4, <2>1, RenewStep
  <2>2. CASE yield_runtime_job(q) \/ complete_runtime_job(q) \/ fail_runtime_job(q)
    BY <1>4, <2>2, ConcludeStep
  <2> QED
    BY <1>4, <2>1, <2>2 DEF serve
<1>5. ASSUME NEW o \in Owners, Renewal(o) PROVE IInv'
  BY <1>5, AttemptStep, AttemptEndsStep, ConfirmedStep, UnconfirmedStep DEF Renewal
<1>6. ASSUME NEW o \in Owners, Main(o) PROVE IInv'
  BY <1>6, StartJobStep, DispatchStep, HandoffStep, YieldJobStep, YieldAnsweredStep, YieldQueryStep,
     CompleteJobStep, LeaveGuardStep DEF Main
<1>7. CASE UNCHANGED vars
  <2>1. /\ now' = now /\ job' = job /\ claims' = claims /\ yielded' = yielded /\ pc' = pc
        /\ guard' = guard /\ net' = net /\ acks' = acks
    BY <1>7 DEF vars
  <2>2. TypeOK' /\ (job.expires <= now + Lease)' /\ NetInv' /\ AckInv' /\ YieldedIsCommitted'
    BY <2>1 DEF IInv, TypeOK, NetInv, AckInv, YieldedIsCommitted, At, Over
  <2>3. \A o \in Owners : ThreadInv(o)' /\ WindowInv(o)'
    BY <2>1 DEF IInv, ThreadInv, WindowInv, Over, Holds
  <2> QED
    BY <2>2, <2>3 DEF IInv
<1> QED
  BY <1>1, <1>2, <1>3, <1>4, <1>5, <1>6, <1>7 DEF Next

\* The worker's window lies within the row's lease, in every reachable state.
THEOREM Invariance == Spec => []IInv
  BY InitIInv, NextIInv, PTL DEF Spec

\* What the worker believes is so (lease_heartbeats, require_healthy_lease,
\* yield_job): while it counts on its lease the row has it or the job was
\* cancelled, and a job it reports as handed back was handed back, for every
\* lease, margin and number of claims, renewals and yields.
THEOREM Knowledge == Spec => []WorkerKnows
<1>1. IInv => WorkerKnows
  BY DEF IInv, WindowInv, WorkerKnows, ConfirmedIsLeased
<1> QED
  BY <1>1, Invariance, PTL

\* An owner that gave its lease up stays without it: a confirmation on its way
\* finds the guard lost or its window past.
LEMMA LostStays ==
    ASSUME IInv, [Next]_vars, NEW o \in Owners, guard[o].status = "lost"
    PROVE  guard'[o].status = "lost"
<1>1. /\ guard \in [Owners -> GuardRow] /\ ThreadInv(o) /\ guard[o].deadline \in Nat /\ now \in Nat
  BY AtOwner DEF IInv, TypeOK
<1>2. ASSUME NEW p \in Owners, p # o, Renewal(p) \/ Main(p) PROVE guard'[o] = guard[o]
  BY <1>1, <1>2, Zenon DEF Renewal, Main, attempt, attempt_ends, attempt_confirmed, attempt_rejected,
     attempt_unavailable, Settled, Set, lose, start_job, dispatch, step_returns, terminal_handoff,
     handoff_joined, yield_job, yield_answered, yield_query, complete_job, leave_guard, fail_claimed_job
<1>3. CASE Renewal(o)
  <2>1. CASE attempt(o) \/ attempt_ends(o)
    BY <1>1, <2>1, Zenon DEF attempt, attempt_ends, Set, GuardRow
  <2>2. ASSUME NEW d, Settled(o, "lost", d) PROVE guard'[o].status = "lost"
    BY <1>1, <2>2 DEF Settled, Set, GuardRow
  <2>3. CASE attempt_confirmed(o) \/ attempt_rejected(o)
    BY <2>2, <2>3, Zenon DEF attempt_confirmed, attempt_rejected
  <2>4. CASE attempt_unavailable(o)
    <3>1. ~Initial(o) /\ now >= guard[o].deadline
      BY <1>1, <2>4 DEF attempt_unavailable, ThreadInv, Initial, At
    <3> QED
      BY <2>2, <2>4, <3>1 DEF attempt_unavailable
  <2> QED
    BY <1>3, <2>1, <2>3, <2>4 DEF Renewal
<1>4. CASE Main(o)
  <2>1. CASE terminal_handoff(o) \/ handoff_joined(o) \/ dispatch(o)
    BY <1>1, <2>1 DEF terminal_handoff, handoff_joined, dispatch, Healthy, lose, Set, GuardRow
  <2>2. CASE step_returns(o) \/ yield_job(o) \/ complete_job(o) \/ leave_guard(o)
    BY <1>1, <2>2 DEF step_returns, yield_job, complete_job, leave_guard, Set, GuardRow
  <2>3. CASE start_job(o) \/ yield_answered(o) \/ yield_query(o) \/ fail_claimed_job(o)
    BY <2>3, Zenon DEF start_job, yield_answered, yield_query, fail_claimed_job
  <2> QED
    BY <1>4, <2>1, <2>2, <2>3 DEF Main
<1>5. CASE \/ tick \/ claim_due_runtime_jobs \/ reclaim_expired_runtime_job_leases \/ cancel_runtime_job
           \/ \E q \in net : serve(q)
  BY <1>5 DEF tick, claim_due_runtime_jobs, reclaim_expired_runtime_job_leases, cancel_runtime_job, serve
<1>6. CASE UNCHANGED vars
  BY <1>6 DEF vars
<1> QED
  BY <1>2, <1>3, <1>4, <1>5, <1>6 DEF Next

\* Only a request of the owner itself takes its lease before its time.
LEMMA OwnersEnd ==
    ASSUME IInv, [Next]_vars, job.owner # 0, job'.owner # job.owner
    PROVE  \/ job.expires <= now \/ job'.status = "cancelled"
           \/ \E q \in net \ net' : q.owner = job.owner
<1>1. /\ job \in JobRow /\ job.status \in {"leased", "running"}
  BY DEF IInv, TypeOK
<1>2. CASE tick \/ UNCHANGED vars
  BY <1>2 DEF tick, server, vars
<1>3. CASE claim_due_runtime_jobs
  BY <1>1, <1>3 DEF claim_due_runtime_jobs
<1>4. CASE reclaim_expired_runtime_job_leases \/ cancel_runtime_job
  BY <1>4 DEF reclaim_expired_runtime_job_leases, cancel_runtime_job, Released, NoJob
<1>5. ASSUME NEW q \in net, serve(q) PROVE q \notin net' /\ q.owner = job.owner
  <2>1. CASE renew_worker_job_lease(q)
    BY <1>1, <2>1 DEF renew_worker_job_lease, JobRow
  <2>2. CASE yield_runtime_job(q) \/ complete_runtime_job(q) \/ fail_runtime_job(q)
    BY <1>5, <2>2 DEF serve, yield_runtime_job, complete_runtime_job, fail_runtime_job
  <2> QED
    BY <1>5, <2>1, <2>2 DEF serve
<1>6. ASSUME NEW o \in Owners, Renewal(o) \/ Main(o) PROVE FALSE
  <2>1. CASE start_job(o)
    BY <1>1, <2>1 DEF start_job, JobRow
  <2>2. CASE ~start_job(o)
    BY <1>6, <2>2, Zenon DEF Renewal, Main, attempt, attempt_ends, attempt_confirmed, attempt_rejected,
       attempt_unavailable, Settled, server, dispatch, step_returns, terminal_handoff,
       handoff_joined, yield_job, yield_answered, yield_query, complete_job, leave_guard, fail_claimed_job
  <2> QED
    BY <2>1, <2>2
<1> QED
  BY <1>2, <1>3, <1>4, <1>5, <1>6 DEF Next

\* A lease ends because it ran out, because the job was cancelled or by a
\* request of its owner (renew_worker_job_lease, yield_runtime_job,
\* complete_runtime_job, fail_runtime_job), and an owner that gave it up never
\* counts on it again (lease_heartbeats).
THEOREM EndsOnce == Spec => LeaseEndsOnce
<1>1. IInv /\ [Next]_vars => [\A o \in Owners : guard[o].status = "lost" => guard'[o].status = "lost"]_vars
  BY LostStays
<1>2. IInv /\ [Next]_vars
        => [job.owner # 0 /\ job'.owner # job.owner
              => \/ job.expires <= now \/ job'.status = "cancelled"
                 \/ \E q \in net \ net' : q.owner = job.owner]_vars
  BY OwnersEnd
<1> QED
  BY <1>1, <1>2, Invariance, PTL DEF Spec, LeaseEndsOnce, LostIsFinal, LeaseEndsByItsOwner
===============================================================================
