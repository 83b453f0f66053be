------------------------- MODULE JobConnectionProofs -------------------------
(***************************************************************************)
(* That the per-domain job store answers honestly, keeps its connection    *)
(* epochs apart and orders a call after the work accepted before it, for   *)
(* every set of calls and every number of epochs and permits.  The         *)
(* invariant adds what each place of a call knows, who has the owner lock, *)
(* what a queue holds and how far ahead earlier work is in it.             *)
(***************************************************************************)
EXTENDS JobConnection, TLAPS

\* Writing one call's row.
LEMMA CallWrite ==
    ASSUME call \in [Calls -> CallRow], NEW c \in Calls, NEW r \in CallRow,
           call' = [call EXCEPT ![c] = r]
    PROVE  /\ call' \in [Calls -> CallRow]
           /\ call'[c] = r
           /\ \A d \in Calls : d # c => call'[d] = call[d]
  OBVIOUS

\* Writing one epoch's row.
LEMMA DriverWrite ==
    ASSUME driver \in [Epochs -> DriverRow], NEW e \in Epochs, NEW r \in DriverRow,
           driver' = [driver EXCEPT ![e] = r]
    PROVE  /\ driver' \in [Epochs -> DriverRow]
           /\ driver'[e] = r
           /\ \A f \in Epochs : f # e => driver'[f] = driver[f]
  OBVIOUS

\* An answer ends the call and changes nothing else of it.
LEMMA AnsweredRow ==
    ASSUME NEW r \in CallRow, NEW a \in Answers
    PROVE  /\ Answered(r, a) \in CallRow
           /\ Answered(r, a).at = "done"
           /\ Answered(r, a).kind = r.kind
           /\ Answered(r, a).epoch = r.epoch
           /\ Answered(r, a).answer \in {a, "none"}
           /\ Answered(r, a).answer # "none" => r.waiter
  BY Zenon DEF Answered, CallRow, Places

\* Moving a call to another place changes nothing else of it.
LEMMA MovedRow ==
    ASSUME NEW r \in CallRow, NEW p \in Places
    PROVE  /\ [r EXCEPT !.at = p] \in CallRow
           /\ [r EXCEPT !.at = p].at = p
           /\ [r EXCEPT !.at = p].kind = r.kind
           /\ [r EXCEPT !.at = p].epoch = r.epoch
           /\ [r EXCEPT !.at = p].answer = r.answer
  BY DEF CallRow

\* begin_close of ConnectionEpoch shuts admission and leaves health and result.
LEMMA ClosingRow ==
    ASSUME NEW d \in DriverRow
    PROVE  /\ BeginClose(d) \in DriverRow
           /\ BeginClose(d).closing /\ ~BeginClose(d).accepting
           /\ BeginClose(d).healthy = d.healthy
           /\ BeginClose(d).closed = d.closed
  BY Zenon DEF BeginClose, DriverRow

-----------------------------------------------------------------------------
(* The inductive invariant. *)

\* A call that has been sent to an epoch.
Submitted == Accepted \cup {"permit", "shared", "admitting"}

\* What is known of a call by where it is: it has an epoch from the moment it
\* looks for a permit, and neither effect nor answer before it ends.
CallInv ==
    \A c \in Calls :
        /\ call[c].at = "idle" => ~call[c].waiter
        /\ call[c].at \notin {"idle", "done"} => call[c].kind \in Kinds
        /\ call[c].at # "done" => call[c].answer = "none" /\ c \notin applied
        /\ call[c].at \in Submitted \/ call[c].answer = "Unknown"
               => call[c].epoch \in 1..current

\* An epoch closes once its admission is shut; only the current one is open.
DriverInv ==
    \A e \in Epochs :
        /\ driver[e].closed # "no" => driver[e].closing
        /\ driver[e].closing => ~driver[e].accepting
        /\ e < current => driver[e].closed # "no"

\* The owner lock belongs to the call that replaces the epoch, and to nobody
\* once the shutdown has begun to drain.
OwnerInv ==
    /\ \A c \in Calls : call[c].at \in {"draining", "opening"} <=> owner = c
    /\ \A c \in Calls : call[c].at = "opening" => driver[current].closed # "no"
    /\ closer # "none" => closing
    /\ closer \in {"draining", "done"} => owner = NoCall
    /\ closer = "done" => driver[current].closed # "no"

\* The queue of an epoch holds its queued calls, each once.
QueueInv ==
    \A e \in Epochs :
        /\ \A i \in 1..Len(queue[e]) : /\ call[queue[e][i]].at = "queued"
                                       /\ call[queue[e][i]].epoch = e
        /\ \A i, j \in 1..Len(queue[e]) : queue[e][i] = queue[e][j] => i = j
        /\ \A c \in Calls : call[c].at = "queued" /\ call[c].epoch = e =>
               \E i \in 1..Len(queue[e]) : queue[e][i] = c

\* One closure runs at a time, and none on a closed epoch or one in doubt.
ThreadInv ==
    /\ \A c, d \in Calls : /\ call[c].at = "running" /\ call[d].at = "running"
                           /\ call[c].epoch = call[d].epoch
                           => c = d
    /\ \A c \in Calls : call[c].at \in Accepted => driver[call[c].epoch].closed = "no"
    /\ \A c, d \in Calls : call[c].answer = "Unknown" =>
           /\ ~driver[call[c].epoch].healthy
           /\ call[d].at = "running" => call[d].epoch # call[c].epoch

\* Work that was accepted when a call was made stays ahead of it.
OrderInv ==
    \A c \in Calls : \A d \in before[c] :
        /\ call[d].at \in Accepted \cup {"done"}
        /\ call[c].at = "queued" /\ call[d].at \in Accepted => call[d].epoch = call[c].epoch
        /\ call[c].at = "queued" =>
               \A i, j \in 1..Len(queue[call[c].epoch]) :
                   queue[call[c].epoch][i] = d /\ queue[call[c].epoch][j] = c => i < j
        /\ call[c].at = "running" => call[d].at = "done"

IInv ==
    /\ TypeOK /\ OutcomeHonest
    /\ CallInv /\ DriverInv /\ OwnerInv /\ QueueInv /\ ThreadInv /\ OrderInv

\* The store starts with one open epoch and nothing to do.
LEMMA InitIInv == Init => IInv
<1> SUFFICES ASSUME Init PROVE IInv
  OBVIOUS
<1> USE CapacityAssumption, CallAssumption DEF Init
<1>1. TypeOK
  <2>1. call \in [Calls -> CallRow]
    BY DEF CallRow, Places
  <2>2. driver \in [Epochs -> DriverRow]
    BY DEF FreshDriver, DriverRow
  <2>3. queue \in [Epochs -> Seq(Calls)] /\ before \in [Calls -> SUBSET Calls]
    OBVIOUS
  <2>4. current \in Epochs /\ actorHeld \in Nat
    BY DEF Epochs
  <2> QED
    BY <2>1, <2>2, <2>3, <2>4, Zenon DEF TypeOK
<1>2. OutcomeHonest /\ CallInv
  BY DEF OutcomeHonest, CallInv, Submitted, Accepted
<1>3. DriverInv
  BY DEF DriverInv, FreshDriver, Epochs
<1>4. OwnerInv
  BY DEF OwnerInv
<1>5. QueueInv /\ ThreadInv /\ OrderInv
  BY DEF QueueInv, ThreadInv, OrderInv, Accepted
<1> QED
  BY <1>1, <1>2, <1>3, <1>4, <1>5 DEF IInv

\* A call in an epoch is in one that has been opened; work is on an open one,
\* and that is the current one.
LEMMA KnownEpoch ==
    ASSUME IInv, NEW c \in Calls
    PROVE  /\ call[c].at \in Submitted \/ call[c].answer = "Unknown"
                  => call[c].epoch \in Epochs /\ call[c].epoch <= current
           /\ call[c].at \in Accepted => call[c].epoch \in Epochs /\ call[c].epoch = current
<1>1. current \in Epochs /\ current \in Nat /\ Epochs = 1..MaxEpochs /\ MaxEpochs \in Nat
  BY CapacityAssumption DEF IInv, TypeOK, Epochs
<1>2. call[c].at \in Submitted \/ call[c].answer = "Unknown"
          => call[c].epoch \in Epochs /\ call[c].epoch <= current
  BY <1>1 DEF IInv, CallInv
<1>3. call[c].at \in Accepted => call[c].epoch = current
  BY <1>1, <1>2 DEF IInv, ThreadInv, DriverInv, Submitted
<1> QED
  BY <1>2, <1>3 DEF Submitted

-----------------------------------------------------------------------------
(* Steps that leave the connection threads alone. *)

\* A call that is not in the hands of a connection thread may move or end
\* without disturbing those that are.
LEMMA Outside ==
    ASSUME IInv, NEW c \in Calls,
           \A d \in Calls : d # c => call'[d] = call[d],
           call[c].at \notin Accepted, call'[c].at \notin Accepted,
           call[c].at = "done" => call'[c].at = "done",
           call'[c].answer = "Unknown" =>
               call[c].answer = "Unknown" /\ call'[c].epoch = call[c].epoch,
           \A e \in Epochs : /\ driver'[e].closed = driver[e].closed
                             /\ driver'[e].healthy = driver[e].healthy,
           queue' = queue
    PROVE  /\ QueueInv' /\ ThreadInv'
           /\ before' = before => OrderInv'
<1> USE DEF IInv
<1>1. QueueInv'
  <2> SUFFICES ASSUME NEW e \in Epochs
               PROVE  /\ \A i \in 1..Len(queue[e]) : /\ call'[queue[e][i]].at = "queued"
                                                    /\ call'[queue[e][i]].epoch = e
                      /\ \A i, j \in 1..Len(queue[e]) : queue[e][i] = queue[e][j] => i = j
                      /\ \A d \in Calls : call'[d].at = "queued" /\ call'[d].epoch = e =>
                             \E i \in 1..Len(queue[e]) : queue[e][i] = d
    BY DEF QueueInv
  <2>1. \A i \in 1..Len(queue[e]) : queue[e][i] \in Calls
    BY DEF TypeOK
  <2> QED
    BY <2>1 DEF QueueInv, Accepted
<1>2. ThreadInv'
  <2>1. \A d \in Calls : call[d].at \in Accepted \/ call[d].answer = "Unknown"
                          => call[d].epoch \in Epochs
    BY KnownEpoch
  <2>2. \A d \in Calls : call'[d].at \in Accepted \/ call'[d].answer = "Unknown" =>
            /\ call'[d].epoch = call[d].epoch
            /\ call'[d].at \in Accepted => call'[d].at = call[d].at
            /\ call[d].answer = "Unknown" \/ call'[d].answer # "Unknown"
    OBVIOUS
  <2> QED
    BY <2>1, <2>2 DEF ThreadInv, Accepted
<1>3. ASSUME before' = before PROVE OrderInv'
  <2>1. \A d \in Calls : before[d] \subseteq Calls
    BY DEF TypeOK
  <2> QED
    BY <1>3, <2>1 DEF OrderInv, Accepted
<1> QED
  BY <1>1, <1>2, <1>3

\* The queues and the order in them stand while no call moves.
LEMMA QueuesStand ==
    ASSUME IInv,
           \A d \in Calls : call'[d].at = call[d].at /\ call'[d].epoch = call[d].epoch,
           queue' = queue, before' = before
    PROVE  QueueInv' /\ OrderInv'
<1> USE DEF IInv
<1>1. QueueInv'
  <2>1. \A e \in Epochs : \A i \in 1..Len(queue[e]) : queue[e][i] \in Calls
    BY DEF TypeOK
  <2> QED
    BY <2>1 DEF QueueInv
<1>2. OrderInv'
  <2> SUFFICES ASSUME NEW c \in Calls, NEW d \in before[c]
               PROVE  /\ call'[d].at \in Accepted \cup {"done"}
                      /\ call'[c].at = "queued" /\ call'[d].at \in Accepted
                             => call'[d].epoch = call'[c].epoch
                      /\ call'[c].at = "queued" =>
                             \A i, j \in 1..Len(queue'[call'[c].epoch]) :
                                 /\ queue'[call'[c].epoch][i] = d
                                 /\ queue'[call'[c].epoch][j] = c
                                 => i < j
                      /\ call'[c].at = "running" => call'[d].at = "done"
    BY Zenon DEF OrderInv
  <2>1. d \in Calls
    BY DEF TypeOK
  <2>2. /\ call'[c].at = call[c].at /\ call'[c].epoch = call[c].epoch
        /\ call'[d].at = call[d].at /\ call'[d].epoch = call[d].epoch
    BY <2>1
  <2>3. /\ call[d].at \in Accepted \cup {"done"}
        /\ call[c].at = "queued" /\ call[d].at \in Accepted => call[d].epoch = call[c].epoch
        /\ call[c].at = "queued" =>
               \A i, j \in 1..Len(queue[call[c].epoch]) :
                   queue[call[c].epoch][i] = d /\ queue[call[c].epoch][j] = c => i < j
        /\ call[c].at = "running" => call[d].at = "done"
    BY Zenon DEF OrderInv
  <2>4. queue'[call'[c].epoch] = queue[call[c].epoch]
    BY <2>2
  <2> QED
    BY <2>2, <2>3, <2>4
<1> QED
  BY <1>1, <1>2

\* Neither does a step that moves no call, such as the dropping of a caller
\* whose closure is queued.
LEMMA NobodyMoves ==
    ASSUME IInv,
           \A d \in Calls : /\ call'[d].at = call[d].at
                            /\ call'[d].epoch = call[d].epoch
                            /\ call'[d].answer = call[d].answer,
           \A e \in Epochs : /\ driver'[e].closed = driver[e].closed
                             /\ driver'[e].healthy = driver[e].healthy,
           queue' = queue, before' = before
    PROVE  QueueInv' /\ ThreadInv' /\ OrderInv'
<1>1. QueueInv' /\ OrderInv'
  BY QueuesStand
<1>2. ThreadInv'
  BY KnownEpoch DEF IInv, ThreadInv, Accepted
<1> QED
  BY <1>1, <1>2

-----------------------------------------------------------------------------
(* One lemma for each action. *)

\* A call is made: its row is fresh, and the work accepted so far is what it must
\* follow.
LEMMA InvokeStep ==
    ASSUME IInv, NEW c \in Calls, NEW kind \in Kinds, invoke(c, kind)
    PROVE  IInv'
<1> DEFINE r == [call[c] EXCEPT !.kind = kind, !.waiter = TRUE]
           s == IF closing THEN Answered(r, "NotExecuted") ELSE [r EXCEPT !.at = "owner"]
<1>1. call[c] \in CallRow /\ call \in [Calls -> CallRow]
  BY DEF IInv, TypeOK
<1>2. /\ r \in CallRow /\ r.at = "idle" /\ r.answer = "none" /\ r.epoch = call[c].epoch
      /\ r.kind = kind
  BY <1>1, Zenon DEF CallRow, invoke, IInv, CallInv
<1>3. /\ s \in CallRow /\ s.at \in {"owner", "done"} /\ s.kind = kind
      /\ s.epoch = call[c].epoch /\ s.answer \in {"none", "NotExecuted"}
      /\ s.at = "owner" => s.answer = "none"
  <2>1. CASE closing
    <3>1. "NotExecuted" \in Answers
      BY DEF Answers, Outcomes
    <3> QED
      BY <1>2, <2>1, <3>1, AnsweredRow, Zenon
  <2>2. CASE ~closing
    <3>1. "owner" \in Places
      BY DEF Places
    <3> QED
      BY <1>2, <2>2, <3>1, MovedRow, Zenon
  <2> QED
    BY <2>1, <2>2
<1>4. call' = [call EXCEPT ![c] = s]
  BY <1>1 DEF invoke, CallRow
<1>5. /\ call' \in [Calls -> CallRow] /\ call'[c] = s
      /\ \A d \in Calls : d # c => call'[d] = call[d]
  BY <1>1, <1>3, <1>4, CallWrite
<1> HIDE DEF s, r
<1>6. /\ call[c].at = "idle"
      /\ before' = [before EXCEPT ![c] = {d \in Calls : call[d].at \in Accepted}]
      /\ UNCHANGED <<driver, current, queue, owner, closing, closer, actorHeld, applied>>
  BY DEF invoke
<1>7. TypeOK'
  BY <1>5, <1>6 DEF IInv, TypeOK
<1>8. OutcomeHonest' /\ CallInv'
  BY <1>3, <1>5, <1>6 DEF IInv, OutcomeHonest, CallInv, Submitted, Accepted
<1>9. DriverInv' /\ OwnerInv'
  BY <1>3, <1>5, <1>6 DEF IInv, DriverInv, OwnerInv
<1>10. QueueInv' /\ ThreadInv'
  BY <1>3, <1>5, <1>6, Outside DEF Accepted
<1>11. OrderInv'
  <2> SUFFICES ASSUME NEW b \in Calls, NEW d \in before'[b]
               PROVE  /\ call'[d].at \in Accepted \cup {"done"}
                      /\ call'[b].at = "queued" /\ call'[d].at \in Accepted
                             => call'[d].epoch = call'[b].epoch
                      /\ call'[b].at = "queued" =>
                             \A i, j \in 1..Len(queue[call'[b].epoch]) :
                                 queue[call'[b].epoch][i] = d /\ queue[call'[b].epoch][j] = b
                                 => i < j
                      /\ call'[b].at = "running" => call'[d].at = "done"
    BY <1>6 DEF OrderInv
  <2>1. before \in [Calls -> SUBSET Calls]
    BY DEF IInv, TypeOK
  <2>2. CASE b = c
    BY <1>3, <1>5, <1>6, <2>1, <2>2 DEF Accepted
  <2>3. CASE b # c
    BY <1>5, <1>6, <2>1, <2>3 DEF IInv, OrderInv, Accepted
  <2> QED
    BY <2>2, <2>3
<1> QED
  BY <1>7, <1>8, <1>9, <1>10, <1>11 DEF IInv

\* A call that ends outside a connection thread, refused or dropped: it gives the
\* owner lock back, and may have opened an epoch before.
LEMMA Ended ==
    ASSUME IInv, NEW c \in Calls, NEW r \in CallRow,
           call' = [call EXCEPT ![c] = r],
           call[c].at \notin Accepted \cup {"done"},
           r.at = "done", r.epoch = call[c].epoch, r.answer \in {"none", "NotExecuted"},
           owner' = IF owner = c THEN NoCall ELSE owner,
           current' = current \/ (call[c].at = "opening" /\ current < MaxEpochs
                                    /\ current' = current + 1),
           UNCHANGED <<driver, queue, closing, closer, actorHeld, applied, before>>
    PROVE  IInv'
<1>1. call \in [Calls -> CallRow]
  BY DEF IInv, TypeOK
<1>2. /\ call' \in [Calls -> CallRow] /\ call'[c] = r
      /\ \A d \in Calls : d # c => call'[d] = call[d]
  BY <1>1, CallWrite
<1>3. current \in 1..MaxEpochs /\ current' \in 1..MaxEpochs /\ current <= current' /\ MaxEpochs \in Nat
  BY CapacityAssumption DEF IInv, TypeOK, Epochs
<1>4. TypeOK'
  BY <1>2, <1>3 DEF IInv, TypeOK, Epochs
<1>5. OutcomeHonest'
  BY <1>2 DEF IInv, OutcomeHonest, CallInv
<1>6. CallInv'
  BY <1>2, <1>3 DEF IInv, CallInv, Submitted, Accepted
<1>7. DriverInv'
  BY <1>3 DEF IInv, DriverInv, OwnerInv, Epochs
<1>8. OwnerInv'
  <2>1. NoCall \notin Calls
    BY CallAssumption
  <2> QED
    BY <1>2, <2>1 DEF IInv, OwnerInv
<1>9. QueueInv' /\ ThreadInv' /\ OrderInv'
  BY <1>2, Outside DEF Accepted
<1> QED
  BY <1>4, <1>5, <1>6, <1>7, <1>8, <1>9 DEF IInv

\* The same for a call that is answered NotExecuted.
LEMMA Rejected ==
    ASSUME IInv, NEW c \in Calls, Reject(c),
           call[c].at \notin Accepted \cup {"done"},
           owner' = IF owner = c THEN NoCall ELSE owner,
           current' = current \/ (call[c].at = "opening" /\ current < MaxEpochs
                                    /\ current' = current + 1),
           UNCHANGED <<driver, queue, closing, closer, actorHeld, applied, before>>
    PROVE  IInv'
<1> DEFINE r == Answered(call[c], "NotExecuted")
<1>1. call[c] \in CallRow /\ "NotExecuted" \in Answers /\ call \in [Calls -> CallRow]
  BY DEF IInv, TypeOK, Answers, Outcomes
<1>2. r \in CallRow /\ r.at = "done" /\ r.epoch = call[c].epoch /\ r.answer \in {"none", "NotExecuted"}
  BY <1>1, AnsweredRow
<1>3. call' = [call EXCEPT ![c] = r]
  BY <1>1 DEF Reject
<1> HIDE DEF r
<1> QED
  BY <1>2, <1>3, Ended, Zenon

\* A call that goes on to the next permit.
LEMMA Permitted ==
    ASSUME IInv, NEW c \in Calls, NEW p \in {"shared", "admitting"},
           call[c].at \in {"permit", "shared"}, MoveTo(c, p),
           UNCHANGED <<driver, current, queue, owner, closing, closer, actorHeld,
                       applied, before>>
    PROVE  IInv'
<1> DEFINE r == [call[c] EXCEPT !.at = p]
<1>1. call[c] \in CallRow /\ p \in Places /\ call \in [Calls -> CallRow]
  BY DEF IInv, TypeOK, Places
<1>2. /\ r \in CallRow /\ r.at = p /\ r.kind = call[c].kind /\ r.epoch = call[c].epoch
      /\ r.answer = call[c].answer
  BY <1>1, MovedRow
<1>3. call' = [call EXCEPT ![c] = r]
  BY <1>1 DEF MoveTo
<1> HIDE DEF r
<1>4. /\ call' \in [Calls -> CallRow] /\ call'[c] = r
      /\ \A d \in Calls : d # c => call'[d] = call[d]
  BY <1>1, <1>2, <1>3, CallWrite
<1>5. TypeOK'
  BY <1>4 DEF IInv, TypeOK
<1>6. OutcomeHonest' /\ CallInv'
  BY <1>2, <1>4 DEF IInv, OutcomeHonest, CallInv, Submitted, Accepted
<1>7. DriverInv' /\ OwnerInv'
  BY <1>2, <1>4 DEF IInv, DriverInv, OwnerInv
<1>8. QueueInv' /\ ThreadInv' /\ OrderInv'
  BY <1>2, <1>4, Outside DEF Accepted
<1> QED
  BY <1>5, <1>6, <1>7, <1>8 DEF IInv

\* A call that is given the current epoch, perhaps one that it has opened.
LEMMA Bound ==
    ASSUME IInv, NEW c \in Calls,
           call' = [call EXCEPT ![c].at = "permit", ![c].epoch = current'],
           \/ call[c].at = "owner" /\ owner = NoCall /\ current' = current
           \/ call[c].at = "opening" /\ current < MaxEpochs /\ current' = current + 1,
           owner' = NoCall,
           UNCHANGED <<driver, queue, closing, closer, actorHeld, applied, before>>
    PROVE  IInv'
<1> DEFINE r == [call[c] EXCEPT !.at = "permit", !.epoch = current']
<1>1. call[c] \in CallRow /\ call \in [Calls -> CallRow]
  BY DEF IInv, TypeOK
<1>2. current \in 1..MaxEpochs /\ current' \in 1..MaxEpochs /\ current <= current' /\ MaxEpochs \in Nat
  BY CapacityAssumption DEF IInv, TypeOK, Epochs
<1>3. /\ r \in CallRow /\ r.at = "permit" /\ r.kind = call[c].kind /\ r.epoch = current'
      /\ r.answer = call[c].answer
  <2>1. current' \in 0..MaxEpochs /\ "permit" \in Places
    BY <1>2 DEF Places
  <2> QED
    BY <1>1, <2>1, Zenon DEF CallRow
<1>4. call' = [call EXCEPT ![c] = r]
  BY <1>1, Zenon
<1> HIDE DEF r
<1>5. /\ call' \in [Calls -> CallRow] /\ call'[c] = r
      /\ \A d \in Calls : d # c => call'[d] = call[d]
  BY <1>1, <1>3, <1>4, CallWrite
<1>6. TypeOK'
  BY <1>2, <1>5 DEF IInv, TypeOK, Epochs
<1>7. OutcomeHonest' /\ CallInv'
  BY <1>2, <1>3, <1>5 DEF IInv, OutcomeHonest, CallInv, Submitted, Accepted
<1>8. DriverInv'
  BY <1>2 DEF IInv, DriverInv, OwnerInv, Epochs
<1>9. OwnerInv'
  <2>1. NoCall \notin Calls
    BY CallAssumption
  <2> QED
    BY <1>3, <1>5, <2>1 DEF IInv, OwnerInv
<1>10. QueueInv' /\ ThreadInv' /\ OrderInv'
  <2>1. call[c].answer = "none"
    BY DEF IInv, CallInv
  <2> QED
    BY <1>3, <1>5, <2>1, Outside DEF Accepted
<1> QED
  BY <1>6, <1>7, <1>8, <1>9, <1>10 DEF IInv

\* A call takes the owner lock: it is refused, keeps the epoch, or begins to
\* replace it.
LEMMA LockOwnerStep ==
    ASSUME IInv, NEW c \in Calls, lock_owner(c)
    PROVE  IInv'
<1>1. /\ call[c].at = "owner" /\ owner = NoCall
      /\ UNCHANGED <<current, queue, closing, closer, actorHeld, applied, before>>
  BY DEF lock_owner
<1>2. NoCall # c
  BY CallAssumption
<1>3. CASE closing /\ Reject(c) /\ UNCHANGED <<driver, owner>>
  BY <1>1, <1>2, <1>3, Rejected DEF Accepted
<1>4. CASE /\ call' = [call EXCEPT ![c].at = "permit", ![c].epoch = current]
           /\ UNCHANGED <<driver, owner>>
  <2>1. call' = [call EXCEPT ![c].at = "permit", ![c].epoch = current']
    BY <1>1, <1>4
  <2> QED
    BY <1>1, <1>4, <2>1, Bound, Zenon
<1>5. CASE /\ ~closing /\ driver' = [driver EXCEPT ![current] = BeginClose(@)]
           /\ owner' = c /\ MoveTo(c, "draining")
  <2> DEFINE r == [call[c] EXCEPT !.at = "draining"]
             b == BeginClose(driver[current])
  <2>1. /\ call[c] \in CallRow /\ "draining" \in Places /\ call \in [Calls -> CallRow]
        /\ current \in Epochs /\ driver[current] \in DriverRow /\ driver \in [Epochs -> DriverRow]
    BY DEF IInv, TypeOK, Places
  <2>2. /\ r \in CallRow /\ r.at = "draining" /\ r.kind = call[c].kind
        /\ r.epoch = call[c].epoch /\ r.answer = call[c].answer
    BY <2>1, MovedRow
  <2>3. /\ b \in DriverRow /\ b.closing /\ ~b.accepting /\ b.healthy = driver[current].healthy
        /\ b.closed = driver[current].closed
    BY <2>1, ClosingRow
  <2>4. call' = [call EXCEPT ![c] = r] /\ driver' = [driver EXCEPT ![current] = b]
    BY <1>5, <2>1 DEF MoveTo
  <2> HIDE DEF r, b
  <2>5. /\ call' \in [Calls -> CallRow] /\ call'[c] = r
        /\ \A d \in Calls : d # c => call'[d] = call[d]
    BY <2>1, <2>2, <2>4, CallWrite
  <2>6. /\ driver' \in [Epochs -> DriverRow] /\ driver'[current] = b
        /\ \A f \in Epochs : f # current => driver'[f] = driver[f]
    BY <2>1, <2>3, <2>4, DriverWrite
  <2>7. TypeOK'
    BY <1>1, <1>5, <2>5, <2>6 DEF IInv, TypeOK
  <2>8. OutcomeHonest' /\ CallInv'
    BY <1>1, <2>2, <2>5 DEF IInv, OutcomeHonest, CallInv, Submitted, Accepted
  <2>9. DriverInv'
    BY <1>1, <2>3, <2>6 DEF IInv, DriverInv
  <2>10. OwnerInv'
    <3>1. closer = "none" /\ \A d \in Calls : call[d].at \notin {"draining", "opening"}
      BY <1>1, <1>5, CallAssumption DEF IInv, OwnerInv
    <3> QED
      BY <1>1, <1>2, <1>5, <2>2, <2>5, <3>1 DEF IInv, OwnerInv
  <2>11. QueueInv' /\ ThreadInv' /\ OrderInv'
    <3>1. \A e \in Epochs : /\ driver'[e].closed = driver[e].closed
                            /\ driver'[e].healthy = driver[e].healthy
      BY <2>3, <2>6
    <3> QED
      BY <1>1, <2>2, <2>5, <3>1, Outside DEF Accepted
  <2> QED
    BY <2>7, <2>8, <2>9, <2>10, <2>11 DEF IInv
<1> QED
  BY <1>3, <1>4, <1>5 DEF lock_owner

\* The drain of the old epoch ends, or fails and the call is refused.
LEMMA FinishDrainStep ==
    ASSUME IInv, NEW c \in Calls, finish_drain(c)
    PROVE  IInv'
<1>1. /\ call[c].at = "draining" /\ driver[current].closed # "no" /\ owner = c
      /\ UNCHANGED <<driver, current, queue, closing, closer, actorHeld, applied, before>>
  BY DEF finish_drain, Drained, IInv, OwnerInv
<1>2. CASE Reject(c) /\ owner' = NoCall
  BY <1>1, <1>2, Rejected DEF Accepted
<1>3. CASE MoveTo(c, "opening") /\ UNCHANGED owner
  <2> DEFINE r == [call[c] EXCEPT !.at = "opening"]
  <2>1. call[c] \in CallRow /\ "opening" \in Places /\ call \in [Calls -> CallRow]
    BY DEF IInv, TypeOK, Places
  <2>2. /\ r \in CallRow /\ r.at = "opening" /\ r.kind = call[c].kind
        /\ r.epoch = call[c].epoch /\ r.answer = call[c].answer
    BY <2>1, MovedRow
  <2>3. call' = [call EXCEPT ![c] = r]
    BY <1>3, <2>1 DEF MoveTo
  <2> HIDE DEF r
  <2>4. /\ call' \in [Calls -> CallRow] /\ call'[c] = r
        /\ \A d \in Calls : d # c => call'[d] = call[d]
    BY <2>1, <2>2, <2>3, CallWrite
  <2>5. TypeOK'
    BY <1>1, <1>3, <2>4 DEF IInv, TypeOK
  <2>6. OutcomeHonest' /\ CallInv'
    BY <1>1, <2>2, <2>4 DEF IInv, OutcomeHonest, CallInv, Submitted, Accepted
  <2>7. DriverInv' /\ OwnerInv'
    BY <1>1, <1>3, <2>2, <2>4 DEF IInv, DriverInv, OwnerInv
  <2>8. QueueInv' /\ ThreadInv' /\ OrderInv'
    BY <1>1, <2>2, <2>4, Outside DEF Accepted
  <2> QED
    BY <2>5, <2>6, <2>7, <2>8 DEF IInv
<1> QED
  BY <1>2, <1>3 DEF finish_drain

\* The replacement opens, or fails and the call is refused.
LEMMA OpenEpochStep ==
    ASSUME IInv, NEW c \in Calls, open_epoch(c)
    PROVE  IInv'
<1>1. /\ call[c].at = "opening" /\ owner = c /\ owner' = NoCall
      /\ UNCHANGED <<driver, queue, closing, closer, actorHeld, applied, before>>
  BY DEF open_epoch, IInv, OwnerInv
<1>2. CASE Reject(c) /\ UNCHANGED current
  BY <1>1, <1>2, Rejected DEF Accepted
<1>3. CASE current < MaxEpochs /\ current' = current + 1 /\ Reject(c)
  BY <1>1, <1>3, Rejected DEF Accepted
<1>4. CASE /\ current < MaxEpochs /\ current' = current + 1
           /\ call' = [call EXCEPT ![c].at = "permit", ![c].epoch = current']
  BY <1>1, <1>4, Bound, Zenon
<1> QED
  BY <1>2, <1>3, <1>4 DEF open_epoch

\* A permit of the store or of the process is acquired.
LEMMA AcquireStep ==
    ASSUME IInv, NEW c \in Calls, acquire_local(c) \/ acquire_shared(c)
    PROVE  IInv'
<1>1. /\ call[c].at \in {"permit", "shared"} /\ owner # c
      /\ UNCHANGED <<driver, current, queue, owner, closing, closer, actorHeld, applied, before>>
  BY DEF acquire_local, acquire_shared, IInv, OwnerInv
<1>2. CASE Reject(c)
  BY <1>1, <1>2, Rejected DEF Accepted
<1>3. CASE MoveTo(c, "shared") \/ MoveTo(c, "admitting")
  BY <1>1, <1>3, Permitted
<1> QED
  BY <1>2, <1>3 DEF acquire_local, acquire_shared

\* A closure is queued on the epoch its call is bound to, or the call is refused
\* because the epoch has stopped accepting.
LEMMA AdmitStep ==
    ASSUME IInv, NEW c \in Calls, admit(c)
    PROVE  IInv'
<1> DEFINE e == call[c].epoch
           r == [call[c] EXCEPT !.at = "queued"]
           q == queue[e]
<1>1. /\ call[c].at = "admitting" /\ owner # c
      /\ UNCHANGED <<driver, current, owner, closing, closer, actorHeld, applied, before>>
  BY DEF admit, IInv, OwnerInv
<1>2. CASE Reject(c) /\ UNCHANGED queue
  BY <1>1, <1>2, Rejected DEF Accepted
<1>3. CASE /\ Admissible(driver[e]) /\ MoveTo(c, "queued")
           /\ queue' = [queue EXCEPT ![e] = Append(@, c)]
  <2>1. call[c] \in CallRow /\ "queued" \in Places /\ call \in [Calls -> CallRow]
    BY DEF IInv, TypeOK, Places, Accepted
  <2>2. /\ r \in CallRow /\ r.at = "queued" /\ r.kind = call[c].kind
        /\ r.epoch = e /\ r.answer = call[c].answer
    BY <2>1, MovedRow
  <2>3. call' = [call EXCEPT ![c] = r]
    BY <1>3, <2>1 DEF MoveTo
  <2> HIDE DEF r
  <2>4. /\ call' \in [Calls -> CallRow] /\ call'[c] = r
        /\ \A d \in Calls : d # c => call'[d] = call[d]
    BY <2>1, <2>2, <2>3, CallWrite
  \* An epoch that admits is open, hence the current one.
  <2>5. e \in Epochs /\ e = current /\ driver[e].closed = "no"
    <3>1. e \in Epochs /\ e <= current /\ current \in Nat /\ e \in Nat
      BY <1>1, KnownEpoch, CapacityAssumption DEF Submitted, IInv, TypeOK, Epochs
    <3>2. driver[e].closed = "no"
      BY <1>3, <3>1 DEF Admissible, IInv, DriverInv
    <3> QED
      BY <3>1, <3>2 DEF IInv, DriverInv
  <2>6. q \in Seq(Calls) /\ queue \in [Epochs -> Seq(Calls)]
    BY <2>5 DEF IInv, TypeOK
  <2>7. /\ queue' \in [Epochs -> Seq(Calls)]
        /\ \A f \in Epochs : f # e => queue'[f] = queue[f]
        /\ queue'[e] = Append(q, c)
    BY <1>3, <2>5, <2>6
  <2>8. /\ Len(q) \in Nat /\ Len(queue'[e]) = Len(q) + 1
        /\ queue'[e][Len(q) + 1] = c
        /\ \A i \in 1..Len(q) : queue'[e][i] = q[i] /\ q[i] \in Calls
    BY <2>6, <2>7
  <2> HIDE DEF e, q
  <2>9. TypeOK'
    BY <1>1, <2>4, <2>7 DEF IInv, TypeOK
  <2>10. OutcomeHonest'
    BY <1>1, <2>2, <2>4 DEF IInv, OutcomeHonest
  <2>11. CallInv'
    BY <1>1, <2>2, <2>4 DEF IInv, CallInv, Submitted, Accepted, e
  <2>12. DriverInv' /\ OwnerInv'
    BY <1>1, <2>2, <2>4 DEF IInv, DriverInv, OwnerInv
  <2>13. QueueInv'
    <3> SUFFICES ASSUME NEW f \in Epochs
                 PROVE  /\ \A i \in 1..Len(queue'[f]) : /\ call'[queue'[f][i]].at = "queued"
                                                       /\ call'[queue'[f][i]].epoch = f
                        /\ \A i, j \in 1..Len(queue'[f]) : queue'[f][i] = queue'[f][j] => i = j
                        /\ \A d \in Calls : call'[d].at = "queued" /\ call'[d].epoch = f =>
                               \E i \in 1..Len(queue'[f]) : queue'[f][i] = d
      BY DEF QueueInv
    <3>1. CASE f = e
      <4>1. \A i \in 1..Len(q) : /\ call[q[i]].at = "queued" /\ call[q[i]].epoch = e
                                 /\ q[i] # c
        BY <1>1, <2>5 DEF IInv, QueueInv, q
      <4>2. \A i \in 1..Len(queue'[e]) : i \in 1..Len(q) \/ i = Len(q) + 1
        BY <2>8
      <4>3. \A i \in 1..Len(queue'[e]) : /\ call'[queue'[e][i]].at = "queued"
                                         /\ call'[queue'[e][i]].epoch = e
        BY <2>2, <2>4, <2>8, <4>1, <4>2
      <4>4. \A i, j \in 1..Len(queue'[e]) : queue'[e][i] = queue'[e][j] => i = j
        BY <2>5, <2>8, <4>1, <4>2 DEF IInv, QueueInv, q
      <4>5. ASSUME NEW d \in Calls, call'[d].at = "queued", call'[d].epoch = e
            PROVE  \E i \in 1..Len(queue'[e]) : queue'[e][i] = d
        <5>1. CASE d = c
          BY <2>8, <5>1
        <5>2. CASE d # c
          <6>1. PICK i \in 1..Len(q) : q[i] = d
            BY <2>4, <2>5, <4>5, <5>2 DEF IInv, QueueInv, q
          <6> QED
            BY <2>8, <6>1
        <5> QED
          BY <5>1, <5>2
      <4> QED
        BY <3>1, <4>3, <4>4, <4>5
    <3>2. CASE f # e
      <4>1. queue'[f] = queue[f] /\ \A i \in 1..Len(queue[f]) : queue[f][i] \in Calls
        BY <2>6, <2>7, <3>2
      <4> QED
        BY <1>1, <2>2, <2>4, <3>2, <4>1 DEF IInv, QueueInv
    <3> QED
      BY <3>1, <3>2
  <2>14. ThreadInv'
    BY <1>1, <2>2, <2>4, <2>5 DEF IInv, ThreadInv, Accepted, CallInv
  <2>15. OrderInv'
    <3> SUFFICES ASSUME NEW b \in Calls, NEW d \in before[b]
                 PROVE  /\ call'[d].at \in Accepted \cup {"done"}
                        /\ call'[b].at = "queued" /\ call'[d].at \in Accepted
                               => call'[d].epoch = call'[b].epoch
                        /\ call'[b].at = "queued" =>
                               \A i, j \in 1..Len(queue'[call'[b].epoch]) :
                                   /\ queue'[call'[b].epoch][i] = d
                                   /\ queue'[call'[b].epoch][j] = b
                                   => i < j
                        /\ call'[b].at = "running" => call'[d].at = "done"
      BY <1>1 DEF OrderInv
    <3>1. d \in Calls /\ d # c /\ call'[d] = call[d] /\ call[d].at \in Accepted \cup {"done"}
      BY <1>1, <2>4 DEF IInv, TypeOK, OrderInv, Accepted
    <3>2. \A i \in 1..Len(queue'[e]) : i \in 1..Len(q) \/ i = Len(q) + 1
      BY <2>8
    <3>3. \A i \in 1..Len(q) : q[i] # c
      BY <1>1, <2>5 DEF IInv, QueueInv, q
    <3>4. CASE b = c
      <4>1. call[d].at \in Accepted => call[d].epoch = e
        BY <2>5, <3>1, KnownEpoch
      <4>2. \A i, j \in 1..Len(queue'[e]) : queue'[e][i] = d /\ queue'[e][j] = c => i < j
        BY <2>8, <3>1, <3>2, <3>3
      <4> QED
        BY <2>2, <2>4, <3>1, <3>4, <4>1, <4>2
    <3>5. CASE b # c
      <4>1. call'[b] = call[b]
        BY <2>4, <3>5
      <4>2. CASE call[b].at = "queued" /\ call[b].epoch = e
        <5>1. /\ \A i, j \in 1..Len(q) : q[i] = d /\ q[j] = b => i < j
              /\ call[d].at \in Accepted => call[d].epoch = e
          BY <4>2 DEF IInv, OrderInv, q
        <5>2. \A i, j \in 1..Len(queue'[e]) : queue'[e][i] = d /\ queue'[e][j] = b => i < j
          BY <2>8, <3>1, <3>2, <3>5, <5>1
        <5> QED
          BY <3>1, <4>1, <4>2, <5>1, <5>2
      <4>3. CASE call[b].at = "queued" /\ call[b].epoch # e
        <5>1. call[b].epoch \in Epochs
          BY <4>3, KnownEpoch DEF Accepted
        <5> QED
          BY <2>7, <3>1, <4>1, <4>3, <5>1 DEF IInv, OrderInv
      <4>4. CASE call[b].at # "queued"
        BY <3>1, <4>1, <4>4 DEF IInv, OrderInv
      <4> QED
        BY <4>2, <4>3, <4>4
    <3> QED
      BY <3>4, <3>5
  <2> QED
    BY <2>9, <2>10, <2>11, <2>12, <2>13, <2>14, <2>15 DEF IInv
<1> QED
  BY <1>2, <1>3 DEF admit

\* A caller goes away: before admission its call ends, afterwards the closure goes
\* on without it.
LEMMA AbandonStep ==
    ASSUME IInv, NEW c \in Calls, abandon(c)
    PROVE  IInv'
<1> DEFINE r == [call[c] EXCEPT !.waiter = FALSE,
                                !.at = IF @ \in Accepted THEN @ ELSE "done"]
<1>1. call[c] \in CallRow /\ call \in [Calls -> CallRow] /\ "done" \in Places
  BY DEF IInv, TypeOK, Places
<1>2. /\ r \in CallRow /\ r.kind = call[c].kind /\ r.epoch = call[c].epoch
      /\ r.answer = call[c].answer /\ ~r.waiter
      /\ r.at = IF call[c].at \in Accepted THEN call[c].at ELSE "done"
  BY <1>1, Zenon DEF CallRow
<1>3. call' = [call EXCEPT ![c] = r]
  BY <1>1, Zenon DEF abandon
<1>4. /\ owner' = IF owner = c THEN NoCall ELSE owner
      /\ UNCHANGED <<driver, current, queue, closing, closer, actorHeld, applied, before>>
  BY DEF abandon
<1> HIDE DEF r
<1>5. CASE call[c].at \notin Accepted \cup {"done"}
  <2>1. call[c].answer = "none"
    BY <1>5 DEF IInv, CallInv
  <2> QED
    BY <1>2, <1>3, <1>4, <1>5, <2>1, Ended, Zenon
<1>6. CASE call[c].at \in Accepted \cup {"done"}
  <2>1. /\ call' \in [Calls -> CallRow] /\ call'[c] = r
        /\ \A d \in Calls : d # c => call'[d] = call[d]
    BY <1>1, <1>2, <1>3, CallWrite
  <2>2. owner' = owner
    BY <1>4, <1>6 DEF Accepted, IInv, OwnerInv
  <2>3. TypeOK'
    BY <1>4, <2>1, <2>2 DEF IInv, TypeOK
  <2>4. OutcomeHonest' /\ CallInv'
    BY <1>2, <1>4, <1>6, <2>1 DEF IInv, OutcomeHonest, CallInv, Submitted, Accepted
  <2>5. DriverInv' /\ OwnerInv'
    BY <1>2, <1>4, <1>6, <2>1, <2>2 DEF IInv, DriverInv, OwnerInv
  <2>6. QueueInv' /\ ThreadInv' /\ OrderInv'
    BY <1>2, <1>4, <1>6, <2>1, NobodyMoves
  <2> QED
    BY <2>3, <2>4, <2>5, <2>6 DEF IInv
<1> QED
  BY <1>5, <1>6

\* The head of a queue is a queued call of that epoch.
LEMMA QueueHead ==
    ASSUME IInv, NEW e \in Epochs, queue[e] # <<>>
    PROVE  /\ Head(queue[e]) \in Calls
           /\ call[Head(queue[e])].at = "queued" /\ call[Head(queue[e])].epoch = e
           /\ call[Head(queue[e])].answer = "none"
           /\ call[Head(queue[e])] \in CallRow /\ call \in [Calls -> CallRow]
           /\ driver[e] \in DriverRow /\ driver \in [Epochs -> DriverRow]
<1>1. queue[e] \in Seq(Calls) /\ call \in [Calls -> CallRow] /\ driver \in [Epochs -> DriverRow]
  BY DEF IInv, TypeOK
<1>2. 1 \in 1..Len(queue[e]) /\ Head(queue[e]) = queue[e][1] /\ Head(queue[e]) \in Calls
  BY <1>1
<1>3. call[queue[e][1]].at = "queued" /\ call[queue[e][1]].epoch = e
  BY <1>2 DEF IInv, QueueInv
<1> QED
  BY <1>1, <1>2, <1>3 DEF IInv, CallInv

\* A call leaves the head of its queue, to run on a healthy epoch or to end
\* unexecuted, while nothing else runs there; when it ends in doubt the epoch is
\* not healthy.
HeadStep(e, r, h) ==
    /\ queue[e] # <<>> /\ \A d \in Tracked(e) : call[d].at # "running"
    /\ queue' = [queue EXCEPT ![e] = Tail(@)]
    /\ UNCHANGED <<current, owner, closing, closer, actorHeld, applied, before>>
    /\ call' = [call EXCEPT ![Head(queue[e])] = r]
    /\ driver' = [driver EXCEPT ![e] = h]
    /\ r \in CallRow /\ r.kind = call[Head(queue[e])].kind /\ r.epoch = e
    /\ r.at \in {"running", "done"}
    /\ r.answer \in {"none", "NotExecuted", "ReadOnly", "Unknown"}
    /\ r.at = "running" => r.answer = "none" /\ h.healthy
    /\ r.answer = "Unknown" => ~h.healthy
    /\ h \in DriverRow /\ h.closing = driver[e].closing
    /\ h.accepting = driver[e].accepting /\ h.closed = driver[e].closed
    /\ h.healthy => driver[e].healthy

\* What the connection thread does to the head of its queue keeps the invariant
\* (Driver::submit).
LEMMA HeadLeaves ==
    ASSUME IInv, NEW e \in Epochs, NEW r, NEW h, HeadStep(e, r, h)
    PROVE  IInv'
<1> DEFINE q == queue[e]
           c == Head(q)
<1>1. /\ q # <<>> /\ \A d \in Tracked(e) : call[d].at # "running"
      /\ queue' = [queue EXCEPT ![e] = Tail(@)]
      /\ UNCHANGED <<current, owner, closing, closer, actorHeld, applied, before>>
  BY DEF HeadStep
<1>2. q \in Seq(Calls) /\ queue \in [Epochs -> Seq(Calls)]
  BY DEF IInv, TypeOK
<1>3. /\ Len(q) \in Nat /\ Len(q) >= 1 /\ c = q[1] /\ c \in Calls
      /\ \A i \in 1..Len(q) : q[i] \in Calls
  BY <1>1, <1>2
<1>4. /\ queue' \in [Epochs -> Seq(Calls)]
      /\ \A f \in Epochs : f # e => queue'[f] = queue[f]
      /\ Len(queue'[e]) = Len(q) - 1
      /\ \A i \in 1..Len(queue'[e]) : i + 1 \in 1..Len(q) /\ queue'[e][i] = q[i + 1]
      /\ \A i \in 2..Len(q) : i - 1 \in 1..Len(queue'[e]) /\ q[i] = queue'[e][i - 1]
  BY <1>1, <1>2, <1>3
<1>5. call[c].at = "queued" /\ call[c].epoch = e
  BY <1>1, QueueHead
<1>6. call[c] \in CallRow /\ call \in [Calls -> CallRow]
  BY <1>3 DEF IInv, TypeOK
<1>7. /\ r \in CallRow /\ r.kind = call[c].kind /\ r.epoch = e
      /\ r.at \in {"running", "done"}
      /\ r.answer \in {"none", "NotExecuted", "ReadOnly", "Unknown"}
      /\ r.at = "running" => r.answer = "none" /\ h.healthy
      /\ r.answer = "Unknown" => ~h.healthy
  BY DEF HeadStep
<1>8. call' = [call EXCEPT ![c] = r]
  BY DEF HeadStep
<1>17. /\ driver \in [Epochs -> DriverRow] /\ driver' \in [Epochs -> DriverRow] /\ driver'[e] = h
       /\ \A f \in Epochs : f # e => driver'[f] = driver[f]
  <2>1. driver \in [Epochs -> DriverRow]
    BY DEF IInv, TypeOK
  <2> QED
    BY <2>1, DriverWrite DEF HeadStep
<1>18. \A f \in Epochs : /\ driver'[f].closed = driver[f].closed
                         /\ driver'[f].closing = driver[f].closing
                         /\ driver'[f].accepting = driver[f].accepting
                         /\ driver'[f].healthy => driver[f].healthy
  BY <1>17 DEF HeadStep
<1> HIDE DEF c, q
<1>9. /\ call' \in [Calls -> CallRow] /\ call'[c] = r
      /\ \A d \in Calls : d # c => call'[d] = call[d]
  BY <1>3, <1>6, <1>7, <1>8, CallWrite
<1>10. TypeOK'
  BY <1>1, <1>4, <1>9, <1>17 DEF IInv, TypeOK
<1>11. OutcomeHonest'
  BY <1>1, <1>3, <1>5, <1>7, <1>9 DEF IInv, OutcomeHonest, CallInv
<1>12. CallInv'
  BY <1>1, <1>3, <1>5, <1>7, <1>9 DEF IInv, CallInv, Submitted, Accepted
<1>13. DriverInv' /\ OwnerInv'
  <2>1. DriverInv'
    BY <1>1, <1>18 DEF IInv, DriverInv
  <2>2. driver'[current].closed = driver[current].closed
    BY <1>18 DEF IInv, TypeOK
  <2> QED
    BY <1>1, <1>3, <1>5, <1>7, <1>9, <2>1, <2>2 DEF IInv, OwnerInv
<1>14. QueueInv'
  <2> SUFFICES ASSUME NEW f \in Epochs
               PROVE  /\ \A i \in 1..Len(queue'[f]) : /\ call'[queue'[f][i]].at = "queued"
                                                     /\ call'[queue'[f][i]].epoch = f
                      /\ \A i, j \in 1..Len(queue'[f]) : queue'[f][i] = queue'[f][j] => i = j
                      /\ \A d \in Calls : call'[d].at = "queued" /\ call'[d].epoch = f =>
                             \E i \in 1..Len(queue'[f]) : queue'[f][i] = d
    BY DEF QueueInv
  <2>1. CASE f = e
    <3>1. \A i \in 1..Len(queue'[e]) : queue'[e][i] \in Calls /\ queue'[e][i] # c
      <4> SUFFICES ASSUME NEW i \in 1..Len(queue'[e])
                   PROVE  queue'[e][i] \in Calls /\ queue'[e][i] # c
        OBVIOUS
      <4>1. i + 1 \in 1..Len(q) /\ queue'[e][i] = q[i + 1] /\ 1 \in 1..Len(q) /\ i + 1 # 1
        BY <1>3, <1>4
      <4> QED
        BY <1>3, <4>1 DEF IInv, QueueInv, q
    <3>2. \A i \in 1..Len(queue'[e]) : /\ call'[queue'[e][i]].at = "queued"
                                       /\ call'[queue'[e][i]].epoch = e
      <4> SUFFICES ASSUME NEW i \in 1..Len(queue'[e])
                   PROVE  call'[queue'[e][i]].at = "queued" /\ call'[queue'[e][i]].epoch = e
        OBVIOUS
      <4>1. i + 1 \in 1..Len(q) /\ queue'[e][i] = q[i + 1]
        BY <1>4
      <4>2. call[q[i + 1]].at = "queued" /\ call[q[i + 1]].epoch = e
        BY <4>1 DEF IInv, QueueInv, q
      <4> QED
        BY <1>9, <3>1, <4>1, <4>2
    <3>3. ASSUME NEW i \in 1..Len(queue'[e]), NEW j \in 1..Len(queue'[e]),
                 queue'[e][i] = queue'[e][j]
          PROVE  i = j
      <4>1. /\ i + 1 \in 1..Len(q) /\ j + 1 \in 1..Len(q) /\ q[i + 1] = q[j + 1]
        BY <1>4, <3>3
      <4>2. i + 1 = j + 1
        BY <4>1 DEF IInv, QueueInv, q
      <4> QED
        BY <4>2
    <3>4. ASSUME NEW d \in Calls, call'[d].at = "queued", call'[d].epoch = e
          PROVE  \E i \in 1..Len(queue'[e]) : queue'[e][i] = d
      <4>1. d # c
        BY <1>7, <1>9, <3>4
      <4>2. PICK i \in 1..Len(q) : q[i] = d
        BY <1>9, <3>4, <4>1 DEF IInv, QueueInv, q
      <4>3. i \in 2..Len(q)
        BY <1>3, <4>1, <4>2
      <4> QED
        BY <1>4, <4>2, <4>3
    <3> QED
      BY <2>1, <3>2, <3>3, <3>4
  <2>2. CASE f # e
    <3>1. queue'[f] = queue[f] /\ \A i \in 1..Len(queue[f]) : queue[f][i] \in Calls
      BY <1>2, <1>4, <2>2
    <3>2. \A i \in 1..Len(queue[f]) : queue[f][i] # c
      BY <1>5, <2>2 DEF IInv, QueueInv
    <3>3. call'[c].epoch = e
      BY <1>7, <1>9
    <3> QED
      BY <1>3, <1>9, <2>2, <3>1, <3>2, <3>3 DEF IInv, QueueInv
  <2> QED
    BY <2>1, <2>2
<1>15. ThreadInv'
  <2>1. \A d \in Calls : call[d].at = "running" => call[d].epoch # e
    BY <1>1 DEF Tracked, Accepted
  <2>2. \A d \in Calls : call[d].at \in Accepted \/ call[d].answer = "Unknown"
                          => call[d].epoch \in Epochs
    BY KnownEpoch DEF Submitted
  <2>6. ThreadInv
    BY DEF IInv
  <2>3. ASSUME NEW b \in Calls, NEW d \in Calls, call'[b].at = "running",
               call'[d].at = "running", call'[b].epoch = call'[d].epoch
        PROVE  b = d
    BY <1>7, <1>9, <2>1, <2>3, <2>6 DEF ThreadInv
  <2>4. ASSUME NEW b \in Calls, call'[b].at \in Accepted
        PROVE  driver'[call'[b].epoch].closed = "no"
    <3>1. call[b].at \in Accepted /\ call'[b].epoch = call[b].epoch
      BY <1>5, <1>7, <1>9, <2>4 DEF Accepted
    <3> QED
      BY <1>18, <2>2, <2>6, <3>1 DEF ThreadInv
  <2>5. ASSUME NEW b \in Calls, NEW d \in Calls, call'[b].answer = "Unknown"
        PROVE  /\ ~driver'[call'[b].epoch].healthy
               /\ call'[d].at = "running" => call'[d].epoch # call'[b].epoch
    <3>1. ~driver'[call'[b].epoch].healthy /\ call'[b].epoch \in Epochs
      <4>1. CASE b = c
        BY <1>7, <1>9, <1>17, <2>5, <4>1
      <4>2. CASE b # c
        BY <1>9, <1>18, <2>2, <2>5, <2>6, <4>2 DEF ThreadInv
      <4> QED
        BY <4>1, <4>2
    <3>2. CASE d = c
      BY <1>7, <1>9, <1>17, <3>1, <3>2
    <3>3. CASE d # c /\ b = c
      BY <1>7, <1>9, <2>1, <3>1, <3>3
    <3>4. CASE d # c /\ b # c
      BY <1>9, <2>5, <2>6, <3>1, <3>4 DEF ThreadInv
    <3> QED
      BY <3>1, <3>2, <3>3, <3>4
  <2> QED
    BY <2>3, <2>4, <2>5 DEF ThreadInv
<1>16. OrderInv'
  <2> SUFFICES ASSUME NEW b \in Calls, NEW d \in before[b]
               PROVE  /\ call'[d].at \in Accepted \cup {"done"}
                      /\ call'[b].at = "queued" /\ call'[d].at \in Accepted
                             => call'[d].epoch = call'[b].epoch
                      /\ call'[b].at = "queued" =>
                             \A i, j \in 1..Len(queue'[call'[b].epoch]) :
                                 /\ queue'[call'[b].epoch][i] = d
                                 /\ queue'[call'[b].epoch][j] = b
                                 => i < j
                      /\ call'[b].at = "running" => call'[d].at = "done"
    BY <1>1, Zenon DEF OrderInv
  <2>1. d \in Calls /\ call[d].at \in Accepted \cup {"done"}
    BY DEF IInv, TypeOK, OrderInv
  <2>5. /\ call[b].at = "queued" /\ call[d].at \in Accepted => call[d].epoch = call[b].epoch
        /\ call[b].at = "queued" =>
               \A i, j \in 1..Len(queue[call[b].epoch]) :
                   queue[call[b].epoch][i] = d /\ queue[call[b].epoch][j] = b => i < j
        /\ call[b].at = "running" => call[d].at = "done"
    BY Zenon DEF IInv, OrderInv
  <2>6. call[b].at = "queued" /\ call[b].epoch = e =>
            \A i, j \in 1..Len(q) : q[i] = d /\ q[j] = b => i < j
    BY <2>5 DEF q
  <2>2. /\ call'[d].at \in Accepted \cup {"done"} /\ call'[d].epoch = call[d].epoch
        /\ call'[d].at \in Accepted => call[d].at \in Accepted
        /\ call[d].at = "done" => call'[d].at = "done"
    BY <1>3, <1>5, <1>7, <1>9, <2>1 DEF Accepted
  <2>3. CASE b = c
    \* What was accepted before the head of the queue is neither behind it nor running.
    <3>1. d # c
      <4>1. 1 \in 1..Len(q) /\ q[1] = c
        BY <1>3
      <4> QED
        BY <1>5, <2>3, <2>6, <4>1
    <3>2. call[d].at # "queued"
      <4> SUFFICES ASSUME call[d].at = "queued" PROVE FALSE
        OBVIOUS
      <4>1. call[d].epoch = e
        BY <1>5, <2>3, <2>5 DEF Accepted
      <4>2. PICK i \in 1..Len(q) : q[i] = d
        BY <2>1, <4>1, Zenon DEF IInv, QueueInv, q
      <4>3. 1 \in 1..Len(q) /\ q[1] = c
        BY <1>3
      <4>4. i < 1
        BY <1>5, <2>3, <2>6, <4>2, <4>3
      <4> QED
        BY <4>4
    <3>3. call[d].at # "running"
      <4> SUFFICES ASSUME call[d].at = "running" PROVE FALSE
        OBVIOUS
      <4>1. call[d].epoch = e
        BY <1>5, <2>3, <2>5 DEF Accepted
      <4> QED
        BY <1>1, <2>1, <4>1 DEF Tracked, Accepted
    <3>4. call[d].at = "done"
      BY <2>1, <3>2, <3>3 DEF Accepted
    <3> QED
      BY <1>7, <1>9, <2>2, <2>3, <3>4
  <2>4. CASE b # c
    <3>1. call'[b] = call[b]
      BY <1>9, <2>4
    <3>2. CASE call[b].at = "queued" /\ call[b].epoch = e
      <4>1. \A i, j \in 1..Len(q) : q[i] = d /\ q[j] = b => i < j
        BY <2>6, <3>2
      <4>2. ASSUME NEW i \in 1..Len(queue'[e]), NEW j \in 1..Len(queue'[e]),
                   queue'[e][i] = d, queue'[e][j] = b
            PROVE  i < j
        <5>1. /\ i + 1 \in 1..Len(q) /\ q[i + 1] = d
              /\ j + 1 \in 1..Len(q) /\ q[j + 1] = b
          BY <1>4, <4>2
        <5>2. i + 1 < j + 1
          BY <4>1, <5>1
        <5> QED
          BY <5>2
      <4> QED
        BY <2>2, <2>5, <3>1, <3>2, <4>2
    <3>3. CASE call[b].at = "queued" /\ call[b].epoch # e
      <4>1. call[b].epoch \in Epochs
        BY <3>3, KnownEpoch DEF Accepted
      <4>2. queue'[call[b].epoch] = queue[call[b].epoch]
        BY <1>4, <3>3, <4>1
      <4>3. /\ call[d].at \in Accepted => call[d].epoch = call[b].epoch
            /\ \A i, j \in 1..Len(queue[call[b].epoch]) :
                   queue[call[b].epoch][i] = d /\ queue[call[b].epoch][j] = b => i < j
        BY <2>5, <3>3
      <4> QED
        BY <2>2, <3>1, <3>3, <4>2, <4>3
    <3>4. CASE call[b].at # "queued"
      <4>1. call[b].at = "running" => call[d].at = "done"
        BY <2>5
      <4> QED
        BY <2>2, <3>1, <3>4, <4>1
    <3> QED
      BY <3>2, <3>3, <3>4
  <2> QED
    BY <2>3, <2>4
<1> QED
  BY <1>10, <1>11, <1>12, <1>13, <1>14, <1>15, <1>16 DEF IInv

\* A closure begins to run, or is answered unexecuted by a retired connection.
LEMMA StartClosureStep ==
    ASSUME IInv, NEW e \in Epochs, start_closure(e)
    PROVE  IInv'
<1> DEFINE c == Head(queue[e])
           r == IF driver[e].healthy THEN [call[c] EXCEPT !.at = "running"]
                ELSE Answered(call[c], "NotExecuted")
<1>1. /\ queue[e] # <<>> /\ \A d \in Tracked(e) : call[d].at # "running"
      /\ queue' = [queue EXCEPT ![e] = Tail(@)]
      /\ UNCHANGED <<driver, current, owner, closing, closer, actorHeld, applied, before>>
  BY DEF start_closure
<1>2. /\ c \in Calls /\ call[c].at = "queued" /\ call[c].epoch = e /\ call[c].answer = "none"
      /\ call[c] \in CallRow /\ call \in [Calls -> CallRow]
      /\ driver[e] \in DriverRow /\ driver \in [Epochs -> DriverRow]
  BY <1>1, QueueHead
<1>3. /\ r \in CallRow /\ r.kind = call[c].kind /\ r.epoch = e
      /\ r.at \in {"running", "done"} /\ r.answer \in {"none", "NotExecuted"}
      /\ r.at = "running" => r.answer = "none" /\ driver[e].healthy
  <2>1. "running" \in Places /\ "NotExecuted" \in Answers
    BY DEF Places, Accepted, Answers, Outcomes
  <2>2. CASE driver[e].healthy
    BY <1>2, <2>1, <2>2, MovedRow
  <2>3. CASE ~driver[e].healthy
    BY <1>2, <2>1, <2>3, AnsweredRow
  <2> QED
    BY <2>2, <2>3
<1>4. call' = [call EXCEPT ![c] = r]
  BY <1>2 DEF start_closure, MoveTo, Reject
<1>5. driver' = [driver EXCEPT ![e] = driver[e]]
  BY <1>1, <1>2
<1> HIDE DEF r
<1> QED
  BY <1>1, <1>2, <1>3, <1>4, <1>5, HeadLeaves DEF HeadStep

\* Without a thread the call at the head of the queue is answered as in doubt, and
\* its caller retires the epoch.
LEMMA ReplyUnavailableStep ==
    ASSUME IInv, NEW e \in Epochs, reply_unavailable(e)
    PROVE  IInv'
<1> DEFINE c == Head(queue[e])
           a == OutcomeOf(call[c].kind, "lost")
           r == Answered(call[c], a)
           h == [driver[e] EXCEPT !.healthy = @ /\ ~call[c].waiter]
<1>1. /\ queue[e] # <<>> /\ \A d \in Tracked(e) : call[d].at # "running"
      /\ queue' = [queue EXCEPT ![e] = Tail(@)]
      /\ UNCHANGED <<current, owner, closing, closer, actorHeld, applied, before>>
  BY DEF reply_unavailable
<1>2. /\ c \in Calls /\ call[c].at = "queued" /\ call[c].epoch = e /\ call[c].answer = "none"
      /\ call[c] \in CallRow /\ call \in [Calls -> CallRow]
      /\ driver[e] \in DriverRow /\ driver \in [Epochs -> DriverRow]
  BY <1>1, QueueHead
<1>3. a \in {"ReadOnly", "Unknown"} /\ a \in Answers
  BY DEF OutcomeOf, Observed, Answers, Outcomes
<1>4. /\ r \in CallRow /\ r.kind = call[c].kind /\ r.epoch = e /\ r.at = "done"
      /\ r.answer \in {"none", a} /\ (r.answer # "none" => call[c].waiter)
  BY <1>2, <1>3, AnsweredRow
<1>5. /\ h \in DriverRow /\ h.closing = driver[e].closing /\ h.accepting = driver[e].accepting
      /\ h.closed = driver[e].closed /\ (h.healthy => driver[e].healthy /\ ~call[c].waiter)
  BY <1>2, Zenon DEF DriverRow, CallRow
<1>6. call' = [call EXCEPT ![c] = r] /\ driver' = [driver EXCEPT ![e] = h]
  BY <1>2 DEF reply_unavailable
<1> HIDE DEF r, h, a
<1> QED
  BY <1>1, <1>2, <1>3, <1>4, <1>5, <1>6, HeadLeaves DEF HeadStep

\* What a closure answers, by how it ended: the answer does not misstate the
\* effect, and an Unknown comes with an unhealthy connection.
LEMMA EndHonest ==
    ASSUME NEW kind \in {"read", "write", "reclaim"}, NEW end \in Ends(kind),
           NEW effect \in Effects(kind, end), NEW restored \in BOOLEAN,
           NEW a, a = IF end = "done" THEN "Ok" ELSE OutcomeOf(kind, end)
    PROVE  /\ a \in Answers
           /\ a = "Ok" /\ kind # "read" => effect
           /\ a = "Committed" => effect
           /\ a \in {"NotExecuted", "RolledBack", "ReadOnly"} => ~effect
           /\ a = "Unknown" => ~Healthy(kind, end, restored)
<1>1. CASE kind = "read"
  BY <1>1 DEF Ends, Effects, OutcomeOf, Answers, Outcomes
<1>2. CASE kind # "read"
  <2>1. end \in WriteEnds \cup {"sync_failed", "lost"}
    BY <1>2 DEF Ends
  <2>2. /\ Observed(end) \in Outcomes
        /\ Observed(end) = "Committed" => end \in {"done", "panic_late"}
        /\ Observed(end) \in {"NotExecuted", "RolledBack", "ReadOnly"} =>
              end \in {"sync_failed", "begin_failed", "panic_early", "write_failed"}
    BY <2>1 DEF Observed, WriteEnds, Panics, Outcomes
  <2>3. /\ end \in {"done", "panic_late"} => effect
        /\ end \in {"sync_failed", "begin_failed", "panic_early", "write_failed",
                     "panic_in_write"} => ~effect
    BY <1>2, Zenon DEF Effects
  <2>4. OutcomeOf(kind, end) = IF end = "panic_in_write" THEN "RolledBack" ELSE Observed(end)
    BY <1>2 DEF OutcomeOf
  <2>5. a = "Unknown" => OutcomeOf(kind, end) = "Unknown"
    OBVIOUS
  <2> QED
    BY <1>2, <2>2, <2>3, <2>4, <2>5 DEF Answers, Outcomes, Healthy
<1> QED
  BY <1>1, <1>2

\* How a running closure ends (the body of finish_closure).
EndsAs(e, c, end, effect, restored) ==
    /\ effect \in Effects(call[c].kind, end)
    /\ call[c].kind # "reclaim" => restored
    /\ call' = [call EXCEPT ![c] =
                  Answered(@, IF end = "done" THEN "Ok"
                                              ELSE OutcomeOf(@.kind, end))]
    /\ applied' = IF effect THEN applied \cup {c} ELSE applied
    /\ driver' = [driver EXCEPT
           ![e].healthy = @ /\ (\/ Healthy(call[c].kind, end, restored)
                                \/ end = "lost" /\ ~call[c].waiter),
           ![e].lost = (end = "lost")]

\* A closure ends: its answer, its effect and the health of the epoch agree.
LEMMA FinishClosureStep ==
    ASSUME IInv, NEW e \in Epochs, finish_closure(e)
    PROVE  IInv'
<1>1. PICK c \in Tracked(e) :
        /\ call[c].at = "running"
        /\ \E end \in Ends(call[c].kind), effect \in BOOLEAN, restored \in BOOLEAN :
             EndsAs(e, c, end, effect, restored)
        /\ UNCHANGED <<current, queue, owner, closing, closer, actorHeld, before>>
  BY Zenon DEF finish_closure, EndsAs
<1>2. PICK end \in Ends(call[c].kind), effect \in BOOLEAN, restored \in BOOLEAN :
             EndsAs(e, c, end, effect, restored)
  BY <1>1, Zenon
<1>21. /\ effect \in Effects(call[c].kind, end)
       /\ call' = [call EXCEPT ![c] =
                     Answered(@, IF end = "done" THEN "Ok" ELSE OutcomeOf(@.kind, end))]
       /\ applied' = IF effect THEN applied \cup {c} ELSE applied
       /\ driver' = [driver EXCEPT
              ![e].healthy = @ /\ (\/ Healthy(call[c].kind, end, restored)
                                   \/ end = "lost" /\ ~call[c].waiter),
              ![e].lost = (end = "lost")]
  BY <1>2, Zenon DEF EndsAs
<1>22. /\ call[c].at = "running"
       /\ UNCHANGED <<current, queue, owner, closing, closer, actorHeld, before>>
  BY <1>1
<1> DEFINE kind == call[c].kind
           a == IF end = "done" THEN "Ok" ELSE OutcomeOf(kind, end)
           r == Answered(call[c], a)
           kept == Healthy(kind, end, restored) \/ (end = "lost" /\ ~call[c].waiter)
           h == [driver[e] EXCEPT !.healthy = @ /\ kept, !.lost = (end = "lost")]
<1>3. /\ c \in Calls /\ call[c].epoch = e /\ call[c] \in CallRow /\ call \in [Calls -> CallRow]
      /\ driver[e] \in DriverRow /\ driver \in [Epochs -> DriverRow]
  BY DEF Tracked, IInv, TypeOK
<1>4. kind \in {"read", "write", "reclaim"} /\ c \notin applied /\ call[c].answer = "none"
  BY <1>22, <1>3, CallAssumption DEF IInv, CallInv
<1>5. /\ a \in Answers
      /\ a = "Ok" /\ kind # "read" => effect
      /\ a = "Committed" => effect
      /\ a \in {"NotExecuted", "RolledBack", "ReadOnly"} => ~effect
      /\ a = "Unknown" => ~Healthy(kind, end, restored)
  BY <1>21, <1>4, EndHonest
<1>6. /\ r \in CallRow /\ r.at = "done" /\ r.kind = kind /\ r.epoch = e /\ r.answer \in {a, "none"}
      /\ r.answer # "none" => call[c].waiter
  BY <1>3, <1>5, AnsweredRow
<1>7. call' = [call EXCEPT ![c] = r]
  BY <1>21, <1>3
<1>8. /\ h \in DriverRow /\ h.closing = driver[e].closing /\ h.accepting = driver[e].accepting
      /\ h.closed = driver[e].closed
      /\ h.healthy => driver[e].healthy
      /\ h.healthy => Healthy(kind, end, restored) \/ ~call[c].waiter
  <2>1. kept \in BOOLEAN /\ (end = "lost") \in BOOLEAN
    BY <1>3, Zenon DEF Healthy, CallRow
  <2> HIDE DEF kept
  <2>2. /\ h \in DriverRow /\ h.closing = driver[e].closing /\ h.accepting = driver[e].accepting
        /\ h.closed = driver[e].closed /\ h.healthy = (driver[e].healthy /\ kept)
    BY <1>3, <2>1, Zenon DEF DriverRow
  <2> QED
    BY <2>2, Zenon DEF kept
<1>9. driver' = [driver EXCEPT ![e] = h]
  BY <1>21, <1>3
<1> HIDE DEF a, r, h, kept, kind
<1>10. /\ call' \in [Calls -> CallRow] /\ call'[c] = r
       /\ \A d \in Calls : d # c => call'[d] = call[d]
  BY <1>3, <1>6, <1>7, CallWrite
<1>11. /\ driver' \in [Epochs -> DriverRow] /\ driver'[e] = h
       /\ \A f \in Epochs : f # e => driver'[f] = driver[f]
  BY <1>3, <1>8, <1>9, DriverWrite
<1>12. /\ applied' \in SUBSET Calls /\ (c \in applied' <=> effect)
       /\ \A d \in Calls : d # c => (d \in applied' <=> d \in applied)
  BY <1>21, <1>3, <1>4 DEF IInv, TypeOK
<1>13. TypeOK'
  BY <1>22, <1>10, <1>11, <1>12 DEF IInv, TypeOK
<1>14. OutcomeHonest'
  BY <1>5, <1>6, <1>10, <1>12 DEF IInv, OutcomeHonest
<1>15. CallInv'
  BY <1>22, <1>3, <1>6, <1>10, <1>12 DEF IInv, CallInv, Submitted, Accepted
<1>16. DriverInv'
  BY <1>22, <1>8, <1>11 DEF IInv, DriverInv
<1>17. OwnerInv'
  <2>1. driver'[current].closed = driver[current].closed
    BY <1>8, <1>11, Zenon DEF IInv, TypeOK
  <2> QED
    BY <1>22, <1>3, <1>6, <1>10, <2>1 DEF IInv, OwnerInv
<1>18. QueueInv'
  <2>1. \A f \in Epochs : \A i \in 1..Len(queue[f]) : queue[f][i] \in Calls /\ queue[f][i] # c
    BY <1>22 DEF IInv, TypeOK, QueueInv
  <2>2. QueueInv
    BY DEF IInv
  <2>3. call'[c].at = "done"
    BY <1>6, <1>10
  <2> QED
    BY <1>22, <1>10, <2>1, <2>2, <2>3 DEF QueueInv
<1>19. ThreadInv'
  <2>1. \A d \in Calls : call[d].at \in Accepted \/ call[d].answer = "Unknown"
                          => call[d].epoch \in Epochs
    BY KnownEpoch DEF Submitted
  <2>2. \A f \in Epochs : /\ driver'[f].closed = driver[f].closed
                          /\ driver'[f].healthy => driver[f].healthy
    BY <1>8, <1>11
  <2>3. call'[c].answer = "Unknown" => ~driver'[e].healthy
    BY <1>5, <1>6, <1>8, <1>10, <1>11
  <2>8. ThreadInv
    BY DEF IInv
  <2>4. \A d \in Calls : call'[d].at = "running" => call[d].at = "running" /\ call[d].epoch # e
    BY <1>22, <1>3, <1>6, <1>10, <2>8 DEF ThreadInv
  <2>5. ASSUME NEW b \in Calls, NEW d \in Calls, call'[b].at = "running",
               call'[d].at = "running", call'[b].epoch = call'[d].epoch
        PROVE  b = d
    BY <1>6, <1>10, <2>5, <2>8 DEF ThreadInv
  <2>6. ASSUME NEW b \in Calls, call'[b].at \in Accepted
        PROVE  driver'[call'[b].epoch].closed = "no"
    <3>1. b # c
      BY <1>6, <1>10, <2>6 DEF Accepted
    <3>2. /\ call'[b] = call[b] /\ call[b].epoch \in Epochs
          /\ driver[call[b].epoch].closed = "no"
      BY <1>10, <2>1, <2>6, <2>8, <3>1 DEF ThreadInv
    <3> QED
      BY <2>2, <3>2
  <2>7. ASSUME NEW b \in Calls, NEW d \in Calls, call'[b].answer = "Unknown"
        PROVE  /\ ~driver'[call'[b].epoch].healthy
               /\ call'[d].at = "running" => call'[d].epoch # call'[b].epoch
    <3>1. CASE b = c
      BY <1>6, <1>10, <2>3, <2>4, <2>7, <3>1
    <3>2. CASE b # c
      <4>1. /\ call'[b] = call[b] /\ call[b].epoch \in Epochs
            /\ ~driver[call[b].epoch].healthy
            /\ call[d].at = "running" => call[d].epoch # call[b].epoch
        BY <1>10, <2>1, <2>7, <2>8, <3>2 DEF ThreadInv
      <4>2. call'[d].at = "running" => call'[d] = call[d]
        BY <1>6, <1>10
      <4> QED
        BY <2>2, <4>1, <4>2
    <3> QED
      BY <3>1, <3>2
  <2> QED
    BY <2>5, <2>6, <2>7 DEF ThreadInv
<1>20. OrderInv'
  <2>1. \A d \in Calls : before[d] \subseteq Calls
    BY DEF IInv, TypeOK
  <2> SUFFICES ASSUME NEW b \in Calls, NEW d \in before[b]
               PROVE  /\ call'[d].at \in Accepted \cup {"done"}
                      /\ call'[b].at = "queued" /\ call'[d].at \in Accepted
                             => call'[d].epoch = call'[b].epoch
                      /\ call'[b].at = "queued" =>
                             \A i, j \in 1..Len(queue'[call'[b].epoch]) :
                                 /\ queue'[call'[b].epoch][i] = d
                                 /\ queue'[call'[b].epoch][j] = b
                                 => i < j
                      /\ call'[b].at = "running" => call'[d].at = "done"
    BY <1>22, Zenon DEF OrderInv
  <2>2. /\ call[d].at \in Accepted \cup {"done"}
        /\ call[b].at = "queued" /\ call[d].at \in Accepted => call[d].epoch = call[b].epoch
        /\ call[b].at = "queued" =>
               \A i, j \in 1..Len(queue[call[b].epoch]) :
                   queue[call[b].epoch][i] = d /\ queue[call[b].epoch][j] = b => i < j
        /\ call[b].at = "running" => call[d].at = "done"
    BY Zenon DEF IInv, OrderInv
  <2>3. d \in Calls /\ (d = c => call'[d].at = "done") /\ (d # c => call'[d] = call[d])
    BY <1>6, <1>10, <2>1
  <2>4. CASE b = c
    BY <1>6, <1>10, <2>2, <2>3, <2>4 DEF Accepted
  <2>5. CASE b # c
    <3>1. call'[b] = call[b] /\ queue'[call'[b].epoch] = queue[call[b].epoch]
      BY <1>10, <1>22, <2>5
    <3> QED
      BY <2>2, <2>3, <3>1 DEF Accepted
  <2> QED
    BY <2>4, <2>5
<1> QED
  BY <1>13, <1>14, <1>15, <1>16, <1>17, <1>18, <1>19, <1>20 DEF IInv

\* A connection closes once its epoch is shut and no closure is left.
LEMMA CloseConnectionStep ==
    ASSUME IInv, NEW e \in Epochs, close_connection(e)
    PROVE  IInv'
<1>1. /\ driver[e].closing /\ Tracked(e) = {}
      /\ UNCHANGED <<call, current, queue, owner, closing, closer, actorHeld, applied, before>>
  BY DEF close_connection
<1>2. PICK result \in {"ok", "failed"} : driver' = [driver EXCEPT ![e].closed = result]
  BY Zenon DEF close_connection
<1> DEFINE h == [driver[e] EXCEPT !.closed = result]
<1>3. driver[e] \in DriverRow /\ driver \in [Epochs -> DriverRow]
  BY DEF IInv, TypeOK
<1>4. /\ h \in DriverRow /\ h.closing = driver[e].closing /\ h.accepting = driver[e].accepting
      /\ h.closed # "no" /\ h.healthy = driver[e].healthy
  BY <1>3 DEF DriverRow
<1>5. driver' = [driver EXCEPT ![e] = h]
  BY <1>2, <1>3
<1> HIDE DEF h
<1>6. /\ driver' \in [Epochs -> DriverRow] /\ driver'[e] = h
      /\ \A f \in Epochs : f # e => driver'[f] = driver[f]
  BY <1>3, <1>4, <1>5, DriverWrite
<1>7. TypeOK'
  BY <1>1, <1>6 DEF IInv, TypeOK
<1>8. OutcomeHonest' /\ CallInv'
  BY <1>1 DEF IInv, OutcomeHonest, CallInv
<1>9. DriverInv'
  BY <1>1, <1>4, <1>6, Zenon DEF IInv, DriverInv
<1>10. OwnerInv'
  <2>1. current \in Epochs
    BY DEF IInv, TypeOK
  <2> QED
    BY <1>1, <1>4, <1>6, <2>1 DEF IInv, OwnerInv
<1>11. QueueInv' /\ OrderInv'
  BY <1>1, QueuesStand
<1>12. ThreadInv'
  <2>1. \A d \in Calls : call[d].at \in Accepted \/ call[d].answer = "Unknown"
                          => call[d].epoch \in Epochs
    BY KnownEpoch DEF Submitted
  <2>2. \A d \in Calls : call[d].at \in Accepted => call[d].epoch # e
    BY <1>1 DEF Tracked
  <2> QED
    BY <1>1, <1>4, <1>6, <2>1, <2>2 DEF IInv, ThreadInv
<1> QED
  BY <1>7, <1>8, <1>9, <1>10, <1>11, <1>12 DEF IInv

\* close() of the store marks it closing, shuts the current epoch under the owner
\* lock, and reports when that epoch has closed.
LEMMA CloserStep ==
    ASSUME IInv, close_store \/ Closer
    PROVE  IInv'
<1>1. CASE close_store \/ closer_finishes
  <2>1. UNCHANGED <<call, driver, current, queue, owner, actorHeld, applied, before>>
    BY <1>1 DEF close_store, closer_finishes
  <2>2. TypeOK'
    BY <1>1, <2>1, Zenon DEF close_store, closer_finishes, IInv, TypeOK
  <2>3. OwnerInv'
    BY <1>1, <2>1 DEF close_store, closer_finishes, IInv, OwnerInv, Drained, TypeOK
  <2>4. OutcomeHonest' /\ CallInv' /\ DriverInv'
    BY <2>1 DEF IInv, OutcomeHonest, CallInv, DriverInv
  <2>5. QueueInv' /\ ThreadInv' /\ OrderInv'
    BY <2>1, NobodyMoves
  <2> QED
    BY <2>2, <2>3, <2>4, <2>5 DEF IInv
<1>2. CASE closer_locks
  <2> DEFINE b == BeginClose(driver[current])
  <2>1. /\ closer = "owner" /\ owner = NoCall /\ closer' = "draining"
        /\ driver' = [driver EXCEPT ![current] = b]
        /\ UNCHANGED <<call, current, queue, owner, closing, actorHeld, applied, before>>
    BY <1>2 DEF closer_locks
  <2>2. current \in Epochs /\ driver[current] \in DriverRow /\ driver \in [Epochs -> DriverRow]
    BY DEF IInv, TypeOK
  <2>3. /\ b \in DriverRow /\ b.closing /\ ~b.accepting /\ b.healthy = driver[current].healthy
        /\ b.closed = driver[current].closed
    BY <2>2, ClosingRow
  <2> HIDE DEF b
  <2>4. /\ driver' \in [Epochs -> DriverRow] /\ driver'[current] = b
        /\ \A f \in Epochs : f # current => driver'[f] = driver[f]
    BY <2>1, <2>2, <2>3, DriverWrite
  <2>5. TypeOK'
    BY <2>1, <2>4 DEF IInv, TypeOK
  <2>6. OutcomeHonest' /\ CallInv'
    BY <2>1 DEF IInv, OutcomeHonest, CallInv
  <2>7. DriverInv'
    BY <2>1, <2>3, <2>4 DEF IInv, DriverInv
  <2>8. OwnerInv'
    BY <2>1, <2>3, <2>4 DEF IInv, OwnerInv
  <2>9. QueueInv' /\ ThreadInv' /\ OrderInv'
    <3>1. \A e \in Epochs : /\ driver'[e].closed = driver[e].closed
                            /\ driver'[e].healthy = driver[e].healthy
      BY <2>3, <2>4
    <3> QED
      BY <2>1, <3>1, NobodyMoves
  <2> QED
    BY <2>5, <2>6, <2>7, <2>8, <2>9 DEF IInv
<1> QED
  BY <1>1, <1>2 DEF Closer

\* The store actor takes and returns permits of the process-wide semaphore.
LEMMA ActorStep ==
    ASSUME IInv, actor_acquires \/ actor_releases
    PROVE  IInv'
<1>1. UNCHANGED <<call, driver, current, queue, owner, closing, closer, applied, before>>
  BY DEF actor_acquires, actor_releases
<1>2. actorHeld' \in Nat
  BY DEF actor_acquires, actor_releases, IInv, TypeOK
<1>3. TypeOK'
  BY <1>1, <1>2 DEF IInv, TypeOK
<1>4. OutcomeHonest' /\ CallInv' /\ DriverInv' /\ OwnerInv'
  BY <1>1 DEF IInv, OutcomeHonest, CallInv, DriverInv, OwnerInv
<1>5. QueueInv' /\ ThreadInv' /\ OrderInv'
  BY <1>1, NobodyMoves
<1> QED
  BY <1>3, <1>4, <1>5 DEF IInv

\* Every step of the store keeps the invariant.
LEMMA NextIInv == IInv /\ [Next]_vars => IInv'
<1> SUFFICES ASSUME IInv, [Next]_vars PROVE IInv'
  OBVIOUS
<1>1. ASSUME NEW c \in Calls, \E kind \in Kinds : invoke(c, kind) PROVE IInv'
  BY <1>1, InvokeStep
<1>2. ASSUME NEW c \in Calls, Advance(c) PROVE IInv'
  BY <1>2, LockOwnerStep, FinishDrainStep, OpenEpochStep, AcquireStep, AdmitStep DEF Advance
<1>3. ASSUME NEW c \in Calls, abandon(c) PROVE IInv'
  BY <1>3, AbandonStep
<1>4. ASSUME NEW e \in Epochs, Thread(e) PROVE IInv'
  BY <1>4, StartClosureStep, FinishClosureStep, ReplyUnavailableStep,
      CloseConnectionStep DEF Thread
<1>5. ASSUME close_store \/ Closer PROVE IInv'
  BY <1>5, CloserStep
<1>6. ASSUME actor_acquires \/ actor_releases PROVE IInv'
  BY <1>6, ActorStep
<1>7. CASE UNCHANGED vars
  <2>1. UNCHANGED <<call, driver, current, queue, owner, closing, closer, actorHeld, applied,
                    before>>
    BY <1>7 DEF vars
  <2>2. TypeOK' /\ OutcomeHonest' /\ CallInv' /\ DriverInv' /\ OwnerInv'
    BY <2>1 DEF IInv, TypeOK, OutcomeHonest, CallInv, DriverInv, OwnerInv
  <2>3. QueueInv' /\ ThreadInv' /\ OrderInv'
    BY <2>1, NobodyMoves
  <2> QED
    BY <2>2, <2>3 DEF IInv
<1> QED
  BY <1>1, <1>2, <1>3, <1>4, <1>5, <1>6, <1>7 DEF Next

-----------------------------------------------------------------------------
(* The theorems. *)

\* The inductive invariant holds throughout, for any number of calls, epochs and
\* permits.
THEOREM Invariance == Spec => []IInv
  BY InitIInv, NextIInv, PTL DEF Spec

\* No answer misstates its transaction, for any number of calls and permits
\* (Transaction outcomes of sqlite_job_connection.rs).
THEOREM HonestAnswers == Spec => []OutcomeHonest
<1>1. IInv => OutcomeHonest
  BY DEF IInv
<1> QED
  BY <1>1, Invariance, PTL

\* A call runs after all work that was accepted before it was made
\* (SqliteJobStore::connection drains before it replaces).
THEOREM Settlement == Spec => []SettlementBarrier
<1>1. IInv => SettlementBarrier
  BY DEF IInv, OrderInv, SettlementBarrier
<1> QED
  BY <1>1, Invariance, PTL

\* Work is found on the current epoch only, none behind an Unknown, and none is
\* left when close() reports.
THEOREM Epochal == Spec => []EpochsApart
<1>1. IInv => OneEpochAtWork
  <2> SUFFICES ASSUME IInv, NEW e \in Epochs, NEW c \in Tracked(e)
               PROVE  e = current /\ driver[e].closed = "no"
    BY DEF OneEpochAtWork
  <2> QED
    BY KnownEpoch DEF Tracked, IInv, ThreadInv
<1>2. IInv => UnknownRetiresEpoch
  BY DEF IInv, ThreadInv, UnknownRetiresEpoch, Tracked
<1>3. IInv => ClosedMeansIdle
  <2> SUFFICES ASSUME IInv, closer = "done"
               PROVE  /\ owner = NoCall
                      /\ \A e \in 1..current : driver[e].closed # "no"
                      /\ \A e \in Epochs : Tracked(e) = {} /\ queue[e] = <<>>
    BY DEF ClosedMeansIdle
  <2>1. owner = NoCall /\ driver[current].closed # "no"
    BY DEF IInv, OwnerInv
  <2>2. \A e \in 1..current : e \in Epochs /\ (e < current \/ e = current)
    BY CapacityAssumption DEF IInv, TypeOK, Epochs
  <2>3. \A e \in 1..current : driver[e].closed # "no"
    BY <2>1, <2>2 DEF IInv, DriverInv
  <2>4. \A c \in Calls : call[c].at \notin Accepted
    BY <2>1, KnownEpoch DEF IInv, ThreadInv
  <2>5. \A e \in Epochs : Tracked(e) = {}
    BY <2>4 DEF Tracked
  <2>6. ASSUME NEW e \in Epochs PROVE queue[e] = <<>>
    <3> SUFFICES ASSUME queue[e] # <<>> PROVE FALSE
      OBVIOUS
    <3>1. queue[e] \in Seq(Calls)
      BY DEF IInv, TypeOK
    <3>2. 1 \in 1..Len(queue[e]) /\ queue[e][1] \in Calls
      BY <3>1
    <3> QED
      BY <2>4, <3>2 DEF IInv, QueueInv, Accepted
  <2> QED
    BY <2>1, <2>3, <2>5, <2>6
<1> QED
  BY <1>1, <1>2, <1>3, Invariance, PTL DEF EpochsApart
=============================================================================
