--------------------------- MODULE StoreActorProofs ---------------------------
(***************************************************************************)
(* That what the store actor answers is true, for any callers, any channel *)
(* capacity and any budget.  The invariant says how the channel, the order *)
(* of acceptance and the phases go together: the channel is the end of     *)
(* that order, all before it but the last taken has settled.               *)
(***************************************************************************)
EXTENDS StoreActor, FiniteSetTheorems, TLAPS

-----------------------------------------------------------------------------
(* The inductive invariant. *)

\* Before the channel, and on the blocking thread.
Unsent == {"idle", "waiting", "admitted", "checked"}
Busy == {"running", "ran"}
Held == {"admitted", "checked", "queued", "running"}

\* How many operations the actor has taken from the channel.
Taken == Len(accepted) - Len(channel)

\* Where an operation is by its place in the order of acceptance.
PhaseAt(i) ==
    IF i < Taken THEN Settled ELSE IF i = Taken THEN Settled \cup Busy ELSE {"queued"}

QueueInv ==
    /\ Len(channel) <= Len(accepted)
    /\ \A i \in 1..Len(channel) : channel[i] = accepted[Taken + i]
    /\ \A i, j \in 1..Len(accepted) : accepted[i] = accepted[j] => i = j
    /\ \A i \in 1..Len(accepted) : phase[accepted[i]] \in PhaseAt(i)
    /\ \A o \in Ops : phase[o] \notin Unsent => \E i \in 1..Len(accepted) : accepted[i] = o

\* What a caller was told, by where its operation is.
AnswerInv(o) ==
    /\ answer[o] \in NotExecuted => phase[o] = "idle"
    /\ answer[o] = "reply" => phase[o] = "ended"

\* An actor that is done has nothing left.
DoneInv == actor = "done" => channel = <<>> /\ \A o \in Ops : phase[o] \notin Busy

IInv == TypeOK /\ QueueInv /\ (\A o \in Ops : AnswerInv(o)) /\ DoneInv

-----------------------------------------------------------------------------
(* Places and permits. *)

\* The places of the order of acceptance.
LEMMA AtPlace ==
    ASSUME IInv
    PROVE  /\ Len(accepted) \in Nat /\ Len(channel) \in Nat /\ Taken \in 0..Len(accepted)
           /\ \A i \in 1..Len(accepted) :
                 /\ accepted[i] \in Ops /\ phase[accepted[i]] \notin Unsent
                 /\ phase[accepted[i]] \in Busy => i = Taken
                 /\ phase[accepted[i]] \in PhaseAt(i)
<1>1. /\ accepted \in Seq(Ops) /\ channel \in Seq(Ops) /\ Len(channel) <= Len(accepted)
  BY DEF IInv, TypeOK, QueueInv
<1>2. /\ Len(accepted) \in Nat /\ Len(channel) \in Nat /\ Taken \in 0..Len(accepted)
      /\ \A i \in 1..Len(accepted) : accepted[i] \in Ops
  BY <1>1 DEF Taken
<1>3. ASSUME NEW i \in 1..Len(accepted)
      PROVE  /\ phase[accepted[i]] \notin Unsent
             /\ phase[accepted[i]] \in Busy => i = Taken
             /\ phase[accepted[i]] \in PhaseAt(i)
  <2>1. phase[accepted[i]] \in PhaseAt(i)
    BY DEF IInv, QueueInv
  <2> QED
    BY <2>1 DEF PhaseAt, Settled, Busy, Unsent
<1> QED
  BY <1>2, <1>3

\* A move of one operation takes at most the permit it asked for.
LEMMA BudgetMoves ==
    ASSUME IInv, NEW o \in Ops, NEW p, phase' = [phase EXCEPT ![o] = p], others' = others,
           p \in Held /\ phase[o] \notin Held => Free
    PROVE  (Cardinality(Holders) + others <= Budget)'
<1> DEFINE H == {x \in Ops : phase[x] \in Held}
           K == {x \in Ops : phase'[x] \in Held}
<1>1. Holders = H /\ Holders' = K
  BY DEF Holders, Held
<1>2. /\ phase \in [Ops -> Phases] /\ others \in Nat /\ Budget \in Nat
      /\ Cardinality(H) + others <= Budget
      /\ p \in Held /\ phase[o] \notin Held => Cardinality(H) + others < Budget
  BY <1>1, ActorBounds DEF IInv, TypeOK, Free
<1>3. K \subseteq H \/ (K = H \cup {o} /\ p \in Held /\ o \notin H)
  <2>1. phase'[o] = p /\ \A x \in Ops : x # o => phase'[x] = phase[x]
    BY <1>2
  <2>2. CASE p \in Held /\ o \notin H
    BY <2>1, <2>2
  <2>3. CASE p \notin Held \/ o \in H
    BY <2>1, <2>3
  <2> QED
    BY <2>2, <2>3
<1>4. IsFiniteSet(H)
  <2>1. IsFiniteSet(Ops)
    BY ActorBounds, FS_Union, Zenon DEF Ops
  <2> QED
    BY <2>1, FS_Subset
<1> HIDE DEF H, K
<1>5. Cardinality(H) \in Nat
  BY <1>4, FS_CardinalityType
<1>6. CASE K \subseteq H
  <2>1. Cardinality(K) \in Nat /\ Cardinality(K) <= Cardinality(H)
    BY <1>4, <1>6, FS_Subset, FS_CardinalityType
  <2> QED
    BY <1>1, <1>2, <1>5, <2>1
<1>7. CASE K = H \cup {o} /\ p \in Held /\ o \notin H
  <2>1. Cardinality(K) = Cardinality(H) + 1
    BY <1>4, <1>7, FS_AddElement, Zenon
  <2>2. phase[o] \notin Held
    BY <1>7 DEF H
  <2> QED
    BY <1>1, <1>2, <1>5, <1>7, <2>1, <2>2
<1> QED
  BY <1>3, <1>6, <1>7

\* A step of one operation that leaves the channel as it is.
LEMMA OpMoves ==
    ASSUME IInv, NEW o \in Ops, NEW p \in Phases, NEW a \in Answers,
           phase' = [phase EXCEPT ![o] = p], answer' = [answer EXCEPT ![o] = a],
           UNCHANGED <<channel, accepted, others, stop, actor>>, late' \subseteq SyncOps,
           p \in Held /\ phase[o] \notin Held => Free,
           \/ p = phase[o]
           \/ phase[o] \in Unsent /\ p \in Unsent
           \/ phase[o] \in Busy /\ p \in Busy \cup Settled,
           a \in NotExecuted => p = "idle", a = "reply" => p = "ended"
    PROVE  IInv'
<1>1. /\ phase' \in [Ops -> Phases] /\ phase'[o] = p /\ \A x \in Ops : x # o => phase'[x] = phase[x]
      /\ answer' \in [Ops -> Answers] /\ answer'[o] = a /\ \A x \in Ops : x # o => answer'[x] = answer[x]
      /\ channel' = channel /\ accepted' = accepted /\ others' = others /\ stop' = stop /\ actor' = actor
  BY DEF IInv, TypeOK
<1>2. TypeOK'
  <2>1. (Cardinality(Holders) + others <= Budget)'
    BY <1>1, BudgetMoves, Zenon
  <2> QED
    BY <1>1, <2>1 DEF IInv, TypeOK
<1>3. QueueInv'
  <2>1. Taken' = Taken /\ \A i : PhaseAt(i)' = PhaseAt(i)
    BY <1>1 DEF Taken, PhaseAt
  <2>2. ASSUME NEW i \in 1..Len(accepted) PROVE phase'[accepted[i]] \in PhaseAt(i)
    <3>1. /\ accepted[i] \in Ops /\ phase[accepted[i]] \notin Unsent
          /\ phase[accepted[i]] \in Busy => i = Taken
          /\ phase[accepted[i]] \in PhaseAt(i) /\ Taken \in Int
      BY AtPlace
    <3>2. CASE accepted[i] # o \/ p = phase[o]
      BY <1>1, <3>1, <3>2
    <3>3. CASE accepted[i] = o /\ phase[o] \in Busy /\ p \in Busy \cup Settled
      BY <1>1, <3>1, <3>3 DEF PhaseAt
    <3> QED
      BY <3>1, <3>2, <3>3
  <2>3. \A x \in Ops : phase'[x] \notin Unsent => phase[x] \notin Unsent
    BY <1>1 DEF Unsent, Busy
  <2> QED
    BY <1>1, <2>1, <2>2, <2>3 DEF IInv, QueueInv
<1>4. \A x \in Ops : AnswerInv(x)'
  BY <1>1 DEF IInv, AnswerInv
<1>5. DoneInv'
  BY <1>1 DEF IInv, DoneInv, Unsent, Busy, Settled
<1> QED
  BY <1>2, <1>3, <1>4, <1>5 DEF IInv

\* Nothing has been asked for.
LEMMA InitIInv == Init => IInv
<1> SUFFICES ASSUME Init PROVE IInv
  OBVIOUS
<1>1. \A o \in Ops : phase[o] = "idle" /\ answer[o] = Waiting
  BY DEF Init
<1>2. Holders = {}
  BY <1>1 DEF Holders
<1>3. TypeOK
  <2>1. Cardinality(Holders) + others <= Budget
    BY <1>2, FS_EmptySet, ActorBounds DEF Init
  <2>2. /\ phase \in [Ops -> Phases] /\ answer \in [Ops -> Answers]
        /\ channel = <<>> /\ accepted = <<>> /\ late = {} /\ others = 0 /\ stop = FALSE /\ actor = "open"
    BY DEF Init, Phases, Answers
  <2>3. channel \in Seq(Ops) /\ accepted \in Seq(Ops) /\ Len(channel) <= Capacity
    BY <2>2, ActorBounds
  <2>4. late \subseteq SyncOps /\ others \in Nat /\ stop \in BOOLEAN /\ actor \in {"open", "draining", "done"}
    BY <2>2, Zenon
  <2> QED
    BY <2>1, <2>2, <2>3, <2>4 DEF TypeOK
<1>4. QueueInv
  BY <1>1 DEF Init, QueueInv, Unsent
<1>5. (\A o \in Ops : AnswerInv(o)) /\ DoneInv
  BY <1>1 DEF Init, AnswerInv, DoneInv, Waiting, NotExecuted, Busy
<1> QED
  BY <1>3, <1>4, <1>5 DEF IInv

-----------------------------------------------------------------------------
(* Callers. *)

\* The functions at one operation.
LEMMA AtOp ==
    ASSUME IInv, NEW o \in Ops
    PROVE  /\ phase[o] \in Phases /\ answer[o] \in Answers /\ AnswerInv(o)
           /\ phase = [phase EXCEPT ![o] = phase[o]] /\ answer = [answer EXCEPT ![o] = answer[o]]
           /\ late \subseteq SyncOps
  BY DEF IInv, TypeOK

\* A caller returns before its operation is in the channel.
LEMMA ReturnStep ==
    ASSUME IInv, NEW o \in Ops, NEW a \in NotExecuted, phase[o] \in Unsent, Return(o, a) PROVE IInv'
<1>1. /\ phase' = [phase EXCEPT ![o] = "idle"] /\ answer' = [answer EXCEPT ![o] = a]
      /\ UNCHANGED <<channel, accepted, others, stop, actor>> /\ late' = late
  BY DEF Return, Move, Tell
<1>2. "idle" \in Phases /\ "idle" \in Unsent /\ "idle" \notin Held /\ a \in Answers /\ a # "reply"
  BY DEF Phases, Unsent, Held, Answers, NotExecuted
<1>3. late' \subseteq SyncOps
  BY <1>1, AtOp
<1> QED
  BY <1>1, <1>2, <1>3, OpMoves, Zenon

\* A caller that waits goes on.
LEMMA MoveStep ==
    ASSUME IInv, NEW o \in Ops, NEW p \in Unsent, phase[o] \in Unsent, answer[o] = Waiting, Move(o, p),
           UNCHANGED <<answer, late, channel, accepted, others, stop, actor>>,
           p \in Held /\ phase[o] \notin Held => Free
    PROVE  IInv'
<1>1. /\ phase' = [phase EXCEPT ![o] = p] /\ answer' = [answer EXCEPT ![o] = Waiting]
      /\ UNCHANGED <<channel, accepted, others, stop, actor>> /\ late' \subseteq SyncOps
  BY AtOp DEF Move
<1>2. p \in Phases /\ Waiting \in Answers /\ Waiting \notin NotExecuted /\ Waiting # "reply"
  BY DEF Phases, Unsent, Answers, Waiting, NotExecuted
<1> QED
  BY <1>1, <1>2, OpMoves, Zenon

\* A caller stops waiting for an operation that goes on without it.
LEMMA TellStep ==
    ASSUME IInv, NEW o \in Ops, NEW a \in Unconfirmed \cup {"abandoned"}, NEW p \in Phases,
           Tell(o, a), Move(o, p), p = phase[o] \/ (phase[o] \in Unsent /\ p = "idle"),
           UNCHANGED <<late, channel, accepted, others, stop, actor>>
    PROVE  IInv'
<1>1. /\ phase' = [phase EXCEPT ![o] = p] /\ answer' = [answer EXCEPT ![o] = a]
      /\ UNCHANGED <<channel, accepted, others, stop, actor>> /\ late' \subseteq SyncOps
  BY AtOp DEF Move, Tell
<1>2. a \in Answers /\ a \notin NotExecuted /\ a # "reply" /\ "idle" \in Unsent /\ "idle" \notin Held
  BY DEF Answers, Unconfirmed, NotExecuted, Unsent, Held
<1> QED
  BY <1>1, <1>2, OpMoves, Zenon

\* call, acquire_admission, check_stop and queue_timeout.
LEMMA AdmissionStep ==
    ASSUME IInv, NEW o \in Ops, call(o) \/ acquire_admission(o) \/ check_stop(o) \/ queue_timeout(o)
    PROVE  IInv'
<1>1. phase[o] \in Unsent
  BY DEF call, acquire_admission, check_stop, queue_timeout, At, Unsent
<1>2. CASE Return(o, "closed") \/ Return(o, "queue_timeout")
  BY <1>1, <1>2, ReturnStep DEF NotExecuted
<1>3. CASE call(o) /\ ~Return(o, "closed")
  BY <1>1, <1>3, MoveStep DEF call, At, Unsent, Held
<1>4. CASE acquire_admission(o) /\ ~Return(o, "closed")
  BY <1>1, <1>4, MoveStep DEF acquire_admission, At, Unsent
<1>5. CASE check_stop(o) /\ ~Return(o, "closed")
  BY <1>1, <1>5, MoveStep DEF check_stop, At, Unsent, Held
<1> QED
  BY <1>2, <1>3, <1>4, <1>5 DEF queue_timeout

\* recv_timeout, drop_caller and response_dropped.
LEMMA LeaveStep ==
    ASSUME IInv, NEW o \in Ops, recv_timeout(o) \/ drop_caller(o) \/ response_dropped(o) PROVE IInv'
<1>1. phase[o] \in Phases /\ phase = [phase EXCEPT ![o] = phase[o]]
  BY AtOp
<1>2. CASE recv_timeout(o) \/ response_dropped(o)
  <2>1. PICK a \in {"timeout", "dropped"} : Tell(o, a)
    BY <1>2 DEF recv_timeout, response_dropped
  <2>2. Move(o, phase[o]) /\ UNCHANGED <<late, channel, accepted, others, stop, actor>>
    BY <1>1, <1>2 DEF recv_timeout, response_dropped, Move
  <2> QED
    BY <1>1, <2>1, <2>2, TellStep DEF Unconfirmed
<1>3. CASE drop_caller(o)
  <2> DEFINE p == IF phase[o] \in {"waiting", "admitted", "checked"} THEN "idle" ELSE phase[o]
  <2>1. /\ Tell(o, "abandoned") /\ Move(o, p) /\ UNCHANGED <<late, channel, accepted, others, stop, actor>>
        /\ p = phase[o] \/ (phase[o] \in Unsent /\ p = "idle")
        /\ p \in Phases
    BY <1>1, <1>3 DEF drop_caller, Unsent, Phases
  <2> HIDE DEF p
  <2> QED
    BY <2>1, TellStep
<1> QED
  BY <1>2, <1>3

\* A deadline passes.
LEMMA DeadlineStep ==
    ASSUME IInv, NEW o \in Ops, deadline(o) PROVE IInv'
<1>1. /\ late' \subseteq SyncOps /\ UNCHANGED <<channel, accepted, others, stop, actor>>
      /\ phase' = [phase EXCEPT ![o] = phase[o]] /\ answer' = [answer EXCEPT ![o] = answer[o]]
      /\ phase[o] \in Phases /\ answer[o] \in Answers /\ AnswerInv(o)
  BY AtOp DEF deadline
<1> QED
  BY <1>1, OpMoves, Zenon DEF AnswerInv

\* send: accepted at the end of the order, refused, or tried again.
LEMMA SendStep ==
    ASSUME IInv, NEW o \in Ops, send(o) PROVE IInv'
<1>1. phase[o] = "checked" /\ answer[o] = Waiting /\ phase[o] \in Unsent
  BY DEF send, At, Unsent
<1>2. CASE Return(o, "closed")
  BY <1>1, <1>2, ReturnStep DEF NotExecuted
<1>3. CASE Move(o, "admitted") /\ UNCHANGED <<answer, late, channel, accepted, others, stop, actor>>
  BY <1>1, <1>3, MoveStep DEF Unsent, Held
<1>4. CASE /\ actor = "open" /\ Len(channel) < Capacity /\ Move(o, "queued")
           /\ channel' = Append(channel, o) /\ accepted' = Append(accepted, o)
           /\ UNCHANGED <<answer, late, others, stop, actor>>
  <2>1. /\ channel \in Seq(Ops) /\ accepted \in Seq(Ops) /\ phase \in [Ops -> Phases]
        /\ Len(channel) <= Len(accepted) /\ Capacity \in Nat /\ Len(channel) \in Nat /\ Len(accepted) \in Nat
    BY ActorBounds DEF IInv, TypeOK, QueueInv
  <2>2. /\ channel' \in Seq(Ops) /\ Len(channel') = Len(channel) + 1
        /\ channel'[Len(channel) + 1] = o /\ \A i \in 1..Len(channel) : channel'[i] = channel[i]
    BY <1>4, <2>1
  <2>3. /\ accepted' \in Seq(Ops) /\ Len(accepted') = Len(accepted) + 1
        /\ accepted'[Len(accepted) + 1] = o /\ \A i \in 1..Len(accepted) : accepted'[i] = accepted[i]
    BY <1>4, <2>1
  <2>4. /\ phase' \in [Ops -> Phases] /\ phase'[o] = "queued" /\ \A x \in Ops : x # o => phase'[x] = phase[x]
        /\ phase' = [phase EXCEPT ![o] = "queued"]
    BY <1>4, <2>1 DEF Move, Phases
  <2>5. TypeOK'
    <3>1. (Cardinality(Holders) + others <= Budget)'
      BY <1>1, <1>4, <2>4, BudgetMoves, Zenon DEF Held
    <3> QED
      BY <1>4, <2>1, <2>2, <2>3, <2>4, <3>1 DEF IInv, TypeOK
  <2>6. Taken' = Taken /\ Taken \in 0..Len(accepted)
    BY <2>1, <2>2, <2>3 DEF Taken
  <2>7. ASSUME NEW i \in 1..Len(accepted)
        PROVE  accepted[i] \in Ops /\ accepted[i] # o /\ phase'[accepted[i]] \in PhaseAt(i)
    BY <1>1, <2>4, AtPlace
  <2>8. QueueInv'
    <3>1. \A i : PhaseAt(i)' = PhaseAt(i)
      BY <2>6 DEF PhaseAt
    <3>2. \A i \in 1..Len(channel') : channel'[i] = accepted'[Taken + i]
      <4>1. ASSUME NEW i \in 1..Len(channel) PROVE channel'[i] = accepted'[Taken + i]
        <5>1. Taken + i \in 1..Len(accepted) /\ channel[i] = accepted[Taken + i]
          BY <2>1 DEF IInv, QueueInv, Taken
        <5> QED
          BY <2>2, <2>3, <5>1
      <4>2. Taken + (Len(channel) + 1) = Len(accepted) + 1
        BY <2>1 DEF Taken
      <4> QED
        BY <2>1, <2>2, <2>3, <4>1, <4>2
    <3>3. \A i, j \in 1..Len(accepted') : accepted'[i] = accepted'[j] => i = j
      BY <2>1, <2>3, <2>7 DEF IInv, QueueInv
    <3>4. \A i \in 1..Len(accepted') : phase'[accepted'[i]] \in PhaseAt(i)
      <4>1. PhaseAt(Len(accepted) + 1) = {"queued"}
        BY <2>1, <2>6 DEF PhaseAt
      <4> QED
        BY <2>1, <2>3, <2>4, <2>7, <4>1
    <3>5. ASSUME NEW x \in Ops, phase'[x] \notin Unsent
          PROVE  \E i \in 1..Len(accepted') : accepted'[i] = x
      <4>1. CASE x = o
        BY <2>1, <2>3, <4>1
      <4>2. CASE x # o
        <5>1. PICK i \in 1..Len(accepted) : accepted[i] = x
          BY <2>4, <3>5, <4>2 DEF IInv, QueueInv
        <5> QED
          BY <2>1, <2>3, <5>1
      <4> QED
        BY <4>1, <4>2
    <3>6. Len(channel') <= Len(accepted')
      BY <2>1, <2>2, <2>3
    <3> QED
      BY <2>6, <3>1, <3>2, <3>3, <3>4, <3>5, <3>6 DEF QueueInv
  <2>9. (\A x \in Ops : AnswerInv(x)') /\ DoneInv'
    BY <1>1, <1>4, <2>4 DEF IInv, AnswerInv, DoneInv, Waiting, NotExecuted
  <2> QED
    BY <2>5, <2>8, <2>9 DEF IInv
<1> QED
  BY <1>2, <1>3, <1>4 DEF send

-----------------------------------------------------------------------------
(* The other store paths and the actor. *)

\* A step that leaves every operation where it is.
LEMMA StillStep ==
    ASSUME IInv, UNCHANGED <<phase, answer, late, channel, accepted>>,
           others' \in Nat, Cardinality(Holders) + others' <= Budget,
           stop' \in BOOLEAN, actor' \in {"open", "draining", "done"}, DoneInv'
    PROVE  IInv'
<1>1. Holders' = Holders
  BY DEF Holders
<1>2. TypeOK'
  BY <1>1 DEF IInv, TypeOK
<1>3. QueueInv'
  BY DEF IInv, QueueInv, PhaseAt, Taken
<1>4. \A o \in Ops : AnswerInv(o)'
  BY DEF IInv, AnswerInv
<1> QED
  BY <1>2, <1>3, <1>4 DEF IInv

\* Permits of the other paths, the stop token, and the receiver's end.
LEMMA OtherStep ==
    ASSUME IInv, other_acquires \/ other_releases \/ close \/ close_receiver PROVE IInv'
<1>1. /\ others \in Nat /\ Budget \in Nat /\ Cardinality(Holders) \in Nat /\ Cardinality(Holders) + others <= Budget
      /\ stop \in BOOLEAN /\ actor \in {"open", "draining", "done"}
  <2>1. IsFiniteSet(Holders)
    BY ActorBounds, FS_Union, FS_Subset, Zenon DEF Holders, Ops
  <2> QED
    BY <2>1, FS_CardinalityType, ActorBounds DEF IInv, TypeOK
<1>2. UNCHANGED <<phase, answer, late, channel, accepted>>
  BY DEF other_acquires, other_releases, close, close_receiver
<1>3. others' \in Nat /\ Cardinality(Holders) + others' <= Budget
  BY <1>1 DEF other_acquires, other_releases, close, close_receiver, Free
<1>4. stop' \in BOOLEAN
  BY <1>1, Zenon DEF other_acquires, other_releases, close, close_receiver
<1>5. actor' \in {"open", "draining", "done"} /\ (actor' = "done" => actor = "done")
  BY <1>1 DEF other_acquires, other_releases, close, close_receiver
<1>6. DoneInv'
  BY <1>2, <1>5 DEF IInv, DoneInv
<1> QED
  BY <1>2, <1>3, <1>4, <1>5, <1>6, StillStep

\* The actor ends at rest, with an empty channel.
LEMMA FinishStep ==
    ASSUME IInv, finish PROVE IInv'
<1>1. UNCHANGED <<phase, answer, late, channel, accepted>> /\ others' = others /\ stop' = stop
  BY DEF finish
<1>2. DoneInv'
  BY DEF finish, Idle, DoneInv, Busy
<1> QED
  BY <1>1, <1>2, StillStep DEF finish, IInv, TypeOK

\* The operation that runs ends, and is replied to.
LEMMA RunStep ==
    ASSUME IInv, NEW o \in Ops, run_store_operation(o) \/ reply(o) PROVE IInv'
<1>1. phase[o] \in Phases /\ answer[o] \in Answers /\ AnswerInv(o) /\ answer = [answer EXCEPT ![o] = answer[o]]
  BY AtOp
<1>2. late' \subseteq SyncOps /\ UNCHANGED <<channel, accepted, others, stop, actor>>
  BY AtOp DEF run_store_operation, reply
<1>3. CASE run_store_operation(o)
  <2>1. phase' = [phase EXCEPT ![o] = "ran"] /\ answer' = [answer EXCEPT ![o] = answer[o]] /\ phase[o] = "running"
    BY <1>1, <1>3 DEF run_store_operation, Move
  <2>2. "ran" \in Phases /\ "ran" \in Busy /\ "running" \in Busy /\ "ran" \notin Held
    BY DEF Phases, Busy, Held
  <2>3. answer[o] \notin NotExecuted /\ answer[o] # "reply"
    BY <1>1, <2>1 DEF AnswerInv
  <2> QED
    BY <1>1, <1>2, <2>1, <2>2, <2>3, OpMoves, Zenon
<1>4. CASE reply(o)
  <2>1. phase[o] = "ran" /\ phase' = [phase EXCEPT ![o] = "ended"]
    BY <1>4 DEF reply, Move
  <2>2. answer[o] \notin NotExecuted
    BY <1>1, <2>1 DEF AnswerInv
  <2>3. PICK a \in Answers : answer' = [answer EXCEPT ![o] = a] /\ a \notin NotExecuted
    BY <1>1, <1>4, <2>2 DEF reply, Tell, Answers, NotExecuted, Unconfirmed
  <2>4. "ended" \in Phases /\ "ended" \in Settled /\ "ran" \in Busy /\ "ended" \notin Held
    BY DEF Phases, Busy, Held, Settled
  <2> QED
    BY <1>1, <1>2, <2>1, <2>3, <2>4, OpMoves, Zenon
<1> QED
  BY <1>3, <1>4

\* The actor takes the operation at the head of the channel.
LEMMA ReceiveStep ==
    ASSUME IInv, receive PROVE IInv'
<1> DEFINE o == Head(channel)
           t == Taken + 1
<1>1. /\ channel \in Seq(Ops) /\ accepted \in Seq(Ops) /\ phase \in [Ops -> Phases]
      /\ Len(channel) <= Len(accepted) /\ Len(channel) \in Nat /\ Len(accepted) \in Nat /\ Len(channel) > 0
  BY DEF receive, IInv, TypeOK, QueueInv
<1>2. /\ channel' \in Seq(Ops) /\ Len(channel') = Len(channel) - 1 /\ accepted' = accepted
      /\ \A i \in 1..Len(channel') : channel'[i] = channel[i + 1]
  BY <1>1 DEF receive
<1>3. Taken \in Nat /\ t \in 1..Len(accepted) /\ Taken' = t
  BY <1>1, <1>2 DEF Taken
<1>4. o \in Ops /\ o = accepted[t]
  BY <1>1, <1>3 DEF IInv, QueueInv
<1>5. phase[o] = "queued"
  BY <1>1, <1>3, <1>4 DEF IInv, QueueInv, PhaseAt
<1>6. PICK p \in {"running", "expired"} : phase' = [phase EXCEPT ![o] = p]
  BY DEF receive, Move
<1> HIDE DEF o, t
<1>7. phase' \in [Ops -> Phases] /\ phase'[o] = p /\ \A x \in Ops : x # o => phase'[x] = phase[x]
  BY <1>1, <1>4, <1>6 DEF Phases
<1>8. UNCHANGED <<answer, late, others, stop, actor>> /\ actor # "done"
  BY DEF receive
<1>9. TypeOK'
  <2>1. (Cardinality(Holders) + others <= Budget)'
    BY <1>4, <1>5, <1>6, <1>8, BudgetMoves, Zenon DEF Held, Phases
  <2>2. Len(channel') <= Capacity
    BY <1>1, <1>2, ActorBounds DEF IInv, TypeOK
  <2> QED
    BY <1>1, <1>2, <1>7, <1>8, <2>1, <2>2 DEF IInv, TypeOK
<1>10. QueueInv'
  <2>1. \A i \in 1..Len(channel') : channel'[i] = accepted'[Taken' + i]
    <3> SUFFICES ASSUME NEW i \in 1..Len(channel') PROVE channel[i + 1] = accepted[Taken + (i + 1)]
      BY <1>1, <1>2, <1>3 DEF t
    <3>1. i + 1 \in 1..Len(channel)
      BY <1>1, <1>2
    <3> QED
      BY <3>1 DEF IInv, QueueInv
  <2>2. ASSUME NEW i \in 1..Len(accepted) PROVE phase'[accepted[i]] \in PhaseAt(i)'
    <3>1. accepted[i] \in Ops /\ phase[accepted[i]] \in PhaseAt(i)
      BY <1>1, <2>2 DEF IInv, QueueInv
    <3>2. accepted[i] = o <=> i = t
      BY <1>3, <1>4, <2>2 DEF IInv, QueueInv
    <3>3. CASE i = t
      BY <1>3, <1>7, <1>4, <3>3 DEF PhaseAt, Busy, Settled, t
    <3>4. CASE i # t
      <4>1. phase'[accepted[i]] = phase[accepted[i]]
        BY <1>7, <3>1, <3>2, <3>4
      <4>2. phase[accepted[i]] \notin {"running", "ran"}
        BY <3>1 DEF receive, Idle
      <4> QED
        BY <1>3, <3>1, <3>4, <4>1, <4>2 DEF PhaseAt, Busy, Settled, t
    <3> QED
      BY <3>3, <3>4
  <2>3. ASSUME NEW x \in Ops, phase'[x] \notin Unsent
        PROVE  \E i \in 1..Len(accepted) : accepted[i] = x
    <3>1. CASE x = o
      BY <1>3, <1>4, <3>1
    <3>2. CASE x # o
      BY <1>7, <2>3, <3>2 DEF IInv, QueueInv
    <3> QED
      BY <3>1, <3>2
  <2>4. \A i, j \in 1..Len(accepted) : accepted[i] = accepted[j] => i = j
    BY DEF IInv, QueueInv
  <2>5. Len(channel') <= Len(accepted')
    BY <1>1, <1>2
  <2> QED
    BY <1>2, <2>1, <2>2, <2>3, <2>4, <2>5 DEF QueueInv, PhaseAt
<1>11. (\A x \in Ops : AnswerInv(x)') /\ DoneInv'
  BY <1>4, <1>5, <1>7, <1>8 DEF IInv, AnswerInv, DoneInv
<1> QED
  BY <1>9, <1>10, <1>11 DEF IInv

\* Every step preserves the invariant.
LEMMA NextIInv == IInv /\ [Next]_vars => IInv'
<1> SUFFICES ASSUME IInv, [Next]_vars PROVE IInv'
  OBVIOUS
<1>1. CASE \E o \in Ops : call(o) \/ Caller(o) \/ deadline(o) \/ drop_caller(o)
  BY <1>1, AdmissionStep, SendStep, LeaveStep, DeadlineStep DEF Caller
<1>2. CASE other_acquires \/ other_releases \/ close \/ close_receiver
  BY <1>2, OtherStep
<1>3. CASE receive \/ finish
  BY <1>3, ReceiveStep, FinishStep
<1>4. CASE \E o \in Ops : run_store_operation(o) \/ reply(o)
  BY <1>4, RunStep
<1>5. CASE UNCHANGED vars
  BY <1>5 DEF vars, IInv, TypeOK, Holders, QueueInv, PhaseAt, Taken, AnswerInv, DoneInv
<1> QED
  BY <1>1, <1>2, <1>3, <1>4, <1>5 DEF Next, Actor

-----------------------------------------------------------------------------
(* Theorems. *)

\* The order of the channel and the phases of the operations stay in step,
\* whatever callers, deadlines, the stop token and the other paths do.
THEOREM Invariance == Spec => []IInv
  BY InitIInv, NextIInv, PTL DEF Spec

\* What RuntimeStoreActor answers is true for any number of callers, any
\* capacity of the channel and any budget: work it calls not executed is never
\* executed, the read of settle_job_operations is behind all work accepted
\* before it, and close leaves nothing in the channel or on the thread.
THEOREM Answering == Spec => []AnswersTrue
<1>1. IInv => AnswersTrue
  <2> SUFFICES ASSUME IInv PROVE AnswersTrue
    OBVIOUS
  <2>1. accepted \in Seq(Ops) /\ DOMAIN accepted = 1..Len(accepted) /\ Len(accepted) \in Nat
    BY DEF IInv, TypeOK
  <2>2. \A x \in Range(accepted) : \E i \in 1..Len(accepted) : accepted[i] = x
    BY <2>1 DEF Range
  <2>3. NotExecutedIsTrue
    BY <2>2, AtPlace DEF IInv, AnswerInv, NotExecutedIsTrue, Unsent
  <2>4. SettleIsBarrier
    <3> SUFFICES ASSUME NEW s \in Settles, NEW o \in Ops, answer[s] = "reply",
                        NEW i \in 1..Len(accepted), NEW j \in 1..Len(accepted),
                        i < j, accepted[i] = o, accepted[j] = s
                 PROVE  phase[o] \in Settled
      BY <2>1 DEF SettleIsBarrier, Before
    <3>1. s \in Ops /\ phase[s] = "ended"
      BY ActorBounds DEF Ops, IInv, AnswerInv
    <3>2. phase[o] \in PhaseAt(i) /\ phase[s] \in PhaseAt(j) /\ Taken \in Nat
      BY AtPlace
    <3>3. j <= Taken
      BY <3>1, <3>2 DEF PhaseAt
    <3>4. i < Taken
      BY <3>2, <3>3
    <3> QED
      BY <3>2, <3>4 DEF PhaseAt
  <2>5. ClosedIsDrained
    <3> SUFFICES ASSUME actor = "done", NEW i \in 1..Len(accepted) PROVE phase[accepted[i]] \in Settled
      BY <2>2 DEF ClosedIsDrained
    <3>1. phase[accepted[i]] \in PhaseAt(i) /\ accepted[i] \in Ops
      BY <2>1 DEF IInv, QueueInv
    <3>2. channel = <<>> /\ phase[accepted[i]] \notin Busy
      BY <3>1 DEF IInv, DoneInv
    <3>3. Len(accepted) \in Nat /\ Taken \in Nat /\ Taken = Len(accepted)
      BY AtPlace, <3>2 DEF Taken
    <3> QED
      <4>1. CASE i < Taken
        BY <3>1, <4>1 DEF PhaseAt
      <4>2. CASE i = Taken
        BY <3>1, <3>2, <3>3, <4>2 DEF PhaseAt
      <4>3. i < Taken \/ i = Taken
        BY <3>3
      <4> QED
        BY <4>1, <4>2, <4>3
  <2> QED
    BY <2>3, <2>4, <2>5 DEF AnswersTrue, IInv
<1> QED
  BY <1>1, Invariance, PTL
===============================================================================
