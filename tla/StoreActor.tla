------------------------------ MODULE StoreActor ------------------------------
(***************************************************************************)
(* The runtime store actor (core/src/session/store/actor.rs): one task     *)
(* that takes store operations from a bounded channel and runs them one    *)
(* after the other on a blocking thread.  Synchronous callers wait with a  *)
(* deadline, asynchronous ones without, and may stop waiting.  Accepted    *)
(* work holds a permit of a budget shared with the other store paths of    *)
(* the host.                                                               *)
(*                                                                         *)
(* A caller's deadline is measured on the monotonic clock, the one the     *)
(* actor looks at before it starts an operation on the wall clock: what    *)
(* the actor finds is independent of what the caller found.                *)
(***************************************************************************)
EXTENDS Integers, Sequences, FiniteSets, Functions

CONSTANTS
    SyncOps,   \* operations of synchronous callers
    AsyncOps,  \* operations of asynchronous callers
    Settles,   \* the AsyncOps that settle_job_operations issues
    Capacity,  \* RUNTIME_STORE_ACTOR_CHANNEL_CAPACITY
    Budget     \* permits of the shared admission

Ops == SyncOps \cup AsyncOps

ASSUME ActorBounds ==
    /\ Capacity \in Nat \ {0} /\ Budget \in Nat \ {0} /\ Settles \subseteq AsyncOps
    /\ IsFiniteSet(SyncOps) /\ IsFiniteSet(AsyncOps)

VARIABLES
    phase,    \* operation -> where it is
    answer,   \* operation -> what its caller was told
    late,     \* synchronous operations whose caller's deadline has passed
    channel,  \* the operations in the channel
    accepted, \* history: operations in the order the channel took them
    others,   \* permits held by the other store paths
    stop,     \* the stop token
    actor     \* "open", "draining" or "done"

vars == <<phase, answer, late, channel, accepted, others, stop, actor>>

Waiting == "none"
NotExecuted == {"closed", "queue_timeout"}
Unconfirmed == {"timeout", "dropped", "join_failed"}
Settled == {"ended", "expired"}

Init ==
    /\ phase = [o \in Ops |-> "idle"]
    /\ answer = [o \in Ops |-> Waiting]
    /\ late = {}
    /\ channel = <<>> /\ accepted = <<>>
    /\ others = 0
    /\ stop = FALSE
    /\ actor = "open"

\* Permits: a caller that got one, the channel, and the blocking closure.
Holders == {o \in Ops : phase[o] \in {"admitted", "checked", "queued", "running"}}
Free == Cardinality(Holders) + others < Budget

At(o, p) == phase[o] = p /\ answer[o] = Waiting
Move(o, p) == phase' = [phase EXCEPT ![o] = p]
Tell(o, a) == answer' = [answer EXCEPT ![o] = a]

\* The caller returns with a; what it held goes with its future.
Return(o, a) ==
    /\ Move(o, "idle") /\ Tell(o, a)
    /\ UNCHANGED <<late, channel, accepted, others, stop, actor>>

(***************************************************************************)
(* Callers.                                                                *)
(***************************************************************************)

\* A caller asks for admission.
call(o) ==
    /\ At(o, "idle")
    /\ IF stop \/ actor # "open" THEN Return(o, "closed")
       ELSE /\ Move(o, "waiting")
            /\ UNCHANGED <<answer, late, channel, accepted, others, stop, actor>>

acquire_admission(o) ==
    /\ At(o, "waiting")
    /\ \/ stop /\ Return(o, "closed")
       \/ /\ ~stop /\ Free
          /\ Move(o, "admitted")
          /\ UNCHANGED <<answer, late, channel, accepted, others, stop, actor>>

\* The look at the stop token before each attempt to send.
check_stop(o) ==
    /\ At(o, "admitted")
    /\ IF stop THEN Return(o, "closed")
       ELSE /\ Move(o, "checked")
            /\ UNCHANGED <<answer, late, channel, accepted, others, stop, actor>>

\* Mutant: the sender does not notice that the channel was closed.
send_unnoticed(o) ==
    /\ At(o, "checked")
    /\ actor = "open"
    /\ \/ /\ Len(channel) < Capacity
          /\ Move(o, "queued")
          /\ channel' = Append(channel, o) /\ accepted' = Append(accepted, o)
          /\ UNCHANGED <<answer, late, others, stop, actor>>
       \/ /\ Len(channel) >= Capacity /\ o \notin late
          /\ Move(o, "admitted")
          /\ UNCHANGED <<answer, late, channel, accepted, others, stop, actor>>

\* The channel refuses after the actor closed it, and has Capacity places.  A
\* synchronous caller retries from the look at the stop token.
send(o) ==
    /\ At(o, "checked")
    /\ \/ actor # "open" /\ Return(o, "closed")
       \/ /\ actor = "open" /\ Len(channel) < Capacity
          /\ Move(o, "queued")
          /\ channel' = Append(channel, o) /\ accepted' = Append(accepted, o)
          /\ UNCHANGED <<answer, late, others, stop, actor>>
       \/ /\ actor = "open" /\ Len(channel) >= Capacity /\ o \notin late
          /\ Move(o, "admitted")
          /\ UNCHANGED <<answer, late, channel, accepted, others, stop, actor>>

\* The deadline of a synchronous caller passes.
deadline(o) ==
    /\ o \in SyncOps \ late
    /\ phase[o] # "idle" /\ answer[o] = Waiting
    /\ late' = late \cup {o}
    /\ UNCHANGED <<phase, answer, channel, accepted, others, stop, actor>>

\* A synchronous caller gives up before its operation is in the channel.
queue_timeout(o) ==
    /\ o \in late
    /\ At(o, "waiting") \/ (At(o, "checked") /\ actor = "open" /\ Len(channel) >= Capacity)
    /\ Return(o, "queue_timeout")

\* Mutant: a caller that gives up on an accepted operation calls it unqueued.
recv_timeout_unqueued(o) ==
    /\ o \in late
    /\ answer[o] = Waiting /\ phase[o] \in {"queued", "running", "ran", "expired"}
    /\ Tell(o, "queue_timeout")
    /\ UNCHANGED <<phase, late, channel, accepted, others, stop, actor>>

\* A synchronous caller gives up on an accepted operation.
recv_timeout(o) ==
    /\ o \in late
    /\ answer[o] = Waiting /\ phase[o] \in {"queued", "running", "ran", "expired"}
    /\ Tell(o, "timeout")
    /\ UNCHANGED <<phase, late, channel, accepted, others, stop, actor>>

\* The future of an asynchronous caller is dropped: an accepted operation stays.
drop_caller(o) ==
    /\ o \in AsyncOps
    /\ answer[o] = Waiting /\ phase[o] # "idle"
    /\ Tell(o, "abandoned")
    /\ Move(o, IF phase[o] \in {"waiting", "admitted", "checked"} THEN "idle" ELSE phase[o])
    /\ UNCHANGED <<late, channel, accepted, others, stop, actor>>

\* The reply of an operation that was skipped was dropped with it.
response_dropped(o) ==
    /\ At(o, "expired")
    /\ Tell(o, "dropped")
    /\ UNCHANGED <<phase, late, channel, accepted, others, stop, actor>>

\* Another store path takes and returns a permit.
other_acquires ==
    /\ Free /\ others = 0
    /\ others' = others + 1
    /\ UNCHANGED <<phase, answer, late, channel, accepted, stop, actor>>

other_releases ==
    /\ others > 0
    /\ others' = others - 1
    /\ UNCHANGED <<phase, answer, late, channel, accepted, stop, actor>>

(***************************************************************************)
(* The actor.                                                              *)
(***************************************************************************)

close ==
    /\ ~stop
    /\ stop' = TRUE
    /\ UNCHANGED <<phase, answer, late, channel, accepted, others, actor>>

\* The actor sees the stop token, at rest or beside the operation it runs.
close_receiver ==
    /\ stop /\ actor = "open"
    /\ actor' = "draining"
    /\ UNCHANGED <<phase, answer, late, channel, accepted, others, stop>>

Idle == \A o \in Ops : phase[o] \notin {"running", "ran"}

\* The next operation: skipped when its deadline has passed on the wall clock,
\* which only synchronous operations have.
receive ==
    /\ actor # "done" /\ (stop => actor = "draining")
    /\ Idle /\ channel # <<>>
    /\ LET o == Head(channel) IN
        \/ Move(o, "running")
        \/ o \in SyncOps /\ Move(o, "expired")
    /\ channel' = Tail(channel)
    /\ UNCHANGED <<answer, late, accepted, others, stop, actor>>

\* The blocking closure returns and gives its permit back, or panics.
run_store_operation(o) ==
    /\ phase[o] = "running"
    /\ Move(o, "ran")
    /\ UNCHANGED <<answer, late, channel, accepted, others, stop, actor>>

\* The reply, which a caller that gave up does not see.
reply(o) ==
    /\ phase[o] = "ran"
    /\ Move(o, "ended")
    /\ \/ answer[o] = Waiting /\ \E a \in {"reply", "join_failed"} : Tell(o, a)
       \/ answer[o] # Waiting /\ UNCHANGED answer
    /\ UNCHANGED <<late, channel, accepted, others, stop, actor>>

\* The channel is closed and empty: the task ends and close returns.
finish ==
    /\ actor = "draining" /\ Idle /\ channel = <<>>
    /\ actor' = "done"
    /\ UNCHANGED <<phase, answer, late, channel, accepted, others, stop>>

Caller(o) == \/ acquire_admission(o) \/ check_stop(o) \/ send(o) \/ queue_timeout(o)
             \/ recv_timeout(o) \/ response_dropped(o)
Actor == close_receiver \/ receive \/ finish \/ \E o \in Ops : run_store_operation(o) \/ reply(o)

Next ==
    \/ \E o \in Ops : call(o) \/ Caller(o) \/ deadline(o) \/ drop_caller(o)
    \/ other_acquires \/ other_releases
    \/ close \/ Actor

Spec == Init /\ [][Next]_vars

\* Callers and the actor are scheduled, time passes for synchronous callers,
\* the database answers, and the other store paths return their permits; the
\* semaphore is first come, first served.
Fairness ==
    /\ WF_vars(Actor) /\ WF_vars(other_releases)
    /\ \A o \in Ops : WF_vars(Caller(o)) /\ WF_vars(deadline(o))
    /\ \A o \in Ops : SF_vars(acquire_admission(o)) /\ SF_vars(send(o) /\ phase'[o] = "queued")

FairSpec == Spec /\ Fairness

(***************************************************************************)
(* Properties.                                                             *)
(***************************************************************************)

Phases == {"idle", "waiting", "admitted", "checked", "queued", "running", "ran", "ended", "expired"}
Answers == {Waiting, "reply", "abandoned"} \cup NotExecuted \cup Unconfirmed

\* The channel and the budget are within their limits.
TypeOK ==
    /\ phase \in [Ops -> Phases] /\ answer \in [Ops -> Answers]
    /\ late \subseteq SyncOps /\ others \in Nat
    /\ channel \in Seq(Ops) /\ accepted \in Seq(Ops) /\ Len(channel) <= Capacity
    /\ Cardinality(Holders) + others <= Budget
    /\ stop \in BOOLEAN /\ actor \in {"open", "draining", "done"}

\* A caller told that its operation was not executed (JobStoreError::not_executed)
\* is told the truth for good: the operation is not in the channel, does not run
\* and has not run, whatever the stop token, the channel and the deadlines do.
NotExecutedIsTrue ==
    \A o \in Ops : answer[o] \in NotExecuted => o \notin Range(accepted) /\ phase[o] = "idle"

Before(o, s) == \E i, j \in DOMAIN accepted : i < j /\ accepted[i] = o /\ accepted[j] = s

\* settle_job_operations is a barrier: when it has its reply, every operation
\* the channel took before it has ended or been skipped, also one whose caller
\* gave up and does not know.
SettleIsBarrier ==
    \A s \in Settles, o \in Ops : answer[s] = "reply" /\ Before(o, s) => phase[o] \in Settled

\* When close returns, every accepted operation has ended or been skipped: none
\* is lost in the channel and none runs after it.
ClosedIsDrained ==
    actor = "done" => \A o \in Range(accepted) : phase[o] \in Settled

\* Every call returns: with the operation's result, or an error that says why not.
CallReturns == \A o \in Ops : phase[o] # "idle" ~> answer[o] # Waiting

\* close returns, and by then the actor's work has given back its permits.
CloseReturns == stop ~> (actor = "done" /\ Holders = {})

\* What the actor answers is true: refused work was not executed, settled work
\* is behind the read that settles it, a closed actor has nothing left, and
\* channel and budget are within their limits.
AnswersTrue == TypeOK /\ NotExecutedIsTrue /\ SettleIsBarrier /\ ClosedIsDrained

\* Every call and close() return.
ActorAnswers == CallReturns /\ CloseReturns
=============================================================================
