------------------------ MODULE EnvironmentAllocation ------------------------
(***************************************************************************)
(* The ledger of the hosted execution environments on one host             *)
(* (runtime_server/src/postgres_store/residency.rs and its submodules,     *)
(* creation_attempts.rs, cleanup_receipts.rs) against the containers that  *)
(* Docker has: a holding is charged before a container is asked for, and   *)
(* refunded only on evidence that no container is left.                    *)
(*                                                                         *)
(* An execution is one attempt of a run to prepare its environment.  Each  *)
(* commit of a transaction is a step; the advisory locks of an environment *)
(* and of the host are held by a connection and end with it.               *)
(***************************************************************************)
EXTENDS Integers, FiniteSets

CONSTANTS
    Executions,    \* execution ids, one for each attempt to prepare
    Environments,  \* environments; the process that cleans one has its name
    Retirers,      \* maintenance requests to retire an environment
    Env,           \* execution, environment or retirer -> its environment
    PerRun,        \* the environments whose execution mode is perRun
    Ending,        \* the environments whose run becomes terminal
    Limit,         \* resident sandboxes the host admits
    Vanishes       \* TRUE: a container may go without the runtime's doing

Procs == Executions \cup Environments \cup Retirers
None == "none"
NoHolding == [state |-> None, known |-> FALSE]

AllocationBounds ==
    /\ PerRun \subseteq Environments /\ Ending \subseteq Environments /\ Limit \in Nat /\ Vanishes \in BOOLEAN
    /\ \A p \in Procs : Env[p] \in Environments

VARIABLES
    holding,      \* execution -> row of resident_sandboxes; known: it has a container id
    creation,     \* execution -> state of its environment_creation_attempts row
    anchor,       \* execution -> allocation_execution_id of its execution_instances row
    receipts,     \* executions whose run has a row in agent_run_cleanup_receipts
    removed,      \* executions whose instance a receipt reports physically removed
    retirement,   \* environment -> state of its environment_retirements row
    controller,   \* environment -> who holds its controller lease
    attempts,     \* environment -> the executions of its run in progress
    container,    \* executions whose container exists
    creating,     \* executions whose create request the Docker daemon still has
    envGate, hostGate,  \* holders of the advisory locks
    pc, view      \* process -> its position and its inventory

ledger == <<holding, creation, anchor, receipts, removed, retirement>>
authority == <<controller, attempts>>
docker == <<container, creating>>
gates == <<envGate, hostGate>>
vars == <<ledger, authority, docker, gates, pc, view>>

NoView == [pending |-> {}, preparing |-> {}, present |-> {}]

Init ==
    /\ holding = [x \in Executions |-> NoHolding]
    /\ creation = [x \in Executions |-> None]
    /\ anchor = [x \in Executions |-> None]
    /\ receipts = {} /\ removed = {} /\ container = {} /\ creating = {}
    /\ retirement = [e \in Environments |-> None]
    /\ controller = [e \in Environments |-> None]
    /\ attempts = [e \in Environments |-> {}]
    /\ envGate = [e \in Environments |-> None] /\ hostGate = None
    /\ pc = [p \in Procs |-> "idle"] /\ view = [p \in Procs |-> NoView]

At(p, at) == pc[p] = at
Go(p, at) == pc' = [pc EXCEPT ![p] = at]
Charged(x) == holding[x].state # None
HoldingsOf(e) == {x \in Executions : Env[x] = e /\ Charged(x)}

\* A call returns, with a result or an error: its locks are dropped and its
\* inventory forgotten.
Return(p, at) ==
    /\ Go(p, at)
    /\ envGate' = [e \in Environments |-> IF envGate[e] = p THEN None ELSE envGate[e]]
    /\ hostGate' = IF hostGate = p THEN None ELSE hostGate
    /\ view' = [view EXCEPT ![p] = NoView]

-----------------------------------------------------------------------------
(* Authority. *)

\* verify_controller for execution: the lease is the caller's and no
\* retirement of the environment has been accepted.
Executes(x) == controller[Env[x]] = x /\ retirement[Env[x]] = None

\* The open transaction of a physical operation locks the rows of the lease
\* and of the environment.
Pinned(e) == \E x \in Executions : Env[x] = e /\ pc[x] \in {"prepare", "sent", "confirm"}

\* A worker claims the lifecycle job, for a first attempt or after the lease
\* of another attempt ended.
claim_execution(x) ==
    /\ At(x, "idle") /\ x \notin receipts
    /\ ~Pinned(Env[x]) /\ controller[Env[x]] \notin Environments
    /\ controller' = [controller EXCEPT ![Env[x]] = x]
    /\ attempts' = [attempts EXCEPT ![Env[x]] = @ \cup {x}]
    /\ Go(x, "gate")
    /\ UNCHANGED <<ledger, docker, gates, view>>

\* The run is terminal and its job is claimed again to clean up.
claim_cleanup(e) ==
    /\ At(e, "idle") /\ ~Pinned(e) /\ controller[e] # None
    /\ controller' = [controller EXCEPT ![e] = e]
    /\ Go(e, "gate")
    /\ UNCHANGED <<ledger, attempts, docker, gates, view>>

request_retirement(m) ==
    /\ At(m, "idle") /\ Go(m, "gate")
    /\ UNCHANGED <<ledger, authority, docker, gates, view>>

-----------------------------------------------------------------------------
(* The locks and the inventory. *)

\* try_lock_environment; a caller that finds it taken gives up and the work
\* is tried again by a later claim.
lock_environment(p) ==
    /\ At(p, "gate")
    /\ \/ /\ envGate[Env[p]] = None
          /\ envGate' = [envGate EXCEPT ![Env[p]] = p] /\ Go(p, "host")
          /\ UNCHANGED <<hostGate, view>>
       \/ envGate[Env[p]] # None /\ Return(p, "idle")
    /\ UNCHANGED <<ledger, authority, docker>>

\* The host's lock: cleanup waits for it, the others give up.
lock_host(p) ==
    /\ At(p, "host")
    /\ \/ /\ hostGate = None /\ hostGate' = p
          /\ Go(p, IF p \in Retirers THEN "accept" ELSE "freeze")
          /\ UNCHANGED <<envGate, view>>
       \/ hostGate # None /\ p \notin Environments /\ Return(p, "idle")
    /\ UNCHANGED <<ledger, authority, docker>>

\* ResidentInventorySnapshot::freeze: the reservations whose creation is
\* undecided, and among them those whose environment someone is preparing.
freeze(p) ==
    /\ At(p, "freeze") /\ Go(p, "collect")
    /\ LET pending == {x \in Executions : holding[x].state = "reserved"}
       IN view' = [view EXCEPT ![p].pending = pending,
                               ![p].preparing = {x \in pending : envGate[Env[x]] \notin {None, p}}]
    /\ UNCHANGED <<ledger, authority, docker, gates>>

\* The containers Docker lists, those in preparation left out.
collect(p) ==
    /\ At(p, "collect") /\ Go(p, "reconcile")
    /\ view' = [view EXCEPT ![p].present = container \ view[p].preparing]
    /\ UNCHANGED <<ledger, authority, docker, gates>>

\* Rows that a transaction in progress has locked.
Locked(y) == \E x \in Executions :
    x # y /\ anchor[x] = y /\ pc[x] \in {"prepare", "sent", "confirm"}

\* A container that was seen confirms its reservation, or charges itself.
Seen(h) == [state |-> IF h.state \in {None, "reserved"} THEN "resident" ELSE h.state, known |-> TRUE]

\* Mutant: a row is refunded although its creation was undecided when the
\* inventory began.
reconcile_stale(p) ==
    /\ At(p, "reconcile") /\ Go(p, IF p \in Environments THEN "resolve" ELSE "reserve")
    /\ LET seen == [x \in Executions |-> IF x \in view[p].present THEN Seen(holding[x]) ELSE holding[x]]
           absent == {x \in Executions : /\ seen[x].state = "resident" /\ ~Locked(x)
                                         /\ x \notin view[p].present}
       IN \E refunded \in SUBSET absent :
              holding' = [x \in Executions |-> IF x \in refunded THEN NoHolding ELSE seen[x]]
    /\ UNCHANGED <<creation, anchor, receipts, removed, retirement, authority, docker, gates, view>>

\* reconcile: what the inventory shows is charged; a confirmed resident it
\* does not show is refunded, unless its creation was undecided when the
\* inventory began or its row is busy.
reconcile(p) ==
    /\ At(p, "reconcile") /\ Go(p, IF p \in Environments THEN "resolve" ELSE "reserve")
    /\ LET seen == [x \in Executions |-> IF x \in view[p].present THEN Seen(holding[x]) ELSE holding[x]]
           absent == {x \in Executions : /\ seen[x].state = "resident" /\ ~Locked(x)
                                         /\ x \notin view[p].present \cup view[p].pending}
       IN \E refunded \in SUBSET absent :
              holding' = [x \in Executions |-> IF x \in refunded THEN NoHolding ELSE seen[x]]
    /\ UNCHANGED <<creation, anchor, receipts, removed, retirement, authority, docker, gates, view>>

-----------------------------------------------------------------------------
(* prepare_retained_instance_then_initialize *)

\* An environment with an allocation that was dispatched and never confirmed
\* removed is lost once its holding is gone.
Lost(e) == \E y \in Executions :
    /\ Env[y] = e /\ anchor[y] = y /\ creation[y] # "notDispatched"
    /\ ~(e \in PerRun /\ y \in removed)

Admits == Cardinality({x \in Executions : Charged(x)}) < Limit

Reserved(x) ==
    /\ holding' = [holding EXCEPT ![x] = [state |-> "reserved", known |-> FALSE]]
    /\ creation' = [creation EXCEPT ![x] = "prepared"]
    /\ anchor' = [anchor EXCEPT ![x] = x]

\* The host's lock is dropped after the commit, the environment's is kept.
Advance(x, at) ==
    /\ Go(x, at) /\ hostGate' = None /\ view' = [view EXCEPT ![x] = NoView]
    /\ UNCHANGED envGate

\* The environment's resident is used again if the inventory shows it;
\* without a holding a new one is reserved; anything else is an error.
reserve(x) ==
    LET e == Env[x]
        usable == {y \in HoldingsOf(e) :
                       holding[y] = [state |-> "resident", known |-> TRUE] /\ y \in view[x].present}
        fresh == HoldingsOf(e) = {} /\ ~Lost(e) /\ Admits
    IN
    /\ At(x, "reserve")
    /\ \/ /\ Executes(x)
          /\ \E y \in usable : anchor' = [anchor EXCEPT ![x] = y]
          /\ Advance(x, "before_create") /\ UNCHANGED <<holding, creation>>
       \/ Executes(x) /\ fresh /\ Reserved(x) /\ Advance(x, "before_create")
       \/ /\ ~(Executes(x) /\ (fresh \/ usable # {}))
          /\ Return(x, "done") /\ UNCHANGED <<holding, creation, anchor>>
    /\ UNCHANGED <<receipts, removed, retirement, authority, docker>>

\* The session log records the execution outside any transaction of the
\* ledger.  When it cannot, a fresh reservation is given up.
before_create(x) ==
    /\ At(x, "before_create")
    /\ \/ Go(x, "dispatch") /\ UNCHANGED <<gates, view>>
       \/ anchor[x] = x /\ Go(x, "close") /\ UNCHANGED <<gates, view>>
       \/ anchor[x] # x /\ Return(x, "done")
    /\ UNCHANGED <<ledger, authority, docker>>

\* close_before_dispatch, under a current lease: the one refund that needs
\* no inventory.
close_before_dispatch(x) ==
    LET closes == /\ Executes(x) /\ creation[x] = "prepared"
                  /\ holding[x] = [state |-> "reserved", known |-> FALSE]
    IN
    /\ At(x, "close") /\ Return(x, "done")
    /\ creation' = IF closes THEN [creation EXCEPT ![x] = "notDispatched"] ELSE creation
    /\ holding' = IF closes THEN [holding EXCEPT ![x] = NoHolding] ELSE holding
    /\ UNCHANGED <<anchor, receipts, removed, retirement, authority, docker>>

\* The holding is as it was reserved or reused, and the dispatch of a fresh
\* creation is recorded before the transaction that covers it begins.
dispatch(x) ==
    LET h == holding[anchor[x]]
        unchanged == /\ h.state \notin {None, "releasing"} /\ h.known = (anchor[x] # x)
        fresh == anchor[x] = x
    IN
    /\ At(x, "dispatch")
    /\ \/ /\ Executes(x) /\ unchanged
          /\ Go(x, IF fresh THEN "pin" ELSE "prepare")
          /\ creation' = IF fresh THEN [creation EXCEPT ![x] = "dispatched"] ELSE creation
          /\ UNCHANGED <<gates, view>>
       \/ ~(Executes(x) /\ unchanged) /\ Return(x, "done") /\ UNCHANGED creation
    /\ UNCHANGED <<holding, anchor, receipts, removed, retirement, authority, docker>>

pin(x) ==
    /\ At(x, "pin")
    /\ \/ Executes(x) /\ Go(x, "prepare") /\ UNCHANGED <<gates, view>>
       \/ ~Executes(x) /\ Return(x, "done")
    /\ UNCHANGED <<ledger, authority, docker>>

\* ensure_container: an allocation used again must have its container; a
\* fresh one is asked of the daemon, unless an earlier check fails.
ensure_container(x) ==
    /\ At(x, "prepare")
    /\ \/ /\ anchor[x] # x /\ anchor[x] \in container
          /\ Go(x, "confirm") /\ UNCHANGED <<gates, view, creating>>
       \/ /\ anchor[x] = x /\ creating' = creating \cup {x}
          /\ Go(x, "sent") /\ UNCHANGED <<gates, view>>
       \/ Return(x, "done") /\ UNCHANGED creating
    /\ UNCHANGED <<ledger, authority, container>>

\* The daemon creates the container, or refuses, when it comes to it.
daemon_create(x) ==
    /\ x \in creating /\ creating' = creating \ {x}
    /\ container' \in {container, container \cup {x}}
    /\ UNCHANGED <<ledger, authority, gates, pc, view>>

\* The answer, or the inspection after an answer that did not come.  A
\* container that does not start is removed if possible; in perRun mode its
\* id is recorded and its charge left to cleanup, otherwise the outcome of
\* the reservation stays open.
created(x) ==
    /\ At(x, "sent")
    /\ \/ /\ x \in container /\ Go(x, "confirm")
          /\ UNCHANGED <<gates, view, holding, container>>
       \/ /\ x \in container /\ container' \in {container, container \ {x}}
          /\ holding' = IF Env[x] \in PerRun /\ holding[x].state = "reserved"
                        THEN [holding EXCEPT ![x] = [state |-> "releasing", known |-> TRUE]]
                        ELSE holding
          /\ Return(x, "done")
       \/ /\ x \notin container /\ Return(x, "done") /\ UNCHANGED <<holding, container>>
    /\ UNCHANGED <<creation, anchor, receipts, removed, retirement, authority, creating>>

\* The container is confirmed as the holding's.
confirm(x) ==
    /\ At(x, "confirm") /\ holding[anchor[x]].state \in {"reserved", "resident"}
    /\ holding' = [holding EXCEPT ![anchor[x]] = [state |-> "resident", known |-> TRUE]]
    /\ Return(x, "ready")
    /\ UNCHANGED <<creation, anchor, receipts, removed, retirement, authority, docker>>

-----------------------------------------------------------------------------
(* with_cleanup_authority: the settlement of a terminal run. *)

Anchors(e) == {anchor[x] : x \in attempts[e]} \ {None}

\* An unresolved reservation is never taken for an absent allocation.
Unresolved(e) == \E y \in HoldingsOf(e) :
    ~holding[y].known \/ (holding[y].state # "resident" /\ ~(e \in PerRun /\ holding[y].state = "releasing"))

\* A run with no instance to remove: its only creation was never dispatched,
\* the environment is destroyed, or there is no allocation at all.
NothingLeft(e) ==
    \/ \E y \in Anchors(e) : creation[y] = "notDispatched" /\ ~Charged(y) /\ y \notin view[e].present
    \/ retirement[e] = "destroyed" /\ HoldingsOf(e) = {} /\ \A y \in view[e].present : Env[y] # e
    \/ retirement[e] = None /\ HoldingsOf(e) = {} /\ Anchors(e) = {}

\* The environment's one holding, seen in the inventory or being released.
Instance(e, y) ==
    /\ retirement[e] = None /\ HoldingsOf(e) = {y} /\ Anchors(e) \subseteq {y}
    /\ y \in view[e].present \/ (e \in PerRun /\ holding[y].state = "releasing")

Settled(e) ==
    /\ receipts' = receipts \cup attempts[e]
    /\ attempts' = [attempts EXCEPT ![e] = {}]
    /\ controller' = [controller EXCEPT ![e] = None]
    /\ Return(e, "idle")

\* resolve_target: a perRun instance is marked as being released before it is
\* removed; a retained one is kept; whatever is unresolved is an error.
resolve_target(e) ==
    LET valid == /\ controller[e] = e /\ retirement[e] # "pending"
                 /\ ~Unresolved(e) /\ Cardinality(Anchors(e)) <= 1
        instance == {y \in Executions : ~NothingLeft(e) /\ Instance(e, y)}
    IN
    /\ At(e, "resolve")
    /\ \/ /\ valid /\ (NothingLeft(e) \/ (e \notin PerRun /\ instance # {}))
          /\ Settled(e) /\ UNCHANGED holding
       \/ /\ valid /\ e \in PerRun
          /\ \E y \in instance : holding' = [holding EXCEPT ![y].state = "releasing"]
          /\ Go(e, "remove") /\ UNCHANGED <<receipts, authority, gates, view>>
       \/ /\ ~valid \/ (~NothingLeft(e) /\ instance = {})
          /\ Return(e, "idle") /\ UNCHANGED <<receipts, authority, holding>>
    /\ UNCHANGED <<creation, anchor, removed, retirement, docker>>

\* Mutant: the refund follows the request to remove, not its confirmation.
cleanup_unconfirmed(e) ==
    /\ At(e, "remove")
    /\ container' \in {container, container \ HoldingsOf(e)}
    /\ removed' = removed \cup HoldingsOf(e)
    /\ holding' = [x \in Executions |-> IF Env[x] = e THEN NoHolding ELSE holding[x]]
    /\ Settled(e)
    /\ UNCHANGED <<creation, anchor, retirement, creating>>

\* The physical removal.  Confirmed: the refund and the receipt are one
\* transaction.  Otherwise the holding keeps its charge.
cleanup(e) ==
    /\ At(e, "remove")
    /\ \/ /\ container' = container \ HoldingsOf(e)
          /\ removed' = removed \cup HoldingsOf(e)
          /\ holding' = [x \in Executions |-> IF Env[x] = e THEN NoHolding ELSE holding[x]]
          /\ Settled(e)
       \/ /\ container' \in {container, container \ HoldingsOf(e)}
          /\ Return(e, "idle") /\ UNCHANGED <<holding, removed, receipts, authority>>
    /\ UNCHANGED <<creation, anchor, retirement, creating>>

-----------------------------------------------------------------------------
(* retire_retained_instance: an environment's end, decided by maintenance. *)

\* The barrier and the mark on the holding are durable before anything is
\* removed.  A request that finds its own barrier goes on from there.
accept_retirement(m) ==
    LET e == Env[m]
        targets == {y \in HoldingsOf(e) : holding[y].known}
    IN
    /\ At(m, "accept") /\ ~Pinned(e)
    /\ \/ /\ retirement[e] # "destroyed" /\ targets # {}
          /\ retirement' = [retirement EXCEPT ![e] = "pending"]
          /\ holding' = [x \in Executions |-> IF x \in targets THEN [holding[x] EXCEPT !.state = "releasing"]
                                              ELSE holding[x]]
          /\ Go(m, "retire") /\ UNCHANGED <<gates, view>>
       \/ /\ retirement[e] = "destroyed" \/ targets = {}
          /\ Return(m, "idle") /\ UNCHANGED <<retirement, holding>>
    /\ UNCHANGED <<creation, anchor, receipts, removed, authority, docker>>

\* The physical end: confirmed, the charge is refunded and the barrier says
\* destroyed; unknown, both stay.
retire(m) ==
    LET e == Env[m] IN
    /\ At(m, "retire") /\ Return(m, "idle")
    /\ \/ /\ container' = container \ HoldingsOf(e)
          /\ holding' = [x \in Executions |-> IF Env[x] = e /\ holding[x].state = "releasing"
                                              THEN NoHolding ELSE holding[x]]
          /\ retirement' = [retirement EXCEPT ![e] = "destroyed"]
       \/ /\ container' \in {container, container \ HoldingsOf(e)}
          /\ UNCHANGED <<holding, retirement>>
    /\ UNCHANGED <<creation, anchor, receipts, removed, authority, creating>>

-----------------------------------------------------------------------------
(* Faults. *)

\* The connection of a call ends, or its process does: the locks and the open
\* transaction are gone.  A call to the daemon may go on without it.
disconnect(p) ==
    /\ pc[p] \notin {"idle", "ready", "done", "orphan", "orphan_sent"}
    /\ \/ Return(p, IF p \in Executions THEN "done" ELSE "idle")
       \/ p \in Executions /\ anchor[p] = p /\ At(p, "prepare") /\ Return(p, "orphan")
       \/ p \in Executions /\ anchor[p] = p /\ At(p, "sent") /\ Return(p, "orphan_sent")
    /\ UNCHANGED <<ledger, authority, docker>>

\* The call without its connection: it creates the container, and removes it
\* again if it does not start.
orphaned_call(x) ==
    /\ \/ At(x, "orphan") /\ creating' = creating \cup {x} /\ Go(x, "orphan_sent") /\ UNCHANGED container
       \/ At(x, "orphan_sent") /\ container' \in {container, container \ {x}} /\ Go(x, "done") /\ UNCHANGED creating
    /\ UNCHANGED <<ledger, authority, gates, view>>

\* A container goes: by the host's doing, or by a removal whose caller is gone.
vanish(x) ==
    /\ x \in container /\ (Vanishes \/ holding[x].state = "releasing")
    /\ container' = container \ {x}
    /\ UNCHANGED <<ledger, authority, creating, gates, pc, view>>

Inventory(p) == lock_environment(p) \/ lock_host(p) \/ freeze(p) \/ collect(p) \/ reconcile(p)

Preparation(x) ==
    \/ claim_execution(x) \/ reserve(x) \/ before_create(x) \/ close_before_dispatch(x)
    \/ dispatch(x) \/ pin(x) \/ ensure_container(x) \/ created(x) \/ confirm(x)

Next ==
    \/ \E p \in Procs : Inventory(p) \/ disconnect(p)
    \/ \E x \in Executions : Preparation(x) \/ daemon_create(x) \/ orphaned_call(x) \/ vanish(x)
    \/ \E e \in Ending : claim_cleanup(e) \/ resolve_target(e) \/ cleanup(e)
    \/ \E m \in Retirers : request_retirement(m) \/ accept_retirement(m) \/ retire(m)

Spec == Init /\ [][Next]_vars

-----------------------------------------------------------------------------
\* Ledger rows, authorities and locks have their types.
TypeOK ==
    /\ holding \in [Executions -> {NoHolding, [state |-> "reserved", known |-> FALSE],
                                   [state |-> "resident", known |-> TRUE],
                                   [state |-> "releasing", known |-> TRUE]}]
    /\ creation \in [Executions -> {None, "prepared", "dispatched", "notDispatched"}]
    /\ anchor \in [Executions -> Executions \cup {None}]
    /\ retirement \in [Environments -> {None, "pending", "destroyed"}]
    /\ \A e \in Environments : /\ controller[e] \in {None, e} \cup {x \in Executions : Env[x] = e}
                                /\ attempts[e] \subseteq {x \in Executions : Env[x] = e}
                                /\ envGate[e] \in {None} \cup {p \in Procs : Env[p] = e}
    /\ hostGate \in Procs \cup {None}
    /\ receipts \subseteq Executions /\ removed \subseteq Executions
    /\ container \subseteq Executions /\ creating \subseteq Executions

Physical == container \cup creating

\* Every container, and every container the daemon may still create, is
\* charged to the host's budget: a lost answer, a lost connection, a stale
\* inventory or an unknown outcome never refunds one that exists.
PhysicalIsCharged == \A x \in Physical : Charged(x)

\* The charges never exceed what the host admits, however the preparations
\* of several environments interleave.
WithinLimit == Cardinality({x \in Executions : Charged(x)}) <= Limit

\* While the run that prepared an environment holds its lease and nothing
\* retires it, the container it works in is its confirmed resident: no
\* reconciliation of another run and no cleanup takes it away.
ReadyIsResident == \A x \in Executions :
    LET e == Env[x] IN
    At(x, "ready") /\ controller[e] = x /\ retirement[e] = None /\ anchor[x] \in container
        => holding[anchor[x]].state = "resident"

\* A retained environment has one instance in its life: once a creation was
\* dispatched no later run is given another container in its place.
OneInstance == \A e \in Environments \ PerRun :
    Cardinality({x \in Executions : Env[x] = e /\ creation[x] = "dispatched"}) <= 1

\* What is reported gone is gone for good: the containers of a settled run of
\* a perRun environment, and those of an environment reported destroyed,
\* neither exist nor are still to be created.
SettledIsGone ==
    /\ \A x \in receipts : Env[x] \in PerRun => x \notin Physical
    /\ \A x \in Physical : retirement[Env[x]] # "destroyed"

\* docs/development/SessionEnvironments.md: "Global admission covers ... the
\* durable create dispatch record, resume/create and physical identity
\* confirmation."  The code drops the host's lock after the reservation:
\* it does not hold (README, section 6).
GlobalCoversCreation == \A x \in Executions :
    pc[x] \in {"dispatch", "pin", "prepare", "sent", "confirm"} => hostGate = x

\* The ledger covers what Docker has: every container is charged, the charges
\* keep to the limit, and a run that holds its lease has its container
\* (reserve, confirm, reconcile).
LedgerMatchesHost == TypeOK /\ PhysicalIsCharged /\ WithinLimit /\ ReadyIsResident

\* An environment has one instance in its life, and what is reported gone is
\* gone (cleanup receipts, retirement).
InstancesEnd == OneInstance /\ SettledIsGone
=============================================================================
