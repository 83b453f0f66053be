--------------------------- MODULE SessionRegistry ---------------------------
(***************************************************************************)
(* Who may work in a session of the local runtime: AgentRunRegistry        *)
(* (packages/runtime, runtime_server/lease.rs) behind the admission checks *)
(* of RuntimeServerClientHub (runtime_rpc_transport.rs).  The registry     *)
(* keeps one mutex over three maps: the AgentRun that owns each session,   *)
(* the sessions being deleted, and a task tracker per session for          *)
(* background work.  Each hold of the mutex is one action.  finish()       *)
(* closes the turn control between two holds, a deletion sleeps on a       *)
(* condition variable or awaits trackers it has cloned, and the service    *)
(* drain awaits every tracker; those are the points where steps interleave.*)
(*                                                                         *)
(* External: tokio_util's TaskTracker (tokens, close, reopen, and wait,    *)
(* which ends when the tracker is closed and empty) and TurnControl, of    *)
(* which only "accepts input" is kept here.                                *)
(***************************************************************************)
EXTENDS Integers, Sequences, FiniteSets

CONSTANTS
    Sessions,
    Runs,           \* agentRunIds clients ask to start
    Works,          \* background sequences, each begun at most once
    Deleters,       \* callers that delete sessions
    Finishers,      \* callers of finish()
    MaxLeases,      \* bound: leases issued
    MaxTrackers     \* bound: trackers created

ASSUME RegistryBounds == MaxLeases \in Nat /\ MaxTrackers \in Nat

VARIABLES
    active,     \* active_by_session: session -> its lease, 0 when absent
    leases,     \* the leases issued, in order, with their turn control
    finish,     \* finisher -> where its call of finish() is
    deleting,   \* deleting_session_ids
    deletion,   \* deleter -> where it is, its registrations, the trackers it awaits
    trackerOf,  \* background_work: session -> its tracker, 0 when absent
    trackers,   \* the trackers created, in order
    token,      \* work -> the tracker whose token it holds, 0 when none
    draining,   \* RuntimeServerClientHub.draining
    drain       \* the service drain: where it is and the trackers it awaits

vars == <<active, leases, finish, deleting, deletion, trackerOf, trackers, token,
          draining, drain>>

runVars == <<active, leases, finish>>
workVars == <<trackerOf, trackers, token>>
gateVars == <<deleting, deletion>>
drainVars == <<draining, drain>>

Leases == 1..Len(leases)
Trackers == 1..Len(trackers)
Causes == {"none", "cancelled", "shutdown"}
LeaseRow == [session : Sessions, run : Runs, accepting : BOOLEAN, cause : Causes]
FinishPlaces == {"idle", "closing", "failed", "closed", "notify"}
TrackerRow == [session : Sessions, closed : BOOLEAN]
DeletionPlaces == {"idle", "gated", "asleep", "quiet", "awaiting", "cleared"}
NoFinish == [at |-> "idle", lease |-> 0]
NoDeletion == [at |-> "idle", sessions |-> {}, awaits |-> {}]

Init ==
    /\ active = [s \in Sessions |-> 0]
    /\ leases = <<>>
    /\ finish = [f \in Finishers |-> NoFinish]
    /\ deleting = {}
    /\ deletion = [d \in Deleters |-> NoDeletion]
    /\ trackerOf = [s \in Sessions |-> 0]
    /\ trackers = <<>>
    /\ token = [w \in Works |-> 0]
    /\ draining = FALSE
    /\ drain = [at |-> "idle", awaits |-> {}]

Tokens(t) == {w \in Works : token[w] = t}

-----------------------------------------------------------------------------
(* AgentRuns. *)

\* The hub refuses while draining; the registry refuses a session that is being
\* deleted or busy, and an agentRunId that is active in any session.
start(s, r) ==
    /\ ~draining
    /\ s \notin deleting
    /\ active[s] = 0
    /\ \A l \in Leases : leases[l].run = r => active[leases[l].session] # l
    /\ Len(leases) < MaxLeases
    /\ active' = [active EXCEPT ![s] = Len(leases) + 1]
    /\ leases' = Append(leases, [session |-> s, run |-> r,
                                 accepting |-> TRUE, cause |-> "none"])
    /\ UNCHANGED <<finish, gateVars, workVars, drainVars>>

\* A cancellation or a shutdown that holds a clone of the ActiveAgentRun, which
\* may be stale by now.  The control closes whether or not the request inside
\* it succeeds; the first successful request leaves the cause.
close_with_cause(l, cause, accepted) ==
    /\ leases' = [leases EXCEPT
                    ![l].accepting = FALSE,
                    ![l].cause = IF accepted /\ @ = "none" THEN cause ELSE @]
    /\ UNCHANGED <<active, finish, gateVars, workVars, drainVars>>

\* finish(), first hold: the run with this lease is found and cloned.  A caller
\* that was refused may ask again; the one the host has never does (Fairness).
finish_find(f, l) ==
    /\ \/ finish[f].at = "idle"
       \/ finish[f] = [at |-> "failed", lease |-> l]
    /\ l \in Leases
    /\ active[leases[l].session] = l
    /\ finish' = [finish EXCEPT ![f] = [at |-> "closing", lease |-> l]]
    /\ UNCHANGED <<active, leases, gateVars, workVars, drainVars>>

\* Outside the mutex: the control closes, and the session stays occupied.
finish_close(f) ==
    /\ finish[f].at = "closing"
    /\ finish' = [finish EXCEPT ![f].at = "closed"]
    /\ leases' = [leases EXCEPT ![finish[f].lease].accepting = FALSE]
    /\ UNCHANGED <<active, gateVars, workVars, drainVars>>

\* The control could not be closed: the call fails and the run keeps its session.
finish_close_failed(f) ==
    /\ finish[f].at = "closing"
    /\ finish' = [finish EXCEPT ![f].at = "failed"]
    /\ UNCHANGED <<active, leases, gateVars, workVars, drainVars>>

\* Mutant: the second hold closes and removes whatever run the session has now.
finish_remove_any(f) ==
    LET s == leases[finish[f].lease].session
    IN  /\ finish[f].at = "closed"
        /\ active[s] # 0
        /\ active' = [active EXCEPT ![s] = 0]
        /\ leases' = [leases EXCEPT ![active[s]].accepting = FALSE]
        /\ finish' = [finish EXCEPT ![f].at = "notify"]
        /\ UNCHANGED <<gateVars, workVars, drainVars>>

\* finish(), second hold: the run leaves the session if it still has it.
finish_remove(f) ==
    LET l == finish[f].lease
        s == leases[l].session
    IN  /\ finish[f].at = "closed"
        /\ IF active[s] = l
           THEN /\ active' = [active EXCEPT ![s] = 0]
                /\ finish' = [finish EXCEPT ![f].at = "notify"]
           ELSE /\ finish' = [finish EXCEPT ![f] = NoFinish]
                /\ UNCHANGED active
        /\ UNCHANGED <<leases, gateVars, workVars, drainVars>>

\* Mutant: nobody is told.
finish_silent(f) ==
    /\ finish[f].at = "notify"
    /\ finish' = [finish EXCEPT ![f] = NoFinish]
    /\ UNCHANGED <<active, leases, gateVars, workVars, drainVars>>

\* After the second hold: changed.notify_all wakes every sleeping deletion.
finish_notify(f) ==
    /\ finish[f].at = "notify"
    /\ finish' = [finish EXCEPT ![f] = NoFinish]
    /\ deletion' = [d \in Deleters |->
                      IF deletion[d].at = "asleep" THEN [deletion[d] EXCEPT !.at = "gated"]
                      ELSE deletion[d]]
    /\ UNCHANGED <<active, leases, deleting, workVars, drainVars>>
-----------------------------------------------------------------------------
(* Background work. *)

\* Mutant: a token is handed out for a session that is being deleted.
begin_during_deletion(w, s) ==
    LET t == IF trackerOf[s] = 0 THEN Len(trackers) + 1 ELSE trackerOf[s]
    IN  /\ ~draining
        /\ token[w] = 0
        /\ t \in 1..MaxTrackers
        /\ trackerOf' = [trackerOf EXCEPT ![s] = t]
        /\ trackers' = IF t \in Trackers THEN trackers
                       ELSE Append(trackers, [session |-> s, closed |-> FALSE])
        /\ token' = [token EXCEPT ![w] = t]
        /\ UNCHANGED <<runVars, gateVars, drainVars>>

\* A sequence takes a token of the session's tracker, created on demand.  A
\* closed tracker still gives tokens: only the two admission checks refuse.
begin_background_work(w, s) ==
    LET t == IF trackerOf[s] = 0 THEN Len(trackers) + 1 ELSE trackerOf[s]
    IN  /\ ~draining
        /\ s \notin deleting
        /\ token[w] = 0
        /\ t \in 1..MaxTrackers
        /\ trackerOf' = [trackerOf EXCEPT ![s] = t]
        /\ trackers' = IF t \in Trackers THEN trackers
                       ELSE Append(trackers, [session |-> s, closed |-> FALSE])
        /\ token' = [token EXCEPT ![w] = t]
        /\ UNCHANGED <<runVars, gateVars, drainVars>>

\* The sequence ends and drops its token.
end_background_work(w) ==
    /\ token[w] # 0
    /\ token' = [token EXCEPT ![w] = 0]
    /\ UNCHANGED <<runVars, gateVars, trackerOf, trackers, drainVars>>

-----------------------------------------------------------------------------
(* Session deletion. *)

\* The gate: refused if any of the sessions is being deleted, and the trackers
\* that exist are closed so that waiting for them can end.  An owner that has
\* cleared its sessions may find more (the children of a main session).
begin_session_deletion(d, S) ==
    /\ deletion[d].at \in {"idle", "cleared"}
    /\ S # {} /\ S \cap deleting = {}
    /\ deleting' = deleting \cup S
    /\ deletion' = [deletion EXCEPT ![d].at = "gated", ![d].sessions = @ \cup S]
    /\ trackers' = [t \in Trackers |->
                      [trackers[t] EXCEPT !.closed = @ \/ \E s \in S : trackerOf[s] = t]]
    /\ UNCHANGED <<runVars, trackerOf, token, drainVars>>

\* One pass of the condition-variable loop: the check and the sleep are under
\* one hold of the mutex.
wait_until_sessions_inactive(d) ==
    /\ deletion[d].at = "gated"
    /\ deletion' = [deletion EXCEPT ![d].at =
                      IF \E s \in deletion[d].sessions : active[s] # 0
                      THEN "asleep" ELSE "quiet"]
    /\ UNCHANGED <<runVars, deleting, workVars, drainVars>>

\* The trackers of the gated sessions are cloned under the mutex...
wait_for_background_work(d) ==
    /\ deletion[d].at = "quiet"
    /\ deletion[d].sessions \subseteq deleting
    /\ deletion' = [deletion EXCEPT
                      ![d].at = "awaiting",
                      ![d].awaits = {trackerOf[s] : s \in deletion[d].sessions} \ {0}]
    /\ UNCHANGED <<runVars, deleting, workVars, drainVars>>

\* TaskTracker::wait: closed and empty.
Settled(t) == trackers[t].closed /\ Tokens(t) = {}

\* ... and awaited one after another.
background_work_settled(d) ==
    /\ deletion[d].at = "awaiting"
    /\ \/ \E t \in deletion[d].awaits :
             /\ Settled(t)
             /\ deletion' = [deletion EXCEPT ![d].awaits = @ \ {t}]
       \/ /\ deletion[d].awaits = {}
          /\ deletion' = [deletion EXCEPT ![d].at = "cleared"]
    /\ UNCHANGED <<runVars, deleting, workVars, drainVars>>

\* Dropping the registrations, when the deletion is done, failed or abandoned:
\* the gate opens, an empty tracker is forgotten and any other is reopened.
drop_registration(d) ==
    LET S == deletion[d].sessions
        Kept == {s \in S : trackerOf[s] # 0 /\ Tokens(trackerOf[s]) # {}}
    IN  /\ deletion[d].at # "idle"
        /\ deleting' = deleting \ S
        /\ deletion' = [deletion EXCEPT ![d] = NoDeletion]
        /\ trackerOf' = [s \in Sessions |-> IF s \in S \ Kept THEN 0 ELSE trackerOf[s]]
        /\ trackers' = [t \in Trackers |->
                          [trackers[t] EXCEPT
                             !.closed = @ /\ ~ \E s \in Kept : trackerOf[s] = t]]
        /\ UNCHANGED <<runVars, token, drainVars>>

-----------------------------------------------------------------------------
(* Service shutdown. *)

\* Under the lock that admission takes too.
request_service_shutdown ==
    /\ ~draining
    /\ draining' = TRUE
    /\ UNCHANGED <<runVars, gateVars, workVars, drain>>

\* Every tracker is closed under the mutex and then awaited.
drain_background_work ==
    /\ draining
    /\ drain.at = "idle"
    /\ drain' = [at |-> "awaiting", awaits |-> {trackerOf[s] : s \in Sessions} \ {0}]
    /\ trackers' = [t \in Trackers |->
                      [trackers[t] EXCEPT !.closed = @ \/ \E s \in Sessions : trackerOf[s] = t]]
    /\ UNCHANGED <<runVars, gateVars, trackerOf, token, draining>>

drain_settled ==
    /\ drain.at = "awaiting"
    /\ \/ \E t \in drain.awaits :
             /\ Settled(t)
             /\ drain' = [drain EXCEPT !.awaits = @ \ {t}]
       \/ /\ drain.awaits = {}
          /\ drain' = [drain EXCEPT !.at = "done"]
    /\ UNCHANGED <<runVars, gateVars, workVars, draining>>
-----------------------------------------------------------------------------
Next ==
    \/ \E s \in Sessions, r \in Runs : start(s, r)
    \/ \E l \in Leases, cause \in {"cancelled", "shutdown"}, accepted \in BOOLEAN :
          close_with_cause(l, cause, accepted)
    \/ \E f \in Finishers :
          \/ \E l \in Leases : finish_find(f, l)
          \/ finish_close(f)
          \/ finish_close_failed(f)
          \/ finish_remove(f)
          \/ finish_notify(f)
    \/ \E w \in Works : \/ \E s \in Sessions : begin_background_work(w, s)
                        \/ end_background_work(w)
    \/ \E d \in Deleters :
          \/ \E S \in SUBSET Sessions : begin_session_deletion(d, S)
          \/ wait_until_sessions_inactive(d)
          \/ wait_for_background_work(d)
          \/ background_work_settled(d)
          \/ drop_registration(d)
    \/ request_service_shutdown
    \/ drain_background_work
    \/ drain_settled

Spec == Init /\ [][Next]_vars

\* A run ends and the drop of its registration calls finish() once, whatever
\* comes of it.
drop_agent_run(l) ==
    /\ \A f \in Finishers : finish[f].lease # l
    /\ \E f \in Finishers : finish_find(f, l)

\* Runs end; the threads and tasks that hold a step take it; accepted work ends.
Fairness ==
    /\ \A l \in 1..MaxLeases : WF_vars(drop_agent_run(l))
    /\ \A f \in Finishers :
          /\ WF_vars(finish_close(f) \/ finish_close_failed(f))
          /\ WF_vars(finish_remove(f))
          /\ WF_vars(finish_notify(f))
    /\ \A w \in Works : WF_vars(end_background_work(w))
    /\ \A d \in Deleters :
          /\ WF_vars(wait_until_sessions_inactive(d))
          /\ WF_vars(wait_for_background_work(d))
          /\ WF_vars(background_work_settled(d))
    /\ WF_vars(drain_settled)

FairSpec == Spec /\ Fairness

-----------------------------------------------------------------------------
(* Properties. *)

\* The maps of AgentRunRegistryState, the callers and the trackers have their
\* types; an active lease names its session.
TypeOK ==
    /\ leases \in Seq(LeaseRow)
    /\ active \in [Sessions -> 0..Len(leases)]
    /\ \A s \in Sessions : active[s] # 0 => leases[active[s]].session = s
    /\ finish \in [Finishers -> [at : FinishPlaces, lease : 0..Len(leases)]]
    /\ \A f \in Finishers : finish[f].at # "idle" => finish[f].lease # 0
    /\ trackers \in Seq(TrackerRow)
    /\ trackerOf \in [Sessions -> 0..Len(trackers)]
    /\ token \in [Works -> 0..Len(trackers)]
    /\ deleting \in SUBSET Sessions
    /\ deletion \in [Deleters -> [at : DeletionPlaces, sessions : SUBSET Sessions,
                                  awaits : SUBSET Trackers]]
    /\ draining \in BOOLEAN
    /\ drain \in [at : {"idle", "awaiting", "done"}, awaits : SUBSET Trackers]

\* An agentRunId is active in one session at a time, whoever starts it.
RunInOneSession ==
    \A s, t \in Sessions :
        active[s] # 0 /\ active[t] # 0 /\ leases[active[s]].run = leases[active[t]].run
            => s = t

\* A run that has left its session takes no input: finish() closes the control
\* before the second hold, also when two callers finish the same lease.
FinishedRunTakesNoInput ==
    \A l \in Leases : active[leases[l].session] # l => ~leases[l].accepting

\* A run leaves a session only by the second hold of a finish() for its own
\* lease: a late finish of an earlier run leaves its successor alone.
RunLeavesByItsOwnFinish ==
    [][\A s \in Sessions :
          active[s] # 0 /\ active'[s] # active[s] =>
             \E f \in Finishers : /\ finish[f] = [at |-> "closed", lease |-> active[s]]
                                  /\ finish'[f].at = "notify"]_vars

\* A stop is final: a closed control never takes input again, and the first
\* recorded cause stays, whoever stops the run afterwards.
StopIsFinal ==
    [][\A l \in Leases :
          /\ ~leases[l].accepting => ~leases'[l].accepting
          /\ leases[l].cause # "none" => leases'[l].cause = leases[l].cause]_vars

\* Every session being deleted has one owner, and owners share no session.
DeletionHasOneOwner ==
    /\ deleting = UNION {deletion[d].sessions : d \in Deleters}
    /\ \A d, e \in Deleters : d # e => deletion[d].sessions \cap deletion[e].sessions = {}

\* From the moment a deletion has seen its sessions inactive until it opens
\* the gate again, no AgentRun owns one of them.
DeletionExcludesRuns ==
    \A d \in Deleters : deletion[d].at \in {"quiet", "awaiting", "cleared"} =>
        \A s \in deletion[d].sessions : active[s] = 0

\* A sequence that holds a token is found through background_work, so a later
\* deletion or drain waits for it.
WorkIsTracked ==
    \A w \in Works : token[w] # 0 => trackerOf[trackers[token[w]].session] = token[w]

\* A deletion that has waited for background work has none left in its
\* sessions, and none begins until it opens the gate again.
DeletionExcludesWork ==
    \A d \in Deleters : deletion[d].at = "cleared" =>
        \A w \in Works : token[w] # 0 => trackers[token[w]].session \notin deletion[d].sessions

\* The service drain returns only when no accepted sequence is left.
DrainedMeansNoWork == drain.at = "done" => \A w \in Works : token[w] = 0

\* A run whose finish() failed: it keeps its session, and nobody asks again.
Stranded(s) == \E f \in Finishers : /\ active[s] # 0
                                    /\ finish[f] = [at |-> "failed", lease |-> active[s]]

\* A deletion that has closed the gate gets past the runs and the background
\* work of its sessions, unless a run there could not be finished: no wake-up of
\* the condition variable is lost and no tracker it awaits stays open.
DeletionClears ==
    \A d \in Deleters : deletion[d].at = "gated" ~>
        \/ deletion[d].at \in {"cleared", "idle"}
        \/ \E s \in deletion[d].sessions : Stranded(s)

\* The same whatever comes of finish().
\* It does not hold (README, section 6).
DeletionAlwaysClears ==
    \A d \in Deleters : deletion[d].at = "gated" ~> deletion[d].at \in {"cleared", "idle"}

\* The service drain returns once accepted work has ended.
\* It does not hold (README, section 6).
DrainReturns == drain.at = "awaiting" ~> drain.at = "done"

\* A run is in one session, and one that has left it takes no more input
\* (active_by_session against the turn control of its lease).
RunsApart == RunInOneSession /\ FinishedRunTakesNoInput

\* Whoever works in a session is known to those who wait for it: a run is in one
\* session, a deletion past its waits has its sessions to itself, with no run, no
\* background work and no other deletion, and a finished drain has left no work
\* behind (the maps, gates and trackers of AgentRunRegistry).
SessionExclusive ==
    /\ TypeOK /\ RunsApart
    /\ DeletionExcludesRuns /\ DeletionHasOneOwner
    /\ WorkIsTracked /\ DeletionExcludesWork /\ DrainedMeansNoWork

\* A run leaves by a finish() of its own lease, and its first stop stands
\* (finish, close_with_cause).
RunLifetime == RunLeavesByItsOwnFinish /\ StopIsFinal
==============================================================================
