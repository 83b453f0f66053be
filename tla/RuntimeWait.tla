---------------------------- MODULE RuntimeWait ----------------------------
(***************************************************************************)
(* A turn that waits for background jobs (core/src/runtime/loop_runtime.rs, *)
(* turn_processor.rs, tool_execution.rs).                                  *)
(*                                                                         *)
(* A tool call whose work goes on in a background job leaves the turn      *)
(* waiting.  What the wait needs to end is spread over four stores that no *)
(* transaction spans: the agent runtime snapshot holds the pending batch,  *)
(* a checkpoint row says that the turn waits, internal runtime events hold *)
(* the intents and the receipts of the post-tool hooks, and one event per  *)
(* call holds the result the wait ended with.  Each step below is one      *)
(* write, or one read of state others change.  An attempt is one execution *)
(* of the run: it may crash after every step, the next one loads whatever  *)
(* the stores hold, and a superseded one may go on beside its successor    *)
(* (overlap).  Every now_ms() of an attempt is the attempt's number: two   *)
(* attempts never stamp an event with the same time, one always does.      *)
(* Calls of the batch that do not wait, identity and digest checks of the  *)
(* stored records and the runtime events sent to clients are left out.     *)
(***************************************************************************)
EXTENDS Naturals, FiniteSets

CONSTANTS Waits,        \* the number of calls of the batch that wait
          MaxAttempts,  \* bound on the executions of the run
          MaxCrashes,   \* how many of them crash
          Controls,     \* the control requests that may arrive while it waits
          Overlaps,     \* the values of overlap, a subset of BOOLEAN
          HookFails     \* may a hook handler return an error?

Calls == 1..Waits
Attempts == 1..MaxAttempts
NoResult == [kind |-> "none", at |-> 0]
\* A terminal job always gives the same result; an abandoned one carries the
\* time of the attempt that gave up on it.
Result == {NoResult, [kind |-> "done", at |-> 0]}
          \cup [kind : {"abandoned"}, at : Attempts]
NoEvent == [result |-> NoResult, at |-> 0]
NoFact == [result |-> NoResult, at |-> 0]

VARIABLES
  job,         \* [Calls -> BOOLEAN]: is the job of the call terminal?
  control,     \* the control request stored for the run, or "none"
  woken,       \* has anything happened that wakes the waiting run?
  snapshot,    \* [pending, results, children]: the agent runtime snapshot
  checkpoint,  \* does the wait checkpoint of the turn exist?
  event,       \* [Calls -> [result, at]]: runtime_wait_result events
  intent,      \* [Calls -> [result, at]]: post-tool hook intents
  receipt,     \* [Calls -> [result, at]]: post-tool hook receipts
  ran,         \* [Calls -> Nat]: how often the hook of the call ran
  latest,      \* the number of the latest attempt
  pc, loc,     \* per attempt: where it is, and its local state
  proj,        \* [Calls -> the snapshot a projection writer loaded, or Idle]
  crashes,
  overlap      \* may a superseded execution go on?

stores == <<snapshot, checkpoint, event, intent, receipt>>
vars == <<job, control, woken, snapshot, checkpoint, event, intent, receipt,
          ran, latest, pc, loc, proj, crashes>>

Snapshot == [pending : BOOLEAN, results : [Calls -> Result],
             children : SUBSET Calls]
EmptySnapshot == [pending |-> FALSE, results |-> [c \in Calls |-> NoResult],
                  children |-> {}]
Idle == [pending |-> FALSE, results |-> [c \in Calls |-> NoResult],
         children |-> Calls \cup {0}]
Fact == [result : Result, at : 0..MaxAttempts]
Local == [mode : {"none"} \cup Controls, mem : Snapshot,
          res : [Calls -> Result], intent : [Calls -> Fact],
          receipt : [Calls -> Fact], i : 1..(Waits + 1), repair : BOOLEAN]
Ended == {"unborn", "waiting", "resumed", "stopped", "crashed", "failed",
          "hook_failed"}
Steps == {"enter", "checkpoint", "restore", "dispatch", "resolve", "jobs",
          "decide", "facts", "hook", "hook_run", "hook_receipt", "consume",
          "save", "save_waiting", "save_final"}

\* One type invariant: the records of every store and of every attempt.
TypeOK ==
  /\ job \in [Calls -> BOOLEAN]
  /\ control \in {"none"} \cup Controls
  /\ woken \in BOOLEAN /\ checkpoint \in BOOLEAN
  /\ snapshot \in Snapshot
  /\ event \in [Calls -> Fact]
  /\ intent \in [Calls -> Fact] /\ receipt \in [Calls -> Fact]
  /\ ran \in [Calls -> Nat]
  /\ latest \in Attempts
  /\ pc \in [Attempts -> Ended \cup Steps]
  /\ loc \in [Attempts -> Local]
  /\ proj \in [Calls -> Snapshot \cup {Idle}]
  /\ crashes \in 0..MaxCrashes

EmptyLocal == [mode |-> "none", mem |-> EmptySnapshot,
               res |-> [c \in Calls |-> NoResult],
               intent |-> [c \in Calls |-> NoFact],
               receipt |-> [c \in Calls |-> NoFact], i |-> 1,
               repair |-> FALSE]

\* The first attempt has run the tools of the batch: their jobs are scheduled
\* and it is about to record that the turn waits for them.
Init ==
  /\ job = [c \in Calls |-> FALSE]
  /\ control = "none" /\ woken = FALSE
  /\ snapshot = EmptySnapshot /\ checkpoint = FALSE
  /\ event = [c \in Calls |-> NoEvent]
  /\ intent = [c \in Calls |-> NoFact] /\ receipt = [c \in Calls |-> NoFact]
  /\ ran = [c \in Calls |-> 0]
  /\ latest = 1
  /\ pc = [a \in Attempts |-> IF a = 1 THEN "enter" ELSE "unborn"]
  /\ loc = [a \in Attempts |-> EmptyLocal]
  /\ proj = [c \in Calls |-> Idle]
  /\ crashes = 0
  /\ overlap \in Overlaps

Goto(a, from, to) == pc[a] = from /\ pc' = [pc EXCEPT ![a] = to]
\* The environment of an attempt's step is left alone by it.
Outside == UNCHANGED <<job, control, woken, latest, proj, crashes>>
-----------------------------------------------------------------------------
(* The turn that starts to wait (turn_processor.rs).                       *)

\* The pending batch goes into the session, and the session is saved as the
\* attempt holds it.
enter_wait(a) ==
  /\ Goto(a, "enter", "checkpoint")
  /\ loc' = [loc EXCEPT ![a].mem.pending = TRUE]
  /\ snapshot' = loc'[a].mem
  /\ Outside /\ UNCHANGED <<checkpoint, event, intent, receipt, ran>>

\* save_wait_checkpoint; the wait is then resolved at once.
save_wait_checkpoint(a) ==
  /\ Goto(a, "checkpoint", "resolve")
  /\ checkpoint' = TRUE
  /\ Outside /\ UNCHANGED <<snapshot, event, intent, receipt, ran, loc>>
-----------------------------------------------------------------------------
(* A later execution of the run (run_agent_loop_inner).                    *)

Active(a) == pc[a] \in Steps

\* A later execution starts when the last one crashed, or waits and was woken,
\* or lost its lease without noticing.  It loads the session and goes for the
\* wait when the session has a pending batch.
run_agent_loop(a) ==
  /\ a = latest + 1
  /\ \/ pc[latest] = "crashed"
     \/ pc[latest] = "waiting" /\ woken
     \/ overlap /\ Active(latest)
  /\ latest' = a /\ woken' = FALSE
  /\ loc' = [loc EXCEPT ![a].mem = snapshot]
  /\ pc' = [pc EXCEPT ![a] = IF snapshot.pending THEN "restore" ELSE "stopped"]
  /\ UNCHANGED <<job, control, ran, proj, crashes>> /\ UNCHANGED stores

\* A missing checkpoint is saved again from the pending batch of the session
\* that was loaded; the same one is left as it is.
restore_pending_runtime_job_wait_if_needed(a) ==
  /\ Goto(a, "restore", "dispatch")
  /\ checkpoint' = TRUE
  /\ Outside /\ UNCHANGED <<snapshot, event, intent, receipt, ran, loc>>

\* How the wait is taken up depends on the control request and the checkpoint.
\* A cancelled run without a checkpoint stops; without one the others repair
\* the transcript from the result events, if the session is still pending.
resume_wait(a) ==
  /\ pc[a] = "dispatch"
  /\ LET s == snapshot IN
     \/ /\ checkpoint
        /\ pc' = [pc EXCEPT ![a] = "resolve"]
        /\ loc' = [loc EXCEPT ![a].mode = control, ![a].mem = s]
     \/ /\ ~checkpoint /\ control = "agent_run_cancelled"
        /\ pc' = [pc EXCEPT ![a] = "stopped"]
        /\ UNCHANGED loc
     \/ /\ ~checkpoint /\ control # "agent_run_cancelled"
        /\ IF s.pending /\ \A c \in Calls : event[c] # NoEvent
             THEN /\ pc' = [pc EXCEPT ![a] = "facts"]
                  /\ loc' = [loc EXCEPT ![a].mem = s, ![a].repair = TRUE,
                                        ![a].res = [c \in Calls |-> event[c].result]]
             ELSE /\ pc' = [pc EXCEPT ![a] = "failed"]
                  /\ UNCHANGED loc
  /\ Outside /\ UNCHANGED stores /\ UNCHANGED ran
-----------------------------------------------------------------------------
(* resolve_runtime_job_wait_async.                                         *)

\* The session is loaded; it must still have the pending batch.
load_session(a) ==
  /\ Goto(a, "resolve", IF snapshot.pending THEN "jobs" ELSE "failed")
  /\ loc' = [loc EXCEPT ![a].mem = snapshot, ![a].i = 1,
                        ![a].res = [c \in Calls |-> NoResult]]
  /\ Outside /\ UNCHANGED stores /\ UNCHANGED ran

\* The result the wait takes from a job that is (terminal), or is not, over.
WaitResult(a, terminal) ==
  IF terminal THEN [kind |-> "done", at |-> 0]
  ELSE IF loc[a].mode # "none" THEN [kind |-> "abandoned", at |-> a]
  ELSE NoResult

\* The jobs are read one by one.
get_runtime_job(a) ==
  /\ pc[a] = "jobs"
  /\ LET c == loc[a].i IN
     /\ loc' = [loc EXCEPT ![a].res[c] = WaitResult(a, job[c]), ![a].i = c + 1]
     /\ pc' = [pc EXCEPT ![a] = IF c = Waits THEN "decide" ELSE "jobs"]
  /\ Outside /\ UNCHANGED stores /\ UNCHANGED ran

\* Mutant: the run forgets, when it goes on waiting, what has woken it since.
decide_forgets_wake(a) ==
  /\ Goto(a, "decide", IF \A c \in Calls : loc[a].res[c] # NoResult
                         THEN "facts"
                         ELSE IF a = 1 THEN "save_waiting" ELSE "waiting")
  /\ woken' = FALSE
  /\ UNCHANGED <<job, control, latest, proj, crashes>>
  /\ UNCHANGED stores /\ UNCHANGED <<ran, loc>>

\* With a result missing the run goes on waiting; the turn that started the
\* wait saves its session once more.
decide(a) ==
  /\ Goto(a, "decide", IF \A c \in Calls : loc[a].res[c] # NoResult
                         THEN "facts"
                         ELSE IF a = 1 THEN "save_waiting" ELSE "waiting")
  /\ Outside /\ UNCHANGED stores /\ UNCHANGED <<ran, loc>>

\* The intents and receipts of the hooks are loaded once for all calls.
load_tool_execution_facts(a) ==
  /\ Goto(a, "facts", "hook")
  /\ loc' = [loc EXCEPT ![a].intent = intent, ![a].receipt = receipt, ![a].i = 1]
  /\ Outside /\ UNCHANGED stores /\ UNCHANGED ran

NextHook(a) == IF loc[a].i < Waits THEN "hook"
               ELSE IF loc[a].repair THEN "save" ELSE "consume"

\* Mutant: an intent without a receipt runs the hook again.
post_tool_hook_retried(a) ==
  /\ pc[a] = "hook"
  /\ LET c == loc[a].i
         r == loc[a].res[c] IN
     IF loc[a].receipt[c] # NoFact
       THEN /\ pc' = [pc EXCEPT ![a] = IF loc[a].receipt[c].result = r
                                         THEN NextHook(a) ELSE "failed"]
            /\ loc' = [loc EXCEPT ![a].i = c + 1]
            /\ UNCHANGED intent
       ELSE /\ pc' = [pc EXCEPT ![a] = "hook_run"]
            /\ intent' = [intent EXCEPT ![c] = [result |-> r, at |-> a]]
            /\ UNCHANGED loc
  /\ Outside /\ UNCHANGED <<snapshot, checkpoint, event, receipt, ran>>

\* A receipt ends the hook, an intent alone makes it indeterminate, both only
\* for the same result; else the intent is recorded and the hook will run.
\* An event another attempt has recorded meanwhile is a conflict.
post_tool_hook_exactly_once(a) ==
  /\ pc[a] = "hook"
  /\ LET c == loc[a].i
         r == loc[a].res[c]
         Done(to) == /\ pc' = [pc EXCEPT ![a] = to]
                     /\ loc' = [loc EXCEPT ![a].i = c + 1]
         Fails == pc' = [pc EXCEPT ![a] = "failed"] /\ UNCHANGED loc IN
     \/ /\ loc[a].receipt[c] # NoFact
        /\ IF loc[a].receipt[c].result = r THEN Done(NextHook(a)) ELSE Fails
        /\ UNCHANGED <<intent, receipt>>
     \/ /\ loc[a].receipt[c] = NoFact /\ loc[a].intent[c] # NoFact
        /\ IF loc[a].intent[c].result = r /\ receipt[c] = NoFact
             THEN /\ Done(NextHook(a))
                  /\ receipt' = [receipt EXCEPT ![c] = [result |-> r, at |-> a]]
             ELSE Fails /\ UNCHANGED receipt
        /\ UNCHANGED intent
     \/ /\ loc[a].receipt[c] = NoFact /\ loc[a].intent[c] = NoFact
        /\ IF intent[c] = NoFact
             THEN /\ intent' = [intent EXCEPT ![c] = [result |-> r, at |-> a]]
                  /\ pc' = [pc EXCEPT ![a] = "hook_run"] /\ UNCHANGED loc
             ELSE Fails /\ UNCHANGED intent
        /\ UNCHANGED receipt
  /\ Outside /\ UNCHANGED <<snapshot, checkpoint, event, ran>>

\* The handler runs, once its intent is stored; its error ends the attempt.
run_post_tool_use_lifecycle_hook(a) ==
  /\ pc[a] = "hook_run"
  /\ ran' = [ran EXCEPT ![loc[a].i] = @ + 1]
  /\ \/ pc' = [pc EXCEPT ![a] = "hook_receipt"]
     \/ HookFails /\ pc' = [pc EXCEPT ![a] = "hook_failed"]
  /\ Outside /\ UNCHANGED stores /\ UNCHANGED loc

save_hook_receipt(a) ==
  /\ pc[a] = "hook_receipt"
  /\ LET c == loc[a].i IN
     IF receipt[c] = NoFact
       THEN /\ receipt' = [receipt EXCEPT ![c] = [result |-> loc[a].res[c], at |-> a]]
            /\ pc' = [pc EXCEPT ![a] = NextHook(a)]
            /\ loc' = [loc EXCEPT ![a].i = c + 1]
       ELSE /\ pc' = [pc EXCEPT ![a] = "failed"] /\ UNCHANGED <<receipt, loc>>
  /\ Outside /\ UNCHANGED <<snapshot, checkpoint, event, intent, ran>>

\* One transaction stores the results and deletes the checkpoint.  An event
\* stored before must be the same one, its time included; a checkpoint that is
\* gone is accepted only when no event was new.
consume_wait_checkpoint(a) ==
  /\ pc[a] = "consume"
  /\ LET new == [c \in Calls |-> [result |-> loc[a].res[c], at |-> a]] IN
     IF /\ \A c \in Calls : event[c] \in {NoEvent, new[c]}
        /\ checkpoint \/ event = new
       THEN event' = new /\ checkpoint' = FALSE /\ pc' = [pc EXCEPT ![a] = "save"]
       ELSE pc' = [pc EXCEPT ![a] = "failed"] /\ UNCHANGED <<event, checkpoint>>
  /\ Outside /\ UNCHANGED <<snapshot, intent, receipt, ran, loc>>

\* The results go into the transcript of the session loaded before the jobs
\* were read, the pending batch out of it, and the session is saved whole.
save_session(a) ==
  /\ Goto(a, "save", IF a = 1 THEN "save_final" ELSE "resumed")
  /\ loc' = [loc EXCEPT ![a].mem.pending = FALSE, ![a].mem.results = loc[a].res]
  /\ snapshot' = loc'[a].mem
  /\ Outside /\ UNCHANGED <<checkpoint, event, intent, receipt, ran>>

\* The turn that started the wait saves the session it was given back.
save_turn(a) ==
  /\ \/ Goto(a, "save_final", "resumed")
     \/ Goto(a, "save_waiting", "waiting")
  /\ snapshot' = loc[a].mem
  /\ Outside /\ UNCHANGED <<checkpoint, event, intent, receipt, ran, loc>>
-----------------------------------------------------------------------------
(* The jobs, the user and the projection of finished children.             *)

finish_job(c) ==
  /\ ~job[c] /\ job' = [job EXCEPT ![c] = TRUE] /\ woken' = TRUE
  /\ UNCHANGED <<control, ran, latest, pc, loc, proj, crashes>>
  /\ UNCHANGED stores

request_control(k) ==
  /\ control = "none" /\ control' = k /\ woken' = TRUE
  /\ UNCHANGED <<job, ran, latest, pc, loc, proj, crashes>>
  /\ UNCHANGED stores

\* persist_projection_items: load the snapshot ...
load_projection(c) ==
  /\ job[c] /\ proj[c] = Idle /\ c \notin snapshot.children
  /\ proj' = [proj EXCEPT ![c] = snapshot]
  /\ UNCHANGED <<job, control, woken, ran, latest, pc, loc, crashes>>
  /\ UNCHANGED stores

\* Mutant: the projection is saved over whatever the store holds.
save_projection_plain(c) ==
  /\ proj[c] # Idle
  /\ snapshot' = [proj[c] EXCEPT !.children = @ \cup {c}]
  /\ proj' = [proj EXCEPT ![c] = Idle]
  /\ UNCHANGED <<job, control, woken, checkpoint, event, intent, receipt,
                 ran, latest, pc, loc, crashes>>

\* ... and save it with the child merged in, if it is still the one loaded;
\* otherwise the writer starts again.
save_projection(c) ==
  /\ proj[c] # Idle
  /\ snapshot' = IF snapshot = proj[c]
                   THEN [snapshot EXCEPT !.children = @ \cup {c}] ELSE snapshot
  /\ proj' = [proj EXCEPT ![c] = Idle]
  /\ UNCHANGED <<job, control, woken, checkpoint, event, intent, receipt,
                 ran, latest, pc, loc, crashes>>

\* The process of an attempt dies between two of its steps.
Crash(a) ==
  /\ Active(a) /\ crashes < MaxCrashes
  /\ pc' = [pc EXCEPT ![a] = "crashed"] /\ crashes' = crashes + 1
  /\ UNCHANGED <<job, control, woken, ran, latest, loc, proj>>
  /\ UNCHANGED stores

Step(a) ==
  \/ enter_wait(a) \/ save_wait_checkpoint(a) \/ run_agent_loop(a)
  \/ restore_pending_runtime_job_wait_if_needed(a) \/ resume_wait(a)
  \/ load_session(a) \/ get_runtime_job(a) \/ decide(a)
  \/ load_tool_execution_facts(a) \/ post_tool_hook_exactly_once(a)
  \/ run_post_tool_use_lifecycle_hook(a) \/ save_hook_receipt(a)
  \/ consume_wait_checkpoint(a) \/ save_session(a) \/ save_turn(a)

Next ==
  /\ \/ \E a \in Attempts : Step(a) \/ Crash(a)
     \/ \E c \in Calls : finish_job(c) \/ load_projection(c) \/ save_projection(c)
     \/ \E k \in Controls : request_control(k)
  /\ UNCHANGED overlap

Spec == Init /\ [][Next]_<<vars, overlap>>

\* A running attempt goes on, a woken run is claimed again, and a job ends.
Fairness ==
  /\ \A a \in Attempts : WF_vars(Step(a))
  /\ \A c \in Calls : WF_vars(finish_job(c))
-----------------------------------------------------------------------------
(* Properties.                                                             *)

\* The post-tool hook of a waited call runs at most once, however often the
\* attempts that resolve the wait crash, restart or overlap
\* (run_post_tool_use_lifecycle_hook_exactly_once).
HookRunsOnce == \A c \in Calls : ran[c] <= 1

\* Once the pending batch is gone from the snapshot, the transcript has, for
\* every waited call, exactly the result the durable event of the wait records.
ResumedHasResults ==
  ~snapshot.pending /\ pc[1] # "enter" /\ (\E c \in Calls : event[c] # NoEvent)
    => \A c \in Calls : snapshot.results[c] # NoResult
                        /\ snapshot.results[c] = event[c].result

\* The hook of a call and the transcript see the same result: a wait is never
\* consumed with a result other than the one the hook was given, even when the
\* job ends, or the user gives up on it, between two attempts.
HookMatchesResult ==
  \A c \in Calls : event[c] # NoEvent => receipt[c].result = event[c].result

\* Only the turn that starts the wait puts the pending batch into the snapshot:
\* a projection of a finished child never brings a consumed batch back while
\* executions exclude each other.
PendingNotResurrected ==
  [][snapshot'.pending => snapshot.pending \/ enter_wait(1) \/ overlap]_vars

\* When the jobs of the batch have ended the run goes on with their results.
WaitResumes ==
  (\A c \in Calls : job[c]) ~> (\A c \in Calls : snapshot.results[c] # NoResult)

\* A wait whose results are stored is not beyond resuming: the execution that
\* takes it up after a crash does not fail on what the one before it stored.
\* It does not hold (README, section 6).
ConsumedWaitResumes ==
  (\A c \in Calls : event[c] # NoEvent) => pc[latest] # "failed"

\* Whatever crashes and restarts the wait went through, its hooks ran once, on
\* the results that its events record, and the transcript has those results.
WaitRecordsAgree == TypeOK /\ HookRunsOnce /\ HookMatchesResult /\ ResumedHasResults
=============================================================================
