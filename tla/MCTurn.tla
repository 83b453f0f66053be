------------------------------- MODULE MCTurn -------------------------------
(* The three protocols of a turn, each on its own: its tools (ToolReceipts),
   the inputs that arrive during it (TurnInputs) and its waits (RuntimeWait).
   They share no state; part is chosen once and only that part moves.          *)
EXTENDS ToolReceipts

CONSTANTS c1, c2, i1, i2

TwoCalls == <<c1, c2>>

VARIABLES
    part,
    queue, job, log, written, snap, loop, turns, tools, superseded,
    waited, control, woken, snapshot, checkpoint, event, hookIntent, hookReceipt,
    hookRan, latest, pc, loc, proj, waitCrashes, waitOverlap

toolVars == <<vars, overlap>>
inputVars == <<queue, job, log, written, snap, loop, turns, tools, superseded>>
waitVars == <<waited, control, woken, snapshot, checkpoint, event, hookIntent,
              hookReceipt, hookRan, latest, pc, loc, proj, waitCrashes, waitOverlap>>

TI == INSTANCE TurnInputs WITH
         Inputs <- {i1, i2}, Capacity <- 2, MaxAttempts <- 2, MaxTools <- 1

RW == INSTANCE RuntimeWait WITH
         Waits <- 2, MaxAttempts <- 2, MaxCrashes <- 1, Controls <- {"answer_now", "agent_run_cancelled"},
         HookFails <- TRUE,
         job <- waited, intent <- hookIntent, receipt <- hookReceipt,
         ran <- hookRan, crashes <- waitCrashes, overlap <- waitOverlap

ASSUME PartBounds == TI!QueueBounds

TurnInit ==
    /\ part \in {"tools", "inputs", "wait"}
    /\ Init /\ (overlap => part = "tools")
    /\ TI!Init /\ (superseded => part = "inputs")
    /\ RW!Init /\ (waitOverlap => part = "wait")

TurnNext ==
    /\ \/ part = "tools" /\ Next /\ UNCHANGED <<inputVars, waitVars>>
       \/ part = "inputs" /\ TI!Next /\ UNCHANGED <<toolVars, waitVars>>
       \/ part = "wait" /\ RW!Next /\ UNCHANGED <<toolVars, inputVars>>
    /\ UNCHANGED part

TurnSpec == TurnInit /\ [][TurnNext]_<<part, toolVars, inputVars, waitVars>>

-----------------------------------------------------------------------------
(* The properties of TurnInputs and RuntimeWait; their comments are there.  *)

\* Inputs are read once and in order (commit, snapshot, acknowledgement).
ReadOnceInOrder == part = "inputs" => TI!ReadOnceInOrder

\* No accepted input is lost or left out of a completed run
\* (claim_turn_supplements, teardown).
NothingUnread == part = "inputs" => TI!NothingUnread

\* Hooks, results and events of a wait agree (resolve_runtime_job_wait_async).
WaitRecordsAgree == part = "wait" => RW!WaitRecordsAgree

\* A consumed batch never becomes pending again (save_snapshot_projection).
PendingNotResurrected == RW!PendingNotResurrected
=============================================================================
