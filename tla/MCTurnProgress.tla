--------------------------- MODULE MCTurnProgress ---------------------------
(* What must eventually happen in a turn, one protocol at a time: its inputs,
   waits and tool calls.  part is chosen once and only that protocol moves,
   under the fairness of its own module.                                      *)
EXTENDS Naturals

CONSTANTS c1, c2, i1, i2

VARIABLES
    part,
    queue, job, log, written, snap, loop, turns, tools, superseded,
    waited, control, woken, snapshot, checkpoint, event, hookIntent, hookReceipt,
    hookRan, latest, pc, loc, proj, waitCrashes, waitOverlap,
    intent, receipt, logged, result, terminal, ran, att, clo, crashes, overlap

inputVars == <<queue, job, log, written, snap, loop, turns, tools, superseded>>
waitVars == <<waited, control, woken, snapshot, checkpoint, event, hookIntent,
              hookReceipt, hookRan, latest, pc, loc, proj, waitCrashes, waitOverlap>>
toolVars == <<intent, receipt, logged, result, terminal, ran, att, clo, crashes, overlap>>
vars == <<part, inputVars, waitVars, toolVars>>

TI == INSTANCE TurnInputs WITH
         Inputs <- {i1, i2}, Capacity <- 2, MaxAttempts <- 2, MaxTools <- 1,
         Overlaps <- {FALSE}
RW == INSTANCE RuntimeWait WITH
         Waits <- 2, MaxAttempts <- 4, MaxCrashes <- 0, Controls <- {"answer_now", "agent_run_cancelled"},
         HookFails <- FALSE, Overlaps <- {FALSE},
         job <- waited, intent <- hookIntent, receipt <- hookReceipt,
         ran <- hookRan, crashes <- waitCrashes, overlap <- waitOverlap
TR == INSTANCE ToolReceipts WITH
         Batch <- <<c1, c2>>, Serial <- {c2}, MaxAttempt <- 2, Closers <- {11},
         Overlaps <- {FALSE}, MaxCrash <- 2

Init == part \in {"inputs", "wait", "tools"} /\ TI!Init /\ RW!Init /\ TR!Init

Next ==
    /\ \/ part = "inputs" /\ TI!Next /\ UNCHANGED <<waitVars, toolVars>>
       \/ part = "wait" /\ RW!Next /\ UNCHANGED <<inputVars, toolVars>>
       \/ part = "tools" /\ TR!Next /\ UNCHANGED <<inputVars, waitVars>>
    /\ UNCHANGED part

Fairness ==
    \/ part = "inputs" /\ TI!Fairness
    \/ part = "wait" /\ RW!Fairness
    \/ part = "tools" /\ TR!Fairness

FairSpec == Init /\ [][Next]_vars /\ Fairness

-----------------------------------------------------------------------------
(* The liveness properties of the three modules; their comments are there.   *)

\* An accepted input is read unless its run fails, is cancelled or waits
\* (claim_turn_supplements).
AcceptedIsRead == TI!AcceptedIsRead

\* A run whose waited jobs have ended goes on with their results
\* (resolve_runtime_job_wait_async).
WaitResumes == RW!WaitResumes

\* A call in the session log gets its result (close_incomplete_tool_calls).
LoggedCallCloses == TR!LoggedCallCloses
=============================================================================
