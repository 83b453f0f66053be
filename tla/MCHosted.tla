------------------------------ MODULE MCHosted ------------------------------
(* Two protocols of the hosted server, each on its own: the lease a worker
   holds on its job (WorkerLease) and the sandboxes an execution is prepared in
   (EnvironmentAllocation, for three kinds of environments).  part is chosen
   once and only that protocol moves.                                         *)
EXTENDS WorkerLease, TLC

CONSTANTS x1, x2, x3, e1, e2, m1

VARIABLES
    part,
    holding, creation, anchor, receipts, removed, retirement, controller, attempts,
    container, creating, envGate, hostGate, step, view

sandboxVars == <<holding, creation, anchor, receipts, removed, retirement, controller,
                 attempts, container, creating, envGate, hostGate, step, view>>

\* Two attempts in one environment and a third in another.
EnvOf == x1 :> e1 @@ x2 :> e1 @@ x3 :> e2 @@ e1 :> e1 @@ e2 :> e2 @@ m1 :> e1

\* A host with room for one sandbox, which may vanish.
Full == INSTANCE EnvironmentAllocation WITH
           Executions <- {x1, x2, x3}, Environments <- {e1, e2}, Retirers <- {m1},
           Env <- EnvOf, PerRun <- {}, Ending <- {}, Limit <- 1, Vanishes <- TRUE,
           pc <- step
\* An environment for each run, cleaned when the run ends.
OneRun == INSTANCE EnvironmentAllocation WITH
             Executions <- {x1, x2, x3}, Environments <- {e1, e2}, Retirers <- {m1},
             Env <- EnvOf, PerRun <- {e1}, Ending <- {e1}, Limit <- 2, Vanishes <- FALSE,
             pc <- step
\* A retained environment whose run ends and which may be retired.
Retired == INSTANCE EnvironmentAllocation WITH
              Executions <- {x1, x2}, Environments <- {e1}, Retirers <- {m1},
              Env <- EnvOf, PerRun <- {}, Ending <- {e1}, Limit <- 1, Vanishes <- FALSE,
              pc <- step

ASSUME SandboxBounds ==
    Full!AllocationBounds /\ OneRun!AllocationBounds /\ Retired!AllocationBounds

HostedInit ==
    /\ Init
    /\ \/ part = "lease" /\ Full!Init
       \/ part = "full" /\ Full!Init
       \/ part = "per run" /\ OneRun!Init
       \/ part = "retired" /\ Retired!Init

HostedNext ==
    /\ \/ part = "lease" /\ Next /\ UNCHANGED sandboxVars
       \/ part = "full" /\ Full!Next /\ UNCHANGED vars
       \/ part = "per run" /\ OneRun!Next /\ UNCHANGED vars
       \/ part = "retired" /\ Retired!Next /\ UNCHANGED vars
    /\ UNCHANGED part

\* x1 and x2 share their environment.
Attempts == Permutations({x1, x2})

HostedSpec == HostedInit /\ [][HostedNext]_<<part, vars, sandboxVars>>

-----------------------------------------------------------------------------
(* The properties of EnvironmentAllocation; their comments are there.         *)

\* The ledger covers what Docker has (reserve, confirm, reconcile).
LedgerMatchesHost ==
    /\ part = "full" => Full!LedgerMatchesHost
    /\ part = "per run" => OneRun!LedgerMatchesHost
    /\ part = "retired" => Retired!LedgerMatchesHost

\* Instances end for good (cleanup receipts, retirement).
InstancesEnd ==
    /\ part = "full" => Full!InstancesEnd
    /\ part = "per run" => OneRun!InstancesEnd
    /\ part = "retired" => Retired!InstancesEnd
=============================================================================
