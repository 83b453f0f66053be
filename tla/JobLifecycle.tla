----------------------------- MODULE JobLifecycle -----------------------------
(***************************************************************************)
(* What a runtime job promises to everybody who only watches its status:   *)
(* the transition table RuntimeJobStatus::can_transition_to of             *)
(* packages/core, session/reliability.rs.  No code consults the table; the *)
(* stores are meant to implement it.  One transaction may move many jobs.  *)
(***************************************************************************)
CONSTANT Jobs

VARIABLE status

is_terminal(s) == s \in {"succeeded", "failed", "dead_lettered", "cancelled"}

can_transition_to(s, next) ==
    \/ s = next
    \/ s = "queued" /\ next \in {"leased", "cancelled"}
    \/ s = "leased" /\ next \in {"running", "queued"}
    \/ s = "running" /\ next = "queued"
    \/ s \in {"leased", "running"} /\ is_terminal(next)

\* A job enters the table queued: every caller of schedule_runtime_job builds
\* its record with that status.
Step(s, next) == IF s = "absent" THEN next \in {"absent", "queued"}
                                 ELSE can_transition_to(s, next)

Init == status = [j \in Jobs |-> "absent"]

Next ==
    /\ status' = [j \in Jobs |-> status'[j]]
    /\ \A j \in Jobs : Step(status[j], status'[j])

Spec == Init /\ [][Next]_status
=============================================================================
