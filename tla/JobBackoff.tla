------------------------------ MODULE JobBackoff ------------------------------
(***************************************************************************)
(* runtime_job_retry_delay_ms of packages/core, session/reliability.rs:    *)
(* exponential backoff, capped, plus a jitter.  The jitter is a hash of    *)
(* the job id, the attempt and the time modulo jitter_ms + 1, modelled as  *)
(* any value of that range.                                                *)
(***************************************************************************)
EXTENDS Naturals

CONSTANTS BaseDelay, MaxDelay, Multiplier, Jitter   \* RuntimeBackoffPolicy

Capped(attempt) ==
    LET backoff == BaseDelay * Multiplier ^ (attempt - 1)
    IN  IF backoff > MaxDelay THEN MaxDelay ELSE backoff

runtime_job_retry_delay_ms(attempt) ==
    LET safeAttempt == IF attempt = 0 THEN 1 ELSE attempt
    IN  Capped(safeAttempt) .. (Capped(safeAttempt) + Jitter)
=============================================================================
