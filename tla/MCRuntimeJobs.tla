---------------------------- MODULE MCRuntimeJobs ----------------------------
EXTENDS RuntimeJobs, TLC

Backoff == INSTANCE JobBackoff
             WITH BaseDelay <- 1, MaxDelay <- 2, Multiplier <- 2, Jitter <- 0

MCDelays(n) == Backoff!runtime_job_retry_delay_ms(n)

SourceSymmetry == Permutations(Sources)
=============================================================================
