----------------------------- MODULE FileMutation -----------------------------
(***************************************************************************)
(* The edit and write tools on one path (core/src/tool/layer/mutation.rs): *)
(* inspect, take the write guard, read, record the change in the session   *)
(* log, write.  The guard is a lease in the process's memory and a claim   *)
(* with a time to live in the runtime store.  The claim carries the agent  *)
(* run and not the process: an attempt of a run that was superseded and    *)
(* its successor elsewhere have the same name in it.                       *)
(*                                                                         *)
(* An ordinary file is truncated and written in place.  A file of the      *)
(* hosted Agent Memory (hosted_execution/src/memory.rs) is compared with   *)
(* the version the tool read, under a file lock, and replaced by a rename. *)
(***************************************************************************)
EXTENDS Integers

CONSTANTS
    Writers,      \* tool calls in progress at a time
    Process,      \* writer -> the runtime process it runs in
    Owner,        \* writer -> its agent run, the owner its claims carry
    Editors,      \* the writers that call edit, the others call write
    MaxVersion,   \* bound: contents prepared
    MaxCrash,     \* bound: process crashes
    MaxExpiry     \* bound: claims that outlive their time to live

Processes == {Process[w] : w \in Writers}
Owners == {Owner[w] : w \in Writers}
Absent == 0
Torn == -1
Versions == 1..MaxVersion
NoClaim == [owner |-> "none", live |-> FALSE]

ASSUME MutationBounds ==
    /\ Editors \subseteq Writers /\ "none" \notin Writers
    /\ MaxVersion \in Nat /\ MaxCrash \in Nat /\ MaxExpiry \in Nat

VARIABLES
    file,     \* the content: Absent, Torn or a version
    lease,    \* processes whose FILE_WRITE_LEASES holds the path
    claim,    \* the row of resource_claims; live: expires_at_ms is ahead
    flock,    \* the writer that holds the memory root's lock file, or "none"
    facts,    \* contents with a pre-apply fact in a session log
    mu,       \* writer -> its local state
    shared,   \* history: runs that two processes held the guard for at a time
    versions, crashes, expiries,
    memory    \* whether the path is in Agent Memory

vars == <<file, lease, claim, flock, facts, mu, shared, versions, crashes, expiries>>
counters == <<versions, crashes, expiries>>

Idle == [pc |-> "idle", exists |-> FALSE, seen |-> Absent, new |-> Absent, lapsed |-> FALSE]
Pcs == {"idle", "inspected", "leased", "guarded", "read", "prepared", "committed", "check",
        "install", "writing", "unlock", "release", "unlease"}

Init ==
    /\ file \in {Absent, MaxVersion + 1}
    /\ lease = {} /\ claim = NoClaim /\ flock = "none" /\ facts = {}
    /\ mu = [w \in Writers |-> Idle]
    /\ shared = {} /\ versions = 0 /\ crashes = 0 /\ expiries = 0
    /\ memory \in BOOLEAN

At(w, pc) == mu[w].pc = pc
Go(w, pc) == mu' = [mu EXCEPT ![w].pc = pc]
HoldsGuard(w) == mu[w].pc \in Pcs \ {"idle", "inspected", "leased", "unlease"}

-----------------------------------------------------------------------------
(* One call of execute_file_mutation. *)

\* The path is inspected before the guard is taken.  An edit needs a file.
inspect_mutation_path(w) ==
    /\ At(w, "idle") /\ (w \in Editors => file # Absent)
    /\ mu' = [mu EXCEPT ![w] = [Idle EXCEPT !.pc = "inspected", !.exists = file # Absent]]
    /\ UNCHANGED <<file, lease, claim, flock, facts, shared, counters>>

Refused(w) == claim.live /\ claim.owner # Owner[w]

\* The row as this run's, whether it was free or already had its name.
Claimed(w) ==
    /\ claim' = [owner |-> Owner[w], live |-> TRUE]
    /\ shared' = IF \E v \in Writers :
                        HoldsGuard(v) /\ Owner[v] = Owner[w] /\ Process[v] # Process[w]
                 THEN shared \cup {Owner[w]} ELSE shared

\* Mutant: the claim of another run is taken over.
acquire_file_write_guard_over(w) ==
    /\ \/ /\ At(w, "inspected") /\ Process[w] \in lease
          /\ Go(w, "idle") /\ UNCHANGED <<lease, claim, shared>>
       \/ /\ At(w, "inspected") /\ Process[w] \notin lease
          /\ lease' = lease \cup {Process[w]} /\ Go(w, "leased") /\ UNCHANGED <<claim, shared>>
       \/ At(w, "leased") /\ Claimed(w) /\ Go(w, "guarded") /\ UNCHANGED lease
    /\ UNCHANGED <<file, flock, facts, counters>>

\* The process lease first, so that a second writer of the same run in the
\* process cannot adopt the claim; then the claim, which is refused while
\* another run's is live and otherwise taken, or refreshed (AlreadyOwned).
acquire_file_write_guard(w) ==
    /\ \/ /\ At(w, "inspected") /\ Process[w] \in lease
          /\ Go(w, "idle") /\ UNCHANGED <<lease, claim, shared>>
       \/ /\ At(w, "inspected") /\ Process[w] \notin lease
          /\ lease' = lease \cup {Process[w]} /\ Go(w, "leased") /\ UNCHANGED <<claim, shared>>
       \/ At(w, "leased") /\ Refused(w) /\ Go(w, "unlease") /\ UNCHANGED <<lease, claim, shared>>
       \/ At(w, "leased") /\ ~Refused(w) /\ Claimed(w) /\ Go(w, "guarded") /\ UNCHANGED lease
    /\ UNCHANGED <<file, flock, facts, counters>>

\* What the tool works from: the content if the inspection found a file,
\* which may be one that was created or written since.
read_file(w) ==
    /\ At(w, "guarded")
    /\ mu' = [mu EXCEPT ![w].pc = "read", ![w].seen = IF mu[w].exists THEN file ELSE Absent]
    /\ UNCHANGED <<file, lease, claim, flock, facts, shared, counters>>

\* The tool's own change; an edit whose text does not match gives up.
prepare(w) ==
    /\ At(w, "read")
    /\ \/ /\ versions < MaxVersion /\ versions' = versions + 1
          /\ mu' = [mu EXCEPT ![w].pc = "prepared", ![w].new = versions']
       \/ w \in Editors /\ Go(w, "release") /\ UNCHANGED versions
    /\ UNCHANGED <<file, lease, claim, flock, facts, shared, crashes, expiries>>

\* The pre-apply fact; without it nothing is written.
commit_file_mutation(w) ==
    /\ At(w, "prepared")
    /\ \/ /\ facts' = facts \cup {mu[w].new}
          /\ Go(w, "committed")
       \/ Go(w, "release") /\ UNCHANGED facts
    /\ UNCHANGED <<file, lease, claim, flock, shared, counters>>

\* fs::write on an ordinary file: truncated, then written.  The observed
\* hash is not looked at.
write_file_begin(w) ==
    /\ At(w, "committed") /\ ~memory
    /\ file' = Torn /\ Go(w, "writing")
    /\ UNCHANGED <<lease, claim, flock, facts, shared, counters>>

write_file_end(w) ==
    /\ At(w, "writing")
    /\ file' = mu[w].new /\ Go(w, "release")
    /\ UNCHANGED <<lease, claim, flock, facts, shared, counters>>

\* Agent Memory: lock, compare, install by a rename, unlock.
memory_lock(w) ==
    /\ At(w, "committed") /\ memory /\ flock = "none"
    /\ flock' = w /\ Go(w, "check")
    /\ UNCHANGED <<file, lease, claim, facts, shared, counters>>

memory_check(w) ==
    /\ At(w, "check")
    /\ Go(w, IF mu[w].seen = file THEN "install" ELSE "unlock")
    /\ UNCHANGED <<file, lease, claim, flock, facts, shared, counters>>

\* Or the temporary file cannot be written, and is removed.
install_atomic(w) ==
    /\ At(w, "install")
    /\ Go(w, "unlock")
    /\ file' \in {file, mu[w].new}
    /\ UNCHANGED <<lease, claim, flock, facts, shared, counters>>

memory_unlock(w) ==
    /\ At(w, "unlock")
    /\ flock' = "none" /\ Go(w, "release")
    /\ UNCHANGED <<file, lease, claim, facts, shared, counters>>

Released(w) == claim' = IF claim.owner = Owner[w] THEN NoClaim ELSE claim

\* Mutant: the row is deleted whoever owns it.
drop_file_write_guard_any(w) ==
    /\ \/ At(w, "release") /\ claim' = NoClaim /\ Go(w, "unlease") /\ UNCHANGED lease
       \/ /\ At(w, "unlease") /\ lease' = lease \ {Process[w]}
          /\ mu' = [mu EXCEPT ![w] = Idle] /\ UNCHANGED claim
    /\ UNCHANGED <<file, flock, facts, shared, counters>>

\* The fields of the guard in their order: the claim, if the row is still
\* this run's, then the lease.
drop_file_write_guard(w) ==
    /\ \/ At(w, "release") /\ Released(w) /\ Go(w, "unlease") /\ UNCHANGED lease
       \/ /\ At(w, "unlease") /\ lease' = lease \ {Process[w]}
          /\ mu' = [mu EXCEPT ![w] = Idle] /\ UNCHANGED claim
    /\ UNCHANGED <<file, flock, facts, shared, counters>>

-----------------------------------------------------------------------------
(* The surroundings. *)

\* The time to live runs out; nothing renews a claim while its writer works.
expire_claim ==
    /\ claim.live /\ expiries < MaxExpiry
    /\ claim' = [claim EXCEPT !.live = FALSE]
    /\ mu' = [w \in Writers |-> IF HoldsGuard(w) /\ Owner[w] = claim.owner
                                THEN [mu[w] EXCEPT !.lapsed = TRUE] ELSE mu[w]]
    /\ expiries' = expiries + 1
    /\ UNCHANGED <<file, lease, flock, facts, shared, versions, crashes>>

\* Expired rows are deleted from time to time.
reclaim_expired_resource_claims ==
    /\ claim # NoClaim /\ ~claim.live
    /\ claim' = NoClaim
    /\ UNCHANGED <<file, lease, flock, facts, mu, shared, counters>>

\* A process ends: its memory and its file locks go, the claim stays.
crash(p) ==
    /\ crashes < MaxCrash /\ \E w \in Writers : Process[w] = p /\ ~At(w, "idle")
    /\ crashes' = crashes + 1 /\ lease' = lease \ {p}
    /\ mu' = [w \in Writers |-> IF Process[w] = p THEN Idle ELSE mu[w]]
    /\ flock' = IF flock \in Writers /\ Process[flock] = p THEN "none" ELSE flock
    /\ UNCHANGED <<file, claim, facts, shared, versions, expiries>>

Step(w) ==
    \/ inspect_mutation_path(w) \/ acquire_file_write_guard(w) \/ read_file(w) \/ prepare(w)
    \/ commit_file_mutation(w) \/ write_file_begin(w) \/ write_file_end(w)
    \/ memory_lock(w) \/ memory_check(w) \/ install_atomic(w) \/ memory_unlock(w)
    \/ drop_file_write_guard(w)

Next ==
    /\ \/ \E w \in Writers : Step(w)
       \/ expire_claim \/ reclaim_expired_resource_claims
       \/ \E p \in Processes : crash(p)
    /\ UNCHANGED memory

Spec == Init /\ [][Next]_<<vars, memory>>

-----------------------------------------------------------------------------
Contents == Versions \cup {Absent, Torn, MaxVersion + 1}
MutationRow == [pc : Pcs, exists : BOOLEAN, seen : Contents, new : Versions \cup {Absent}, lapsed : BOOLEAN]

\* The states of the parts.
TypeOK ==
    /\ file \in Contents /\ lease \subseteq Processes /\ flock \in Writers \cup {"none"}
    /\ claim \in [owner : Owners, live : BOOLEAN] \cup {NoClaim}
    /\ facts \subseteq Versions
    /\ mu \in [Writers -> MutationRow]
    /\ shared \subseteq Owners
    /\ versions \in 0..MaxVersion /\ crashes \in 0..MaxCrash /\ expiries \in 0..MaxExpiry
    /\ memory \in BOOLEAN

\* A writer between acquire_file_write_guard and its drop has the claim in
\* the store until the time to live runs out: neither a refused writer of
\* the same run, nor another run, nor the late drop of its guard takes it away.
\* Only an attempt of the same run in another process may (shared), since the
\* claim is adopted and released by the run's name.
ClaimHeldWhileWriting ==
    \A w \in Writers :
        HoldsGuard(w) /\ ~mu[w].lapsed /\ Owner[w] \notin shared =>
            claim = [owner |-> Owner[w], live |-> TRUE]

\* "Reject a concurrent local writer before adopting a same-owner durable claim.
\* Otherwise its failed acquisition would release the active writer's claim."
\* (mutation.rs:240-241): an active writer's claim is there, whoever shares its
\* owner.  It does not hold (README, section 6).
ClaimHeldByWriter ==
    \A w \in Writers : HoldsGuard(w) /\ ~mu[w].lapsed => claim = [owner |-> Owner[w], live |-> TRUE]

\* What a tool writes over is what it read, when it read anything: no other
\* edit or write lands between its read and its write, while no claim
\* outlives its time to live and no run has two attempts at work on the path.
\* For Agent Memory, where atomic_write_at compares, it holds whoever writes,
\* and a file that appeared after the inspection is not written over either.
WriteReplacesObserved ==
    [][\A w \in Writers :
          (\/ /\ At(w, "committed") /\ mu'[w].pc = "writing" /\ mu[w].seen # Absent
              /\ expiries = 0 /\ shared = {}
           \/ At(w, "install") /\ file' # file)
             => file = mu[w].seen]_vars

\* A content on disk has its pre-apply fact in a session log, and so has the
\* change that was under way when a write was interrupted.
WriteIsRecorded ==
    /\ file \in Versions => file \in facts
    /\ file = Torn => facts # {}

\* Agent Memory is never seen half written (install_atomic renames).
MemoryIsWhole == memory => file # Torn

\* A writer holds the claim while it writes, has recorded what it writes, and
\* leaves a memory file whole (acquire_file_write_guard, commit_file_mutation).
WriteGuarded == TypeOK /\ ClaimHeldWhileWriting /\ WriteIsRecorded /\ MemoryIsWhole
=============================================================================
