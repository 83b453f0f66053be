-------------------------- MODULE FileMutationProofs --------------------------
(***************************************************************************)
(* That edits and writes of one path do not cross, for any number of tool  *)
(* calls, runs and processes, crashes and expired claims, wherever a run   *)
(* is not at work on the path in two processes at a time.  The lease in    *)
(* the process's memory is what lets the claim carry the run: two writers  *)
(* past the lease are in different processes, so of different runs, and    *)
(* one claim cannot be live for both.                                      *)
(***************************************************************************)
EXTENDS FileMutation, TLAPS

-----------------------------------------------------------------------------
(* The inductive invariant. *)

\* A writer that has its process's lease.
Leased(w) == mu[w].pc \notin {"idle", "inspected"}

\* A writer whose change is in the session log and may be on its way to disk.
Recorded == {"committed", "check", "install", "writing"}

\* What a writer has while it is where it is.
WriterInv(w) ==
    /\ Leased(w) => Process[w] \in lease
    /\ HoldsGuard(w) /\ ~mu[w].lapsed /\ Owner[w] \notin shared
          => claim = [owner |-> Owner[w], live |-> TRUE]
    /\ mu[w].lapsed => expiries # 0
    /\ mu[w].pc \in Recorded \cup {"prepared"} => mu[w].new \in Versions
    /\ mu[w].pc \in Recorded => mu[w].new \in facts
    /\ mu[w].pc = "writing" => ~memory
    /\ mu[w].pc \in {"check", "install", "unlock"} => memory /\ flock = w
    /\ mu[w].pc = "install" => file = mu[w].seen
    /\ mu[w].pc \in {"read", "prepared", "committed"} /\ mu[w].seen # Absent /\ expiries = 0 /\ shared = {}
          => file = mu[w].seen

\* One lease in a process.
OneLease == \A v, w \in Writers : Leased(v) /\ Leased(w) /\ Process[v] = Process[w] => v = w

\* Two guards of one run, which are in two processes, are on record.
OneHolder ==
    \A v, w \in Writers :
        HoldsGuard(v) /\ HoldsGuard(w) /\ v # w /\ Owner[v] = Owner[w] => Owner[v] \in shared

IInv ==
    /\ TypeOK /\ OneLease /\ OneHolder /\ WriteIsRecorded /\ MemoryIsWhole
    /\ \A w \in Writers : WriterInv(w)

ClaimRow == [owner : Owners, live : BOOLEAN] \cup {NoClaim}

-----------------------------------------------------------------------------
(* Rows and general steps. *)

\* What is known of a writer, its fields one by one.
LEMMA AtWriter ==
    ASSUME IInv, NEW w \in Writers
    PROVE  /\ mu[w] \in MutationRow /\ WriterInv(w) /\ mu[w].pc \in Pcs /\ mu[w].seen \in Contents
           /\ mu[w].exists \in BOOLEAN /\ mu[w].lapsed \in BOOLEAN
           /\ mu[w].new \in Versions \cup {Absent}
           /\ Process[w] \in Processes /\ Owner[w] \in Owners
<1>1. mu[w] \in MutationRow /\ WriterInv(w)
  BY DEF IInv, TypeOK
<1> QED
  BY <1>1 DEF MutationRow, Processes, Owners

\* What is known of what the writers share.
LEMMA AtPath ==
    ASSUME IInv
    PROVE  /\ file \in Contents /\ lease \subseteq Processes /\ flock \in Writers \cup {"none"}
           /\ claim \in ClaimRow /\ facts \subseteq Versions
           /\ versions \in 0..MaxVersion /\ memory \in BOOLEAN /\ expiries \in Nat
           /\ WriteIsRecorded /\ MemoryIsWhole
  BY MutationBounds DEF IInv, TypeOK, ClaimRow

\* What a step of a writer may do to the runs on record: nothing while it has
\* the guard or does not come by it, and otherwise add its own.
Shares(w, pc) ==
    \/ HoldsGuard(w) /\ shared' = shared
    \/ shared' = shared /\ claim' = claim /\ pc \in {"idle", "inspected", "leased", "unlease"}
    \/ /\ Leased(w) /\ shared \subseteq shared' /\ shared' \subseteq Owners
       /\ \A v \in Writers : HoldsGuard(v) /\ Owner[v] = Owner[w] /\ Process[v] # Process[w]
                                => Owner[w] \in shared'

\* A guard that is not on record beside the one a step takes or changes is of
\* another run.
LEMMA OneGuard ==
    ASSUME IInv, NEW v \in Writers, NEW w \in Writers, NEW pc, v # w, HoldsGuard(v), Shares(w, pc),
           claim' # claim \/ pc \notin {"idle", "inspected", "leased", "unlease"},
           Owner[v] \notin shared'
    PROVE  Owner[v] # Owner[w]
<1>1. Leased(v) /\ OneLease /\ OneHolder
  BY DEF IInv, HoldsGuard, Leased
<1>2. CASE HoldsGuard(w) /\ shared' = shared
  BY <1>1, <1>2 DEF OneHolder
<1>3. CASE Leased(w)
  <2>1. Process[v] # Process[w]
    BY <1>1, <1>3 DEF OneLease
  <2> QED
    BY <1>2, <2>1 DEF Shares
<1> QED
  BY <1>2, <1>3 DEF Shares

\* A step of one writer: it takes and gives back its own lease and claim, and
\* touches the file only with the guard, under the lock if it is in memory.
LEMMA WriterMoves ==
    ASSUME IInv, NEW w \in Writers, NEW r \in MutationRow, mu' = [mu EXCEPT ![w] = r],
           UNCHANGED <<crashes, expiries, memory>>, versions' \in 0..MaxVersion,
           file' \in Contents, lease' \subseteq Processes, claim' \in ClaimRow,
           flock' \in Writers \cup {"none"},
           facts \subseteq facts', facts' \subseteq Versions,
           \A p \in lease : p # Process[w] => p \in lease',
           r.pc \notin {"idle", "inspected"} => Leased(w) \/ Process[w] \notin lease,
           claim' = claim \/ (claim.live => claim.owner = Owner[w]), Shares(w, r.pc),
           flock' = flock \/ flock \in {w, "none"},
           file' = file \/ (HoldsGuard(w) /\ (memory => flock = w)),
           lease' = lease \/ Leased(w) \/ (lease \subseteq lease' /\ Process[w] \notin lease),
           mu'[w] = r => WriterInv(w)',
           WriteIsRecorded', MemoryIsWhole'
    PROVE  IInv'
<1>0. shared \subseteq shared' /\ shared' \subseteq Owners
  BY DEF IInv, TypeOK, Shares
<1>1. /\ mu' \in [Writers -> MutationRow] /\ mu'[w] = r
      /\ \A v \in Writers : v # w => mu'[v] = mu[v]
  BY DEF IInv, TypeOK
<1>2. TypeOK'
  BY <1>0, <1>1 DEF IInv, TypeOK, ClaimRow
<1>3. OneLease'
  <2> SUFFICES ASSUME NEW v \in Writers, NEW u \in Writers, Leased(v)', Leased(u)',
                      Process[v] = Process[u], v # u
               PROVE  FALSE
    BY DEF OneLease
  <2>1. \A t \in Writers : t # w /\ Leased(t)' => Leased(t) /\ Process[t] \in lease
    BY <1>1, Zenon DEF IInv, WriterInv, Leased
  <2>2. \A t \in Writers : t # w /\ Leased(t)' /\ Leased(w)' => Process[t] # Process[w]
    <3>1. Leased(w)' => r.pc \notin {"idle", "inspected"}
      BY <1>1 DEF Leased
    <3> QED
      BY <2>1, <3>1 DEF IInv, OneLease
  <2>3. v # w /\ u # w => FALSE
    BY <2>1 DEF IInv, OneLease
  <2> QED
    BY <2>2, <2>3
<1>4. ASSUME NEW v \in Writers, v # w PROVE WriterInv(v)'
  <2>1. mu'[v] = mu[v] /\ WriterInv(v) /\ expiries' = expiries /\ memory' = memory
    BY <1>1, <1>4, AtWriter
  <2>2. Leased(v) => Process[v] \in lease'
    <3>1. CASE lease' = lease
      BY <2>1, <3>1 DEF WriterInv
    <3>2. CASE Leased(w)
      <4>1. Leased(v) => Process[v] # Process[w]
        BY <1>4, <3>2 DEF IInv, OneLease
      <4> QED
        BY <2>1, <4>1 DEF WriterInv
    <3>3. CASE lease \subseteq lease'
      BY <2>1, <3>3 DEF WriterInv
    <3> QED
      BY <3>1, <3>2, <3>3
  <2>3. HoldsGuard(v) /\ ~mu[v].lapsed /\ Owner[v] \notin shared' => claim' = claim
    <3> SUFFICES ASSUME HoldsGuard(v), ~mu[v].lapsed, Owner[v] \notin shared', claim' # claim
                 PROVE  FALSE
      OBVIOUS
    <3>1. claim = [owner |-> Owner[v], live |-> TRUE]
      BY <1>0, <2>1 DEF WriterInv
    <3>2. Owner[v] = Owner[w]
      BY <3>1
    <3> QED
      BY <1>4, <3>2, OneGuard
  <2>4. mu[v].pc \in {"check", "install", "unlock"} => flock' = v
    BY <1>4, <2>1, MutationBounds DEF WriterInv
  <2>5. mu[v].pc = "install" => file' = file
    BY <1>4, <2>1 DEF WriterInv
  <2>6. HoldsGuard(v) /\ expiries = 0 /\ shared = {} => file' = file
    <3> SUFFICES ASSUME HoldsGuard(v), expiries = 0, shared = {}, HoldsGuard(w) PROVE FALSE
      OBVIOUS
    <3>1. ~mu[v].lapsed /\ ~mu[w].lapsed /\ WriterInv(w)
      BY <2>1, AtWriter DEF WriterInv
    <3>2. claim.owner = Owner[w] /\ claim.owner = Owner[v]
      BY <2>1, <3>1 DEF WriterInv
    <3> QED
      BY <1>4, <3>2 DEF IInv, OneHolder
  <2>7. mu[v].pc \in {"read", "prepared", "committed"} => HoldsGuard(v)
    BY DEF HoldsGuard, Pcs
  <2> QED
    BY <1>0, <2>1, <2>2, <2>3, <2>4, <2>5, <2>6, <2>7 DEF WriterInv, Leased, HoldsGuard
<1>5. OneHolder'
  <2> SUFFICES ASSUME NEW v \in Writers, NEW u \in Writers, HoldsGuard(v)', HoldsGuard(u)',
                      v # u, Owner[v] = Owner[u], Owner[v] \notin shared'
               PROVE  FALSE
    BY DEF OneHolder
  <2>1. \A t \in Writers : t # w /\ HoldsGuard(t)' => HoldsGuard(t)
    BY <1>1 DEF HoldsGuard
  <2>2. HoldsGuard(w)' => r.pc \notin {"idle", "inspected", "leased", "unlease"}
    BY <1>1 DEF HoldsGuard
  <2>3. v # w /\ u # w => FALSE
    BY <1>0, <2>1 DEF IInv, OneHolder
  <2> QED
    BY <2>1, <2>2, <2>3, OneGuard
<1> QED
  BY <1>1, <1>2, <1>3, <1>4, <1>5 DEF IInv

\* A step that changes nothing but where its writer is and what it knows.
LEMMA LocalMoves ==
    ASSUME IInv, NEW w \in Writers, NEW r \in MutationRow, mu' = [mu EXCEPT ![w] = r],
           UNCHANGED <<file, lease, claim, flock, facts, shared, crashes, expiries, memory>>,
           versions' \in 0..MaxVersion,
           r.pc \notin {"idle", "inspected"} => Leased(w),
           HoldsGuard(w) \/ r.pc \in {"idle", "inspected", "leased", "unlease"},
           mu'[w] = r => WriterInv(w)'
    PROVE  IInv'
<1>1. /\ file' = file /\ lease' = lease /\ claim' = claim /\ flock' = flock /\ facts' = facts
      /\ UNCHANGED <<crashes, expiries, memory>> /\ memory' = memory
  OBVIOUS
<1>2. /\ file \in Contents /\ lease \subseteq Processes /\ flock \in Writers \cup {"none"}
      /\ claim \in ClaimRow /\ facts \subseteq Versions
      /\ WriteIsRecorded /\ MemoryIsWhole
  BY AtPath
<1>3. WriteIsRecorded' /\ MemoryIsWhole'
  BY <1>1, <1>2 DEF WriteIsRecorded, MemoryIsWhole
<1>4. Shares(w, r.pc)
  BY DEF Shares
<1> QED
  BY <1>1, <1>2, <1>3, <1>4, WriterMoves, Zenon

\* The row a step writes that only moves its writer.
MovedTo(r, w, x) ==
    /\ r \in MutationRow /\ r.pc = x /\ r.exists = mu[w].exists /\ r.seen = mu[w].seen
    /\ r.new = mu[w].new /\ r.lapsed = mu[w].lapsed

\* Go writes such a row.
LEMMA GoRow ==
    ASSUME IInv, NEW w \in Writers, NEW x \in Pcs, Go(w, x)
    PROVE  \E r : MovedTo(r, w, x) /\ mu' = [mu EXCEPT ![w] = r]
<1> DEFINE r == [mu[w] EXCEPT !.pc = x]
<1>1. mu[w] \in MutationRow
  BY AtWriter
<1>2. MovedTo(r, w, x)
  BY <1>1 DEF MutationRow, MovedTo
<1>3. mu' = [mu EXCEPT ![w] = r]
  BY DEF Go
<1> QED
  BY <1>2, <1>3, Zenon

\* Nothing has begun.
LEMMA InitIInv == Init => IInv
<1> SUFFICES ASSUME Init PROVE IInv
  OBVIOUS
<1>1. Idle \in MutationRow /\ Idle.pc = "idle" /\ Idle.lapsed = FALSE
  BY DEF Idle, MutationRow, Pcs, Contents
<1>2. \A w \in Writers : mu[w] = Idle
  BY Zenon DEF Init
<1>3. TypeOK
  <2>1. mu \in [Writers -> MutationRow]
    BY <1>1 DEF Init
  <2> QED
    BY <2>1, MutationBounds DEF Init, TypeOK, Contents
<1>4. OneLease /\ OneHolder /\ \A w \in Writers : WriterInv(w)
  BY <1>1, <1>2 DEF OneLease, OneHolder, WriterInv, Leased, HoldsGuard, Recorded
<1>5. WriteIsRecorded /\ MemoryIsWhole
  BY MutationBounds DEF Init, WriteIsRecorded, MemoryIsWhole, Versions, Absent, Torn
<1> QED
  BY <1>3, <1>4, <1>5 DEF IInv

-----------------------------------------------------------------------------
(* The steps of a call. *)

\* inspect_mutation_path.
LEMMA InspectStep ==
    ASSUME IInv, NEW w \in Writers, inspect_mutation_path(w), UNCHANGED memory PROVE IInv'
<1> DEFINE r == [Idle EXCEPT !.pc = "inspected", !.exists = file # Absent]
<1>1. /\ r \in MutationRow /\ r.pc = "inspected" /\ r.lapsed = FALSE
  BY Zenon DEF Idle, MutationRow, Pcs, Contents
<1>2. /\ mu' = [mu EXCEPT ![w] = r]
      /\ UNCHANGED <<file, lease, claim, flock, facts, shared, crashes, expiries, memory>> /\ versions' = versions
  BY DEF inspect_mutation_path, counters
<1> HIDE DEF r
<1>3. mu'[w] = r => WriterInv(w)'
  BY <1>1 DEF WriterInv, Leased, HoldsGuard, Recorded
<1>4. versions' \in 0..MaxVersion
  BY <1>2, AtPath
<1> QED
  BY <1>1, <1>2, <1>3, <1>4, LocalMoves, Zenon

\* Refused by the process's lease or by another run's claim: nothing was taken.
LEMMA RefusedStep ==
    ASSUME IInv, NEW w \in Writers, NEW x \in {"idle", "unlease"}, Go(w, x),
           x = "unlease" => At(w, "leased"), At(w, "inspected") \/ At(w, "leased"),
           UNCHANGED <<file, lease, claim, flock, facts, shared, crashes, expiries, memory>>, versions' = versions
    PROVE  IInv'
<1>1. x \in Pcs
  BY DEF Pcs
<1>2. PICK r : MovedTo(r, w, x) /\ mu' = [mu EXCEPT ![w] = r]
  BY <1>1, GoRow
<1>3. r \in MutationRow /\ r.pc = x /\ r.lapsed = mu[w].lapsed
  BY <1>2 DEF MovedTo
<1>4. WriterInv(w) /\ versions' \in 0..MaxVersion
  BY AtWriter, AtPath
<1>5. mu'[w] = r => WriterInv(w)'
  BY <1>3, <1>4 DEF WriterInv, Leased, HoldsGuard, Recorded, At
<1>6. r.pc \notin {"idle", "inspected"} => Leased(w)
  BY <1>3 DEF Leased, At
<1> QED
  BY <1>2, <1>3, <1>4, <1>5, <1>6, LocalMoves, Zenon

\* The lease of the process, when nobody has it.
LEMMA LeaseStep ==
    ASSUME IInv, NEW w \in Writers, At(w, "inspected"), Process[w] \notin lease,
           lease' = lease \cup {Process[w]}, Go(w, "leased"),
           UNCHANGED <<file, claim, flock, facts, shared, crashes, expiries, memory>>, versions' = versions
    PROVE  IInv'
<1>1. PICK r : MovedTo(r, w, "leased") /\ mu' = [mu EXCEPT ![w] = r]
  BY GoRow DEF Pcs
<1>2. r \in MutationRow /\ r.pc = "leased" /\ r.lapsed = mu[w].lapsed
  BY <1>1 DEF MovedTo
<1>3. /\ file \in Contents /\ lease \subseteq Processes /\ flock \in Writers \cup {"none"}
      /\ claim \in ClaimRow /\ facts \subseteq Versions
      /\ WriteIsRecorded /\ MemoryIsWhole /\ versions \in 0..MaxVersion
      /\ Process[w] \in Processes /\ WriterInv(w)
  BY AtPath, AtWriter
<1>4. WriteIsRecorded' /\ MemoryIsWhole'
  BY <1>3 DEF WriteIsRecorded, MemoryIsWhole
<1>5. mu'[w] = r => WriterInv(w)'
  BY <1>2, <1>3 DEF WriterInv, Leased, HoldsGuard, Recorded
<1>6. UNCHANGED <<crashes, expiries, memory>> /\ Shares(w, r.pc)
  BY <1>2 DEF Shares
<1> QED
  BY <1>1, <1>2, <1>3, <1>4, <1>5, <1>6, WriterMoves, Zenon

\* The claim, when it is free, expired or this run's.
LEMMA ClaimStep ==
    ASSUME IInv, NEW w \in Writers, At(w, "leased"), ~Refused(w), Claimed(w), Go(w, "guarded"),
           UNCHANGED <<file, lease, flock, facts, crashes, expiries, memory>>, versions' = versions
    PROVE  IInv'
<1>1. PICK r : MovedTo(r, w, "guarded") /\ mu' = [mu EXCEPT ![w] = r]
  BY GoRow DEF Pcs
<1>2. r \in MutationRow /\ r.pc = "guarded" /\ r.lapsed = mu[w].lapsed
  BY <1>1 DEF MovedTo
<1>3. /\ file \in Contents /\ lease \subseteq Processes /\ flock \in Writers \cup {"none"}
      /\ facts \subseteq Versions
      /\ WriteIsRecorded /\ MemoryIsWhole /\ versions \in 0..MaxVersion
      /\ Owner[w] \in Owners /\ WriterInv(w)
  BY AtPath, AtWriter
<1>4. WriteIsRecorded' /\ MemoryIsWhole'
  BY <1>3 DEF WriteIsRecorded, MemoryIsWhole
<1>5. /\ claim' = [owner |-> Owner[w], live |-> TRUE] /\ claim' \in ClaimRow
      /\ Leased(w) /\ (claim.live => claim.owner = Owner[w])
  BY <1>3 DEF Claimed, ClaimRow, Leased, At, Refused
<1>6. mu'[w] = r => WriterInv(w)'
  BY <1>2, <1>3, <1>5 DEF WriterInv, Leased, HoldsGuard, Recorded
<1>7. UNCHANGED <<crashes, expiries, memory>> /\ Shares(w, r.pc)
  <2>1. shared \subseteq Owners
    BY DEF IInv, TypeOK
  <2> QED
    BY <1>3, <1>5, <2>1 DEF Claimed, Shares
<1> QED
  BY <1>1, <1>2, <1>3, <1>4, <1>5, <1>6, <1>7, WriterMoves, Zenon

\* acquire_file_write_guard: the lease, then the claim.
LEMMA AcquireStep ==
    ASSUME IInv, NEW w \in Writers, acquire_file_write_guard(w), UNCHANGED memory PROVE IInv'
<1>1. UNCHANGED <<file, flock, facts, crashes, expiries, memory>> /\ versions' = versions
  BY DEF acquire_file_write_guard, counters
<1>2. CASE At(w, "inspected") /\ Go(w, "idle") /\ UNCHANGED <<lease, claim, shared>>
  BY <1>1, <1>2, RefusedStep
<1>3. CASE At(w, "leased") /\ Go(w, "unlease") /\ UNCHANGED <<lease, claim, shared>>
  BY <1>1, <1>3, RefusedStep
<1>4. CASE /\ At(w, "inspected") /\ Process[w] \notin lease
           /\ lease' = lease \cup {Process[w]} /\ Go(w, "leased") /\ UNCHANGED <<claim, shared>>
  BY <1>1, <1>4, LeaseStep
<1>5. CASE At(w, "leased") /\ ~Refused(w) /\ Claimed(w) /\ Go(w, "guarded") /\ UNCHANGED lease
  BY <1>1, <1>5, ClaimStep
<1> QED
  BY <1>2, <1>3, <1>4, <1>5 DEF acquire_file_write_guard

\* read_file: what is read under the guard is on disk until the write.
LEMMA ReadStep ==
    ASSUME IInv, NEW w \in Writers, read_file(w), UNCHANGED memory PROVE IInv'
<1> DEFINE r == [mu[w] EXCEPT !.pc = "read", !.seen = IF mu[w].exists THEN file ELSE Absent]
<1>1. /\ mu[w].pc = "guarded" /\ versions' = versions
      /\ UNCHANGED <<file, lease, claim, flock, facts, shared, crashes, expiries, memory>>
      /\ mu' = [mu EXCEPT ![w] = r]
  BY Zenon DEF read_file, At, counters
<1>2. mu[w] \in MutationRow /\ WriterInv(w) /\ versions' \in 0..MaxVersion /\ file \in Contents
  BY <1>1, AtWriter, AtPath
<1>3. /\ r \in MutationRow /\ r.pc = "read" /\ r.lapsed = mu[w].lapsed /\ r.seen \in {file, Absent}
  BY <1>2, Zenon DEF MutationRow, Pcs, Contents
<1> HIDE DEF r
<1>4. mu'[w] = r => WriterInv(w)'
  BY <1>1, <1>2, <1>3 DEF WriterInv, Leased, HoldsGuard, Recorded, Pcs
<1>5. Leased(w) /\ HoldsGuard(w)
  BY <1>1 DEF Leased, HoldsGuard, Pcs
<1> QED
  BY <1>1, <1>2, <1>3, <1>4, <1>5, LocalMoves, Zenon

\* A writer with the guard gives up before it writes.
LEMMA GiveUpStep ==
    ASSUME IInv, NEW w \in Writers, mu[w].pc \in {"read", "prepared"}, Go(w, "release"),
           UNCHANGED <<file, lease, claim, flock, facts, shared, crashes, expiries, memory>>, versions' = versions
    PROVE  IInv'
<1>1. PICK r : MovedTo(r, w, "release") /\ mu' = [mu EXCEPT ![w] = r]
  BY GoRow DEF Pcs
<1>2. r \in MutationRow /\ r.pc = "release" /\ r.lapsed = mu[w].lapsed
  BY <1>1 DEF MovedTo
<1>3. WriterInv(w) /\ versions' \in 0..MaxVersion
  BY AtWriter, AtPath
<1>4. mu'[w] = r => WriterInv(w)'
  BY <1>2, <1>3 DEF WriterInv, Leased, HoldsGuard, Recorded, Pcs
<1>5. Leased(w) /\ HoldsGuard(w)
  BY DEF Leased, HoldsGuard, Pcs
<1> QED
  BY <1>1, <1>2, <1>3, <1>4, <1>5, LocalMoves, Zenon

\* prepare.
LEMMA PrepareStep ==
    ASSUME IInv, NEW w \in Writers, prepare(w), UNCHANGED memory PROVE IInv'
<1>1. /\ mu[w].pc = "read" /\ UNCHANGED <<file, lease, claim, flock, facts, shared, crashes, expiries, memory>>
  BY DEF prepare, At
<1>2. CASE Go(w, "release") /\ UNCHANGED versions
  BY <1>1, <1>2, GiveUpStep
<1>3. CASE /\ versions < MaxVersion /\ versions' = versions + 1
           /\ mu' = [mu EXCEPT ![w].pc = "prepared", ![w].new = versions']
  <2> DEFINE r == [mu[w] EXCEPT !.pc = "prepared", !.new = versions + 1]
  <2>1. mu' = [mu EXCEPT ![w] = r]
    BY <1>3, Zenon
  <2>2. mu[w] \in MutationRow /\ WriterInv(w) /\ versions \in 0..MaxVersion
    BY AtWriter, AtPath
  <2>3. versions' \in 0..MaxVersion /\ versions + 1 \in Versions
    BY <1>3, <2>2, MutationBounds DEF Versions
  <2>4. /\ r \in MutationRow /\ r.pc = "prepared" /\ r.lapsed = mu[w].lapsed /\ r.seen = mu[w].seen
        /\ r.new \in Versions
    BY <2>2, <2>3, Zenon DEF MutationRow, Pcs
  <2> HIDE DEF r
  <2>5. mu'[w] = r => WriterInv(w)'
    BY <1>1, <2>2, <2>4 DEF WriterInv, Leased, HoldsGuard, Recorded, Pcs
  <2>6. Leased(w) /\ HoldsGuard(w)
    BY <1>1 DEF Leased, HoldsGuard, Pcs
  <2> QED
    BY <1>1, <2>1, <2>3, <2>4, <2>5, <2>6, LocalMoves, Zenon
<1> QED
  BY <1>2, <1>3 DEF prepare

\* commit_file_mutation: the fact is in the log before anything is written.
LEMMA CommitStep ==
    ASSUME IInv, NEW w \in Writers, commit_file_mutation(w), UNCHANGED memory PROVE IInv'
<1>1. /\ mu[w].pc = "prepared" /\ versions' = versions
      /\ UNCHANGED <<file, lease, claim, flock, shared, crashes, expiries, memory>>
  BY DEF commit_file_mutation, At, counters
<1>2. CASE Go(w, "release") /\ UNCHANGED facts
  BY <1>1, <1>2, GiveUpStep
<1>3. CASE facts' = facts \cup {mu[w].new} /\ Go(w, "committed")
  <2>1. PICK r : MovedTo(r, w, "committed") /\ mu' = [mu EXCEPT ![w] = r]
    BY <1>3, GoRow DEF Pcs
  <2>2. /\ r \in MutationRow /\ r.pc = "committed" /\ r.lapsed = mu[w].lapsed /\ r.seen = mu[w].seen
        /\ r.new = mu[w].new
    BY <2>1 DEF MovedTo
  <2>3. /\ file \in Contents /\ lease \subseteq Processes /\ flock \in Writers \cup {"none"}
        /\ claim \in ClaimRow /\ facts \subseteq Versions
        /\ WriteIsRecorded /\ MemoryIsWhole /\ versions' \in 0..MaxVersion
        /\ WriterInv(w) /\ mu[w].seen \in Contents
    BY <1>1, AtPath, AtWriter
  <2>4. mu[w].new \in Versions
    BY <1>1, <2>3 DEF WriterInv, Recorded
  <2>5. facts \subseteq facts' /\ facts' \subseteq Versions
    BY <1>3, <2>3, <2>4
  <2>6. WriteIsRecorded' /\ MemoryIsWhole'
    BY <1>1, <2>3, <2>5 DEF WriteIsRecorded, MemoryIsWhole
  <2>7. mu'[w] = r => WriterInv(w)'
    BY <1>1, <1>3, <2>2, <2>3, <2>4 DEF WriterInv, Leased, HoldsGuard, Recorded, Pcs
  <2>8. Leased(w) /\ UNCHANGED <<crashes, expiries, memory>> /\ Shares(w, r.pc)
    BY <1>1 DEF Leased, Shares, HoldsGuard, Pcs
  <2> QED
    BY <1>1, <2>1, <2>2, <2>3, <2>5, <2>6, <2>7, <2>8, WriterMoves, Zenon
<1> QED
  BY <1>2, <1>3 DEF commit_file_mutation

\* A step to disk: the file is the writer's while it has the guard, and in
\* memory the lock.
LEMMA FileMoves ==
    ASSUME IInv, NEW w \in Writers, NEW x \in {"writing", "release", "unlock"}, Go(w, x),
           mu[w].pc \in {"committed", "writing", "install"},
           x = "writing" => ~memory, x = "unlock" => mu[w].pc = "install",
           mu[w].pc = "committed" => x = "writing",
           file' \in {Torn, file, mu[w].new}, file' = Torn => ~memory \/ file = Torn,
           UNCHANGED <<lease, claim, flock, facts, shared, crashes, expiries, memory>>, versions' = versions
    PROVE  IInv'
<1>1. PICK r : MovedTo(r, w, x) /\ mu' = [mu EXCEPT ![w] = r]
  BY GoRow DEF Pcs
<1>2. /\ r \in MutationRow /\ r.pc = x /\ r.lapsed = mu[w].lapsed /\ r.seen = mu[w].seen
      /\ r.new = mu[w].new
  BY <1>1 DEF MovedTo
<1>3. /\ file \in Contents /\ lease \subseteq Processes /\ flock \in Writers \cup {"none"}
      /\ claim \in ClaimRow /\ facts \subseteq Versions
      /\ WriteIsRecorded /\ MemoryIsWhole /\ versions' \in 0..MaxVersion
      /\ WriterInv(w)
  BY AtPath, AtWriter
<1>4. /\ mu[w].new \in Versions /\ mu[w].new \in facts
      /\ Leased(w) /\ HoldsGuard(w)
      /\ mu[w].pc = "install" => memory /\ flock = w
      /\ mu[w].pc = "writing" => ~memory
  BY <1>3 DEF WriterInv, Recorded, Leased, HoldsGuard, Pcs
<1>5. file' \in Contents /\ mu[w].new # Torn
  BY <1>3, <1>4, MutationBounds DEF Contents, Versions, Torn
<1>6. WriteIsRecorded'
  <2>1. file' = mu[w].new => file' \in facts
    BY <1>4
  <2>2. facts # {}
    BY <1>4
  <2>3. Torn \notin Versions
    BY MutationBounds DEF Torn, Versions
  <2> QED
    BY <1>3, <2>1, <2>2, <2>3 DEF WriteIsRecorded
<1>7. MemoryIsWhole'
  BY <1>3, <1>4, <1>5 DEF MemoryIsWhole
<1>8. mu'[w] = r => WriterInv(w)'
  BY <1>2, <1>3, <1>4 DEF WriterInv, Leased, HoldsGuard, Recorded
<1>9. /\ UNCHANGED <<crashes, expiries, memory>> /\ (memory => flock = w \/ file' = file)
      /\ Shares(w, r.pc)
  BY <1>4 DEF Shares
<1> QED
  BY <1>1, <1>2, <1>3, <1>4, <1>5, <1>6, <1>7, <1>8, <1>9, WriterMoves, Zenon

\* The writes of an ordinary file and of a memory file.
LEMMA WriteStep ==
    ASSUME IInv, NEW w \in Writers, UNCHANGED memory,
           write_file_begin(w) \/ write_file_end(w) \/ install_atomic(w)
    PROVE  IInv'
<1>1. UNCHANGED <<lease, claim, flock, facts, shared, crashes, expiries, memory>> /\ versions' = versions
  BY DEF write_file_begin, write_file_end, install_atomic, counters
<1>2. WriterInv(w) /\ MemoryIsWhole
  BY AtPath, AtWriter
<1>3. mu[w].pc \in {"writing", "install"} => mu[w].new # Torn
  BY <1>2, MutationBounds DEF WriterInv, Recorded, Versions, Torn
<1>4. CASE write_file_begin(w)
  BY <1>1, <1>4, FileMoves DEF write_file_begin, At
<1>5. CASE write_file_end(w)
  BY <1>1, <1>3, <1>5, FileMoves DEF write_file_end, At
<1>6. CASE install_atomic(w)
  BY <1>1, <1>3, <1>6, FileMoves DEF install_atomic, At
<1> QED
  BY <1>4, <1>5, <1>6

\* The lock of the memory root and the comparison under it.
LEMMA MemoryStep ==
    ASSUME IInv, NEW w \in Writers, UNCHANGED memory,
           memory_lock(w) \/ memory_check(w) \/ memory_unlock(w)
    PROVE  IInv'
<1> DEFINE x == IF memory_lock(w) THEN "check" ELSE IF memory_unlock(w) THEN "release"
                ELSE IF mu[w].seen = file THEN "install" ELSE "unlock"
<1>1. /\ UNCHANGED <<file, lease, claim, facts, shared, crashes, expiries, memory>> /\ versions' = versions
      /\ Go(w, x) /\ x \in {"check", "release", "install", "unlock"}
      /\ x = "check" => mu[w].pc = "committed" /\ memory /\ flock = "none" /\ flock' = w
      /\ x \in {"install", "unlock"} => mu[w].pc = "check" /\ flock' = flock
      /\ x = "install" => mu[w].seen = file
      /\ x = "release" => mu[w].pc = "unlock" /\ flock' = "none"
  BY DEF memory_lock, memory_check, memory_unlock, counters, At
<1> HIDE DEF x
<1>2. PICK r : MovedTo(r, w, x) /\ mu' = [mu EXCEPT ![w] = r]
  BY <1>1, GoRow DEF Pcs
<1>3. /\ r \in MutationRow /\ r.pc = x /\ r.lapsed = mu[w].lapsed /\ r.seen = mu[w].seen
      /\ r.new = mu[w].new
  BY <1>2 DEF MovedTo
<1>4. /\ file \in Contents /\ lease \subseteq Processes /\ flock \in Writers \cup {"none"}
      /\ claim \in ClaimRow /\ facts \subseteq Versions
      /\ WriteIsRecorded /\ MemoryIsWhole /\ versions' \in 0..MaxVersion
      /\ WriterInv(w)
  BY <1>1, AtPath, AtWriter
<1>5. WriteIsRecorded' /\ MemoryIsWhole'
  BY <1>1, <1>4 DEF WriteIsRecorded, MemoryIsWhole
<1>6. Leased(w) /\ flock' \in Writers \cup {"none"} /\ (flock' = flock \/ flock \in {w, "none"})
  BY <1>1, <1>4 DEF Leased, WriterInv
<1>7. mu'[w] = r => WriterInv(w)'
  BY <1>1, <1>3, <1>4 DEF WriterInv, Leased, HoldsGuard, Recorded, Pcs
<1>8. /\ UNCHANGED <<crashes, expiries, memory>> /\ facts' = facts /\ file' = file /\ lease' = lease
      /\ claim' = claim /\ Shares(w, r.pc)
  BY <1>1 DEF Shares, HoldsGuard, Pcs
<1> QED
  BY <1>2, <1>3, <1>4, <1>5, <1>6, <1>7, <1>8, WriterMoves, Zenon

\* drop_file_write_guard: the claim if it is this run's, then the lease.
LEMMA DropStep ==
    ASSUME IInv, NEW w \in Writers, drop_file_write_guard(w), UNCHANGED memory PROVE IInv'
<1>1. /\ UNCHANGED <<crashes, expiries, memory>> /\ versions' = versions /\ memory' = memory
      /\ file' = file /\ flock' = flock /\ facts' = facts /\ shared' = shared
  BY DEF drop_file_write_guard, counters
<1>2. /\ file \in Contents /\ lease \subseteq Processes /\ flock \in Writers \cup {"none"}
      /\ claim \in ClaimRow /\ facts \subseteq Versions
      /\ WriteIsRecorded /\ MemoryIsWhole /\ versions' \in 0..MaxVersion
      /\ WriterInv(w)
  BY <1>1, AtPath, AtWriter
<1>3. WriteIsRecorded' /\ MemoryIsWhole'
  BY <1>1, <1>2 DEF WriteIsRecorded, MemoryIsWhole
<1>4. CASE At(w, "release") /\ Released(w) /\ Go(w, "unlease") /\ UNCHANGED lease
  <2>1. PICK r : MovedTo(r, w, "unlease") /\ mu' = [mu EXCEPT ![w] = r]
    BY <1>4, GoRow DEF Pcs
  <2>2. r \in MutationRow /\ r.pc = "unlease" /\ r.lapsed = mu[w].lapsed
    BY <2>1 DEF MovedTo
  <2>3. Leased(w) /\ lease' = lease
    BY <1>4 DEF Leased, At
  <2>4. /\ claim' \in ClaimRow
        /\ claim' = claim \/ (claim.live => claim.owner = Owner[w])
        /\ Shares(w, r.pc)
    BY <1>1, <1>2, <1>4, <2>3 DEF Released, ClaimRow, Shares, HoldsGuard, Pcs, At
  <2>5. mu'[w] = r => WriterInv(w)'
    BY <1>1, <1>2, <2>2, <2>3 DEF WriterInv, Leased, HoldsGuard, Recorded
  <2> QED
    BY <1>1, <1>2, <1>3, <2>1, <2>2, <2>3, <2>4, <2>5, WriterMoves, Zenon
<1>5. CASE /\ At(w, "unlease") /\ lease' = lease \ {Process[w]}
           /\ mu' = [mu EXCEPT ![w] = Idle] /\ UNCHANGED claim
  <2> DEFINE r == Idle
  <2>1. r \in MutationRow /\ r.pc = "idle" /\ r.lapsed = FALSE
    BY DEF Idle, MutationRow, Pcs, Contents
  <2>2. mu' = [mu EXCEPT ![w] = r] /\ claim' = claim
    BY <1>5
  <2> HIDE DEF r
  <2>3. /\ Leased(w) /\ lease' \subseteq Processes
        /\ \A p \in lease : p # Process[w] => p \in lease'
        /\ Shares(w, r.pc)
    BY <1>1, <1>2, <1>5, <2>1, <2>2 DEF Leased, At, Shares
  <2>4. mu'[w] = r => WriterInv(w)'
    BY <2>1 DEF WriterInv, Leased, HoldsGuard, Recorded
  <2> QED
    BY <1>1, <1>2, <1>3, <2>1, <2>2, <2>3, <2>4, WriterMoves, Zenon
<1> QED
  BY <1>4, <1>5 DEF drop_file_write_guard

-----------------------------------------------------------------------------
(* The surroundings. *)

\* A claim outlives its time: its writers know no better, and count as lapsed.
LEMMA ExpireStep ==
    ASSUME IInv, expire_claim, UNCHANGED memory PROVE IInv'
<1>1. /\ file' = file /\ lease' = lease /\ flock' = flock /\ facts' = facts /\ versions' = versions
      /\ crashes' = crashes /\ memory' = memory /\ shared' = shared /\ expiries' = expiries + 1 /\ expiries < MaxExpiry
      /\ claim.live /\ claim' = [claim EXCEPT !.live = FALSE]
      /\ mu' = [w \in Writers |-> IF HoldsGuard(w) /\ Owner[w] = claim.owner
                                  THEN [mu[w] EXCEPT !.lapsed = TRUE] ELSE mu[w]]
  BY DEF expire_claim
<1>2. ASSUME NEW w \in Writers
      PROVE  /\ mu'[w] \in MutationRow /\ mu'[w].pc = mu[w].pc /\ mu'[w].seen = mu[w].seen
             /\ mu'[w].new = mu[w].new
             /\ mu'[w].lapsed = (mu[w].lapsed \/ (HoldsGuard(w) /\ Owner[w] = claim.owner))
  <2>1. mu[w] \in MutationRow
    BY AtWriter
  <2>2. CASE HoldsGuard(w) /\ Owner[w] = claim.owner
    <3>1. mu'[w] = [mu[w] EXCEPT !.lapsed = TRUE]
      BY <1>1, <2>2
    <3> QED
      BY <2>1, <2>2, <3>1, Zenon DEF MutationRow
  <2>3. CASE ~(HoldsGuard(w) /\ Owner[w] = claim.owner)
    <3>1. mu'[w] = mu[w]
      BY <1>1, <2>3
    <3> QED
      BY <2>1, <2>3, <3>1 DEF MutationRow
  <2> QED
    BY <2>2, <2>3
<1>3. expiries \in Nat /\ expiries' # 0 /\ expiries' \in 0..MaxExpiry
  BY <1>1, AtPath, MutationBounds
<1>4. claim' \in ClaimRow
  <2>1. claim \in ClaimRow /\ claim # NoClaim
    BY <1>1, AtPath DEF NoClaim
  <2>2. claim \in [owner : Owners, live : BOOLEAN]
    BY <2>1 DEF ClaimRow
  <2> QED
    BY <1>1, <2>2, Zenon DEF ClaimRow
<1>5. TypeOK'
  <2>1. mu' \in [Writers -> MutationRow]
    BY <1>1, <1>2, Zenon
  <2> QED
    BY <1>1, <1>3, <1>4, <2>1 DEF IInv, TypeOK, ClaimRow
<1>6. OneLease' /\ OneHolder' /\ WriteIsRecorded' /\ MemoryIsWhole'
  BY <1>1, <1>2 DEF IInv, OneLease, OneHolder, WriteIsRecorded, MemoryIsWhole, Leased, HoldsGuard
<1>7. ASSUME NEW w \in Writers PROVE WriterInv(w)'
  <2>1. WriterInv(w)
    BY AtWriter
  <2>2. ~(HoldsGuard(w) /\ ~mu'[w].lapsed /\ Owner[w] \notin shared)
    <3>1. HoldsGuard(w) /\ ~mu[w].lapsed /\ Owner[w] \notin shared => Owner[w] = claim.owner
      BY <2>1 DEF WriterInv
    <3> QED
      BY <1>2, <3>1, Zenon
  <2> QED
    BY <1>1, <1>2, <1>3, <2>1, <2>2 DEF WriterInv, Leased, HoldsGuard
<1> QED
  BY <1>5, <1>6, <1>7 DEF IInv

\* An expired row is deleted: no writer that counts on its claim has it.
LEMMA ReclaimStep ==
    ASSUME IInv, reclaim_expired_resource_claims, UNCHANGED memory PROVE IInv'
<1>1. /\ file' = file /\ lease' = lease /\ flock' = flock /\ facts' = facts /\ versions' = versions
      /\ crashes' = crashes /\ memory' = memory /\ expiries' = expiries /\ mu' = mu
      /\ shared' = shared /\ ~claim.live /\ claim' = NoClaim
  BY DEF reclaim_expired_resource_claims, counters
<1>2. TypeOK' /\ OneLease' /\ OneHolder' /\ WriteIsRecorded' /\ MemoryIsWhole'
  BY <1>1 DEF IInv, TypeOK, OneLease, OneHolder, WriteIsRecorded, MemoryIsWhole, Leased, HoldsGuard
<1>3. ASSUME NEW w \in Writers PROVE WriterInv(w)'
  <2>1. WriterInv(w)
    BY AtWriter
  <2>2. ~(HoldsGuard(w) /\ ~mu[w].lapsed /\ Owner[w] \notin shared)
    BY <1>1, <2>1 DEF WriterInv
  <2> QED
    BY <1>1, <2>1, <2>2 DEF WriterInv, Leased, HoldsGuard
<1> QED
  BY <1>2, <1>3 DEF IInv

\* A process ends with its leases, its writers and its file locks.
LEMMA CrashStep ==
    ASSUME IInv, NEW p \in Processes, crash(p), UNCHANGED memory PROVE IInv'
<1>1. /\ file' = file /\ claim' = claim /\ facts' = facts /\ versions' = versions
      /\ expiries' = expiries /\ memory' = memory /\ crashes' = crashes + 1 /\ crashes < MaxCrash
      /\ lease' = lease \ {p} /\ shared' = shared
      /\ mu' = [w \in Writers |-> IF Process[w] = p THEN Idle ELSE mu[w]]
      /\ flock' = IF flock \in Writers /\ Process[flock] = p THEN "none" ELSE flock
  BY DEF crash
<1>2. Idle \in MutationRow /\ Idle.pc = "idle" /\ Idle.lapsed = FALSE
  BY DEF Idle, MutationRow, Pcs, Contents
<1>3. \A w \in Writers : IF Process[w] = p THEN mu'[w] = Idle ELSE mu'[w] = mu[w]
  BY <1>1
<1>4. TypeOK'
  <2>1. mu' \in [Writers -> MutationRow]
    BY <1>1, <1>2 DEF IInv, TypeOK
  <2>2. crashes' \in 0..MaxCrash /\ flock' \in Writers \cup {"none"} /\ lease' \subseteq Processes
    BY <1>1, MutationBounds DEF IInv, TypeOK
  <2> QED
    BY <1>1, <2>1, <2>2 DEF IInv, TypeOK
<1>5. OneLease' /\ OneHolder' /\ WriteIsRecorded' /\ MemoryIsWhole'
  BY <1>1, <1>2, <1>3 DEF IInv, OneLease, OneHolder, WriteIsRecorded, MemoryIsWhole, Leased, HoldsGuard
<1>6. ASSUME NEW w \in Writers PROVE WriterInv(w)'
  <2>1. WriterInv(w)
    BY AtWriter
  <2>2. CASE Process[w] = p
    BY <1>2, <1>3, <2>2 DEF WriterInv, Leased, HoldsGuard, Recorded
  <2>3. CASE Process[w] # p
    <3>1. mu'[w] = mu[w] /\ (flock = w => flock' = w) /\ (Process[w] \in lease => Process[w] \in lease')
      BY <1>1, <1>3, <2>3
    <3> QED
      BY <1>1, <2>1, <3>1 DEF WriterInv, Leased, HoldsGuard
  <2> QED
    BY <2>2, <2>3
<1> QED
  BY <1>4, <1>5, <1>6 DEF IInv

-----------------------------------------------------------------------------
(* The theorems. *)

\* Every step keeps the invariant.
LEMMA NextIInv == IInv /\ [Next]_<<vars, memory>> => IInv'
<1> SUFFICES ASSUME IInv, [Next]_<<vars, memory>> PROVE IInv'
  OBVIOUS
<1>1. ASSUME NEW w \in Writers, Step(w), UNCHANGED memory PROVE IInv'
  BY <1>1, InspectStep, AcquireStep, ReadStep, PrepareStep, CommitStep, WriteStep, MemoryStep, DropStep
     DEF Step
<1>2. CASE expire_claim /\ UNCHANGED memory
  BY <1>2, ExpireStep
<1>3. CASE reclaim_expired_resource_claims /\ UNCHANGED memory
  BY <1>3, ReclaimStep
<1>4. ASSUME NEW p \in Processes, crash(p), UNCHANGED memory PROVE IInv'
  BY <1>4, CrashStep
<1>5. CASE UNCHANGED <<vars, memory>>
  <2>1. /\ file' = file /\ lease' = lease /\ flock' = flock /\ facts' = facts /\ versions' = versions
        /\ crashes' = crashes /\ memory' = memory /\ expiries' = expiries /\ mu' = mu /\ claim' = claim
        /\ shared' = shared
    BY <1>5 DEF vars
  <2>2. TypeOK' /\ OneLease' /\ OneHolder' /\ WriteIsRecorded' /\ MemoryIsWhole'
    BY <2>1 DEF IInv, TypeOK, OneLease, OneHolder, WriteIsRecorded, MemoryIsWhole, Leased, HoldsGuard
  <2>3. \A w \in Writers : WriterInv(w)'
    BY <2>1 DEF IInv, WriterInv, Leased, HoldsGuard
  <2> QED
    BY <2>2, <2>3 DEF IInv
<1> QED
  BY <1>1, <1>2, <1>3, <1>4, <1>5 DEF Next

\* The invariant holds in every reachable state.
THEOREM Invariance == Spec => []IInv
  BY InitIInv, NextIInv, PTL DEF Spec

\* A writer holds the claim while it writes, unless the time to live ran out or
\* two processes were at work on the path for its run; it has recorded what it
\* writes, and leaves a memory file whole (acquire_file_write_guard,
\* commit_file_mutation, install_atomic).  Writers, runs and processes are any.
THEOREM Guarded == Spec => []WriteGuarded
<1>1. IInv => WriteGuarded
  BY Zenon DEF IInv, WriterInv, WriteGuarded, ClaimHeldWhileWriting
<1> QED
  BY <1>1, Invariance, PTL

\* No other write lands between a tool's read and its write while no claim
\* outlives its time to live and no run is at work on the path in two
\* processes, and never under the comparison of atomic_write_at.
THEOREM Observed == Spec => WriteReplacesObserved
<1>1. IInv => [\A w \in Writers :
                  (\/ /\ At(w, "committed") /\ mu'[w].pc = "writing" /\ mu[w].seen # Absent
                      /\ expiries = 0 /\ shared = {}
                   \/ At(w, "install") /\ file' # file)
                     => file = mu[w].seen]_vars
  BY Zenon DEF IInv, WriterInv, At
<1> QED
  BY <1>1, Invariance, PTL DEF WriteReplacesObserved
===============================================================================
