------------------------ MODULE SessionRegistryProofs ------------------------
(***************************************************************************)
(* That the registry of sessions keeps runs, background work, deletions    *)
(* and the service drain apart, for every set of sessions, runs, sequences *)
(* and callers.  What is added to the properties to make them inductive:   *)
(* what a finish() between its two holds knows of its lease, and which     *)
(* trackers a deletion or a drain that is waiting still has before it.     *)
(***************************************************************************)
EXTENDS SessionRegistry, TLAPS

-----------------------------------------------------------------------------
(* The inductive invariant. *)

\* A finish() past its first hold has closed the control of its lease.
RunInv ==
    /\ RunInOneSession /\ FinishedRunTakesNoInput
    /\ \A f \in Finishers : finish[f].at \in {"closed", "notify"} =>
           ~leases[finish[f].lease].accepting

\* A caller with no deletion under way has no session gated.
GateInv ==
    /\ DeletionHasOneOwner /\ DeletionExcludesRuns
    /\ \A d \in Deleters : deletion[d].at = "idle" => deletion[d].sessions = {}

\* A tracker is found under its own session only, and a deletion that waits has
\* before it the trackers of all work left in its sessions.
WorkInv ==
    /\ WorkIsTracked /\ DeletionExcludesWork
    /\ \A s \in Sessions : trackerOf[s] # 0 => trackers[trackerOf[s]].session = s
    /\ \A d \in Deleters : deletion[d].at = "awaiting" =>
           \A w \in Works : token[w] # 0 =>
               \/ trackers[token[w]].session \notin deletion[d].sessions
               \/ token[w] \in deletion[d].awaits

\* A drain begins after admission has stopped, and has before it the trackers of
\* all work that is left.
DrainInv ==
    /\ DrainedMeansNoWork
    /\ drain.at # "idle" => draining
    /\ drain.at = "awaiting" => \A w \in Works : token[w] # 0 => token[w] \in drain.awaits

IInv == TypeOK /\ RunInv /\ GateInv /\ WorkInv /\ DrainInv

\* The registry starts empty.
LEMMA InitIInv == Init => IInv
<1> SUFFICES ASSUME Init PROVE IInv
  OBVIOUS
<1>1. leases = <<>> /\ trackers = <<>> /\ Len(leases) = 0 /\ Len(trackers) = 0
  BY DEF Init
<1>2. TypeOK
  <2>1. leases \in Seq(LeaseRow) /\ trackers \in Seq(TrackerRow)
    BY <1>1
  <2>2. /\ finish \in [Finishers -> [at : FinishPlaces, lease : 0..Len(leases)]]
        /\ \A f \in Finishers : finish[f].at = "idle"
    BY <1>1 DEF Init, NoFinish, FinishPlaces
  <2>3. deletion \in [Deleters -> [at : DeletionPlaces, sessions : SUBSET Sessions,
                                  awaits : SUBSET Trackers]]
    BY DEF Init, NoDeletion, DeletionPlaces
  <2>4. /\ active \in [Sessions -> 0..Len(leases)] /\ \A s \in Sessions : active[s] = 0
        /\ trackerOf \in [Sessions -> 0..Len(trackers)] /\ token \in [Works -> 0..Len(trackers)]
    BY <1>1 DEF Init
  <2>5. deleting \in SUBSET Sessions /\ draining \in BOOLEAN
        /\ drain \in [at : {"idle", "awaiting", "done"}, awaits : SUBSET Trackers]
    BY Zenon DEF Init
  <2> QED
    BY <2>1, <2>2, <2>3, <2>4, <2>5 DEF TypeOK
<1>3. RunInv
  BY <1>1 DEF Init, RunInv, RunInOneSession, FinishedRunTakesNoInput, NoFinish, Leases
<1>4. GateInv
  BY DEF Init, GateInv, DeletionHasOneOwner, DeletionExcludesRuns, NoDeletion
<1>5. WorkInv /\ DrainInv
  BY DEF Init, WorkInv, DrainInv, WorkIsTracked, DeletionExcludesWork, DrainedMeansNoWork,
         NoDeletion
<1> QED
  BY <1>2, <1>3, <1>4, <1>5 DEF IInv

-----------------------------------------------------------------------------
(* Runs. *)

\* Writing the row of one lease.
LEMMA LeaseWrite ==
    ASSUME leases \in Seq(LeaseRow), NEW l \in Leases, NEW r \in LeaseRow,
           leases' = [leases EXCEPT ![l] = r]
    PROVE  /\ leases' \in Seq(LeaseRow) /\ Len(leases') = Len(leases)
           /\ leases'[l] = r
           /\ \A m \in Leases : m # l => leases'[m] = leases[m]
  BY DEF Leases

\* A step of the runs leaves background work and the drain alone.
LEMMA RunsOnly ==
    ASSUME IInv, UNCHANGED <<deletion, workVars, drainVars>>
    PROVE  WorkInv' /\ DrainInv'
  BY DEF IInv, WorkInv, DrainInv, WorkIsTracked, DeletionExcludesWork, DrainedMeansNoWork,
         workVars, drainVars

\* start(): the session is neither gated nor owned and the run is active nowhere.
LEMMA StartStep ==
    ASSUME IInv, NEW s \in Sessions, NEW r \in Runs, start(s, r)
    PROVE  IInv'
<1> DEFINE n == Len(leases) + 1
           row == [session |-> s, run |-> r, accepting |-> TRUE, cause |-> "none"]
<1>1. /\ s \notin deleting /\ active[s] = 0
      /\ \A l \in Leases : leases[l].run = r => active[leases[l].session] # l
      /\ active' = [active EXCEPT ![s] = n]
      /\ leases' = Append(leases, row)
      /\ UNCHANGED <<finish, deleting, deletion, trackerOf, trackers, token, draining, drain>>
  BY DEF start, gateVars, workVars, drainVars
<1>2. leases \in Seq(LeaseRow) /\ row \in LeaseRow /\ Len(leases) \in Nat
  BY DEF IInv, TypeOK, LeaseRow, Causes
<1>3. /\ leases' \in Seq(LeaseRow) /\ Len(leases') = n /\ leases'[n] = row
      /\ \A l \in Leases : leases'[l] = leases[l]
      /\ Leases' = Leases \cup {n}
  BY <1>1, <1>2 DEF Leases
<1>4. /\ active'[s] = n /\ \A t \in Sessions : t # s => active'[t] = active[t]
      /\ \A t \in Sessions : active[t] \in 0..Len(leases)
      /\ active' \in [Sessions -> 0..n]
  BY <1>1, <1>2 DEF IInv, TypeOK
<1>5. \A t \in Sessions : active[t] # 0 => active[t] \in Leases /\ leases[active[t]].session = t
  BY <1>2 DEF IInv, TypeOK, Leases
<1>6. TypeOK'
  <2>1. finish' \in [Finishers -> [at : FinishPlaces, lease : 0..Len(leases')]]
    BY <1>1, <1>2, <1>3 DEF IInv, TypeOK
  <2>2. \A t \in Sessions : active'[t] # 0 => leases'[active'[t]].session = t
    BY <1>3, <1>4, <1>5
  <2> QED
    BY <1>1, <1>3, <1>4, <2>1, <2>2 DEF IInv, TypeOK, Trackers
<1>7. RunInv'
  <2>1. RunInOneSession'
    BY <1>1, <1>3, <1>4, <1>5 DEF IInv, RunInv, RunInOneSession
  <2>2. FinishedRunTakesNoInput'
    <3> SUFFICES ASSUME NEW l \in Leases', active'[leases'[l].session] # l
                 PROVE  ~leases'[l].accepting
      BY DEF FinishedRunTakesNoInput
    <3>1. l \in Leases
      BY <1>3, <1>4
    <3>2. leases[l].session \in Sessions /\ l # 0
      <4>1. leases[l] \in LeaseRow /\ l # 0
        BY <1>2, <3>1 DEF Leases
      <4> QED
        BY <4>1 DEF LeaseRow
    <3>3. active[leases[l].session] # l
      BY <1>1, <1>3, <1>4, <3>1, <3>2
    <3> QED
      BY <1>3, <3>1, <3>3 DEF IInv, RunInv, FinishedRunTakesNoInput
  <2>3. ASSUME NEW f \in Finishers, finish'[f].at \in {"closed", "notify"}
        PROVE  ~leases'[finish'[f].lease].accepting
    <3>1. finish[f].lease \in Leases
      BY <1>1, <1>2, <2>3 DEF IInv, TypeOK, Leases
    <3> QED
      BY <1>1, <1>3, <2>3, <3>1, Zenon DEF IInv, RunInv
  <2> QED
    BY <2>1, <2>2, <2>3 DEF RunInv
<1>8. GateInv'
  <2>1. \A d \in Deleters : s \notin deletion[d].sessions
    BY <1>1 DEF IInv, GateInv, DeletionHasOneOwner
  <2>2. \A d \in Deleters : deletion[d].sessions \subseteq Sessions
    BY DEF IInv, TypeOK
  <2>3. DeletionExcludesRuns'
    BY <1>1, <1>4, <2>1, <2>2 DEF IInv, GateInv, DeletionExcludesRuns
  <2> QED
    BY <1>1, <2>3 DEF IInv, GateInv, DeletionHasOneOwner
<1>9. WorkInv' /\ DrainInv'
  BY <1>1, RunsOnly DEF workVars, drainVars
<1> QED
  BY <1>6, <1>7, <1>8, <1>9 DEF IInv

\* A step that may close the control of a lease and move one finish(), but gives
\* no session to a run and takes none.
LEMMA ControlStep ==
    ASSUME IInv, leases' \in Seq(LeaseRow), Len(leases') = Len(leases),
           \A l \in Leases : /\ leases'[l].session = leases[l].session
                             /\ leases'[l].run = leases[l].run
                             /\ leases'[l].accepting => leases[l].accepting,
           finish' \in [Finishers -> [at : FinishPlaces, lease : 0..Len(leases)]],
           \A f \in Finishers : finish'[f].at # "idle" => finish'[f].lease # 0,
           \A f \in Finishers : finish'[f].at \in {"closed", "notify"} =>
               ~leases'[finish'[f].lease].accepting,
           UNCHANGED <<active, deleting, deletion, workVars, drainVars>>
    PROVE  IInv'
<1>1. \A t \in Sessions : active[t] # 0 => active[t] \in Leases /\ active[t] \in Nat
  BY DEF IInv, TypeOK, Leases
<1>2. Leases' = Leases
  BY DEF Leases
<1>3. TypeOK'
  <2>1. \A t \in Sessions : active'[t] # 0 => leases'[active'[t]].session = t
    BY <1>1, Zenon DEF IInv, TypeOK
  <2> QED
    BY <2>1 DEF IInv, TypeOK, workVars, drainVars, Trackers
<1>4. RunInv'
  <2>1. RunInOneSession'
    BY <1>1 DEF IInv, RunInv, RunInOneSession
  <2>2. FinishedRunTakesNoInput'
    BY <1>2 DEF IInv, RunInv, FinishedRunTakesNoInput
  <2> QED
    BY <2>1, <2>2 DEF RunInv
<1>5. GateInv'
  BY DEF IInv, GateInv, DeletionHasOneOwner, DeletionExcludesRuns
<1> QED
  BY <1>3, <1>4, <1>5, RunsOnly DEF IInv

\* close_with_cause(), with a clone of the run that may be stale.
LEMMA CloseWithCauseStep ==
    ASSUME IInv, NEW l \in Leases, NEW cause \in {"cancelled", "shutdown"},
           NEW accepted \in BOOLEAN, close_with_cause(l, cause, accepted)
    PROVE  IInv'
<1> DEFINE row == [leases[l] EXCEPT !.accepting = FALSE,
                                    !.cause = IF accepted /\ @ = "none" THEN cause ELSE @]
<1>1. leases \in Seq(LeaseRow) /\ leases[l] \in LeaseRow
  BY DEF IInv, TypeOK, Leases
<1>2. row \in LeaseRow /\ ~row.accepting /\ row.session = leases[l].session /\ row.run = leases[l].run
  BY <1>1, Zenon DEF LeaseRow, Causes
<1>3. leases' = [leases EXCEPT ![l] = row]
  BY <1>1, Zenon DEF close_with_cause, LeaseRow
<1> HIDE DEF row
<1>4. /\ leases' \in Seq(LeaseRow) /\ Len(leases') = Len(leases)
      /\ leases'[l] = row /\ \A m \in Leases : m # l => leases'[m] = leases[m]
  BY <1>1, <1>2, <1>3, LeaseWrite, Zenon
<1>5. UNCHANGED <<active, finish, deleting, deletion, workVars, drainVars>>
  BY DEF close_with_cause, gateVars
<1>6. \A f \in Finishers : finish[f].at \in {"closed", "notify"} => finish[f].lease \in Leases
  BY <1>1 DEF IInv, TypeOK, Leases
<1>7. /\ finish' \in [Finishers -> [at : FinishPlaces, lease : 0..Len(leases)]]
      /\ \A f \in Finishers : finish'[f].at # "idle" => finish'[f].lease # 0
  BY <1>5 DEF IInv, TypeOK
<1>8. \A f \in Finishers : finish'[f].at \in {"closed", "notify"} =>
          ~leases'[finish'[f].lease].accepting
  BY <1>2, <1>4, <1>5, <1>6 DEF IInv, RunInv
<1>9. \A m \in Leases : /\ leases'[m].session = leases[m].session
                        /\ leases'[m].run = leases[m].run
                        /\ leases'[m].accepting => leases[m].accepting
  BY <1>2, <1>4
<1> QED
  BY <1>4, <1>5, <1>7, <1>8, <1>9, ControlStep

\* finish() up to its second hold: the run is found, its control is closed, or
\* could not be.
LEMMA FinishBeginsStep ==
    ASSUME IInv, NEW f \in Finishers,
           (\E l \in Leases : finish_find(f, l)) \/ finish_close(f) \/ finish_close_failed(f)
    PROVE  IInv'
<1>1. UNCHANGED <<active, deleting, deletion, workVars, drainVars>>
  BY DEF finish_find, finish_close, finish_close_failed, gateVars
<1>2. leases \in Seq(LeaseRow) /\ Len(leases) \in Nat
  BY DEF IInv, TypeOK
<1>3. /\ finish \in [Finishers -> [at : FinishPlaces, lease : 0..Len(leases)]]
      /\ \A g \in Finishers : finish[g].at # "idle" => finish[g].lease \in Leases
  BY <1>2 DEF IInv, TypeOK, Leases
<1>4. CASE (\E l \in Leases : finish_find(f, l)) \/ finish_close_failed(f)
  <2>1. leases' = leases
    BY <1>4 DEF finish_find, finish_close_failed
  <2>2. PICK row \in [at : {"failed", "closing"}, lease : 0..Len(leases)] :
          /\ finish' = [finish EXCEPT ![f] = row]
          /\ row.lease # 0
    <3>1. CASE \E l \in Leases : finish_find(f, l)
      <4>1. PICK l \in Leases : finish' = [finish EXCEPT ![f] = [at |-> "closing", lease |-> l]]
        BY <3>1, Zenon DEF finish_find
      <4>2. l \in 0..Len(leases) /\ l # 0
        BY <1>2 DEF Leases
      <4> DEFINE found == [at |-> "closing", lease |-> l]
      <4>3. found \in [at : {"failed", "closing"}, lease : 0..Len(leases)] /\ found.lease # 0
        BY <4>2
      <4>4. finish' = [finish EXCEPT ![f] = found]
        BY <4>1
      <4> HIDE DEF found
      <4> QED
        BY <4>3, <4>4, Zenon
    <3>2. CASE finish_close_failed(f)
      <4> DEFINE failed == [at |-> "failed", lease |-> finish[f].lease]
      <4>1. failed \in [at : {"failed", "closing"}, lease : 0..Len(leases)] /\ failed.lease # 0
        <5>1. finish[f].lease \in Leases
          BY <1>3, <3>2 DEF finish_close_failed
        <5>2. finish[f].lease \in 0..Len(leases) /\ finish[f].lease # 0
          BY <1>2, <5>1 DEF Leases
        <5> QED
          BY <5>2
      <4>2. finish' = [finish EXCEPT ![f] = failed]
        <5>1. finish[f] \in [at : FinishPlaces, lease : 0..Len(leases)]
          BY <1>3
        <5>2. [finish[f] EXCEPT !.at = "failed"] = failed
          BY <5>1
        <5>3. finish' = [finish EXCEPT ![f] = [finish[f] EXCEPT !.at = "failed"]]
          BY <3>2 DEF finish_close_failed
        <5> QED
          BY <5>2, <5>3
      <4> HIDE DEF failed
      <4> QED
        BY <4>1, <4>2, Zenon
    <3> QED
      BY <1>4, <3>1, <3>2
  <2>3. /\ finish'[f] = row /\ \A g \in Finishers : g # f => finish'[g] = finish[g]
        /\ finish' \in [Finishers -> [at : FinishPlaces, lease : 0..Len(leases)]]
    BY <1>3, <2>2 DEF FinishPlaces
  <2>4. \A g \in Finishers : finish'[g].at # "idle" => finish'[g].lease # 0
    BY <1>3, <2>2, <2>3 DEF IInv, TypeOK
  <2>5. \A g \in Finishers : finish'[g].at \in {"closed", "notify"} =>
            ~leases'[finish'[g].lease].accepting
    BY <2>1, <2>2, <2>3 DEF IInv, RunInv
  <2> QED
    BY <1>1, <1>2, <2>1, <2>3, <2>4, <2>5, ControlStep
<1>5. CASE finish_close(f)
  <2> DEFINE l == finish[f].lease
             row == [leases[l] EXCEPT !.accepting = FALSE]
  <2>1. l \in Leases /\ leases[l] \in LeaseRow
    BY <1>2, <1>3, <1>5 DEF finish_close, Leases
  <2>2. row \in LeaseRow /\ ~row.accepting /\ row.session = leases[l].session
        /\ row.run = leases[l].run
    BY <2>1, Zenon DEF LeaseRow
  <2>3. leases' = [leases EXCEPT ![l] = row]
    BY <1>5 DEF finish_close
  <2> HIDE DEF row
  <2>4. /\ leases' \in Seq(LeaseRow) /\ Len(leases') = Len(leases)
        /\ leases'[l] = row /\ \A m \in Leases : m # l => leases'[m] = leases[m]
    BY <1>2, <2>1, <2>2, <2>3, LeaseWrite, Zenon
  <2>5. /\ finish' \in [Finishers -> [at : FinishPlaces, lease : 0..Len(leases)]]
        /\ finish'[f].at = "closed" /\ finish'[f].lease = l
        /\ \A g \in Finishers : g # f => finish'[g] = finish[g]
    BY <1>3, <1>5 DEF finish_close, FinishPlaces
  <2>6. \A g \in Finishers : finish'[g].at # "idle" => finish'[g].lease \in Leases
    BY <1>3, <2>1, <2>5
  <2>7. \A g \in Finishers : finish'[g].at # "idle" => finish'[g].lease # 0
    BY <2>6 DEF Leases
  <2>8. \A g \in Finishers : finish'[g].at \in {"closed", "notify"} =>
            ~leases'[finish'[g].lease].accepting
    BY <1>3, <2>2, <2>4, <2>5, <2>6 DEF IInv, RunInv
  <2>9. \A m \in Leases : /\ leases'[m].session = leases[m].session
                          /\ leases'[m].run = leases[m].run
                          /\ leases'[m].accepting => leases[m].accepting
    BY <2>2, <2>4
  <2> QED
    BY <1>1, <2>4, <2>5, <2>7, <2>8, <2>9, ControlStep
<1> QED
  BY <1>4, <1>5

\* finish(), the second hold: the run leaves if the session is still its own.
LEMMA FinishRemoveStep ==
    ASSUME IInv, NEW f \in Finishers, finish_remove(f)
    PROVE  IInv'
<1> DEFINE l == finish[f].lease
           s == leases[l].session
<1>1. /\ finish[f].at = "closed"
      /\ UNCHANGED <<leases, deleting, deletion, workVars, drainVars>>
  BY DEF finish_remove, gateVars
<1>2. leases \in Seq(LeaseRow) /\ Len(leases) \in Nat
  BY DEF IInv, TypeOK
<1>3. /\ finish \in [Finishers -> [at : FinishPlaces, lease : 0..Len(leases)]]
      /\ \A g \in Finishers : finish[g].at # "idle" => finish[g].lease # 0
  BY DEF IInv, TypeOK
<1>4. l \in Leases /\ leases[l] \in LeaseRow /\ ~leases[l].accepting
  BY <1>1, <1>2, <1>3 DEF Leases, IInv, RunInv
<1>5. s \in Sessions
  BY <1>4 DEF LeaseRow
<1>6. CASE active[s] = l
  <2>1. /\ active' = [active EXCEPT ![s] = 0] /\ finish' = [finish EXCEPT ![f].at = "notify"]
    BY <1>6 DEF finish_remove
  <2> HIDE DEF s
  <2>2. /\ finish'[f].at = "notify" /\ finish'[f].lease = l
        /\ \A g \in Finishers : g # f => finish'[g] = finish[g]
        /\ finish' \in [Finishers -> [at : FinishPlaces, lease : 0..Len(leases)]]
    BY <1>3, <2>1 DEF FinishPlaces
  <2>3. /\ active' \in [Sessions -> 0..Len(leases)] /\ active'[s] = 0
        /\ \A t \in Sessions : t # s => active'[t] = active[t]
    BY <1>2, <1>5, <2>1 DEF IInv, TypeOK
  <2>4. TypeOK'
    <3>1. \A g \in Finishers : finish'[g].at # "idle" => finish'[g].lease # 0
      BY <1>1, <1>3, <2>2
    <3>2. \A t \in Sessions : active'[t] # 0 => leases'[active'[t]].session = t
      BY <1>1, <2>3, Zenon DEF IInv, TypeOK
    <3> QED
      BY <1>1, <2>2, <2>3, <3>1, <3>2 DEF IInv, TypeOK, workVars, drainVars, Trackers
  <2>5. RunInv'
    <3>1. RunInOneSession'
      BY <1>1, <2>3 DEF IInv, RunInv, RunInOneSession
    <3>2. FinishedRunTakesNoInput'
      <4> SUFFICES ASSUME NEW m \in Leases, active'[leases[m].session] # m
                   PROVE  ~leases[m].accepting
        BY <1>1 DEF FinishedRunTakesNoInput, Leases
      <4>1. leases[m] \in LeaseRow
        BY <1>2 DEF Leases
      <4>2. leases[m].session \in Sessions
        BY <4>1 DEF LeaseRow
      <4>3. CASE leases[m].session = s
        <5>1. CASE m = l
          BY <1>4, <5>1
        <5>2. CASE m # l
          BY <1>6, <4>3, <5>2 DEF IInv, RunInv, FinishedRunTakesNoInput
        <5> QED
          BY <5>1, <5>2
      <4>4. CASE leases[m].session # s
        BY <2>3, <4>2, <4>4 DEF IInv, RunInv, FinishedRunTakesNoInput
      <4> QED
        BY <4>3, <4>4
    <3>3. \A g \in Finishers : finish'[g].at \in {"closed", "notify"} =>
              ~leases'[finish'[g].lease].accepting
      BY <1>1, <1>4, <2>2 DEF IInv, RunInv
    <3> QED
      BY <3>1, <3>2, <3>3 DEF RunInv
  <2>6. GateInv'
    <3>1. \A d \in Deleters : deletion[d].sessions \subseteq Sessions
      BY DEF IInv, TypeOK
    <3>2. DeletionExcludesRuns'
      BY <1>1, <2>3, <3>1 DEF IInv, GateInv, DeletionExcludesRuns
    <3> QED
      BY <1>1, <3>2 DEF IInv, GateInv, DeletionHasOneOwner
  <2> QED
    BY <1>1, <2>4, <2>5, <2>6, RunsOnly DEF IInv
<1>7. CASE active[s] # l
  <2>1. active' = active /\ finish' = [finish EXCEPT ![f] = NoFinish]
    BY <1>7 DEF finish_remove
  <2>2. /\ finish'[f].at = "idle"
        /\ \A g \in Finishers : g # f => finish'[g] = finish[g]
        /\ finish' \in [Finishers -> [at : FinishPlaces, lease : 0..Len(leases)]]
    BY <1>2, <1>3, <2>1 DEF FinishPlaces, NoFinish
  <2>3. \A g \in Finishers : finish'[g].at # "idle" => finish'[g].lease # 0
    BY <1>3, <2>2
  <2>4. \A g \in Finishers : finish'[g].at \in {"closed", "notify"} =>
            ~leases'[finish'[g].lease].accepting
    BY <1>1, <2>2 DEF IInv, RunInv
  <2> QED
    BY <1>1, <1>2, <2>1, <2>2, <2>3, <2>4, ControlStep
<1> QED
  BY <1>6, <1>7

\* Writing the row of one deletion.
LEMMA DeletionWrite ==
    ASSUME IInv, NEW d \in Deleters,
           NEW row \in [at : DeletionPlaces, sessions : SUBSET Sessions, awaits : SUBSET Trackers],
           deletion' = [deletion EXCEPT ![d] = row]
    PROVE  /\ deletion' \in [Deleters -> [at : DeletionPlaces, sessions : SUBSET Sessions,
                                          awaits : SUBSET Trackers]]
           /\ deletion'[d] = row
           /\ \A e \in Deleters : e # d => deletion'[e] = deletion[e]
  BY DEF IInv, TypeOK

\* Who has gated which session is kept by a step that moves no session.
LEMMA SameOwners ==
    ASSUME IInv, deleting' = deleting,
           \A e \in Deleters : deletion'[e].sessions = deletion[e].sessions
    PROVE  DeletionHasOneOwner'
  BY DEF IInv, GateInv, DeletionHasOneOwner

\* finish(), at its end: sleeping deletions look again.
LEMMA FinishNotifyStep ==
    ASSUME IInv, NEW f \in Finishers, finish_notify(f)
    PROVE  IInv'
<1>1. UNCHANGED <<active, leases, deleting, trackerOf, trackers, token, draining, drain>>
  BY DEF finish_notify, workVars, drainVars
<1>2. Len(leases) \in Nat
  BY DEF IInv, TypeOK
<1>3. /\ finish'[f].at = "idle" /\ \A g \in Finishers : g # f => finish'[g] = finish[g]
      /\ finish' \in [Finishers -> [at : FinishPlaces, lease : 0..Len(leases)]]
  BY <1>2 DEF finish_notify, IInv, TypeOK, FinishPlaces, NoFinish
<1>4. \A d \in Deleters :
        /\ deletion[d].at = "asleep" => deletion'[d] = [deletion[d] EXCEPT !.at = "gated"]
        /\ deletion[d].at # "asleep" => deletion'[d] = deletion[d]
  BY DEF finish_notify
<1>5. \A d \in Deleters : deletion[d] \in [at : DeletionPlaces, sessions : SUBSET Sessions,
                                           awaits : SUBSET Trackers]
  BY DEF IInv, TypeOK
<1>6. \A d \in Deleters :
        /\ deletion'[d] \in [at : DeletionPlaces, sessions : SUBSET Sessions,
                             awaits : SUBSET Trackers]
        /\ deletion'[d].sessions = deletion[d].sessions
        /\ deletion'[d].awaits = deletion[d].awaits
        /\ deletion'[d].at # "gated" => deletion'[d].at = deletion[d].at
  BY <1>4, <1>5, Zenon DEF DeletionPlaces
<1>7. TypeOK'
  <2>1. deletion' \in [Deleters -> [at : DeletionPlaces, sessions : SUBSET Sessions,
                                    awaits : SUBSET Trackers]]
    BY <1>6 DEF finish_notify
  <2>2. \A g \in Finishers : finish'[g].at # "idle" => finish'[g].lease # 0
    BY <1>3, Zenon DEF IInv, TypeOK
  <2> QED
    BY <1>1, <1>3, <2>1, <2>2 DEF IInv, TypeOK, Trackers
<1>8. RunInv'
  BY <1>1, <1>3 DEF IInv, RunInv, RunInOneSession, FinishedRunTakesNoInput, Leases
<1>9. GateInv'
  <2>1. DeletionHasOneOwner'
    BY <1>1, <1>6, SameOwners
  <2> QED
    BY <1>1, <1>6, <2>1 DEF IInv, GateInv, DeletionExcludesRuns
<1>10. WorkInv'
  BY <1>1, <1>6 DEF IInv, WorkInv, WorkIsTracked, DeletionExcludesWork
<1>11. DrainInv'
  BY <1>1 DEF IInv, DrainInv, DrainedMeansNoWork
<1> QED
  BY <1>7, <1>8, <1>9, <1>10, <1>11 DEF IInv

-----------------------------------------------------------------------------
(* Background work. *)

\* A step that touches neither runs nor gates.
LEMMA WorkOnly ==
    ASSUME IInv, UNCHANGED <<runVars, gateVars>>
    PROVE  RunInv' /\ GateInv'
  BY DEF IInv, RunInv, GateInv, RunInOneSession, FinishedRunTakesNoInput, DeletionHasOneOwner,
         DeletionExcludesRuns, Leases, runVars, gateVars

\* begin_background_work(): the token is of the session's own tracker, and neither
\* a deletion of the session nor a drain is under way.
LEMMA BeginWorkStep ==
    ASSUME IInv, NEW w \in Works, NEW s \in Sessions, begin_background_work(w, s)
    PROVE  IInv'
<1> DEFINE t == IF trackerOf[s] = 0 THEN Len(trackers) + 1 ELSE trackerOf[s]
           row == [session |-> s, closed |-> FALSE]
<1>1. /\ ~draining /\ s \notin deleting /\ token[w] = 0
      /\ trackerOf' = [trackerOf EXCEPT ![s] = t]
      /\ trackers' = IF t \in Trackers THEN trackers ELSE Append(trackers, row)
      /\ token' = [token EXCEPT ![w] = t]
      /\ UNCHANGED <<runVars, gateVars, drainVars>>
  BY DEF begin_background_work
<1>2. /\ trackers \in Seq(TrackerRow) /\ Len(trackers) \in Nat /\ row \in TrackerRow
      /\ trackerOf \in [Sessions -> 0..Len(trackers)] /\ token \in [Works -> 0..Len(trackers)]
  BY DEF IInv, TypeOK, TrackerRow
<1>3. /\ trackers' \in Seq(TrackerRow) /\ Len(trackers') \in Nat /\ Len(trackers) <= Len(trackers')
      /\ t \in 1..Len(trackers')
      /\ \A u \in Trackers : trackers'[u] = trackers[u]
      /\ trackers'[t].session = s
  <2>1. CASE trackerOf[s] = 0
    <3>1. t = Len(trackers) + 1 /\ t \notin Trackers
      BY <1>2, <2>1 DEF Trackers
    <3>2. trackers' = Append(trackers, row)
      BY <1>1, <3>1
    <3> QED
      BY <1>2, <3>1, <3>2 DEF Trackers
  <2>2. CASE trackerOf[s] # 0
    <3>1. t = trackerOf[s] /\ t \in Trackers
      BY <1>2, <2>2 DEF Trackers
    <3>2. trackers' = trackers
      BY <1>1, <3>1
    <3> QED
      BY <1>2, <2>2, <3>1, <3>2 DEF Trackers, IInv, WorkInv
  <2> QED
    BY <2>1, <2>2
<1>4. trackerOf[s] # 0 => t = trackerOf[s]
  OBVIOUS
<1>5. trackerOf[s] = 0 => t \notin Trackers
  BY <1>2 DEF Trackers
<1> HIDE DEF t
<1>6. /\ trackerOf' \in [Sessions -> 0..Len(trackers')] /\ trackerOf'[s] = t
      /\ \A u \in Sessions : u # s => trackerOf'[u] = trackerOf[u]
      /\ token' \in [Works -> 0..Len(trackers')] /\ token'[w] = t
      /\ \A v \in Works : v # w => token'[v] = token[v]
  BY <1>1, <1>2, <1>3
<1>7. /\ \A u \in Sessions : trackerOf[u] # 0 => trackerOf[u] \in Trackers
      /\ \A v \in Works : token[v] # 0 => token[v] \in Trackers
      /\ Trackers \subseteq Trackers' /\ t # 0
  BY <1>2, <1>3 DEF Trackers
<1>8. TypeOK'
  <2>1. deletion' \in [Deleters -> [at : DeletionPlaces, sessions : SUBSET Sessions,
                                    awaits : SUBSET Trackers']]
    BY <1>1, <1>7 DEF IInv, TypeOK, gateVars
  <2>2. drain' \in [at : {"idle", "awaiting", "done"}, awaits : SUBSET Trackers']
    BY <1>1, <1>7 DEF IInv, TypeOK, drainVars
  <2> QED
    BY <1>1, <1>3, <1>6, <2>1, <2>2 DEF IInv, TypeOK, runVars, gateVars, drainVars
<1>9. WorkInv'
  <2>1. \A v \in Works : v # w /\ token'[v] # 0 =>
            trackers'[token'[v]].session = trackers[token[v]].session
    BY <1>3, <1>6, <1>7
  <2>2. \A v \in Works : token[v] # 0 => trackers[token[v]].session \in Sessions
    <3> SUFFICES ASSUME NEW v \in Works, token[v] # 0
                 PROVE  trackers[token[v]].session \in Sessions
      OBVIOUS
    <3>1. trackers[token[v]] \in TrackerRow
      BY <1>2, <1>7 DEF Trackers
    <3> QED
      BY <3>1 DEF TrackerRow
  <2>3. WorkIsTracked'
    <3> SUFFICES ASSUME NEW v \in Works, token'[v] # 0
                 PROVE  trackerOf'[trackers'[token'[v]].session] = token'[v]
      BY DEF WorkIsTracked
    <3>1. CASE v = w
      BY <1>3, <1>6, <3>1
    <3>2. CASE v # w
      <4>1. trackerOf[trackers[token[v]].session] = token[v] /\ token[v] # 0
        BY <1>6, <3>2 DEF IInv, WorkInv, WorkIsTracked
      <4> QED
        BY <1>4, <1>6, <2>1, <2>2, <3>2, <4>1
    <3> QED
      BY <3>1, <3>2
  <2>4. \A u \in Sessions : trackerOf'[u] # 0 => trackers'[trackerOf'[u]].session = u
    BY <1>3, <1>6, <1>7 DEF IInv, WorkInv
  <2>5. \A d \in Deleters : s \notin deletion[d].sessions /\ deletion'[d] = deletion[d]
    BY <1>1 DEF IInv, GateInv, DeletionHasOneOwner, gateVars
  <2>6. DeletionExcludesWork'
    BY <1>3, <1>6, <2>1, <2>5 DEF IInv, WorkInv, DeletionExcludesWork
  <2>7. \A d \in Deleters : deletion'[d].at = "awaiting" =>
            \A v \in Works : token'[v] # 0 =>
                \/ trackers'[token'[v]].session \notin deletion'[d].sessions
                \/ token'[v] \in deletion'[d].awaits
    BY <1>3, <1>6, <2>1, <2>5 DEF IInv, WorkInv
  <2> QED
    BY <2>3, <2>4, <2>6, <2>7 DEF WorkInv
<1>10. DrainInv'
  BY <1>1 DEF IInv, DrainInv, DrainedMeansNoWork, drainVars
<1> QED
  BY <1>1, <1>8, <1>9, <1>10, WorkOnly DEF IInv

\* A sequence ends and drops its token.
LEMMA EndWorkStep ==
    ASSUME IInv, NEW w \in Works, end_background_work(w)
    PROVE  IInv'
<1>1. /\ token' = [token EXCEPT ![w] = 0]
      /\ UNCHANGED <<runVars, gateVars, trackerOf, trackers, drainVars>>
  BY DEF end_background_work
<1>2. /\ token' \in [Works -> 0..Len(trackers)] /\ token'[w] = 0
      /\ \A v \in Works : v # w => token'[v] = token[v]
  BY <1>1 DEF IInv, TypeOK
<1>3. TypeOK'
  BY <1>1, <1>2 DEF IInv, TypeOK, runVars, gateVars, drainVars, Trackers
<1>4. WorkInv'
  BY <1>1, <1>2 DEF IInv, WorkInv, WorkIsTracked, DeletionExcludesWork, gateVars
<1>5. DrainInv'
  BY <1>1, <1>2 DEF IInv, DrainInv, DrainedMeansNoWork, drainVars
<1> QED
  BY <1>1, <1>3, <1>4, <1>5, WorkOnly DEF IInv

-----------------------------------------------------------------------------
(* Deletion. *)

\* Trackers may be closed and reopened without touching whose they are.
LEMMA Reopening ==
    ASSUME IInv, trackers' \in [Trackers -> TrackerRow],
           \A t \in Trackers : trackers'[t].session = trackers[t].session
    PROVE  trackers' \in Seq(TrackerRow) /\ Len(trackers') = Len(trackers) /\ Trackers' = Trackers
<1>1. Len(trackers) \in Nat
  BY DEF IInv, TypeOK
<1>2. trackers' \in [1..Len(trackers) -> TrackerRow]
  BY DEF Trackers
<1> QED
  BY <1>1, <1>2 DEF Trackers

\* The rows the trackers have.
LEMMA TrackerRows == IInv => \A t \in Trackers : trackers[t] \in TrackerRow
  BY DEF IInv, TypeOK, Trackers

\* The work that holds tokens is in trackers that exist, and so are the trackers
\* of the sessions.
LEMMA Known ==
    ASSUME IInv
    PROVE  /\ \A w \in Works : token[w] # 0 => token[w] \in Trackers
           /\ \A s \in Sessions : trackerOf[s] # 0 => trackerOf[s] \in Trackers
           /\ \A w \in Works : token[w] # 0 => trackers[token[w]].session \in Sessions
<1>1. /\ trackers \in Seq(TrackerRow) /\ Len(trackers) \in Nat
      /\ \A w \in Works : token[w] \in 0..Len(trackers)
      /\ \A s \in Sessions : trackerOf[s] \in 0..Len(trackers)
  BY DEF IInv, TypeOK
<1>2. /\ \A w \in Works : token[w] # 0 => token[w] \in Trackers
      /\ \A s \in Sessions : trackerOf[s] # 0 => trackerOf[s] \in Trackers
  BY <1>1 DEF Trackers
<1> QED
  BY <1>2, TrackerRows DEF TrackerRow

\* begin_session_deletion(): the new sessions had no owner.
LEMMA BeginDeletionStep ==
    ASSUME IInv, NEW d \in Deleters, NEW S \in SUBSET Sessions, begin_session_deletion(d, S)
    PROVE  IInv'
<1> DEFINE row == [deletion[d] EXCEPT !.at = "gated", !.sessions = @ \cup S]
<1>1. /\ S \cap deleting = {} /\ deleting' = deleting \cup S
      /\ UNCHANGED <<runVars, trackerOf, token, drainVars>>
      /\ trackers' = [t \in Trackers |->
                      [trackers[t] EXCEPT !.closed = @ \/ \E s \in S : trackerOf[s] = t]]
  BY DEF begin_session_deletion
<1>2. deletion[d] \in [at : DeletionPlaces, sessions : SUBSET Sessions, awaits : SUBSET Trackers]
  BY DEF IInv, TypeOK
<1>3. /\ row \in [at : DeletionPlaces, sessions : SUBSET Sessions, awaits : SUBSET Trackers]
      /\ row.at = "gated" /\ row.sessions = deletion[d].sessions \cup S
  BY <1>2, Zenon DEF DeletionPlaces
<1>4. deletion' = [deletion EXCEPT ![d] = row]
  BY <1>2, Zenon DEF begin_session_deletion
<1> HIDE DEF row
<1>5. /\ deletion' \in [Deleters -> [at : DeletionPlaces, sessions : SUBSET Sessions,
                                     awaits : SUBSET Trackers]]
      /\ deletion'[d] = row /\ \A e \in Deleters : e # d => deletion'[e] = deletion[e]
  BY <1>3, <1>4, DeletionWrite, Zenon
<1>6. \A t \in Trackers : /\ trackers'[t] \in TrackerRow
                          /\ trackers'[t].session = trackers[t].session
  BY <1>1, TrackerRows, Zenon DEF TrackerRow
<1>7. trackers' \in Seq(TrackerRow) /\ Len(trackers') = Len(trackers) /\ Trackers' = Trackers
  BY <1>1, <1>6, Reopening
<1>8. TypeOK'
  BY <1>1, <1>5, <1>7, Zenon DEF IInv, TypeOK, runVars, drainVars
<1>9. RunInv'
  BY <1>1 DEF IInv, RunInv, RunInOneSession, FinishedRunTakesNoInput, Leases, runVars
<1>10. GateInv'
  <2>1. deleting = UNION {deletion[e].sessions : e \in Deleters}
    BY DEF IInv, GateInv, DeletionHasOneOwner
  <2>2. deleting' = UNION {deletion'[e].sessions : e \in Deleters}
    BY <1>1, <1>3, <1>5, <2>1
  <2>3. \A e \in Deleters : S \cap deletion[e].sessions = {}
    BY <1>1, <2>1
  <2>4. \A e, f \in Deleters : e # f => deletion'[e].sessions \cap deletion'[f].sessions = {}
    BY <1>3, <1>5, <2>3 DEF IInv, GateInv, DeletionHasOneOwner
  <2>5. DeletionExcludesRuns'
    BY <1>1, <1>3, <1>5 DEF IInv, GateInv, DeletionExcludesRuns, runVars
  <2> QED
    BY <1>3, <1>5, <2>2, <2>4, <2>5 DEF IInv, GateInv, DeletionHasOneOwner
<1>11. WorkInv'
  <2>1. trackerOf' = trackerOf /\ token' = token
    BY <1>1
  <2>2. /\ \A w \in Works : token[w] # 0 =>
              trackers'[token[w]].session = trackers[token[w]].session
        /\ \A s \in Sessions : trackerOf[s] # 0 =>
              trackers'[trackerOf[s]].session = trackers[trackerOf[s]].session
    BY <1>6, Known
  <2> QED
    BY <1>3, <1>5, <2>1, <2>2 DEF IInv, WorkInv, WorkIsTracked, DeletionExcludesWork
<1>12. DrainInv'
  BY <1>1 DEF IInv, DrainInv, DrainedMeansNoWork, drainVars
<1> QED
  BY <1>8, <1>9, <1>10, <1>11, <1>12 DEF IInv

\* A deletion goes on to its next wait, with what that wait has established.
LEMMA DeletionWaits ==
    ASSUME IInv, NEW d \in Deleters,
           NEW row \in [at : DeletionPlaces, sessions : SUBSET Sessions, awaits : SUBSET Trackers],
           deletion' = [deletion EXCEPT ![d] = row],
           row.sessions = deletion[d].sessions, row.at # "idle",
           row.at \in {"quiet", "awaiting", "cleared"} =>
               \A s \in deletion[d].sessions : active[s] = 0,
           \A w \in Works : token[w] # 0 /\ trackers[token[w]].session \in row.sessions =>
               /\ row.at # "cleared"
               /\ row.at = "awaiting" => token[w] \in row.awaits,
           UNCHANGED <<runVars, deleting, workVars, drainVars>>
    PROVE  IInv'
<1>1. /\ deletion' \in [Deleters -> [at : DeletionPlaces, sessions : SUBSET Sessions,
                                     awaits : SUBSET Trackers]]
      /\ deletion'[d] = row /\ \A e \in Deleters : e # d => deletion'[e] = deletion[e]
  BY DeletionWrite, Zenon
<1>2. TypeOK'
  BY <1>1 DEF IInv, TypeOK, Trackers, runVars, workVars, drainVars
<1>3. RunInv'
  BY DEF IInv, RunInv, RunInOneSession, FinishedRunTakesNoInput, Leases, runVars
<1>4. GateInv'
  <2>1. DeletionHasOneOwner'
    BY <1>1, SameOwners
  <2>2. DeletionExcludesRuns'
    BY <1>1 DEF IInv, GateInv, DeletionExcludesRuns, runVars
  <2> QED
    BY <1>1, <2>1, <2>2 DEF IInv, GateInv
<1>5. WorkInv'
  BY <1>1 DEF IInv, WorkInv, WorkIsTracked, DeletionExcludesWork, workVars
<1>6. DrainInv'
  BY DEF IInv, DrainInv, DrainedMeansNoWork, workVars, drainVars
<1> QED
  BY <1>2, <1>3, <1>4, <1>5, <1>6 DEF IInv

\* The condition-variable loop, the clone of the trackers and the waits for them.
LEMMA DeletionWaitsStep ==
    ASSUME IInv, NEW d \in Deleters,
           \/ wait_until_sessions_inactive(d)
           \/ wait_for_background_work(d)
           \/ background_work_settled(d)
    PROVE  IInv'
<1> DEFINE Row == [at : DeletionPlaces, sessions : SUBSET Sessions, awaits : SUBSET Trackers]
           old == deletion[d]
<1>1. old \in Row
  BY DEF IInv, TypeOK
<1>2. UNCHANGED <<runVars, deleting, workVars, drainVars>>
  BY DEF wait_until_sessions_inactive, wait_for_background_work, background_work_settled
<1>3. CASE wait_until_sessions_inactive(d)
  <2> DEFINE row == [old EXCEPT !.at = IF \E s \in old.sessions : active[s] # 0
                                       THEN "asleep" ELSE "quiet"]
  <2>1. /\ row \in Row /\ row.sessions = old.sessions /\ row.at \in {"asleep", "quiet"}
        /\ row.at = "quiet" => \A s \in old.sessions : active[s] = 0
    BY <1>1 DEF DeletionPlaces
  <2>2. deletion' = [deletion EXCEPT ![d] = row]
    BY <1>3 DEF wait_until_sessions_inactive
  <2> HIDE DEF row
  <2> QED
    BY <1>2, <2>1, <2>2, DeletionWaits, Zenon
<1>4. CASE wait_for_background_work(d)
  <2> DEFINE row == [old EXCEPT !.at = "awaiting",
                                !.awaits = {trackerOf[s] : s \in old.sessions} \ {0}]
  <2>1. /\ row.sessions = old.sessions /\ row.at = "awaiting"
        /\ row.awaits = {trackerOf[s] : s \in old.sessions} \ {0}
    BY <1>1
  <2>2. row \in Row
    <3>1. {trackerOf[s] : s \in old.sessions} \ {0} \subseteq Trackers
      BY <1>1, Known
    <3> QED
      BY <1>1, <3>1, Zenon DEF DeletionPlaces
  <2>3. deletion' = [deletion EXCEPT ![d] = row]
    BY <1>4, Zenon DEF wait_for_background_work
  <2> HIDE DEF row
  <2>4. \A s \in old.sessions : active[s] = 0
    BY <1>4 DEF wait_for_background_work, IInv, GateInv, DeletionExcludesRuns
  <2>5. \A w \in Works : token[w] # 0 /\ trackers[token[w]].session \in row.sessions =>
            token[w] \in row.awaits
    BY <2>1 DEF IInv, WorkInv, WorkIsTracked
  <2> QED
    BY <1>2, <2>1, <2>2, <2>3, <2>4, <2>5, DeletionWaits, Zenon
<1>5. CASE background_work_settled(d)
  <2>1. old.at = "awaiting"
    BY <1>5 DEF background_work_settled
  <2>2. \A s \in old.sessions : active[s] = 0
    BY <2>1 DEF IInv, GateInv, DeletionExcludesRuns
  <2>3. \A w \in Works : token[w] # 0 /\ trackers[token[w]].session \in old.sessions =>
            token[w] \in old.awaits
    BY <2>1 DEF IInv, WorkInv
  <2>4. CASE \E t \in old.awaits : /\ Settled(t)
                                   /\ deletion' = [deletion EXCEPT ![d].awaits = @ \ {t}]
    <3>1. PICK t \in old.awaits : /\ Settled(t)
                                  /\ deletion' = [deletion EXCEPT ![d].awaits = @ \ {t}]
      BY <2>4, Zenon
    <3> DEFINE row == [old EXCEPT !.awaits = @ \ {t}]
    <3>2. /\ row \in Row /\ row.sessions = old.sessions /\ row.at = "awaiting"
          /\ row.awaits = old.awaits \ {t}
      BY <1>1, <2>1
    <3>3. deletion' = [deletion EXCEPT ![d] = row]
      BY <3>1
    <3> HIDE DEF row
    <3>4. \A w \in Works : token[w] # t
      BY <3>1 DEF Settled, Tokens
    <3> QED
      BY <1>2, <2>2, <2>3, <3>2, <3>3, <3>4, DeletionWaits, Zenon
  <2>5. CASE old.awaits = {} /\ deletion' = [deletion EXCEPT ![d].at = "cleared"]
    <3> DEFINE row == [old EXCEPT !.at = "cleared"]
    <3>1. row \in Row /\ row.sessions = old.sessions /\ row.at = "cleared"
      BY <1>1 DEF DeletionPlaces
    <3>2. deletion' = [deletion EXCEPT ![d] = row]
      BY <2>5
    <3> HIDE DEF row
    <3> QED
      BY <1>2, <2>2, <2>3, <2>5, <3>1, <3>2, DeletionWaits, Zenon
  <2> QED
    BY <1>5, <2>4, <2>5 DEF background_work_settled
<1> QED
  BY <1>3, <1>4, <1>5

\* Dropping the registrations: the gate opens, and only trackers without tokens
\* are forgotten.
LEMMA DropStep ==
    ASSUME IInv, NEW d \in Deleters, drop_registration(d)
    PROVE  IInv'
<1> DEFINE S == deletion[d].sessions
           Kept == {s \in S : trackerOf[s] # 0 /\ Tokens(trackerOf[s]) # {}}
<1>1. /\ deleting' = deleting \ S /\ deletion' = [deletion EXCEPT ![d] = NoDeletion]
      /\ trackerOf' = [s \in Sessions |-> IF s \in S \ Kept THEN 0 ELSE trackerOf[s]]
      /\ UNCHANGED <<runVars, token, drainVars>>
  BY DEF drop_registration
<1>2. trackers' = [t \in Trackers |->
                     [trackers[t] EXCEPT !.closed = @ /\ ~ \E s \in Kept : trackerOf[s] = t]]
  BY DEF drop_registration
<1>3. \A t \in Trackers : /\ trackers'[t] \in TrackerRow
                          /\ trackers'[t].session = trackers[t].session
  BY <1>2, TrackerRows, Zenon DEF TrackerRow
<1>4. trackers' \in Seq(TrackerRow) /\ Len(trackers') = Len(trackers) /\ Trackers' = Trackers
  BY <1>2, <1>3, Reopening, Zenon
<1>5. /\ NoDeletion \in [at : DeletionPlaces, sessions : SUBSET Sessions, awaits : SUBSET Trackers]
      /\ NoDeletion.at = "idle" /\ NoDeletion.sessions = {}
  BY DEF NoDeletion, DeletionPlaces
<1>6. /\ deletion' \in [Deleters -> [at : DeletionPlaces, sessions : SUBSET Sessions,
                                     awaits : SUBSET Trackers]]
      /\ deletion'[d] = NoDeletion /\ \A e \in Deleters : e # d => deletion'[e] = deletion[e]
  BY <1>1, <1>5, DeletionWrite, Zenon
<1>7. \A s \in Sessions : /\ trackerOf'[s] \in {0, trackerOf[s]}
                          /\ trackerOf[s] # 0 /\ Tokens(trackerOf[s]) # {} =>
                                 trackerOf'[s] = trackerOf[s]
  BY <1>1
<1>8. TypeOK'
  <2>1. trackerOf' \in [Sessions -> 0..Len(trackers)]
    <3>1. trackerOf \in [Sessions -> 0..Len(trackers)] /\ Len(trackers) \in Nat
      BY DEF IInv, TypeOK
    <3> QED
      BY <1>1, <3>1
  <2> QED
    BY <1>1, <1>4, <1>6, <2>1 DEF IInv, TypeOK, runVars, drainVars
<1>9. RunInv'
  BY <1>1 DEF IInv, RunInv, RunInOneSession, FinishedRunTakesNoInput, Leases, runVars
<1>10. GateInv'
  <2>1. /\ deleting = UNION {deletion[e].sessions : e \in Deleters}
        /\ \A e, f \in Deleters : e # f => deletion[e].sessions \cap deletion[f].sessions = {}
    BY DEF IInv, GateInv, DeletionHasOneOwner
  <2>2. deleting' = UNION {deletion'[e].sessions : e \in Deleters}
    BY <1>1, <1>5, <1>6, <2>1
  <2>3. \A e, f \in Deleters : e # f => deletion'[e].sessions \cap deletion'[f].sessions = {}
    BY <1>5, <1>6, <2>1
  <2>4. DeletionExcludesRuns'
    BY <1>1, <1>5, <1>6 DEF IInv, GateInv, DeletionExcludesRuns, runVars
  <2> QED
    BY <1>5, <1>6, <2>2, <2>3, <2>4 DEF IInv, GateInv, DeletionHasOneOwner
<1>11. WorkInv'
  <2>1. token' = token
    BY <1>1
  <2>2. /\ \A w \in Works : token[w] # 0 =>
              trackers'[token[w]].session = trackers[token[w]].session
        /\ \A s \in Sessions : trackerOf[s] # 0 =>
              trackers'[trackerOf[s]].session = trackers[trackerOf[s]].session
    BY <1>3, Known
  <2>3. WorkIsTracked'
    <3> SUFFICES ASSUME NEW w \in Works, token[w] # 0
                 PROVE  trackerOf'[trackers'[token[w]].session] = token[w]
      BY <2>1 DEF WorkIsTracked
    <3>1. trackerOf[trackers[token[w]].session] = token[w] /\ trackers[token[w]].session \in Sessions
      BY Known DEF IInv, WorkInv, WorkIsTracked
    <3>2. w \in Tokens(token[w])
      BY DEF Tokens
    <3> QED
      BY <1>7, <2>2, <3>1, <3>2
  <2>4. \A s \in Sessions : trackerOf'[s] # 0 => trackers'[trackerOf'[s]].session = s
    BY <1>7, <2>2 DEF IInv, WorkInv
  <2> QED
    BY <1>5, <1>6, <2>1, <2>2, <2>3, <2>4 DEF IInv, WorkInv, DeletionExcludesWork
<1>12. DrainInv'
  BY <1>1 DEF IInv, DrainInv, DrainedMeansNoWork, drainVars
<1> QED
  BY <1>8, <1>9, <1>10, <1>11, <1>12 DEF IInv

-----------------------------------------------------------------------------
(* The service drain. *)

\* Admission stops, the drain clones the trackers, and awaits them one by one.
LEMMA DrainStep ==
    ASSUME IInv, request_service_shutdown \/ drain_background_work \/ drain_settled
    PROVE  IInv'
<1>1. UNCHANGED <<runVars, gateVars, trackerOf, token>>
  BY DEF request_service_shutdown, drain_background_work, drain_settled, workVars
<1>2. /\ trackers' \in Seq(TrackerRow) /\ Len(trackers') = Len(trackers) /\ Trackers' = Trackers
      /\ \A t \in Trackers : trackers'[t].session = trackers[t].session
  <2>1. CASE drain_background_work
    <3>1. trackers' = [t \in Trackers |->
                         [trackers[t] EXCEPT !.closed = @ \/ \E s \in Sessions : trackerOf[s] = t]]
      BY <2>1 DEF drain_background_work
    <3>2. \A t \in Trackers : /\ trackers'[t] \in TrackerRow
                              /\ trackers'[t].session = trackers[t].session
      BY <3>1, TrackerRows, Zenon DEF TrackerRow
    <3> QED
      BY <3>1, <3>2, Reopening
  <2>2. CASE trackers' = trackers
    BY <2>2 DEF IInv, TypeOK, Trackers
  <2> QED
    BY <2>1, <2>2 DEF request_service_shutdown, drain_settled, workVars
<1>3. drain \in [at : {"idle", "awaiting", "done"}, awaits : SUBSET Trackers] /\ draining \in BOOLEAN
  BY DEF IInv, TypeOK
<1>4. /\ drain' \in [at : {"idle", "awaiting", "done"}, awaits : SUBSET Trackers]
      /\ draining' \in BOOLEAN /\ DrainInv'
  <2>1. CASE request_service_shutdown
    BY <1>1, <1>3, <2>1 DEF request_service_shutdown, IInv, DrainInv, DrainedMeansNoWork
  <2>2. CASE drain_background_work
    <3> DEFINE A == {trackerOf[s] : s \in Sessions} \ {0}
    <3>1. draining /\ draining' = draining /\ drain' = [at |-> "awaiting", awaits |-> A]
      BY <2>2 DEF drain_background_work
    <3>2. A \subseteq Trackers
      BY Known
    <3>3. \A w \in Works : token[w] # 0 => token[w] \in A
      BY Known DEF IInv, WorkInv, WorkIsTracked
    <3> QED
      BY <1>1, <3>1, <3>2, <3>3 DEF DrainInv, DrainedMeansNoWork
  <2>3. CASE drain_settled
    <3>1. drain.at = "awaiting" /\ draining' = draining
      BY <2>3 DEF drain_settled
    <3>2. draining /\ \A w \in Works : token[w] # 0 => token[w] \in drain.awaits
      BY <3>1 DEF IInv, DrainInv
    <3>3. CASE \E t \in drain.awaits : Settled(t) /\ drain' = [drain EXCEPT !.awaits = @ \ {t}]
      <4>1. PICK t \in drain.awaits : Settled(t) /\ drain' = [drain EXCEPT !.awaits = @ \ {t}]
        BY <3>3
      <4>2. \A w \in Works : token[w] # t
        BY <4>1 DEF Settled, Tokens
      <4>3. /\ drain' \in [at : {"idle", "awaiting", "done"}, awaits : SUBSET Trackers]
            /\ drain'.at = "awaiting" /\ drain'.awaits = drain.awaits \ {t}
        BY <1>3, <3>1, <4>1
      <4> QED
        BY <1>1, <1>3, <3>1, <3>2, <4>2, <4>3 DEF DrainInv, DrainedMeansNoWork
    <3>4. CASE drain.awaits = {} /\ drain' = [drain EXCEPT !.at = "done"]
      <4>1. /\ drain' \in [at : {"idle", "awaiting", "done"}, awaits : SUBSET Trackers]
            /\ drain'.at = "done"
        BY <1>3, <3>4
      <4> QED
        BY <1>1, <1>3, <3>1, <3>2, <3>4, <4>1 DEF DrainInv, DrainedMeansNoWork
    <3> QED
      BY <2>3, <3>3, <3>4 DEF drain_settled
  <2> QED
    BY <2>1, <2>2, <2>3
<1>5. TypeOK'
  BY <1>1, <1>2, <1>4 DEF IInv, TypeOK, runVars, gateVars
<1>6. WorkInv'
  <2>1. /\ \A w \in Works : token[w] # 0 =>
              trackers'[token[w]].session = trackers[token[w]].session
        /\ \A s \in Sessions : trackerOf[s] # 0 =>
              trackers'[trackerOf[s]].session = trackers[trackerOf[s]].session
    BY <1>2, Known
  <2> QED
    BY <1>1, <2>1 DEF IInv, WorkInv, WorkIsTracked, DeletionExcludesWork, gateVars
<1> QED
  BY <1>1, <1>4, <1>5, <1>6, WorkOnly DEF IInv

-----------------------------------------------------------------------------
(* The theorems. *)

\* Every hold of the registry's mutex, and every step between two, keeps the
\* invariant.
LEMMA NextIInv == IInv /\ [Next]_vars => IInv'
<1> SUFFICES ASSUME IInv, [Next]_vars PROVE IInv'
  OBVIOUS
<1>1. ASSUME NEW s \in Sessions, NEW r \in Runs, start(s, r) PROVE IInv'
  BY <1>1, StartStep
<1>2. ASSUME NEW l \in Leases, NEW cause \in {"cancelled", "shutdown"}, NEW accepted \in BOOLEAN,
             close_with_cause(l, cause, accepted)
      PROVE  IInv'
  BY <1>2, CloseWithCauseStep
<1>3. ASSUME NEW f \in Finishers,
             \/ \E l \in Leases : finish_find(f, l)
             \/ finish_close(f) \/ finish_close_failed(f) \/ finish_remove(f) \/ finish_notify(f)
      PROVE  IInv'
  BY <1>3, FinishBeginsStep, FinishRemoveStep, FinishNotifyStep
<1>4. ASSUME NEW w \in Works,
             (\E s \in Sessions : begin_background_work(w, s)) \/ end_background_work(w)
      PROVE  IInv'
  BY <1>4, BeginWorkStep, EndWorkStep
<1>5. ASSUME NEW d \in Deleters,
             \/ \E S \in SUBSET Sessions : begin_session_deletion(d, S)
             \/ wait_until_sessions_inactive(d) \/ wait_for_background_work(d)
             \/ background_work_settled(d) \/ drop_registration(d)
      PROVE  IInv'
  BY <1>5, BeginDeletionStep, DeletionWaitsStep, DropStep
<1>6. CASE request_service_shutdown \/ drain_background_work \/ drain_settled
  BY <1>6, DrainStep
<1>7. CASE UNCHANGED vars
  <2>1. UNCHANGED <<runVars, gateVars, deletion, workVars, drainVars>>
    BY <1>7 DEF vars, runVars, gateVars, workVars, drainVars
  <2>2. TypeOK'
    BY <1>7 DEF vars, IInv, TypeOK, Trackers
  <2> QED
    BY <2>1, <2>2, WorkOnly, RunsOnly DEF IInv
<1> QED
  BY <1>1, <1>2, <1>3, <1>4, <1>5, <1>6, <1>7 DEF Next

\* The inductive invariant holds throughout, whatever the sessions, the runs, the
\* background sequences and the callers.
THEOREM Invariance == Spec => []IInv
  BY InitIInv, NextIInv, PTL DEF Spec

\* A run is active in one session, and runs, background work, deletions and the
\* drain exclude each other as the gates and trackers of AgentRunRegistry mean
\* them to.
THEOREM Exclusion == Spec => []SessionExclusive
<1>1. IInv => SessionExclusive
  BY DEF IInv, RunInv, GateInv, WorkInv, DrainInv, RunsApart, SessionExclusive
<1> QED
  BY <1>1, Invariance, PTL

\* The steps that give no session to a run, take none and touch no control.
LEMMA ElsewhereSteps ==
    ASSUME \/ \E f \in Finishers : \/ \E l \in Leases : finish_find(f, l)
                                   \/ finish_close_failed(f) \/ finish_notify(f)
           \/ \E w \in Works : \/ \E s \in Sessions : begin_background_work(w, s)
                               \/ end_background_work(w)
           \/ \E d \in Deleters :
                 \/ \E S \in SUBSET Sessions : begin_session_deletion(d, S)
                 \/ wait_until_sessions_inactive(d) \/ wait_for_background_work(d)
                 \/ background_work_settled(d) \/ drop_registration(d)
           \/ request_service_shutdown \/ drain_background_work \/ drain_settled
           \/ UNCHANGED vars
    PROVE  active' = active /\ leases' = leases
<1>1. ASSUME NEW f \in Finishers,
             (\E l \in Leases : finish_find(f, l)) \/ finish_close_failed(f) \/ finish_notify(f)
      PROVE  active' = active /\ leases' = leases
  BY <1>1 DEF finish_find, finish_close_failed, finish_notify
<1>2. ASSUME NEW w \in Works,
             (\E s \in Sessions : begin_background_work(w, s)) \/ end_background_work(w)
      PROVE  active' = active /\ leases' = leases
  BY <1>2, Zenon DEF begin_background_work, end_background_work, runVars
<1>3. ASSUME NEW d \in Deleters,
             \/ \E S \in SUBSET Sessions : begin_session_deletion(d, S)
             \/ wait_until_sessions_inactive(d) \/ wait_for_background_work(d)
             \/ background_work_settled(d) \/ drop_registration(d)
      PROVE  active' = active /\ leases' = leases
  BY <1>3 DEF begin_session_deletion, wait_until_sessions_inactive, wait_for_background_work,
              background_work_settled, drop_registration, runVars
<1>4. ASSUME request_service_shutdown \/ drain_background_work \/ drain_settled \/ UNCHANGED vars
      PROVE  active' = active /\ leases' = leases
  BY <1>4 DEF request_service_shutdown, drain_background_work, drain_settled, runVars, vars
<1> QED
  BY <1>1, <1>2, <1>3, <1>4

\* Which step takes a session from a run.
LEMMA RunLeaves ==
    ASSUME IInv, [Next]_vars, NEW s \in Sessions, active[s] # 0, active'[s] # active[s]
    PROVE  \E f \in Finishers : /\ finish[f] = [at |-> "closed", lease |-> active[s]]
                                /\ finish'[f].at = "notify"
<1>1. active \in [Sessions -> 0..Len(leases)]
  BY DEF IInv, TypeOK
<1>2. ASSUME NEW t \in Sessions, NEW r \in Runs, start(t, r) PROVE FALSE
  BY <1>1, <1>2 DEF start
<1>3. ASSUME NEW l \in Leases, NEW cause \in {"cancelled", "shutdown"}, NEW accepted \in BOOLEAN,
             close_with_cause(l, cause, accepted)
      PROVE  FALSE
  BY <1>3 DEF close_with_cause
<1>4. ASSUME NEW f \in Finishers, finish_close(f) PROVE FALSE
  BY <1>4 DEF finish_close
<1>5. ASSUME NEW f \in Finishers, finish_remove(f)
      PROVE  /\ finish[f] = [at |-> "closed", lease |-> active[s]]
             /\ finish'[f].at = "notify"
  <2> DEFINE l == finish[f].lease
             t == leases[l].session
  <2>1. finish[f].at = "closed" /\ finish \in [Finishers -> [at : FinishPlaces, lease : 0..Len(leases)]]
    BY <1>5 DEF finish_remove, IInv, TypeOK
  <2>2. active[t] = l /\ active' = [active EXCEPT ![t] = 0]
        /\ finish' = [finish EXCEPT ![f].at = "notify"]
    BY <1>5 DEF finish_remove
  <2>3. s = t
    BY <1>1, <2>2
  <2>4. l = active[s] /\ finish'[f].at = "notify"
    BY <2>1, <2>2, <2>3
  <2> QED
    BY <2>1, <2>4
<1> QED
  BY <1>2, <1>3, <1>4, <1>5, ElsewhereSteps, Zenon DEF Next

\* What a step may do to the control of a lease.
LEMMA ControlOnlyStops ==
    ASSUME IInv, [Next]_vars, NEW l \in Leases
    PROVE  /\ ~leases[l].accepting => ~leases'[l].accepting
           /\ leases[l].cause # "none" => leases'[l].cause = leases[l].cause
<1> DEFINE Goal == /\ ~leases[l].accepting => ~leases'[l].accepting
                   /\ leases[l].cause # "none" => leases'[l].cause = leases[l].cause
<1>1. leases \in Seq(LeaseRow) /\ Len(leases) \in Nat /\ leases[l] \in LeaseRow
  BY DEF IInv, TypeOK, Leases
<1>2. ASSUME NEW t \in Sessions, NEW r \in Runs, start(t, r) PROVE Goal
  <2>1. leases' = Append(leases, [session |-> t, run |-> r, accepting |-> TRUE, cause |-> "none"])
    BY <1>2 DEF start
  <2>2. leases'[l] = leases[l]
    BY <1>1, <2>1 DEF Leases
  <2> QED
    BY <2>2
<1>3. ASSUME NEW m \in Leases, NEW cause \in {"cancelled", "shutdown"}, NEW accepted \in BOOLEAN,
             close_with_cause(m, cause, accepted)
      PROVE  Goal
  <2>1. leases' = [leases EXCEPT ![m].accepting = FALSE,
                                 ![m].cause = IF accepted /\ @ = "none" THEN cause ELSE @]
    BY <1>3 DEF close_with_cause
  <2>2. leases \in [1..Len(leases) -> LeaseRow] /\ l \in 1..Len(leases) /\ m \in 1..Len(leases)
    BY <1>1 DEF Leases
  <2>3. CASE l = m
    BY <1>1, <2>1, <2>2, <2>3 DEF LeaseRow
  <2>4. CASE l # m
    BY <2>1, <2>2, <2>4
  <2> QED
    BY <2>3, <2>4
<1>4. ASSUME NEW f \in Finishers, finish_close(f) PROVE Goal
  <2>1. leases' = [leases EXCEPT ![finish[f].lease].accepting = FALSE]
    BY <1>4 DEF finish_close
  <2>2. leases \in [1..Len(leases) -> LeaseRow] /\ l \in 1..Len(leases)
    BY <1>1 DEF Leases
  <2> QED
    BY <1>1, <2>1, <2>2 DEF LeaseRow
<1>5. ASSUME NEW f \in Finishers, finish_remove(f) PROVE Goal
  BY <1>5 DEF finish_remove
<1> QED
  BY <1>2, <1>3, <1>4, <1>5, ElsewhereSteps, Zenon DEF Next

\* A run leaves its session by a finish() of its own lease only, and no step
\* reopens a control or replaces the cause of its stop.
THEOREM Lifetime == Spec => RunLifetime
<1>1. IInv /\ [Next]_vars =>
        [\A s \in Sessions :
          active[s] # 0 /\ active'[s] # active[s] =>
             \E f \in Finishers : /\ finish[f] = [at |-> "closed", lease |-> active[s]]
                                  /\ finish'[f].at = "notify"]_vars
  BY RunLeaves
<1>2. IInv /\ [Next]_vars =>
        [\A l \in Leases :
          /\ ~leases[l].accepting => ~leases'[l].accepting
          /\ leases[l].cause # "none" => leases'[l].cause = leases[l].cause]_vars
  BY ControlOnlyStops
<1>3. Spec => RunLeavesByItsOwnFinish
  BY <1>1, Invariance, PTL DEF Spec, RunLeavesByItsOwnFinish
<1>4. Spec => StopIsFinal
  BY <1>2, Invariance, PTL DEF Spec, StopIsFinal
<1> QED
  BY <1>3, <1>4 DEF RunLifetime
==============================================================================
