---------------------------- MODULE SessionCatalog ----------------------------
(***************************************************************************)
(* Session logs and their two derived views: the reducer state each        *)
(* process keeps in memory (runtime/src/message_log/read_state.rs) and the *)
(* SQLite index the Host answers queries from                              *)
(* (runtime/src/session_catalog.rs).                                       *)
(*                                                                         *)
(* Writers hold the log lock alone, readers share it; a query also holds   *)
(* the catalog lock.  The marking of a log as dirty, each record of an     *)
(* append and each refresh transaction are steps of their own: the process *)
(* may crash, or the step fail, between any two.                           *)
(***************************************************************************)
EXTENDS Integers, Sequences, FiniteSets, SequencesExt

CONSTANTS
    Paths,      \* Session logs, one per Session
    Runs,       \* AgentRuns
    Home,       \* run -> the log it belongs to
    Existing,   \* logs written before this index existed
    OldRuns,    \* runs such a log holds
    EndedRuns,  \* those of them that have ended
    Creatable,  \* bound: logs that are created, or created again
    MaxLength,  \* bound: records of a log
    MaxFaults   \* bound: crashes, failed writes and failed transactions

CatalogAssumption ==
    /\ Home \in [Runs -> Paths] /\ Existing \subseteq Paths /\ OldRuns \subseteq Runs /\ EndedRuns \subseteq OldRuns
    /\ Creatable \subseteq Paths
    /\ MaxLength \in Nat \ {0} /\ MaxFaults \in Nat

VARIABLES
    log,      \* path -> its records; Absent when there is no file
    torn,     \* paths whose last line is incomplete
    cache,    \* path -> cached reducer state, or NoState
    index,    \* the catalog database
    writer,   \* the operation that holds the log write lock
    reader,   \* a reader of one log that holds no catalog lock
    query,    \* the query that holds the catalog lock
    faults    \* faults so far

vars == <<log, torn, cache, index, writer, reader, query, faults>>

Absent == <<>>
NoState == [of |-> Absent]
Free == [pc |-> "free"]
NoRun == "none"

meta(n) == [kind |-> "meta", run |-> NoRun, n |-> n]
started(r) == [kind |-> "start", run |-> r, n |-> 0]
ended(r) == [kind |-> "end", run |-> r, n |-> 0]
tombstone(old, r) == [kind |-> "erase", run |-> r, n |-> 0, of |-> old]

Metas(l) == {i \in DOMAIN l : l[i].kind = "meta"}
HasRecord(l, rec) == \E i \in DOMAIN l : l[i] = rec
Erased(l, r) == \E i \in DOMAIN l : l[i].kind = "erase" /\ l[i].of = r
Readable(p) == log[p] # Absent /\ p \notin torn

\* The runs a log tells of.  Every run shows the directory of the newest
\* metadata record; the runs of a rewritten tail are gone.
project_agent_runs_from_records(l) ==
    [r \in {x \in Runs : HasRecord(l, started(x)) /\ ~Erased(l, x)} |->
        [status |-> IF HasRecord(l, ended(r)) THEN "ended" ELSE "running",
         cwd |-> Cardinality(Metas(l))]]

\* The state rebuilt from the whole file.
Rebuilt(p) ==
    [of |-> log[p],
     runs |-> project_agent_runs_from_records(log[p]),
     cwd |-> Cardinality(Metas(log[p])),
     known |-> ToSet(log[p]),
     catalog_sequence |-> 0,
     changed_runs |-> {}]

\* A cached state serves only the file it was made from.  The caller owns it:
\* it leaves the cache until it is put back.
take(p) == IF cache[p] # NoState /\ cache[p].of = log[p] THEN cache[p] ELSE Rebuilt(p)

Init ==
    /\ log = [p \in Paths |->
                IF p \in Existing
                THEN <<meta(1)>> \o SetToSeq({started(r) : r \in {x \in OldRuns : Home[x] = p}})
                                 \o SetToSeq({ended(r) : r \in {x \in EndedRuns : Home[x] = p}})
                ELSE Absent]
    /\ torn = {}
    /\ cache = [p \in Paths |-> NoState]
    /\ index = [initialized |-> FALSE, runs_imported |-> FALSE,
                sources |-> {}, dirty |-> {},
                high_water |-> [p \in Paths |-> 0],
                rows |-> [p \in Paths |-> <<>>],
                run_locations |-> [p \in Paths |-> {}]]
    /\ writer = Free /\ reader = Free /\ query = Free
    /\ faults = 0

\* A new row of sources has no high water.
enqueue(ix, ps) ==
    [ix EXCEPT !.sources = @ \cup ps, !.dirty = @ \cup ps,
               !.high_water = [p \in Paths |-> IF p \in ps \ ix.sources THEN 0 ELSE @[p]]]

\* The first use of the index lists every log there is.
initialize(ix) ==
    IF ix.initialized THEN ix
    ELSE [enqueue(ix, {p \in Paths : log[p] # Absent}) EXCEPT !.initialized = TRUE]

-----------------------------------------------------------------------------
\* Writers.
Unlocked == writer = Free /\ reader = Free /\ query = Free

\* One record applied to the reducer state.
reduce(st, rec) ==
    CASE rec.kind = "meta" ->
            [st EXCEPT !.cwd = @ + 1, !.known = @ \cup {rec},
                       !.runs = [r \in DOMAIN @ |-> [@[r] EXCEPT !.cwd = st.cwd + 1]],
                       !.changed_runs = @ \cup DOMAIN st.runs]
      [] rec.kind = "start" ->
            [st EXCEPT !.runs = [r \in DOMAIN @ \cup {rec.run} |->
                                    IF r \in DOMAIN @ THEN @[r] ELSE [status |-> "running", cwd |-> st.cwd]],
                       !.known = @ \cup {rec}, !.changed_runs = @ \cup {rec.run}]
      [] rec.kind = "end" ->
            [st EXCEPT !.runs[rec.run].status = "ended",
                       !.known = @ \cup {rec}, !.changed_runs = @ \cup {rec.run}]

\* append_incremental: a record already in the log is skipped, a record of a
\* run the log does not tell of is refused; a refused or failed append leaves
\* no cached state behind.  The record of a request repeats when its caller
\* retries; metadata is numbered by the position it is written at.
append(p, rec) ==
    LET ix == initialize(index) st == take(p) IN
    /\ Unlocked /\ log[p] # Absent /\ p \in ix.sources
    /\ Len(log[p]) < MaxLength
    /\ index' = ix
    /\ UNCHANGED <<log, torn, reader, query, faults>>
    /\ IF ~Readable(p) \/ (rec.kind = "end" /\ rec.run \notin DOMAIN st.runs)
       THEN cache' = [cache EXCEPT ![p] = NoState] /\ UNCHANGED writer
       ELSE IF rec \in st.known
       THEN cache' = [cache EXCEPT ![p] = st] /\ UNCHANGED writer
       ELSE /\ cache' = [cache EXCEPT ![p] = NoState]
            /\ writer' = [pc |-> "mark", op |-> "append", p |-> p,
                          st |-> reduce(st, rec), pending |-> <<rec>>, base |-> Len(log[p])]

append_records(r) == \E rec \in {started(r), ended(r)} : append(Home[r], rec)
append_session_metadata(p) == append(p, meta(Len(log[p]) + 1))

\* rewrite_last_user_input reads the file and writes past the cached state:
\* a tombstone for the last run, which has ended, and the run that takes its
\* place.
LastRun(p) ==
    LET runs == project_agent_runs_from_records(log[p]) IN
    {r \in DOMAIN runs :
        /\ runs[r].status = "ended"
        /\ \E i \in DOMAIN log[p] :
              /\ log[p][i] = started(r)
              /\ \A j \in i + 1 .. Len(log[p]) : log[p][j].kind = "start" => Erased(log[p], log[p][j].run)}

rewrite_last_user_input(p, r) ==
    LET ix == initialize(index) IN
    /\ Unlocked /\ Readable(p) /\ p \in ix.sources
    /\ Home[r] = p /\ ~HasRecord(log[p], started(r))
    /\ Len(log[p]) + 2 <= MaxLength
    /\ \E old \in LastRun(p) :
          writer' = [pc |-> "mark", op |-> "rewrite", p |-> p, st |-> NoState,
                     pending |-> <<tombstone(old, r), started(r)>>, base |-> Len(log[p])]
    /\ index' = ix
    /\ UNCHANGED <<log, torn, cache, reader, query, faults>>

\* SessionFiles.create loads the whole list first: a row of a log that was
\* removed, or never finished, is gone before the path is used again.
create_session_document(p) ==
    /\ Unlocked /\ log[p] = Absent /\ p \in Creatable
    /\ index.initialized /\ p \notin index.sources
    /\ writer' = [pc |-> "mark", op |-> "create", p |-> p, st |-> NoState,
                  pending |-> <<meta(1)>>, base |-> 0]
    /\ UNCHANGED <<log, torn, cache, index, reader, query, faults>>

delete_session_document(p) ==
    /\ Unlocked /\ log[p] # Absent
    /\ writer' = [pc |-> "mark", op |-> "delete", p |-> p, st |-> NoState,
                  pending |-> <<>>, base |-> 0]
    /\ UNCHANGED <<log, torn, cache, index, reader, query, faults>>

\* Mutant: the runs of the records are not located.
mark_dirty_unlocated ==
    /\ writer # Free /\ writer.pc = "mark"
    /\ index' = enqueue(index, {writer.p})
    /\ writer' = [writer EXCEPT !.pc = "write"]
    /\ UNCHANGED <<log, torn, cache, reader, query, faults>>

\* The dirty mark and the runs of the records commit before the file changes.
mark_dirty ==
    /\ writer # Free /\ writer.pc = "mark"
    /\ index' = [enqueue(index, {writer.p}) EXCEPT
                    !.run_locations[writer.p] =
                        (@ \cup {rec.run : rec \in ToSet(writer.pending)}) \ {NoRun}]
    /\ writer' = [writer EXCEPT !.pc = "write"]
    /\ UNCHANGED <<log, torn, cache, reader, query, faults>>

write_record ==
    /\ writer # Free /\ writer.pc = "write" /\ writer.pending # <<>>
    /\ log' = [log EXCEPT ![writer.p] = Append(@, Head(writer.pending))]
    /\ writer' = [writer EXCEPT !.pending = Tail(@)]
    /\ UNCHANGED <<torn, cache, index, reader, query, faults>>

\* sync_data, then the state of the file as it is now becomes the cached one.
finish_append ==
    /\ writer # Free /\ writer.pc = "write" /\ writer.pending = <<>> /\ writer.op # "delete"
    /\ cache' = IF writer.op = "append"
                THEN [cache EXCEPT ![writer.p] = [writer.st EXCEPT !.of = log[writer.p]]]
                ELSE cache
    /\ writer' = Free
    /\ UNCHANGED <<log, torn, index, reader, query, faults>>

remove_file ==
    /\ writer # Free /\ writer.pc = "write" /\ writer.op = "delete"
    /\ log' = [log EXCEPT ![writer.p] = Absent]
    /\ torn' = torn \ {writer.p}
    /\ cache' = [cache EXCEPT ![writer.p] = NoState]
    /\ writer' = Free
    /\ UNCHANGED <<index, reader, query, faults>>

\* A step of the writer fails: the dirty mark does not commit, or the file
\* takes no more than a part of a record.  An unfinished new file is removed.
writer_fails ==
    /\ faults < MaxFaults /\ faults' = faults + 1
    /\ writer # Free
    /\ IF writer.op = "create" THEN log' = [log EXCEPT ![writer.p] = Absent] /\ UNCHANGED torn
       ELSE /\ UNCHANGED log
            /\ torn' \in IF writer.pc = "write" /\ writer.pending # <<>>
                         THEN {torn, torn \cup {writer.p}} ELSE {torn}
    /\ writer' = Free
    /\ UNCHANGED <<cache, index, reader, query>>

\* The process or the machine stops: what was not synced may be lost, and the
\* last record may be incomplete.
crash ==
    /\ faults < MaxFaults /\ faults' = faults + 1
    /\ cache' = [p \in Paths |-> NoState]
    /\ writer' = Free /\ reader' = Free /\ query' = Free
    /\ UNCHANGED index
    /\ IF writer # Free /\ writer.pc = "write" /\ writer.op # "delete"
       THEN \E n \in writer.base .. Len(log[writer.p]) :
                /\ log' = [log EXCEPT ![writer.p] = SubSeq(@, 1, n)]
                /\ torn' \in IF n > 0 THEN {torn, torn \cup {writer.p}} ELSE {torn}
       ELSE UNCHANGED <<log, torn>>

-----------------------------------------------------------------------------
\* Readers of one log: run_state, message, context, terminal_id.
read_take(p) ==
    /\ writer = Free /\ reader = Free /\ Readable(p)
    /\ reader' = [pc |-> "put", p |-> p, st |-> take(p)]
    /\ cache' = [cache EXCEPT ![p] = NoState]
    /\ UNCHANGED <<log, torn, index, writer, query, faults>>

read_put ==
    /\ reader # Free
    /\ cache' = [cache EXCEPT ![reader.p] = reader.st]
    /\ reader' = Free
    /\ UNCHANGED <<log, torn, index, writer, query, faults>>

\* Idle states are disposable: the cache keeps a few, and those of active runs.
trim_idle(p) ==
    /\ cache[p] # NoState
    /\ cache' = [cache EXCEPT ![p] = NoState]
    /\ UNCHANGED <<log, torn, index, writer, reader, query, faults>>

-----------------------------------------------------------------------------
\* Queries of the index.
Queries == [scope : {"all"}, of : {NoRun}] \cup [scope : {"session"}, of : Paths]
           \cup [scope : {"run"}, of : Runs]

\* The dirty logs that may change the answer.
DirtyFor(ix, k) ==
    CASE k.scope = "all" -> ix.dirty
      [] k.scope = "session" -> ix.dirty \cap {k.of}
      [] k.scope = "run" /\ ~ix.runs_imported -> ix.dirty
      [] k.scope = "run" /\ ix.runs_imported -> {p \in ix.dirty : k.of \in ix.run_locations[p]}

ask(k) ==
    /\ query = Free /\ writer = Free
    /\ index' = initialize(index)
    /\ query' = [pc |-> "refresh", ask |-> k, todo |-> DirtyFor(initialize(index), k)]
    /\ UNCHANGED <<log, torn, cache, writer, reader, faults>>

\* Mutant: a state that was projected once is never projected in full again.
catalog_projection_incremental(st, indexed_sequence) ==
    LET full == st.catalog_sequence = 0 IN
    [full |-> full, sequence |-> Len(st.of),
     runs |-> [r \in IF full THEN DOMAIN st.runs ELSE st.changed_runs \cap DOMAIN st.runs |-> st.runs[r]]]

\* All runs, or those changed since the sequence the index stands at.
catalog_projection(st, indexed_sequence) ==
    LET full == st.catalog_sequence = 0 \/ st.catalog_sequence # indexed_sequence IN
    [full |-> full, sequence |-> Len(st.of),
     runs |-> [r \in IF full THEN DOMAIN st.runs ELSE st.changed_runs \cap DOMAIN st.runs |-> st.runs[r]]]

Nothing == [full |-> TRUE, sequence |-> 0, runs |-> <<>>]

project(p) ==
    /\ query # Free /\ query.pc = "refresh" /\ p \in query.todo
    /\ IF Readable(p)
       THEN LET st == take(p) IN
            query' = [pc |-> "put", ask |-> query.ask, todo |-> query.todo, p |-> p,
                      st |-> [st EXCEPT !.catalog_sequence = Len(st.of), !.changed_runs = {}],
                      found |-> catalog_projection(st, index.high_water[p])]
       ELSE query' = [pc |-> "commit", ask |-> query.ask, todo |-> query.todo, p |-> p, found |-> Nothing]
    /\ cache' = [cache EXCEPT ![p] = NoState]
    /\ UNCHANGED <<log, torn, index, writer, reader, faults>>

project_put ==
    /\ query # Free /\ query.pc = "put"
    /\ cache' = [cache EXCEPT ![query.p] = query.st]
    /\ query' = [pc |-> "commit", ask |-> query.ask, todo |-> query.todo, p |-> query.p, found |-> query.found]
    /\ UNCHANGED <<log, torn, index, writer, reader, faults>>

\* One transaction per log: its rows and locators, its high water, the end of
\* the dirty mark.  An unreadable log keeps its row, without runs.
refresh ==
    /\ query # Free /\ query.pc = "commit"
    /\ LET p == query.p f == query.found IN
       index' = [index EXCEPT
           !.rows[p] = IF f.full THEN f.runs
                       ELSE [r \in DOMAIN @ \cup DOMAIN f.runs |-> IF r \in DOMAIN f.runs THEN f.runs[r] ELSE @[r]],
           !.run_locations[p] = IF f.full THEN DOMAIN f.runs ELSE @ \cup DOMAIN f.runs,
           !.high_water[p] = IF Readable(p) THEN f.sequence ELSE @,
           !.sources = IF log[p] = Absent THEN @ \ {p} ELSE @,
           !.dirty = @ \ {p}]
    /\ query' = [pc |-> "refresh", ask |-> query.ask, todo |-> query.todo \ {query.p}]
    /\ UNCHANGED <<log, torn, cache, writer, reader, faults>>

\* The transaction fails after the state in memory was already marked clean.
refresh_fails ==
    /\ faults < MaxFaults /\ faults' = faults + 1
    /\ query # Free /\ query.pc = "commit"
    /\ query' = Free
    /\ UNCHANGED <<log, torn, cache, index, writer, reader>>

\* The rows a query selects.
Selected(rows, k) ==
    CASE k.scope = "all" -> rows
      [] k.scope = "session" -> [p \in {k.of} |-> rows[p]]
      [] k.scope = "run" -> [p \in {x \in Paths : k.of \in DOMAIN rows[x]} |->
                                [r \in {k.of} |-> rows[p][r]]]

answer ==
    /\ query # Free /\ query.pc = "refresh" /\ query.todo = {}
    /\ index' = [index EXCEPT !.runs_imported = @ \/ query.ask.scope # "session"]
    /\ query' = [pc |-> "answered", ask |-> query.ask, found |-> Selected(index.rows, query.ask)]
    /\ UNCHANGED <<log, torn, cache, writer, reader, faults>>

return_answer ==
    /\ query # Free /\ query.pc = "answered"
    /\ query' = Free
    /\ UNCHANGED <<log, torn, cache, index, writer, reader, faults>>

Next ==
    \/ \E r \in Runs : append_records(r)
    \/ \E p \in Paths, r \in Runs : rewrite_last_user_input(p, r)
    \/ \E p \in Paths : append_session_metadata(p) \/ create_session_document(p)
                          \/ delete_session_document(p) \/ read_take(p) \/ trim_idle(p) \/ project(p)
    \/ mark_dirty \/ write_record \/ finish_append \/ remove_file \/ writer_fails \/ crash
    \/ read_put
    \/ \E k \in Queries : ask(k)
    \/ project_put \/ refresh \/ refresh_fails \/ answer \/ return_answer

Spec == Init /\ [][Next]_vars

-----------------------------------------------------------------------------
\* What is stored has its type: the index knows sources of its dirty logs, the
\* rows are rows of runs of that log.
TypeOK ==
    /\ \A p \in Paths : Len(log[p]) <= MaxLength
    /\ torn \subseteq {p \in Paths : log[p] # Absent}
    /\ index.dirty \subseteq index.sources /\ index.sources \subseteq Paths
    /\ \A p \in Paths : DOMAIN index.rows[p] \subseteq Runs /\ index.run_locations[p] \subseteq Runs
    /\ faults \in 0 .. MaxFaults

\* What the log says, for a log that can be read.
Truth == [p \in Paths |-> IF Readable(p) THEN project_agent_runs_from_records(log[p]) ELSE <<>>]

\* A log without a dirty mark has exactly the rows its records project to, after
\* any crash, failed transaction or append cut short (session_catalog.rs: dirty
\* intents commit before source writes; source_high_water decides between the
\* changed runs and all of them).
CleanIsCurrent ==
    \A p \in Paths : index.initialized /\ p \notin index.dirty => index.rows[p] = Truth[p]

\* An answer is what the logs say at that moment, although a query reads again
\* only the dirty logs its session or run points at.
AnswersMatchLogs ==
    query # Free /\ query.pc = "answered" => query.found = Selected(Truth, query.ask)

\* A cached or borrowed state that matches its file holds the runs of that file,
\* and its changed runs are all that changed since the sequence the catalog last
\* took from it (read_state.rs: prepare, catalog_projection).
CachedStateSound ==
    \A p \in Paths : \A st \in {cache[p]} \cup {x.st : x \in {y \in {reader} : y # Free /\ y.p = p}} :
        Readable(p) /\ st # NoState /\ st.of = log[p] =>
            /\ st.runs = project_agent_runs_from_records(log[p])
            /\ LET n == st.catalog_sequence
                   old == project_agent_runs_from_records(SubSeq(log[p], 1, n)) IN
               n > 0 => \A r \in DOMAIN st.runs :
                          r \in st.changed_runs \/ (r \in DOMAIN old /\ old[r] = st.runs[r])

\* A query for one run finds the log that holds it: the locators cover every run
\* of a log that can be read, once every log was imported.
RunIsLocated ==
    index.runs_imported =>
        \A p \in Paths : \A r \in DOMAIN Truth[p] : r \in index.run_locations[p]

\* A log holds a record once, however often its append is retried after a crash
\* or an error (read_state.rs: known digests).
RecordedOnce ==
    \A p \in Paths : \A i, j \in DOMAIN log[p] : log[p][i] = log[p][j] => i = j

\* A log that exists can be addressed: its source row survives the crash of a
\* create, the end of a refresh and an unreadable tail (path_unlocked).
LogIsAddressable ==
    index.initialized => \A p \in Paths : log[p] # Absent => p \in index.sources

\* Queries answer what the logs say: unmarked index rows and the cached states
\* they come from are current (refresh, catalog_projection, answer).
AnswersSound == TypeOK /\ CleanIsCurrent /\ AnswersMatchLogs /\ CachedStateSound

\* Logs and their runs are found, and hold a record once, after any failed or
\* interrupted append (path_unlocked, mark_dirty, append).
LogsFound == RecordedOnce /\ LogIsAddressable /\ RunIsLocated
=============================================================================
