------------------------------ MODULE MCRecords ------------------------------
(* What the host keeps in files, each protocol on its own: files that tools
   write (FileMutation), session logs with their index (SessionCatalog, one log
   in depth or two logs) and the list a view keeps of them (CatalogFeed).
   part is chosen once and only that protocol moves.                          *)
EXTENDS FileMutation, TLC

CONSTANTS w1, w2, w3, w4, p1, p2, r1, r2, l1, l2, s1, s2

\* Two tool calls of one run in a process, and elsewhere another run and an
\* attempt of the first that was superseded.
TwoProcesses == w1 :> p1 @@ w2 :> p1 @@ w3 :> p2 @@ w4 :> p2
TwoRuns == w1 :> r1 @@ w2 :> r1 @@ w3 :> r2 @@ w4 :> r1

\* The calls in one process are alike.
AlikeCalls == Permutations({w1, w2})

VARIABLES
    part,
    log, torn, cache, index, writer, reader, query, faults,
    stamp, generation, revision, entries, rows, scopes, cursor, todo, failures, outcome,
    stray, late

fileVars == <<vars, memory>>
logVars == <<log, torn, cache, index, writer, reader, query, faults>>
feedVars == <<stamp, generation, revision, entries, rows, scopes, cursor, todo,
              failures, outcome, stray, late>>

\* A run that has ended, and one that may follow it or replace it.
OneLog == INSTANCE SessionCatalog WITH
             Paths <- {l1}, Runs <- {r1, r2}, Home <- r1 :> l1 @@ r2 :> l1,
             Existing <- {l1}, OldRuns <- {r1}, EndedRuns <- {r1}, Creatable <- {},
             MaxLength <- 6, MaxFaults <- 2
\* Runs of two logs.
TwoLogs == INSTANCE SessionCatalog WITH
              Paths <- {l1, l2}, Runs <- {r1, r2}, Home <- r1 :> l1 @@ r2 :> l2,
              Existing <- {l1}, OldRuns <- {r1}, EndedRuns <- {}, Creatable <- {l2},
              MaxLength <- 2, MaxFaults <- 1
\* The list of two Sessions with pages and answers of one row, followed without
\* failed requests and, for fewer changes, with one.
Feed == INSTANCE CatalogFeed WITH
           Sessions <- {s1, s2}, Window <- 1, ChangeLimit <- 1, Retained <- 1,
           MaxStamp <- 4, MaxRebuilds <- 1, MaxFailures <- 0
LossyFeed == INSTANCE CatalogFeed WITH
                Sessions <- {s1, s2}, Window <- 1, ChangeLimit <- 1, Retained <- 1,
                MaxStamp <- 2, MaxRebuilds <- 1, MaxFailures <- 1

ASSUME PartBounds ==
    OneLog!CatalogAssumption /\ TwoLogs!CatalogAssumption /\ Feed!FeedAssumption /\ LossyFeed!FeedAssumption

RecordsInit ==
    /\ part \in {"file", "log", "logs", "feed", "lossy"}
    /\ Init /\ (part = "file" \/ (~memory /\ file = Absent))
    /\ IF part = "logs" THEN TwoLogs!Init ELSE OneLog!Init
    /\ Feed!Init

RecordsNext ==
    /\ \/ part = "file" /\ Next /\ UNCHANGED <<logVars, feedVars>>
       \/ part = "log" /\ OneLog!Next /\ UNCHANGED <<fileVars, feedVars>>
       \/ part = "logs" /\ TwoLogs!Next /\ UNCHANGED <<fileVars, feedVars>>
       \/ part = "feed" /\ Feed!Next /\ UNCHANGED <<fileVars, logVars>>
       \/ part = "lossy" /\ LossyFeed!Next /\ UNCHANGED <<fileVars, logVars>>
    /\ UNCHANGED part

RecordsSpec == RecordsInit /\ [][RecordsNext]_<<part, fileVars, logVars, feedVars>>

-----------------------------------------------------------------------------
(* The properties of SessionCatalog and CatalogFeed; their comments are there. *)

\* Queries answer what the logs say (refresh, catalog_projection, answer).
AnswersSound == (part = "log" => OneLog!AnswersSound) /\ (part = "logs" => TwoLogs!AnswersSound)

\* Logs and runs are found and hold a record once (path_unlocked, mark_dirty).
LogsFound == (part = "log" => OneLog!LogsFound) /\ (part = "logs" => TwoLogs!LogsFound)

\* A view that has every change shows the list (initialize, sync, more).
ViewMatchesList ==
    (part = "feed" => Feed!ViewMatchesList) /\ (part = "lossy" => LossyFeed!ViewMatchesList)
==============================================================================
