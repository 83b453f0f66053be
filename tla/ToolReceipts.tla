----------------------------- MODULE ToolReceipts -----------------------------
(***************************************************************************)
(* One batch of tool calls of one turn (core/src/runtime/tool_execution.rs)*)
(* and the two ways it is cleaned up after an interruption: a later        *)
(* attempt that meets the same calls again, and the host's closure of the  *)
(* run's open calls (runtime/src/agent_runtime.rs).                        *)
(*                                                                         *)
(* Two stores are written in turn.  The runtime store holds an intent and  *)
(* a receipt event per call, the session log a tool_call and a tool_result *)
(* record.  An event carries the time it was made, so the events of two    *)
(* writers differ and the second is refused: a result is stamped with its  *)
(* writer.                                                                 *)
(***************************************************************************)
EXTENDS Integers, Sequences, Functions

CONSTANTS
    Batch,       \* the tool calls of the model's answer, in order
    Serial,      \* the calls the loop runs itself ("agent" and task tools)
    MaxAttempt,  \* bound: attempts at the turn
    Closers,     \* tasks that may close the run
    Overlaps,    \* the values of overlap, a subset of BOOLEAN
    MaxCrash     \* bound: process crashes

Calls == Range(Batch)
Attempts == 1..MaxAttempt

ASSUME BatchBounds ==
    /\ Batch \in Seq(Calls) /\ IsInjective(Batch) /\ Serial \subseteq Calls
    /\ MaxAttempt \in Nat \ {0} /\ MaxCrash \in Nat /\ Overlaps \subseteq BOOLEAN
    /\ Closers \cap Attempts = {}

None == [kind |-> "none", by |-> 0]
Result(kind, by) == [kind |-> kind, by |-> by]
Results == [kind : {"none", "ran", "denied", "recovered", "indeterminate", "unstarted"},
            by : Attempts \cup Closers \cup {0}]

VARIABLES
    intent,   \* call -> the attempt whose intent event is stored, 0 if none
    receipt,  \* call -> the result in the stored receipt event
    logged,   \* calls with a tool_call record in the session log
    result,   \* call -> the result in its tool_result record
    terminal, \* whether the log has the run's terminal record
    ran,      \* history: call -> how often the tool was run
    att,      \* attempt -> its local state
    clo,      \* closer -> its local state
    crashes,
    overlap   \* whether an attempt may still be at work when the next attempt
              \* or a closer starts: a child job that was cancelled is noticed
              \* by its attempt at the next heartbeat only

durable == <<intent, receipt, logged, result, terminal>>
vars == <<durable, ran, att, clo, crashes>>

IdleAttempt == [pc |-> "idle", todo |-> <<>>, known |-> {}, seen |-> [c \in Calls |-> None],
                queue |-> {}, out |-> {}, cur |-> <<>>, reports |-> [c \in Calls |-> None]]
IdleCloser == [pc |-> "idle", todo |-> {}, cur |-> <<>>]

Init ==
    /\ intent = [c \in Calls |-> 0] /\ receipt = [c \in Calls |-> None]
    /\ logged = {} /\ result = [c \in Calls |-> None] /\ terminal = FALSE
    /\ ran = [c \in Calls |-> 0]
    /\ att = [a \in Attempts |-> IdleAttempt]
    /\ clo = [k \in Closers |-> IdleCloser]
    /\ crashes = 0
    /\ overlap \in Overlaps

Stopped == {"idle", "done", "failed"}
AttemptRow == [pc : Stopped \cup {"call", "log", "settle", "persist", "notify", "recover"},
               todo : Seq(Calls), known : SUBSET Calls, seen : [Calls -> Results],
               queue : SUBSET Calls, out : SUBSET Calls,
               cur : {<<>>} \cup (Calls \X Results \X {"call", "sink", "recover"}),
               reports : [Calls -> Results]]
CloserRow == [pc : {"idle", "next", "receipt", "log", "terminal"}, todo : SUBSET Calls,
              cur : {<<>>} \cup (Calls \X Results)]
Working(a) == att[a].pc \notin Stopped
Closing(k) == clo[k].pc # "idle"
Alone == overlap \/ ~((\E a \in Attempts : Working(a)) \/ (\E k \in Closers : Closing(k)))

Go(a, s) == att' = [att EXCEPT ![a] = s]
Fail(a) == Go(a, [att[a] EXCEPT !.pc = "failed"])
call(a) == Head(att[a].todo)

-----------------------------------------------------------------------------
(* An attempt at the batch. *)

\* The facts are read once, before the first call.  A host with durable
\* inputs first tries recover_prepared_tool_phase on the stored answer; it
\* needs the intent of every call.
load_tool_execution_facts(a) ==
    /\ att[a].pc = "idle" /\ ~terminal /\ Alone
    /\ \A b \in 1..(a - 1) : att[b].pc \notin {"idle", "done"}
    /\ \E pc \in {"call"} \cup (IF a > 1 THEN {"recover"} ELSE {}) :
          Go(a, [att[a] EXCEPT !.pc = IF pc = "recover" /\ \E c \in Calls : intent[c] = 0
                                      THEN "failed" ELSE pc,
                               !.todo = Batch, !.known = {c \in Calls : intent[c] # 0},
                               !.seen = receipt])
    /\ UNCHANGED <<durable, ran, clo, crashes>>

\* Mutant: an intent that is already stored is taken for one's own.
ensure_tool_execution_intent_shared(a) ==
    /\ att[a].pc = "call" /\ att[a].todo # <<>>
    /\ intent' = IF intent[call(a)] = 0 THEN [intent EXCEPT ![call(a)] = a] ELSE intent
    /\ Go(a, [att[a] EXCEPT !.pc = "log"])
    /\ UNCHANGED <<receipt, logged, result, terminal, ran, clo, crashes>>

\* A call whose intent the facts show is not started again; for another the
\* intent is stored first, and an intent stored meanwhile is a conflict.
ensure_tool_execution_intent(a) ==
    /\ att[a].pc = "call" /\ att[a].todo # <<>>
    /\ \/ /\ call(a) \in att[a].known
          /\ Go(a, [att[a] EXCEPT !.pc = "log"]) /\ UNCHANGED intent
       \/ /\ call(a) \notin att[a].known /\ intent[call(a)] = 0
          /\ intent' = [intent EXCEPT ![call(a)] = a]
          /\ Go(a, [att[a] EXCEPT !.pc = "log"])
       \/ /\ call(a) \notin att[a].known /\ intent[call(a)] # 0
          /\ Fail(a) /\ UNCHANGED intent
    /\ UNCHANGED <<receipt, logged, result, terminal, ran, clo, crashes>>

\* The tool_call record; nothing is appended when the log has it.
commit_session_tool_call(a) ==
    /\ att[a].pc = "log"
    /\ logged' = logged \cup {call(a)}
    /\ Go(a, [att[a] EXCEPT !.pc = "settle"])
    /\ UNCHANGED <<intent, receipt, result, terminal, ran, clo, crashes>>

\* A call begun by an earlier attempt is answered by its receipt, or as
\* indeterminate.
settle_known(a) ==
    LET c == call(a) s == att[a] IN
    /\ s.pc = "settle" /\ c \in s.known
    /\ \/ /\ s.seen[c] # None
          /\ Go(a, [s EXCEPT !.pc = "notify", !.cur = <<c, s.seen[c], "call">>])
       \/ /\ s.seen[c] = None
          /\ Go(a, [s EXCEPT !.pc = "persist", !.cur = <<c, Result("indeterminate", a), "call">>])
    /\ UNCHANGED <<durable, ran, clo, crashes>>

\* A new call: refused by a pre-tool hook, run on the spot, or queued for
\* the batch executor.
settle_new(a) ==
    LET c == call(a) s == att[a] IN
    /\ s.pc = "settle" /\ c \notin s.known
    /\ \/ /\ Go(a, [s EXCEPT !.pc = "persist", !.cur = <<c, Result("denied", a), "call">>])
          /\ UNCHANGED ran
       \/ /\ c \in Serial
          /\ ran' = [ran EXCEPT ![c] = @ + 1]
          /\ Go(a, [s EXCEPT !.pc = "persist", !.cur = <<c, Result("ran", a), "call">>])
       \/ /\ c \notin Serial
          /\ Go(a, [s EXCEPT !.pc = "call", !.todo = Tail(s.todo), !.queue = @ \cup {c}])
          /\ UNCHANGED ran
    /\ UNCHANGED <<durable, clo, crashes>>

\* The batch executor runs the queued tools side by side.
run_tool(a, c) ==
    LET s == att[a] IN
    /\ s.pc = "call" /\ s.todo = <<>> /\ c \in s.queue
    /\ ran' = [ran EXCEPT ![c] = @ + 1]
    /\ Go(a, [s EXCEPT !.queue = @ \ {c}, !.out = @ \cup {c}])
    /\ UNCHANGED <<durable, clo, crashes>>

\* Its result sink takes one finished tool at a time.
persist_result(a, c) ==
    LET s == att[a] IN
    /\ s.pc = "call" /\ s.todo = <<>> /\ c \in s.out
    /\ Go(a, [s EXCEPT !.pc = "persist", !.out = @ \ {c}, !.cur = <<c, Result("ran", a), "sink">>])
    /\ UNCHANGED <<durable, ran, clo, crashes>>

\* Mutant: an existing receipt is replaced.
persist_tool_execution_receipt_over(a) ==
    LET s == att[a] c == s.cur[1] IN
    /\ s.pc = "persist"
    /\ receipt' = [receipt EXCEPT ![c] = s.cur[2]]
    /\ Go(a, [s EXCEPT !.pc = "notify"])
    /\ UNCHANGED <<intent, logged, result, terminal, ran, clo, crashes>>

\* The receipt event is the authority; another writer's is a conflict.
persist_tool_execution_receipt(a) ==
    LET s == att[a] c == s.cur[1] IN
    /\ s.pc = "persist"
    /\ \/ /\ receipt[c] = None
          /\ receipt' = [receipt EXCEPT ![c] = s.cur[2]]
          /\ Go(a, [s EXCEPT !.pc = "notify"])
       \/ receipt[c] # None /\ Fail(a) /\ UNCHANGED receipt
    /\ UNCHANGED <<intent, logged, result, terminal, ran, clo, crashes>>

\* Then the tool_result record.  The log is read and appended to under two
\* locks: a result that is there is left alone, or is a conflict when it
\* came in between.  A result without its call is an error.
notify_tool_safe_point(a) ==
    LET s == att[a] c == s.cur[1]
        next == [s EXCEPT !.reports[c] = s.cur[2], !.cur = <<>>,
                          !.pc = IF s.cur[3] = "recover" THEN "recover" ELSE "call",
                          !.todo = IF s.cur[3] = "sink" THEN @ ELSE Tail(@)]
    IN
    /\ s.pc = "notify"
    /\ \/ /\ c \in logged /\ result[c] = None
          /\ result' = [result EXCEPT ![c] = s.cur[2]] /\ Go(a, next)
       \/ c \in logged /\ result[c] # None /\ Go(a, next) /\ UNCHANGED result
       \/ (c \notin logged \/ result[c] # None) /\ Fail(a) /\ UNCHANGED result
    /\ UNCHANGED <<intent, receipt, logged, terminal, ran, clo, crashes>>

\* Prepared recovery settles each call from its receipt, or from what the
\* execution host remembers of the command.  It runs nothing.
recover_prepared_tool_phase(a) ==
    LET c == call(a) s == att[a] IN
    /\ s.pc = "recover" /\ s.todo # <<>>
    /\ \/ /\ s.seen[c] # None
          /\ Go(a, [s EXCEPT !.pc = "notify", !.cur = <<c, s.seen[c], "recover">>])
       \/ /\ s.seen[c] = None /\ c \notin Serial /\ ran[c] > 0
          /\ Go(a, [s EXCEPT !.pc = "persist", !.cur = <<c, Result("recovered", a), "recover">>])
       \/ s.seen[c] = None /\ (c \in Serial \/ ran[c] = 0) /\ Fail(a)
    /\ UNCHANGED <<durable, ran, clo, crashes>>

\* Every call has a report: the batch is handed to the model's context.
finish_batch(a) ==
    LET s == att[a] IN
    /\ s.pc \in {"call", "recover"} /\ s.todo = <<>> /\ s.queue = {} /\ s.out = {}
    /\ Go(a, [s EXCEPT !.pc = "done"])
    /\ UNCHANGED <<durable, ran, clo, crashes>>

\* The attempt's future is dropped: the heartbeat found the job cancelled.
drop_attempt(a) ==
    /\ Working(a) /\ overlap
    /\ Fail(a)
    /\ UNCHANGED <<durable, ran, clo, crashes>>

-----------------------------------------------------------------------------
(* The closure of a run's open calls, and its terminal record. *)

Close(k, s) == clo' = [clo EXCEPT ![k] = s]
Incomplete == {c \in logged : result[c] = None}

\* Mutant: only the calls with an answer in the store are closed.
close_incomplete_tool_calls_received(k) ==
    /\ clo[k].pc = "idle" /\ ~terminal /\ Alone
    /\ Close(k, [pc |-> "next", todo |-> {c \in Incomplete : receipt[c] # None}, cur |-> <<>>])
    /\ UNCHANGED <<durable, ran, att, crashes>>

close_incomplete_tool_calls(k) ==
    /\ clo[k].pc = "idle" /\ ~terminal /\ Alone
    /\ Close(k, [pc |-> "next", todo |-> Incomplete, cur |-> <<>>])
    /\ UNCHANGED <<durable, ran, att, crashes>>

\* Without an intent the call never started; with a receipt that is the
\* result; otherwise the outcome is unknown, and becomes the receipt.
recover_incomplete_session_tool_call(k, c) ==
    /\ clo[k].pc = "next" /\ c \in clo[k].todo
    /\ Close(k, [clo[k] EXCEPT
          !.pc = IF intent[c] # 0 /\ receipt[c] = None THEN "receipt" ELSE "log",
          !.cur = <<c, IF intent[c] = 0 THEN Result("unstarted", k)
                       ELSE IF receipt[c] # None THEN receipt[c]
                       ELSE Result("indeterminate", k)>>])
    /\ UNCHANGED <<durable, ran, att, crashes>>

append_indeterminate_receipt(k) ==
    LET c == clo[k].cur[1] IN
    /\ clo[k].pc = "receipt"
    /\ \/ /\ receipt[c] = None
          /\ receipt' = [receipt EXCEPT ![c] = clo[k].cur[2]]
          /\ Close(k, [clo[k] EXCEPT !.pc = "log"])
       \/ receipt[c] # None /\ Close(k, IdleCloser) /\ UNCHANGED receipt
    /\ UNCHANGED <<intent, logged, result, terminal, ran, att, crashes>>

append_tool_result(k) ==
    LET c == clo[k].cur[1] IN
    /\ clo[k].pc = "log"
    /\ \/ /\ result[c] = None
          /\ result' = [result EXCEPT ![c] = clo[k].cur[2]]
          /\ Close(k, [pc |-> "next", todo |-> clo[k].todo \ {c}, cur |-> <<>>])
       \/ /\ result[c] # None /\ UNCHANGED result
          /\ Close(k, [pc |-> "next", todo |-> clo[k].todo \ {c}, cur |-> <<>>])
       \/ result[c] # None /\ Close(k, IdleCloser) /\ UNCHANGED result
    /\ UNCHANGED <<intent, receipt, logged, terminal, ran, att, crashes>>

\* append_agent_run_terminal refuses while a call is open ...
check_open_calls(k) ==
    /\ clo[k].pc = "next" /\ clo[k].todo = {}
    /\ Close(k, IF Incomplete = {} THEN [clo[k] EXCEPT !.pc = "terminal"] ELSE IdleCloser)
    /\ UNCHANGED <<durable, ran, att, crashes>>

\* ... and takes the log's lock again to append.
append_agent_run_terminal(k) ==
    /\ clo[k].pc = "terminal"
    /\ terminal' = TRUE
    /\ Close(k, IdleCloser)
    /\ UNCHANGED <<intent, receipt, logged, result, ran, att, crashes>>

\* The process dies, with every task in it.
crash ==
    /\ crashes < MaxCrash
    /\ (\E a \in Attempts : Working(a)) \/ (\E k \in Closers : Closing(k))
    /\ crashes' = crashes + 1
    /\ att' = [a \in Attempts |-> IF Working(a) THEN [att[a] EXCEPT !.pc = "failed"] ELSE att[a]]
    /\ clo' = [k \in Closers |-> IdleCloser]
    /\ UNCHANGED <<durable, ran>>

AttemptStep(a) ==
    \/ ensure_tool_execution_intent(a) \/ commit_session_tool_call(a)
    \/ settle_known(a) \/ settle_new(a)
    \/ \E c \in Calls : run_tool(a, c) \/ persist_result(a, c)
    \/ persist_tool_execution_receipt(a) \/ notify_tool_safe_point(a)
    \/ recover_prepared_tool_phase(a) \/ finish_batch(a)

CloserStep(k) ==
    \/ close_incomplete_tool_calls(k)
    \/ \E c \in Calls : recover_incomplete_session_tool_call(k, c)
    \/ append_indeterminate_receipt(k) \/ append_tool_result(k)
    \/ check_open_calls(k) \/ append_agent_run_terminal(k)

Next ==
    /\ \/ \E a \in Attempts : load_tool_execution_facts(a) \/ AttemptStep(a) \/ drop_attempt(a)
       \/ \E k \in Closers : CloserStep(k)
       \/ crash
    /\ UNCHANGED overlap

Spec == Init /\ [][Next]_<<vars, overlap>>

\* An attempt that began goes on, and a run that stopped is closed: by the
\* error path of the same process, or before the session's next turn.
Fairness == (\A a \in Attempts : WF_vars(AttemptStep(a)))
            /\ (\A k \in Closers : WF_vars(CloserStep(k)))

-----------------------------------------------------------------------------
(* Properties *)

\* Events, records and the local state of attempts and closers have their types.
TypeOK ==
    /\ intent \in [Calls -> Attempts \cup {0}]
    /\ receipt \in [Calls -> Results] /\ result \in [Calls -> Results]
    /\ logged \subseteq Calls /\ terminal \in BOOLEAN
    /\ ran \in [Calls -> Nat] /\ crashes \in 0..MaxCrash /\ overlap \in BOOLEAN
    /\ att \in [Attempts -> AttemptRow] /\ clo \in [Closers -> CloserRow]

\* A tool is run at most once for a call, whatever crashes, is retried or
\* runs side by side ("It was not repeated because its side effects may
\* already have happened", indeterminate_tool_execution_result).
ToolRunsOnce == \A c \in Calls : ran[c] <= 1

\* A tool that ran has its call in the session log: no effect without a
\* record of what asked for it (commit_session_tool_call before the run).
EffectIsRecorded == \A c \in Calls : ran[c] > 0 => c \in logged

\* The session log never shows another result than the receipt, the
\* recovery authority (persist_tool_execution_receipt).
LoggedIsReceipt == \A c \in Calls : result[c] # None => result[c] = receipt[c]

\* What a finished batch hands to the model is what the log shows for every
\* one of its calls (execute_tool_calls_with_safe_point_async).
ReportedIsLogged ==
    \A a \in Attempts : att[a].pc = "done" => \A c \in Calls : att[a].reports[c] = result[c]
                                                               /\ result[c] # None

\* "AgentRun terminal requires every ToolCall to be closed"
\* (append_agent_run_terminal): the log of an ended run has no open call, if
\* the attempts at it exclude each other.
TerminalIsClosed == terminal /\ ~overlap => Incomplete = {}

\* A call in the session log gets its result (close_incomplete_tool_calls).
LoggedCallCloses == \A c \in Calls : (c \in logged) ~> (result[c] # None)

\* A tool runs at most once for a call, and what ran has an intent on record
\* (ensure_tool_execution_intent).
OneEffect == ToolRunsOnce /\ EffectIsRecorded

\* Receipt, tool_result record, what the turn was told and the run's terminal
\* agree, whoever of attempt, successor and closer wrote them.
RecordsAgree == TypeOK /\ LoggedIsReceipt /\ ReportedIsLogged /\ TerminalIsClosed
=============================================================================
