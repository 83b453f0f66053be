-------------------------- MODULE ToolReceiptsProofs --------------------------
(***************************************************************************)
(* That a tool runs at most once for a call and that receipt, log, report  *)
(* and terminal agree, for every batch, any number of attempts and closers *)
(* and any number of crashes, overlapping or not.  The invariant says what *)
(* each place of an attempt or a closer still owes and holds: which intent *)
(* is its own, which of its calls have not run, where a result comes from  *)
(* and which calls have no report yet.                                     *)
(***************************************************************************)
EXTENDS ToolReceipts, TLAPS

-----------------------------------------------------------------------------
(* The inductive invariant. *)

\* The stores, call by call.
StoreInv ==
    \A c \in Calls :
        /\ ran[c] <= 1
        /\ ran[c] > 0 => c \in logged
        /\ c \in logged => intent[c] # 0
        /\ result[c] # None => result[c] = receipt[c]

\* A call ahead in a list of calls without repetition.
Ahead(q, c) == \E i \in 1..Len(q) : q[i] = c
Distinct(q) == \A i, j \in 1..Len(q) : q[i] = q[j] => i = j

\* What an attempt has in hand: a call in the queue or about to be settled as a
\* new one carries its own intent and has not run.
HoldInv(a) ==
    LET s == att[a] IN
    /\ Distinct(s.todo)
    /\ s.pc = "idle" => s.queue = {}
    /\ \A c \in s.queue : intent[c] = a /\ ran[c] = 0 /\ c \in logged /\ ~Ahead(s.todo, c)
    /\ s.pc \in {"log", "settle"} =>
          /\ s.todo # <<>>
          /\ intent[Head(s.todo)] # 0
          /\ Head(s.todo) \notin s.known => /\ intent[Head(s.todo)] = a
                                            /\ ran[Head(s.todo)] = 0
    /\ s.pc = "settle" => Head(s.todo) \in logged
    /\ \A c \in s.known : intent[c] # 0

\* Where the result that an attempt is writing comes from.
CurInv(a) ==
    LET s == att[a] IN
    /\ \A c \in Calls : s.seen[c] # None => s.seen[c] = receipt[c]
    /\ s.pc \in {"persist", "notify"} =>
          /\ s.cur # <<>> /\ s.cur[2] # None
          /\ s.cur[3] # "sink" => s.todo # <<>> /\ s.cur[1] = Head(s.todo)
          /\ s.pc = "notify" => s.cur[2] = receipt[s.cur[1]]

\* Every call of the batch is still to be done or reported as logged.
Owed(s, c) ==
    \/ Ahead(s.todo, c) \/ c \in s.queue \/ c \in s.out
    \/ s.pc \in {"persist", "notify"} /\ s.cur[1] = c

ReportInv(a) ==
    LET s == att[a] IN
    s.pc \notin {"idle", "failed"} =>
        \A c \in Calls : \/ s.reports[c] = result[c] /\ result[c] # None
                         \/ s.pc # "done" /\ Owed(s, c)

AttInv(a) == HoldInv(a) /\ CurInv(a) /\ ReportInv(a)

\* A closer closes logged calls with their receipts.
CloInv(k) ==
    LET s == clo[k] IN
    /\ s.todo \subseteq logged
    /\ s.pc \in {"receipt", "log"} => s.cur # <<>> /\ s.cur[2] # None
    /\ s.pc = "log" => s.cur[2] = receipt[s.cur[1]]

\* Without overlap one actor works at a time, and none once the run has ended.
AloneInv ==
    ~overlap =>
        /\ \A a, b \in Attempts : Working(a) /\ Working(b) => a = b
        /\ \A a \in Attempts, k \in Closers : ~(Working(a) /\ Closing(k))
        /\ \A k, l \in Closers : Closing(k) /\ Closing(l) => k = l
        /\ \A k \in Closers : clo[k].pc = "terminal" => Incomplete = {}
        /\ terminal => /\ Incomplete = {}
                       /\ \A a \in Attempts : ~Working(a)
                       /\ \A k \in Closers : ~Closing(k)

IInv ==
    /\ TypeOK /\ StoreInv /\ AloneInv
    /\ \A a \in Attempts : AttInv(a)
    /\ \A k \in Closers : CloInv(k)

-----------------------------------------------------------------------------
(* Lists, rows and the store. *)

\* The head of a list of calls.
LEMMA HeadAhead ==
    ASSUME NEW q \in Seq(Calls), q # <<>>
    PROVE  Head(q) \in Calls /\ Ahead(q, Head(q))
<1>1. 1 \in 1..Len(q) /\ Head(q) = q[1] /\ q[1] \in Calls
  OBVIOUS
<1> QED
  BY <1>1 DEF Ahead

\* The tail of a list without repetition has the rest.
LEMMA TailAhead ==
    ASSUME NEW q \in Seq(Calls), q # <<>>, Distinct(q)
    PROVE  /\ Tail(q) \in Seq(Calls) /\ Distinct(Tail(q))
           /\ \A c \in Calls : Ahead(Tail(q), c) <=> Ahead(q, c) /\ c # Head(q)
<1>1. /\ Tail(q) \in Seq(Calls) /\ Len(q) \in Nat /\ Len(q) > 0 /\ Len(Tail(q)) = Len(q) - 1
      /\ Head(q) = q[1]
      /\ \A i \in 1..Len(Tail(q)) : Tail(q)[i] = q[i + 1]
  OBVIOUS
<1>2. Distinct(Tail(q))
  <2> SUFFICES ASSUME NEW i \in 1..Len(Tail(q)), NEW j \in 1..Len(Tail(q)), Tail(q)[i] = Tail(q)[j]
               PROVE  i = j
    BY DEF Distinct
  <2>1. i + 1 \in 1..Len(q) /\ j + 1 \in 1..Len(q) /\ q[i + 1] = q[j + 1]
    BY <1>1
  <2>2. i + 1 = j + 1
    BY <2>1 DEF Distinct
  <2> QED
    BY <2>2
<1>3. ASSUME NEW c \in Calls, Ahead(Tail(q), c) PROVE Ahead(q, c) /\ c # Head(q)
  <2>1. PICK i \in 1..Len(Tail(q)) : Tail(q)[i] = c
    BY <1>3 DEF Ahead
  <2>2. i + 1 \in 1..Len(q) /\ q[i + 1] = c /\ 1 \in 1..Len(q) /\ i + 1 # 1
    BY <1>1, <2>1
  <2> QED
    BY <1>1, <2>2 DEF Ahead, Distinct
<1>4. ASSUME NEW c \in Calls, Ahead(q, c), c # Head(q) PROVE Ahead(Tail(q), c)
  <2>1. PICK i \in 1..Len(q) : q[i] = c
    BY <1>4 DEF Ahead
  <2>2. i - 1 \in 1..Len(Tail(q)) /\ Tail(q)[i - 1] = c
    BY <1>1, <1>4, <2>1
  <2> QED
    BY <2>2 DEF Ahead
<1> QED
  BY <1>1, <1>2, <1>3, <1>4

\* The batch is a list without repetition that has every call.
LEMMA WholeBatch == Batch \in Seq(Calls) /\ Distinct(Batch) /\ \A c \in Calls : Ahead(Batch, c)
<1>1. Batch \in Seq(Calls) /\ DOMAIN Batch = 1..Len(Batch)
  BY BatchBounds
<1>2. Distinct(Batch)
  BY <1>1, BatchBounds DEF Distinct, IsInjective
<1>3. \A c \in Calls : Ahead(Batch, c)
  BY <1>1 DEF Ahead, Calls, Range
<1> QED
  BY <1>1, <1>2, <1>3

\* Nothing begins with nothing known.
LEMMA InitIInv == Init => IInv
<1> SUFFICES ASSUME Init PROVE IInv
  OBVIOUS
<1>1. None \in Results
  BY DEF None, Results
<1>2. /\ IdleAttempt \in AttemptRow /\ IdleAttempt.pc = "idle" /\ IdleAttempt.todo = <<>>
      /\ IdleAttempt.queue = {} /\ IdleAttempt.known = {}
      /\ IdleAttempt.seen = [c \in Calls |-> None]
  BY <1>1 DEF IdleAttempt, AttemptRow, Stopped
<1>3. IdleCloser \in CloserRow /\ IdleCloser.pc = "idle" /\ IdleCloser.todo = {}
  BY DEF IdleCloser, CloserRow
<1>4. /\ \A a \in Attempts : att[a] = IdleAttempt
      /\ \A k \in Closers : clo[k] = IdleCloser
  BY DEF Init
<1>5. TypeOK
  <2>1. att \in [Attempts -> AttemptRow] /\ clo \in [Closers -> CloserRow]
    BY <1>2, <1>3 DEF Init
  <2>2. crashes \in 0..MaxCrash /\ overlap \in BOOLEAN
    BY BatchBounds DEF Init
  <2> QED
    BY <1>1, <2>1, <2>2, Zenon DEF Init, TypeOK
<1>6. StoreInv /\ AloneInv
  BY <1>2, <1>3, <1>4 DEF Init, StoreInv, AloneInv, Working, Closing, Stopped, Incomplete
<1>7. \A a \in Attempts : AttInv(a)
  <2>1. Distinct(<<>>)
    BY DEF Distinct
  <2> QED
    BY <1>2, <1>4, <2>1 DEF AttInv, HoldInv, CurInv, ReportInv
<1>8. \A k \in Closers : CloInv(k)
  BY <1>3, <1>4 DEF CloInv
<1> QED
  BY <1>5, <1>6, <1>7, <1>8 DEF IInv

\* The stores only gain, and a tool is run by the attempt whose intent is stored.
Gains(a) ==
    \A c \in Calls :
        /\ intent[c] # 0 => intent'[c] = intent[c]
        /\ receipt[c] # None => receipt'[c] = receipt[c]
        /\ c \in logged => c \in logged'
        /\ result[c] # None => result'[c] = result[c]
        /\ ran'[c] # ran[c] => intent[c] = a

\* Then what the other attempts hold stays as it was.
LEMMA OthersKeep ==
    ASSUME IInv, NEW a, Gains(a), NEW b \in Attempts, b # a, att'[b] = att[b]
    PROVE  AttInv(b)'
<1> DEFINE s == att[b]
<1>1. /\ s \in AttemptRow /\ AttInv(b)
  BY DEF IInv, TypeOK
<1>2. /\ s.todo \in Seq(Calls) /\ s.queue \subseteq Calls /\ s.known \subseteq Calls
      /\ s.cur \in {<<>>} \cup (Calls \X Results \X {"call", "sink", "recover"})
  BY <1>1 DEF AttemptRow
<1>3. b # 0
  BY BatchBounds DEF Attempts
<1> HIDE DEF s
<1>4. att'[b] = s /\ att[b] = s
  BY DEF s
<1>5. HoldInv(b)'
  <2>1. s.todo # <<>> => Head(s.todo) \in Calls
    BY <1>2, HeadAhead
  <2> QED
    BY <1>1, <1>2, <1>3, <1>4, <2>1 DEF AttInv, HoldInv, Gains
<1>6. CurInv(b)'
  <2>1. s.cur # <<>> => s.cur[1] \in Calls
    BY <1>2
  <2> QED
    BY <1>1, <1>4, <2>1 DEF AttInv, CurInv, Gains
<1>7. ReportInv(b)'
  BY <1>1, <1>4 DEF AttInv, ReportInv, Gains, Owed
<1> QED
  BY <1>5, <1>6, <1>7 DEF AttInv

\* And the closers'.
LEMMA ClosersKeep ==
    ASSUME IInv, NEW a, Gains(a), NEW k \in Closers, clo'[k] = clo[k]
    PROVE  CloInv(k)'
<1>1. /\ clo[k] \in CloserRow /\ CloInv(k)
  BY DEF IInv, TypeOK
<1>2. clo[k].cur # <<>> => clo[k].cur[1] \in Calls
  BY <1>1 DEF CloserRow
<1>3. clo[k].todo \subseteq Calls
  BY <1>1 DEF CloserRow
<1> QED
  BY <1>1, <1>2, <1>3 DEF CloInv, Gains

\* A step of an attempt at work, given what it does to its own row.
LEMMA AttemptMoves ==
    ASSUME IInv, NEW a \in Attempts, Working(a), NEW r \in AttemptRow,
           att' = [att EXCEPT ![a] = r], UNCHANGED <<terminal, clo, crashes, overlap>>,
           intent' \in [Calls -> Attempts \cup {0}],
           receipt' \in [Calls -> Results], result' \in [Calls -> Results],
           logged' \subseteq Calls, ran' \in [Calls -> Nat],
           Gains(a), StoreInv', att'[a] = r => AttInv(a)'
    PROVE  IInv'
<1>1. /\ att' \in [Attempts -> AttemptRow] /\ att'[a] = r
      /\ \A b \in Attempts : b # a => att'[b] = att[b]
  BY DEF IInv, TypeOK
<1>2. TypeOK'
  BY <1>1 DEF IInv, TypeOK
<1>3. \A b \in Attempts : AttInv(b)'
  BY <1>1, OthersKeep
<1>4. \A k \in Closers : CloInv(k)'
  BY ClosersKeep
<1>5. AloneInv'
  <2> SUFFICES ASSUME ~overlap
               PROVE  /\ \A b, c \in Attempts : Working(b)' /\ Working(c)' => b = c
                      /\ \A k \in Closers : ~Closing(k)
                      /\ ~terminal
    BY DEF AloneInv, Closing
  <2>1. /\ \A b \in Attempts : Working(b) => b = a
        /\ \A k \in Closers : ~Closing(k)
        /\ ~terminal
    BY DEF IInv, AloneInv
  <2> QED
    BY <1>1, <2>1 DEF Working
<1> QED
  BY <1>2, <1>3, <1>4, <1>5 DEF IInv

\* The same for a step that writes to no store.
LEMMA AttemptMovesStill ==
    ASSUME IInv, NEW a \in Attempts, Working(a), NEW r \in AttemptRow,
           att' = [att EXCEPT ![a] = r], UNCHANGED <<durable, ran, clo, crashes, overlap>>,
           att'[a] = r => AttInv(a)'
    PROVE  IInv'
<1>1. UNCHANGED <<intent, receipt, logged, result, terminal, ran>>
  BY DEF durable
<1>2. Gains(a) /\ StoreInv'
  BY <1>1 DEF Gains, IInv, StoreInv
<1>3. /\ intent' \in [Calls -> Attempts \cup {0}]
      /\ receipt' \in [Calls -> Results] /\ result' \in [Calls -> Results]
      /\ logged' \subseteq Calls /\ ran' \in [Calls -> Nat]
  BY <1>1 DEF IInv, TypeOK
<1> QED
  BY <1>1, <1>2, <1>3, AttemptMoves, Zenon

\* Moving an attempt on changes nothing else of its row.
LEMMA MovedRow ==
    ASSUME NEW s \in AttemptRow,
           NEW p \in Stopped \cup {"call", "log", "settle", "persist", "notify", "recover"}
    PROVE  LET r == [s EXCEPT !.pc = p] IN
           /\ r \in AttemptRow /\ r.pc = p /\ r.todo = s.todo /\ r.known = s.known
           /\ r.seen = s.seen /\ r.queue = s.queue /\ r.out = s.out /\ r.cur = s.cur
           /\ r.reports = s.reports
  BY DEF AttemptRow

\* The same with a result in hand.
Handed(s, r, p, c, v, tag) ==
    /\ r \in AttemptRow /\ r.pc = p /\ r.todo = s.todo /\ r.known = s.known
    /\ r.seen = s.seen /\ r.queue = s.queue /\ r.out = s.out
    /\ r.cur # <<>> /\ r.cur[1] = c /\ r.cur[2] = v /\ r.cur[3] = tag
    /\ r.reports = s.reports

\* An attempt that fails or is dropped owes nothing any more.
LEMMA FailStep ==
    ASSUME IInv, NEW a \in Attempts, Working(a), Fail(a),
           UNCHANGED <<durable, ran, clo, crashes, overlap>>
    PROVE  IInv'
<1> DEFINE s == att[a]
           r == [s EXCEPT !.pc = "failed"]
<1>1. s \in AttemptRow /\ AttInv(a)
  BY DEF IInv, TypeOK
<1>2. /\ r \in AttemptRow /\ r.pc = "failed" /\ r.todo = s.todo /\ r.known = s.known
      /\ r.seen = s.seen /\ r.queue = s.queue
  BY <1>1, MovedRow, Zenon DEF Stopped
<1>3. att' = [att EXCEPT ![a] = r]
  BY DEF Fail, Go
<1> HIDE DEF r
<1>4. ASSUME att'[a] = r PROVE AttInv(a)'
  BY <1>1, <1>2, <1>4 DEF AttInv, HoldInv, CurInv, ReportInv, durable
<1> QED
  BY <1>2, <1>3, <1>4, AttemptMovesStill, Zenon

\* load_tool_execution_facts(): the attempt starts with the whole batch ahead and
\* with the intents and receipts that are stored now.
LEMMA LoadStep ==
    ASSUME IInv, NEW a \in Attempts, load_tool_execution_facts(a), UNCHANGED overlap
    PROVE  IInv'
<1> DEFINE s == att[a]
           known == {c \in Calls : intent[c] # 0}
<1>1. PICK p \in {"call", "recover", "failed"} :
        att' = [att EXCEPT ![a] = [s EXCEPT !.pc = p, !.todo = Batch, !.known = known,
                                            !.seen = receipt]]
  BY Zenon DEF load_tool_execution_facts, Go
<1> DEFINE r == [s EXCEPT !.pc = p, !.todo = Batch, !.known = known, !.seen = receipt]
<1>2. /\ UNCHANGED <<intent, receipt, logged, result, terminal, ran, clo, crashes, overlap>>
      /\ s.pc = "idle" /\ ~terminal /\ Alone
  BY DEF load_tool_execution_facts, durable
<1>3. /\ s \in AttemptRow /\ AttInv(a) /\ receipt \in [Calls -> Results]
      /\ att \in [Attempts -> AttemptRow]
  BY DEF IInv, TypeOK
<1>4. /\ r \in AttemptRow /\ r.pc = p /\ r.todo = Batch /\ r.known = known
      /\ r.seen = receipt /\ r.queue = s.queue
  BY <1>3, WholeBatch, Zenon DEF AttemptRow, Stopped
<1>5. att' = [att EXCEPT ![a] = r]
  BY <1>1
<1> HIDE DEF r
<1>6. /\ att' \in [Attempts -> AttemptRow] /\ att'[a] = r
      /\ \A b \in Attempts : b # a => att'[b] = att[b]
  BY <1>3, <1>4, <1>5
<1>7. Gains(a)
  BY <1>2 DEF Gains
<1>8. AttInv(a)'
  <2>1. s.queue = {}
    BY <1>2, <1>3 DEF AttInv, HoldInv
  <2>2. HoldInv(a)' /\ CurInv(a)'
    BY <1>2, <1>4, <1>6, <2>1, WholeBatch DEF HoldInv, CurInv
  <2>3. ReportInv(a)'
    BY <1>4, <1>6, WholeBatch DEF ReportInv, Owed
  <2> QED
    BY <2>2, <2>3 DEF AttInv
<1>9. \A b \in Attempts : AttInv(b)'
  BY <1>6, <1>7, <1>8, OthersKeep
<1>10. \A k \in Closers : CloInv(k)'
  BY <1>2, <1>7, ClosersKeep
<1>11. TypeOK' /\ StoreInv'
  BY <1>2, <1>6 DEF IInv, TypeOK, StoreInv
<1>12. AloneInv'
  <2> SUFFICES ASSUME ~overlap
               PROVE  /\ \A b, c \in Attempts : Working(b)' /\ Working(c)' => b = c
                      /\ \A k \in Closers : ~Closing(k)
    BY <1>2 DEF AloneInv, Closing
  <2>1. /\ \A b \in Attempts : ~Working(b)
        /\ \A k \in Closers : ~Closing(k)
    BY <1>2 DEF Alone
  <2> QED
    BY <1>6, <2>1 DEF Working
<1> QED
  BY <1>9, <1>10, <1>11, <1>12 DEF IInv

\* ensure_tool_execution_intent(): a call without an intent gets this attempt's.
LEMMA EnsureStep ==
    ASSUME IInv, NEW a \in Attempts, ensure_tool_execution_intent(a), UNCHANGED overlap
    PROVE  IInv'
<1> DEFINE s == att[a]
           c == call(a)
           r == [s EXCEPT !.pc = "log"]
<1>1. /\ s.pc = "call" /\ s.todo # <<>>
      /\ UNCHANGED <<receipt, logged, result, terminal, ran, clo, crashes, overlap>>
  BY DEF ensure_tool_execution_intent
<1>2. s \in AttemptRow /\ AttInv(a) /\ Working(a)
  BY <1>1 DEF IInv, TypeOK, Working, Stopped
<1>3. c = Head(s.todo) /\ c \in Calls /\ Ahead(s.todo, c)
  <2>1. s.todo \in Seq(Calls)
    BY <1>2 DEF AttemptRow
  <2> QED
    BY <1>1, <2>1, HeadAhead DEF call
<1>4. /\ r \in AttemptRow /\ r.pc = "log" /\ r.todo = s.todo /\ r.known = s.known
      /\ r.seen = s.seen /\ r.queue = s.queue /\ r.out = s.out /\ r.cur = s.cur
      /\ r.reports = s.reports
  BY <1>2, MovedRow
<1> HIDE DEF r, c
<1>5. CASE c \in s.known /\ Go(a, [att[a] EXCEPT !.pc = "log"]) /\ UNCHANGED intent
  <2>1. att' = [att EXCEPT ![a] = r]
    BY <1>5 DEF Go, r
  <2>2. ASSUME att'[a] = r PROVE AttInv(a)'
    <3>1. HoldInv(a)'
      BY <1>1, <1>2, <1>3, <1>4, <1>5, <2>2 DEF AttInv, HoldInv
    <3>2. CurInv(a)' /\ ReportInv(a)'
      BY <1>1, <1>2, <1>4, <2>2 DEF AttInv, CurInv, ReportInv, Owed
    <3> QED
      BY <3>1, <3>2 DEF AttInv
  <2> QED
    BY <1>1, <1>2, <1>4, <1>5, <2>1, <2>2, AttemptMovesStill, Zenon DEF durable
<1>6. CASE /\ intent[c] = 0 /\ intent' = [intent EXCEPT ![c] = a]
           /\ Go(a, [att[a] EXCEPT !.pc = "log"])
  <2>1. att' = [att EXCEPT ![a] = r]
    BY <1>6 DEF Go, r
  <2>2. /\ intent' \in [Calls -> Attempts \cup {0}] /\ intent'[c] = a /\ a # 0
        /\ \A d \in Calls : d # c => intent'[d] = intent[d]
    BY <1>3, <1>6, BatchBounds DEF IInv, TypeOK, Attempts
  <2>3. c \notin logged /\ ran[c] = 0
    <3>1. c \notin logged /\ ~(ran[c] > 0) /\ ran[c] \in Nat
      BY <1>3, <1>6 DEF IInv, StoreInv, TypeOK
    <3> QED
      BY <3>1
  <2>4. Gains(a) /\ StoreInv'
    BY <1>1, <1>6, <2>2, <2>3 DEF Gains, IInv, StoreInv
  <2>5. ASSUME att'[a] = r PROVE AttInv(a)'
    <3>1. s.queue \subseteq Calls /\ s.known \subseteq Calls
      BY <1>2 DEF AttemptRow
    <3>2. HoldInv(a)'
      BY <1>1, <1>2, <1>3, <1>4, <2>2, <2>3, <2>5, <3>1 DEF AttInv, HoldInv
    <3>3. CurInv(a)' /\ ReportInv(a)'
      BY <1>1, <1>2, <1>4, <2>5 DEF AttInv, CurInv, ReportInv, Owed
    <3> QED
      BY <3>2, <3>3 DEF AttInv
  <2>6. /\ receipt' \in [Calls -> Results] /\ result' \in [Calls -> Results]
        /\ logged' \subseteq Calls /\ ran' \in [Calls -> Nat]
    BY <1>1 DEF IInv, TypeOK
  <2> QED
    BY <1>1, <1>2, <1>4, <2>1, <2>2, <2>4, <2>5, <2>6, AttemptMoves, Zenon
<1>7. CASE Fail(a) /\ UNCHANGED intent
  BY <1>1, <1>2, <1>7, FailStep DEF durable
<1> QED
  BY <1>5, <1>6, <1>7 DEF ensure_tool_execution_intent, c

\* What is known of an attempt at work on the head of its list.
LEMMA AtHead ==
    ASSUME IInv, NEW a \in Attempts, att[a].pc \notin Stopped
    PROVE  /\ att[a] \in AttemptRow /\ AttInv(a) /\ Working(a) /\ att[a].todo \in Seq(Calls)
           /\ att[a].queue \subseteq Calls /\ att[a].known \subseteq Calls
           /\ att[a].out \subseteq Calls /\ att[a].seen \in [Calls -> Results]
           /\ att[a].todo # <<>> => /\ call(a) = Head(att[a].todo) /\ call(a) \in Calls
                                    /\ Ahead(att[a].todo, call(a))
<1>1. att[a] \in AttemptRow /\ AttInv(a) /\ Working(a)
  BY DEF IInv, TypeOK, Working
<1>2. /\ att[a].todo \in Seq(Calls)
      /\ att[a].queue \subseteq Calls /\ att[a].known \subseteq Calls
      /\ att[a].out \subseteq Calls /\ att[a].seen \in [Calls -> Results]
  BY <1>1 DEF AttemptRow
<1> QED
  BY <1>1, <1>2, HeadAhead DEF call

\* commit_session_tool_call(): the call is in the log before anything is run.
LEMMA CommitStep ==
    ASSUME IInv, NEW a \in Attempts, commit_session_tool_call(a), UNCHANGED overlap
    PROVE  IInv'
<1> DEFINE s == att[a]
           c == call(a)
           r == [s EXCEPT !.pc = "settle"]
<1>1. /\ s.pc = "log" /\ logged' = logged \cup {c}
      /\ UNCHANGED <<intent, receipt, result, terminal, ran, clo, crashes, overlap>>
      /\ att' = [att EXCEPT ![a] = r]
  BY DEF commit_session_tool_call, Go
<1>2. /\ s \in AttemptRow /\ AttInv(a) /\ Working(a) /\ s.queue \subseteq Calls
      /\ s.todo # <<>> => c = Head(s.todo) /\ c \in Calls
  BY <1>1, AtHead DEF Stopped
<1>3. s.todo # <<>> /\ c = Head(s.todo) /\ c \in Calls /\ intent[c] # 0
  BY <1>1, <1>2 DEF AttInv, HoldInv
<1>4. /\ r \in AttemptRow /\ r.pc = "settle" /\ r.todo = s.todo /\ r.known = s.known
      /\ r.seen = s.seen /\ r.queue = s.queue /\ r.out = s.out /\ r.cur = s.cur
      /\ r.reports = s.reports
  BY <1>2, MovedRow
<1> HIDE DEF r, c
<1>5. Gains(a) /\ StoreInv'
  BY <1>1, <1>3 DEF Gains, IInv, StoreInv
<1>6. ASSUME att'[a] = r PROVE AttInv(a)'
  <2>1. HoldInv(a)'
    BY <1>1, <1>2, <1>3, <1>4, <1>6, SMTT(30) DEF AttInv, HoldInv
  <2>2. CurInv(a)' /\ ReportInv(a)'
    BY <1>1, <1>2, <1>4, <1>6, SMTT(30) DEF AttInv, CurInv, ReportInv, Owed
  <2> QED
    BY <2>1, <2>2 DEF AttInv
<1>7. /\ intent' \in [Calls -> Attempts \cup {0}]
      /\ receipt' \in [Calls -> Results] /\ result' \in [Calls -> Results]
      /\ logged' \subseteq Calls /\ ran' \in [Calls -> Nat]
  BY <1>1, <1>3 DEF IInv, TypeOK
<1> QED
  BY <1>1, <1>2, <1>4, <1>5, <1>6, <1>7, AttemptMoves, Zenon

\* A result is taken in hand for the head of the list.
LEMMA HandStep ==
    ASSUME IInv, NEW a \in Attempts, att[a].pc \in {"settle", "recover"},
           NEW p \in {"persist", "notify"}, NEW c \in Calls, NEW v \in Results, v # None,
           NEW tag \in {"call", "recover"},
           att[a].todo # <<>>, c = Head(att[a].todo),
           p = "notify" => v = receipt[c],
           NEW r, Handed(att[a], r, p, c, v, tag),
           att' = [att EXCEPT ![a] = r],
           UNCHANGED <<intent, receipt, logged, result, terminal, clo, crashes, overlap>>,
           ran' \in [Calls -> Nat], StoreInv',
           \A d \in Calls : ran'[d] # ran[d] => intent[d] = a /\ d \notin att[a].queue
    PROVE  IInv'
<1> DEFINE s == att[a]
<1>1. s \in AttemptRow /\ AttInv(a) /\ Working(a) /\ s.queue \subseteq Calls
  BY AtHead DEF Stopped
<1>2. /\ r \in AttemptRow /\ r.pc = p /\ r.todo = s.todo /\ r.known = s.known
      /\ r.seen = s.seen /\ r.queue = s.queue /\ r.out = s.out
      /\ r.cur # <<>> /\ r.cur[1] = c /\ r.cur[2] = v /\ r.cur[3] = tag
      /\ r.reports = s.reports
  BY <1>1 DEF Handed
<1>3. Gains(a)
  BY DEF Gains
<1>4. ASSUME att'[a] = r PROVE AttInv(a)'
  <2>1. HoldInv(a)'
    BY <1>1, <1>2, <1>4 DEF AttInv, HoldInv
  <2>2. CurInv(a)'
    BY <1>1, <1>2, <1>4, ZenonT(30) DEF AttInv, CurInv
  <2>3. \A d \in Calls : Owed(s, d) => Owed(r, d)
    BY <1>1, <1>2 DEF Owed
  <2>4. ReportInv(a)'
    BY <1>1, <1>2, <1>4, <2>3 DEF AttInv, ReportInv
  <2> QED
    BY <2>1, <2>2, <2>4 DEF AttInv
<1>5. /\ intent' \in [Calls -> Attempts \cup {0}]
      /\ receipt' \in [Calls -> Results] /\ result' \in [Calls -> Results]
      /\ logged' \subseteq Calls
  BY DEF IInv, TypeOK
<1> QED
  BY <1>1, <1>2, <1>3, <1>4, <1>5, AttemptMoves, Zenon

\* A call begun by an earlier attempt is answered from the facts.
LEMMA SettleKnownStep ==
    ASSUME IInv, NEW a \in Attempts, settle_known(a), UNCHANGED overlap
    PROVE  IInv'
<1> DEFINE s == att[a]
           c == call(a)
<1>1. /\ s.pc = "settle" /\ UNCHANGED <<intent, receipt, logged, result, terminal, ran, clo,
                                        crashes, overlap>>
  BY DEF settle_known, durable
<1>2. /\ s \in AttemptRow /\ AttInv(a) /\ s.seen \in [Calls -> Results]
      /\ s.todo # <<>> => c = Head(s.todo) /\ c \in Calls
  BY <1>1, AtHead DEF Stopped
<1>3. s.todo # <<>> /\ c = Head(s.todo) /\ c \in Calls
  BY <1>1, <1>2 DEF AttInv, HoldInv
<1>4. ran' \in [Calls -> Nat] /\ StoreInv'
  BY <1>1 DEF IInv, TypeOK, StoreInv
<1>5. Result("indeterminate", a) \in Results /\ Result("indeterminate", a) # None
  BY DEF Result, Results, None
<1>6. CASE s.seen[c] # None /\ Go(a, [s EXCEPT !.pc = "notify", !.cur = <<c, s.seen[c], "call">>])
  <2> DEFINE v == s.seen[c]
             r == [att[a] EXCEPT !.pc = "notify", !.cur = <<c, v, "call">>]
  <2>1. att' = [att EXCEPT ![a] = r]
    BY <1>6 DEF Go
  <2>2. v \in Results /\ v # None /\ v = receipt[c]
    BY <1>2, <1>3, <1>6 DEF AttInv, CurInv
  <2> HIDE DEF v
  <2>3. Handed(att[a], r, "notify", c, v, "call")
    BY <1>2, <1>3, <2>2, Zenon DEF Handed, AttemptRow
  <2> HIDE DEF c, r
  <2> QED
    BY <1>1, <1>3, <1>4, <2>1, <2>2, <2>3, HandStep, Zenon
<1>7. CASE Go(a, [s EXCEPT !.pc = "persist", !.cur = <<c, Result("indeterminate", a), "call">>])
  <2> DEFINE v == Result("indeterminate", a)
             r == [att[a] EXCEPT !.pc = "persist", !.cur = <<c, v, "call">>]
  <2>1. att' = [att EXCEPT ![a] = r]
    BY <1>7 DEF Go
  <2>2. v \in Results /\ v # None
    BY <1>5
  <2> HIDE DEF v
  <2>3. Handed(att[a], r, "persist", c, v, "call")
    BY <1>2, <1>3, <2>2, Zenon DEF Handed, AttemptRow
  <2> HIDE DEF c, r
  <2> QED
    BY <1>1, <1>3, <1>4, <2>1, <2>2, <2>3, HandStep, Zenon
<1> QED
  BY <1>6, <1>7 DEF settle_known

\* A new call is denied, run on the spot, or queued: it carries this attempt's
\* intent, is in the log and has not run.
LEMMA SettleNewStep ==
    ASSUME IInv, NEW a \in Attempts, settle_new(a), UNCHANGED overlap
    PROVE  IInv'
<1> DEFINE s == att[a]
           c == call(a)
<1>1. /\ s.pc = "settle" /\ c \notin s.known
      /\ UNCHANGED <<intent, receipt, logged, result, terminal, clo, crashes, overlap>>
  BY DEF settle_new, durable
<1>2. /\ s \in AttemptRow /\ AttInv(a) /\ Working(a) /\ s.todo \in Seq(Calls)
      /\ s.queue \subseteq Calls
      /\ s.todo # <<>> => c = Head(s.todo) /\ c \in Calls /\ Ahead(s.todo, c)
  BY <1>1, AtHead DEF Stopped
<1>3. s.todo # <<>> /\ c = Head(s.todo) /\ c \in Calls /\ Ahead(s.todo, c)
  BY <1>1, <1>2 DEF AttInv, HoldInv
<1>4. /\ intent[c] = a /\ ran[c] = 0 /\ c \in logged /\ c \notin s.queue
  BY <1>1, <1>2, <1>3 DEF AttInv, HoldInv
<1>5. /\ Result("denied", a) \in Results /\ Result("denied", a) # None
      /\ Result("ran", a) \in Results /\ Result("ran", a) # None
  BY DEF Result, Results, None
<1>6. CASE /\ Go(a, [s EXCEPT !.pc = "persist", !.cur = <<c, Result("denied", a), "call">>])
           /\ UNCHANGED ran
  <2> DEFINE v == Result("denied", a)
             r == [att[a] EXCEPT !.pc = "persist", !.cur = <<c, v, "call">>]
  <2>1. att' = [att EXCEPT ![a] = r]
    BY <1>6 DEF Go
  <2>2. v \in Results /\ v # None
    BY <1>5
  <2> HIDE DEF v
  <2>3. Handed(att[a], r, "persist", c, v, "call")
    BY <1>2, <1>3, <2>2, Zenon DEF Handed, AttemptRow
  <2>4. ran' = ran /\ ran' \in [Calls -> Nat] /\ StoreInv'
    BY <1>1, <1>6 DEF IInv, TypeOK, StoreInv
  <2> HIDE DEF c, r
  <2> QED
    BY <1>1, <1>3, <2>1, <2>2, <2>3, <2>4, HandStep, Zenon
<1>7. CASE /\ ran' = [ran EXCEPT ![c] = @ + 1]
           /\ Go(a, [s EXCEPT !.pc = "persist", !.cur = <<c, Result("ran", a), "call">>])
  <2> DEFINE v == Result("ran", a)
             r == [att[a] EXCEPT !.pc = "persist", !.cur = <<c, v, "call">>]
  <2>1. att' = [att EXCEPT ![a] = r]
    BY <1>7 DEF Go
  <2>2. v \in Results /\ v # None
    BY <1>5
  <2> HIDE DEF v
  <2>3. Handed(att[a], r, "persist", c, v, "call")
    BY <1>2, <1>3, <2>2, Zenon DEF Handed, AttemptRow
  <2> HIDE DEF c, r
  <2>4. ran' \in [Calls -> Nat] /\ ran'[c] = 1 /\ \A d \in Calls : d # c => ran'[d] = ran[d]
    BY <1>3, <1>4, <1>7 DEF IInv, TypeOK
  <2>5. StoreInv'
    BY <1>1, <1>4, <2>4, SMTT(30) DEF IInv, StoreInv
  <2> QED
    BY <1>1, <1>3, <1>4, <2>1, <2>2, <2>3, <2>4, <2>5, HandStep, Zenon
<1>8. CASE /\ Go(a, [s EXCEPT !.pc = "call", !.todo = Tail(s.todo), !.queue = @ \cup {c}])
           /\ UNCHANGED ran
  <2> DEFINE r == [s EXCEPT !.pc = "call", !.todo = Tail(s.todo), !.queue = @ \cup {c}]
  <2>1. att' = [att EXCEPT ![a] = r]
    BY <1>8 DEF Go
  <2>2. /\ Tail(s.todo) \in Seq(Calls) /\ Distinct(Tail(s.todo))
        /\ \A d \in Calls : Ahead(Tail(s.todo), d) <=> Ahead(s.todo, d) /\ d # c
    BY <1>2, <1>3, TailAhead DEF AttInv, HoldInv
  <2>3. /\ r \in AttemptRow /\ r.pc = "call" /\ r.todo = Tail(s.todo) /\ r.known = s.known
        /\ r.seen = s.seen /\ r.queue = s.queue \cup {c} /\ r.out = s.out /\ r.cur = s.cur
        /\ r.reports = s.reports
    BY <1>2, <1>3, <2>2, Zenon DEF AttemptRow
  <2> HIDE DEF r, c
  <2>4. ASSUME att'[a] = r PROVE AttInv(a)'
    <3>1. HoldInv(a)'
      BY <1>1, <1>2, <1>3, <1>4, <1>8, <2>2, <2>3, <2>4 DEF AttInv, HoldInv
    <3>2. CurInv(a)'
      BY <1>1, <1>2, <2>3, <2>4 DEF AttInv, CurInv
    <3>3. \A d \in Calls : Owed(s, d) => Owed(r, d)
      BY <1>1, <2>2, <2>3 DEF Owed
    <3>4. ReportInv(a)'
      BY <1>1, <1>2, <2>3, <2>4, <3>3 DEF AttInv, ReportInv
    <3> QED
      BY <3>1, <3>2, <3>4 DEF AttInv
  <2> QED
    BY <1>1, <1>2, <1>8, <2>1, <2>3, <2>4, AttemptMovesStill, Zenon DEF durable
<1> QED
  BY <1>6, <1>7, <1>8 DEF settle_new

\* The executor runs a queued tool, which moves to its finished ones.
LEMMA RunToolStep ==
    ASSUME IInv, NEW a \in Attempts, NEW c \in Calls, run_tool(a, c), UNCHANGED overlap
    PROVE  IInv'
<1> DEFINE s == att[a]
           r == [s EXCEPT !.queue = @ \ {c}, !.out = @ \cup {c}]
<1>1. /\ s.pc = "call" /\ c \in s.queue /\ ran' = [ran EXCEPT ![c] = @ + 1]
      /\ att' = [att EXCEPT ![a] = r]
      /\ UNCHANGED <<intent, receipt, logged, result, terminal, clo, crashes, overlap>>
  BY DEF run_tool, durable, Go
<1>2. s \in AttemptRow /\ AttInv(a) /\ Working(a) /\ s.queue \subseteq Calls
  BY <1>1, AtHead DEF Stopped
<1>3. intent[c] = a /\ ran[c] = 0 /\ c \in logged
  BY <1>1, <1>2 DEF AttInv, HoldInv
<1>4. /\ r \in AttemptRow /\ r.pc = "call" /\ r.todo = s.todo /\ r.known = s.known
      /\ r.seen = s.seen /\ r.queue = s.queue \ {c} /\ r.out = s.out \cup {c} /\ r.cur = s.cur
      /\ r.reports = s.reports
  BY <1>1, <1>2, Zenon DEF AttemptRow
<1> HIDE DEF r
<1>5. ran' \in [Calls -> Nat] /\ ran'[c] = 1 /\ \A d \in Calls : d # c => ran'[d] = ran[d]
  BY <1>1, <1>3 DEF IInv, TypeOK
<1>6. Gains(a) /\ StoreInv'
  <2>1. UNCHANGED <<intent, receipt, logged, result>>
    BY <1>1
  <2>2. Gains(a)
    BY <1>3, <1>5, <2>1 DEF Gains
  <2>3. StoreInv'
    BY <1>3, <1>5, <2>1 DEF IInv, StoreInv
  <2> QED
    BY <2>2, <2>3
<1>7. ASSUME att'[a] = r PROVE AttInv(a)'
  <2>1. HoldInv(a)'
    BY <1>1, <1>2, <1>4, <1>5, <1>7 DEF AttInv, HoldInv
  <2>2. CurInv(a)' /\ ReportInv(a)'
    BY <1>1, <1>2, <1>4, <1>7, ZenonT(30) DEF AttInv, CurInv, ReportInv, Owed
  <2> QED
    BY <2>1, <2>2 DEF AttInv
<1>8. /\ intent' \in [Calls -> Attempts \cup {0}]
      /\ receipt' \in [Calls -> Results] /\ result' \in [Calls -> Results]
      /\ logged' \subseteq Calls
  BY <1>1 DEF IInv, TypeOK
<1> QED
  BY <1>1, <1>2, <1>4, <1>5, <1>6, <1>7, <1>8, AttemptMoves, Zenon

\* The result sink takes a finished tool.
LEMMA SinkStep ==
    ASSUME IInv, NEW a \in Attempts, NEW c \in Calls, persist_result(a, c), UNCHANGED overlap
    PROVE  IInv'
<1> DEFINE s == att[a]
           v == Result("ran", a)
           r == [s EXCEPT !.pc = "persist", !.out = @ \ {c}, !.cur = <<c, v, "sink">>]
<1>1. /\ s.pc = "call" /\ att' = [att EXCEPT ![a] = r]
      /\ UNCHANGED <<durable, ran, clo, crashes, overlap>>
  BY DEF persist_result, Go
<1>2. s \in AttemptRow /\ AttInv(a) /\ Working(a)
  BY <1>1, AtHead DEF Stopped
<1>3. v \in Results /\ v # None
  BY DEF Result, Results, None
<1> HIDE DEF v
<1>4. /\ r \in AttemptRow /\ r.pc = "persist" /\ r.todo = s.todo /\ r.known = s.known
      /\ r.seen = s.seen /\ r.queue = s.queue /\ r.out = s.out \ {c}
      /\ r.cur # <<>> /\ r.cur[1] = c /\ r.cur[2] = v /\ r.cur[3] = "sink"
      /\ r.reports = s.reports
  BY <1>2, <1>3, Zenon DEF AttemptRow
<1> HIDE DEF r
<1>5. ASSUME att'[a] = r PROVE AttInv(a)'
  <2>1. HoldInv(a)' /\ CurInv(a)'
    BY <1>1, <1>2, <1>3, <1>4, <1>5, ZenonT(30) DEF AttInv, HoldInv, CurInv, durable
  <2>2. \A d \in Calls : Owed(s, d) => Owed(r, d)
    BY <1>1, <1>4 DEF Owed
  <2>3. ReportInv(a)'
    BY <1>1, <1>2, <1>4, <1>5, <2>2 DEF AttInv, ReportInv, durable
  <2> QED
    BY <2>1, <2>3 DEF AttInv
<1> QED
  BY <1>1, <1>2, <1>4, <1>5, AttemptMovesStill, Zenon

\* persist_tool_execution_receipt(): the first receipt of a call stays.
LEMMA PersistStep ==
    ASSUME IInv, NEW a \in Attempts, persist_tool_execution_receipt(a), UNCHANGED overlap
    PROVE  IInv'
<1> DEFINE s == att[a]
           c == s.cur[1]
           v == s.cur[2]
           r == [s EXCEPT !.pc = "notify"]
<1>1. /\ s.pc = "persist"
      /\ UNCHANGED <<intent, logged, result, terminal, ran, clo, crashes, overlap>>
  BY DEF persist_tool_execution_receipt
<1>2. s \in AttemptRow /\ AttInv(a) /\ Working(a)
  BY <1>1, AtHead DEF Stopped
<1>3. s.cur # <<>> /\ c \in Calls /\ v \in Results /\ v # None
  <2>1. s.cur # <<>> /\ v # None
    BY <1>1, <1>2 DEF AttInv, CurInv
  <2>2. s.cur \in Calls \X Results \X {"call", "sink", "recover"}
    BY <1>2, <2>1 DEF AttemptRow
  <2> QED
    BY <2>1, <2>2
<1>4. CASE receipt[c] = None /\ receipt' = [receipt EXCEPT ![c] = v] /\ Go(a, r)
  <2>1. att' = [att EXCEPT ![a] = r]
    BY <1>4 DEF Go
  <2>2. /\ r \in AttemptRow /\ r.pc = "notify" /\ r.todo = s.todo /\ r.known = s.known
        /\ r.seen = s.seen /\ r.queue = s.queue /\ r.out = s.out /\ r.cur = s.cur
        /\ r.reports = s.reports
    BY <1>2, MovedRow
  <2> HIDE DEF r
  <2>3. /\ receipt' \in [Calls -> Results] /\ receipt'[c] = v
        /\ \A d \in Calls : d # c => receipt'[d] = receipt[d]
    BY <1>3, <1>4 DEF IInv, TypeOK
  <2>4. Gains(a) /\ StoreInv'
    BY <1>1, <1>4, <2>3 DEF Gains, IInv, StoreInv
  <2>5. ASSUME att'[a] = r PROVE AttInv(a)'
    <3>1. HoldInv(a)'
      BY <1>1, <1>2, <2>2, <2>5 DEF AttInv, HoldInv
    <3>2. CurInv(a)'
      BY <1>1, <1>2, <1>4, <2>2, <2>3, <2>5 DEF AttInv, CurInv
    <3>3. ReportInv(a)'
      BY <1>1, <1>2, <2>2, <2>5 DEF AttInv, ReportInv, Owed
    <3> QED
      BY <3>1, <3>2, <3>3 DEF AttInv
  <2>6. /\ intent' \in [Calls -> Attempts \cup {0}] /\ result' \in [Calls -> Results]
        /\ logged' \subseteq Calls /\ ran' \in [Calls -> Nat]
    BY <1>1 DEF IInv, TypeOK
  <2> QED
    BY <1>1, <1>2, <2>1, <2>2, <2>3, <2>4, <2>5, <2>6, AttemptMoves, Zenon
<1>5. CASE Fail(a) /\ UNCHANGED receipt
  BY <1>1, <1>2, <1>5, FailStep DEF durable
<1> QED
  BY <1>4, <1>5 DEF persist_tool_execution_receipt

\* notify_tool_safe_point(): the record is written from the receipt, and what is
\* reported is what the log has.
LEMMA NotifyStep ==
    ASSUME IInv, NEW a \in Attempts, notify_tool_safe_point(a), UNCHANGED overlap
    PROVE  IInv'
<1> DEFINE s == att[a]
           c == s.cur[1]
           v == s.cur[2]
           tag == s.cur[3]
           r == [s EXCEPT !.reports[c] = v, !.cur = <<>>,
                          !.pc = IF tag = "recover" THEN "recover" ELSE "call",
                          !.todo = IF tag = "sink" THEN @ ELSE Tail(@)]
<1>1. /\ s.pc = "notify"
      /\ UNCHANGED <<intent, receipt, logged, terminal, ran, clo, crashes, overlap>>
  BY DEF notify_tool_safe_point
<1>2. s \in AttemptRow /\ AttInv(a) /\ Working(a) /\ s.todo \in Seq(Calls)
  BY <1>1, AtHead DEF Stopped
<1>3. /\ s.cur # <<>> /\ c \in Calls /\ v \in Results /\ v # None /\ v = receipt[c]
      /\ tag # "sink" => s.todo # <<>> /\ c = Head(s.todo)
  <2>1. /\ s.cur # <<>> /\ v # None /\ v = receipt[c]
        /\ tag # "sink" => s.todo # <<>> /\ c = Head(s.todo)
    BY <1>1, <1>2 DEF AttInv, CurInv
  <2>2. s.cur \in Calls \X Results \X {"call", "sink", "recover"}
    BY <1>2, <2>1 DEF AttemptRow
  <2> QED
    BY <2>1, <2>2
<1>4. CASE /\ Go(a, r)
           /\ \/ result[c] = None /\ result' = [result EXCEPT ![c] = v]
              \/ result[c] # None /\ UNCHANGED result
  <2>1. att' = [att EXCEPT ![a] = r]
    BY <1>4 DEF Go
  <2> DEFINE todo == IF tag = "sink" THEN s.todo ELSE Tail(s.todo)
  <2>2. /\ todo \in Seq(Calls) /\ Distinct(todo)
        /\ \A d \in Calls : Ahead(todo, d) => Ahead(s.todo, d)
        /\ \A d \in Calls : Ahead(s.todo, d) /\ d # c => Ahead(todo, d)
    <3>1. Distinct(s.todo)
      BY <1>2 DEF AttInv, HoldInv
    <3> QED
      BY <1>2, <1>3, <3>1, TailAhead
  <2>3. s.reports \in [Calls -> Results]
    BY <1>2 DEF AttemptRow
  <2> HIDE DEF c, v, tag
  <2>4. /\ r.todo = todo /\ r.known = s.known
        /\ r.seen = s.seen /\ r.queue = s.queue /\ r.out = s.out /\ r.cur = <<>>
        /\ r.pc \in {"call", "recover"}
        /\ r.reports = [s.reports EXCEPT ![c] = v]
    BY <1>2 DEF AttemptRow
  <2>5. r \in AttemptRow
    <3>1. [s.reports EXCEPT ![c] = v] \in [Calls -> Results]
      BY <1>3, <2>3
    <3> QED
      BY <1>2, <2>2, <3>1, Zenon DEF AttemptRow
  <2>6. /\ r.reports[c] = v /\ \A d \in Calls : d # c => r.reports[d] = s.reports[d]
    BY <1>3, <2>3, <2>4
  <2> HIDE DEF r, todo
  <2>7. /\ result' \in [Calls -> Results] /\ result'[c] = v
        /\ \A d \in Calls : d # c => result'[d] = result[d]
    <3>1. result[c] # None => result[c] = v
      BY <1>3 DEF IInv, StoreInv
    <3>2. result \in [Calls -> Results]
      BY DEF IInv, TypeOK
    <3> QED
      BY <1>3, <1>4, <3>1, <3>2
  <2>8. Gains(a) /\ StoreInv'
    <3>1. \A d \in Calls : result[d] # None => result'[d] = result[d]
      BY <1>3, <2>7 DEF IInv, StoreInv
    <3> QED
      BY <1>1, <1>3, <2>7, <3>1 DEF Gains, IInv, StoreInv
  <2>9. ASSUME att'[a] = r PROVE AttInv(a)'
    <3>1. s.queue \subseteq Calls
      BY <1>2 DEF AttemptRow
    <3>2. HoldInv(a)' /\ CurInv(a)'
      BY <1>1, <1>2, <2>2, <2>4, <2>9, <3>1 DEF AttInv, HoldInv, CurInv
    <3>3. \A d \in Calls : d # c /\ Owed(s, d) => Owed(r, d)
      BY <2>2, <2>4 DEF Owed, c
    <3>4. ReportInv(a)'
      BY <1>1, <1>2, <1>3, <2>4, <2>6, <2>7, <2>9, <3>3, Zenon DEF AttInv, ReportInv
    <3> QED
      BY <3>2, <3>4 DEF AttInv
  <2>10. /\ intent' \in [Calls -> Attempts \cup {0}] /\ receipt' \in [Calls -> Results]
         /\ logged' \subseteq Calls /\ ran' \in [Calls -> Nat]
    BY <1>1 DEF IInv, TypeOK
  <2> QED
    BY <1>1, <1>2, <2>1, <2>5, <2>7, <2>8, <2>9, <2>10, AttemptMoves, Zenon
<1>5. CASE Fail(a) /\ UNCHANGED result
  BY <1>1, <1>2, <1>5, FailStep DEF durable
<1> QED
  BY <1>4, <1>5 DEF notify_tool_safe_point

\* recover_prepared_tool_phase(): the head of the list is settled from what is
\* stored, or the attempt fails; nothing is run.
LEMMA RecoverStep ==
    ASSUME IInv, NEW a \in Attempts, recover_prepared_tool_phase(a), UNCHANGED overlap
    PROVE  IInv'
<1> DEFINE s == att[a]
           c == call(a)
<1>1. /\ s.pc = "recover" /\ s.todo # <<>>
      /\ UNCHANGED <<intent, receipt, logged, result, terminal, ran, clo, crashes, overlap>>
  BY DEF recover_prepared_tool_phase, durable
<1>2. /\ s \in AttemptRow /\ AttInv(a) /\ Working(a) /\ s.seen \in [Calls -> Results]
  BY <1>1, AtHead DEF Stopped
<1>3. c = Head(s.todo) /\ c \in Calls
  BY <1>1, AtHead DEF Stopped
<1>4. ran' \in [Calls -> Nat] /\ StoreInv'
  BY <1>1 DEF IInv, TypeOK, StoreInv
<1>5. CASE /\ s.seen[c] # None
           /\ Go(a, [s EXCEPT !.pc = "notify", !.cur = <<c, s.seen[c], "recover">>])
  <2> DEFINE v == s.seen[c]
             r == [att[a] EXCEPT !.pc = "notify", !.cur = <<c, v, "recover">>]
  <2>1. att' = [att EXCEPT ![a] = r]
    BY <1>5 DEF Go
  <2>2. v \in Results /\ v # None /\ v = receipt[c]
    BY <1>2, <1>3, <1>5 DEF AttInv, CurInv
  <2> HIDE DEF v
  <2>3. Handed(att[a], r, "notify", c, v, "recover")
    BY <1>2, <1>3, <2>2, Zenon DEF Handed, AttemptRow
  <2> HIDE DEF c, r
  <2> QED
    BY <1>1, <1>3, <1>4, <2>1, <2>2, <2>3, HandStep, Zenon
<1>6. CASE Go(a, [s EXCEPT !.pc = "persist", !.cur = <<c, Result("recovered", a), "recover">>])
  <2> DEFINE v == Result("recovered", a)
             r == [att[a] EXCEPT !.pc = "persist", !.cur = <<c, v, "recover">>]
  <2>1. att' = [att EXCEPT ![a] = r]
    BY <1>6 DEF Go
  <2>2. v \in Results /\ v # None
    BY DEF Result, Results, None
  <2> HIDE DEF v
  <2>3. Handed(att[a], r, "persist", c, v, "recover")
    BY <1>2, <1>3, <2>2, Zenon DEF Handed, AttemptRow
  <2> HIDE DEF c, r
  <2> QED
    BY <1>1, <1>3, <1>4, <2>1, <2>2, <2>3, HandStep, Zenon
<1>7. CASE Fail(a)
  BY <1>1, <1>2, <1>7, FailStep DEF durable
<1> QED
  BY <1>5, <1>6, <1>7 DEF recover_prepared_tool_phase

\* A batch is finished when nothing is owed: every report is the log's.
LEMMA FinishStep ==
    ASSUME IInv, NEW a \in Attempts, finish_batch(a), UNCHANGED overlap
    PROVE  IInv'
<1> DEFINE s == att[a]
           r == [s EXCEPT !.pc = "done"]
<1>1. /\ s.pc \in {"call", "recover"} /\ s.todo = <<>> /\ s.queue = {} /\ s.out = {}
      /\ att' = [att EXCEPT ![a] = r]
      /\ UNCHANGED <<durable, ran, clo, crashes, overlap>>
  BY DEF finish_batch, Go
<1>2. s \in AttemptRow /\ AttInv(a) /\ Working(a)
  BY <1>1, AtHead DEF Stopped
<1>3. /\ r \in AttemptRow /\ r.pc = "done" /\ r.todo = s.todo /\ r.known = s.known
      /\ r.seen = s.seen /\ r.queue = s.queue /\ r.reports = s.reports
  BY <1>2, MovedRow, Zenon DEF Stopped
<1> HIDE DEF r
<1>4. ASSUME att'[a] = r PROVE AttInv(a)'
  <2>1. HoldInv(a)' /\ CurInv(a)'
    BY <1>1, <1>2, <1>3, <1>4, ZenonT(30) DEF AttInv, HoldInv, CurInv, durable
  <2>2. \A c \in Calls : ~Owed(s, c)
    <3>1. \A c \in Calls : ~Ahead(<<>>, c)
      BY DEF Ahead
    <3>2. /\ s.pc \notin {"persist", "notify"} /\ s.todo = <<>> /\ s.queue = {} /\ s.out = {}
      BY <1>1
    <3> HIDE DEF s
    <3> QED
      BY <3>1, <3>2 DEF Owed
  <2>3. ReportInv(a)'
    BY <1>1, <1>2, <1>3, <1>4, <2>2 DEF AttInv, ReportInv, durable
  <2> QED
    BY <2>1, <2>3 DEF AttInv
<1> QED
  BY <1>1, <1>2, <1>3, <1>4, AttemptMovesStill, Zenon

-----------------------------------------------------------------------------
(* The closers and the crash. *)

\* A step of a closer that is at work or starts when it may, given what it does
\* to its own row.  It runs nothing and stores no intent.
LEMMA CloserMoves ==
    ASSUME IInv, NEW k \in Closers, Closing(k) \/ (Alone /\ ~terminal),
           NEW r \in CloserRow, clo' = [clo EXCEPT ![k] = r],
           UNCHANGED <<intent, logged, ran, att, crashes, overlap>>,
           receipt' \in [Calls -> Results], result' \in [Calls -> Results],
           terminal' \in BOOLEAN,
           Gains(0), StoreInv', clo'[k] = r => CloInv(k)',
           r.pc = "terminal" => Incomplete' = {},
           terminal' # terminal => r.pc = "idle" /\ (~overlap => Incomplete' = {})
    PROVE  IInv'
<1>1. /\ clo' \in [Closers -> CloserRow] /\ clo'[k] = r
      /\ \A l \in Closers : l # k => clo'[l] = clo[l]
  BY DEF IInv, TypeOK
<1>2. TypeOK'
  BY <1>1 DEF IInv, TypeOK
<1>3. \A b \in Attempts : AttInv(b)'
  <2>1. 0 \notin Attempts
    BY BatchBounds DEF Attempts
  <2> QED
    BY <2>1, OthersKeep
<1>4. \A l \in Closers : CloInv(l)'
  BY <1>1, ClosersKeep
<1>5. AloneInv'
  <2> SUFFICES ASSUME ~overlap
               PROVE  /\ \A a \in Attempts : ~Working(a)
                      /\ \A l, m \in Closers : Closing(l)' /\ Closing(m)' => l = m
                      /\ \A l \in Closers : clo'[l].pc = "terminal" => Incomplete' = {}
                      /\ terminal' => Incomplete' = {} /\ \A l \in Closers : ~Closing(l)'
    BY DEF AloneInv, Working
  <2>1. /\ \A a \in Attempts : ~Working(a)
        /\ \A l \in Closers : l # k => ~Closing(l)
        /\ ~terminal
    BY DEF IInv, AloneInv, Alone
  <2> QED
    BY <1>1, <2>1 DEF Closing
<1> QED
  BY <1>2, <1>3, <1>4, <1>5 DEF IInv

\* The same for a step that writes to no store.
LEMMA CloserMovesStill ==
    ASSUME IInv, NEW k \in Closers, Closing(k) \/ (Alone /\ ~terminal),
           NEW r \in CloserRow, clo' = [clo EXCEPT ![k] = r],
           UNCHANGED <<durable, ran, att, crashes, overlap>>,
           clo'[k] = r => CloInv(k)',
           r.pc = "terminal" => Incomplete = {}
    PROVE  IInv'
<1>1. UNCHANGED <<intent, receipt, logged, result, terminal, ran>>
  BY DEF durable
<1>2. Gains(0) /\ StoreInv' /\ Incomplete' = Incomplete
  BY <1>1 DEF Gains, IInv, StoreInv, Incomplete
<1>3. /\ receipt' \in [Calls -> Results] /\ result' \in [Calls -> Results]
      /\ terminal' \in BOOLEAN
  BY <1>1 DEF IInv, TypeOK
<1> QED
  BY <1>1, <1>2, <1>3, CloserMoves, Zenon

\* A closer at work: its row and, when it has one, the call in hand.
LEMMA AtCloser ==
    ASSUME IInv, NEW k \in Closers
    PROVE  /\ clo[k] \in CloserRow /\ CloInv(k) /\ clo[k].todo \subseteq Calls
           /\ clo[k].pc \in {"receipt", "log"} =>
                 /\ clo[k].cur[1] \in Calls /\ clo[k].cur[2] \in Results
                 /\ clo[k].cur[2] # None
           /\ IdleCloser \in CloserRow /\ IdleCloser.pc = "idle" /\ IdleCloser.todo = {}
<1>1. clo[k] \in CloserRow /\ CloInv(k)
  BY DEF IInv, TypeOK
<1>2. clo[k].todo \subseteq Calls /\ clo[k].cur \in {<<>>} \cup (Calls \X Results)
  BY <1>1 DEF CloserRow
<1>3. IdleCloser \in CloserRow /\ IdleCloser.pc = "idle" /\ IdleCloser.todo = {}
  BY DEF IdleCloser, CloserRow
<1>4. clo[k].pc \in {"receipt", "log"} => clo[k].cur # <<>> /\ clo[k].cur[2] # None
  BY <1>1 DEF CloInv
<1> QED
  BY <1>1, <1>2, <1>3, <1>4

\* A closer that gives up.
LEMMA IdleStep ==
    ASSUME IInv, NEW k \in Closers, Closing(k), Close(k, IdleCloser),
           UNCHANGED <<durable, ran, att, crashes, overlap>>
    PROVE  IInv'
<1>1. IdleCloser \in CloserRow /\ IdleCloser.pc = "idle" /\ IdleCloser.todo = {}
  BY AtCloser
<1>2. clo' = [clo EXCEPT ![k] = IdleCloser]
  BY DEF Close
<1>3. ASSUME clo'[k] = IdleCloser PROVE CloInv(k)'
  BY <1>1, <1>3 DEF CloInv
<1> QED
  BY <1>1, <1>2, <1>3, CloserMovesStill, Zenon

\* close_incomplete_tool_calls(): the open calls of the log.
LEMMA OpenCallsStep ==
    ASSUME IInv, NEW k \in Closers, close_incomplete_tool_calls(k), UNCHANGED overlap
    PROVE  IInv'
<1> DEFINE r == [pc |-> "next", todo |-> Incomplete, cur |-> <<>>]
<1>1. /\ Alone /\ ~terminal /\ clo' = [clo EXCEPT ![k] = r]
      /\ UNCHANGED <<durable, ran, att, crashes, overlap>>
  BY DEF close_incomplete_tool_calls, Close
<1>2. Incomplete \subseteq logged /\ logged \subseteq Calls
  BY DEF Incomplete, IInv, TypeOK
<1>3. r \in CloserRow /\ r.pc = "next" /\ r.todo \subseteq logged
  BY <1>2 DEF CloserRow
<1> HIDE DEF r
<1>4. ASSUME clo'[k] = r PROVE CloInv(k)'
  BY <1>1, <1>3, <1>4 DEF CloInv, durable
<1> QED
  BY <1>1, <1>3, <1>4, CloserMovesStill, Zenon

\* recover_incomplete_session_tool_call(): the result of a logged call, which has
\* an intent, is its receipt, or is unknown and has to become the receipt.
LEMMA RecoverOpenStep ==
    ASSUME IInv, NEW k \in Closers, NEW c \in Calls,
           recover_incomplete_session_tool_call(k, c), UNCHANGED overlap
    PROVE  IInv'
<1> DEFINE s == clo[k]
           p == IF intent[c] # 0 /\ receipt[c] = None THEN "receipt" ELSE "log"
           v == IF intent[c] = 0 THEN Result("unstarted", k)
                ELSE IF receipt[c] # None THEN receipt[c]
                ELSE Result("indeterminate", k)
           r == [s EXCEPT !.pc = p, !.cur = <<c, v>>]
<1>1. /\ s.pc = "next" /\ c \in s.todo /\ clo' = [clo EXCEPT ![k] = r]
      /\ UNCHANGED <<durable, ran, att, crashes, overlap>>
  BY DEF recover_incomplete_session_tool_call, Close
<1>2. s \in CloserRow /\ CloInv(k)
  BY AtCloser
<1>3. intent[c] # 0
  BY <1>1, <1>2 DEF CloInv, IInv, StoreInv
<1>4. /\ Result("indeterminate", k) \in Results /\ Result("indeterminate", k) # None
      /\ receipt[c] \in Results
  <2>1. receipt[c] \in Results
    BY DEF IInv, TypeOK
  <2> QED
    BY <2>1 DEF Result, Results, None
<1>5. /\ v \in Results /\ v # None /\ p \in {"receipt", "log"}
      /\ p = "log" => v = receipt[c]
  BY <1>3, <1>4
<1> HIDE DEF p, v
<1>6. /\ r \in CloserRow /\ r.pc = p /\ r.todo = s.todo
      /\ r.cur # <<>> /\ r.cur[1] = c /\ r.cur[2] = v
  BY <1>2, <1>5, Zenon DEF CloserRow
<1> HIDE DEF r
<1>7. ASSUME clo'[k] = r PROVE CloInv(k)'
  BY <1>1, <1>2, <1>5, <1>6, <1>7 DEF CloInv, durable
<1>8. Closing(k)
  BY <1>1 DEF Closing
<1> QED
  BY <1>1, <1>5, <1>6, <1>7, <1>8, CloserMovesStill, Zenon

\* append_indeterminate_receipt(): the first receipt of a call stays.
LEMMA AppendReceiptStep ==
    ASSUME IInv, NEW k \in Closers, append_indeterminate_receipt(k), UNCHANGED overlap
    PROVE  IInv'
<1> DEFINE s == clo[k]
           c == s.cur[1]
           v == s.cur[2]
           r == [s EXCEPT !.pc = "log"]
<1>1. /\ s.pc = "receipt" /\ Closing(k)
      /\ UNCHANGED <<intent, logged, result, terminal, ran, att, crashes, overlap>>
  BY DEF append_indeterminate_receipt, Closing
<1>2. s \in CloserRow /\ CloInv(k) /\ c \in Calls /\ v \in Results /\ v # None
  BY <1>1, AtCloser
<1>3. CASE receipt[c] = None /\ receipt' = [receipt EXCEPT ![c] = v] /\ Close(k, r)
  <2>1. clo' = [clo EXCEPT ![k] = r]
    BY <1>3 DEF Close
  <2>2. r \in CloserRow /\ r.pc = "log" /\ r.todo = s.todo /\ r.cur = s.cur
    BY <1>2 DEF CloserRow
  <2> HIDE DEF r
  <2>3. /\ receipt' \in [Calls -> Results] /\ receipt'[c] = v
        /\ \A d \in Calls : d # c => receipt'[d] = receipt[d]
    BY <1>2, <1>3 DEF IInv, TypeOK
  <2>4. Gains(0) /\ StoreInv'
    BY <1>1, <1>3, <2>3 DEF Gains, IInv, StoreInv
  <2>5. ASSUME clo'[k] = r PROVE CloInv(k)'
    BY <1>1, <1>2, <2>2, <2>3, <2>5 DEF CloInv
  <2>6. result' \in [Calls -> Results] /\ terminal' \in BOOLEAN /\ terminal' = terminal
    BY <1>1 DEF IInv, TypeOK
  <2> QED
    BY <1>1, <2>1, <2>2, <2>3, <2>4, <2>5, <2>6, CloserMoves, Zenon
<1>4. CASE Close(k, IdleCloser) /\ UNCHANGED receipt
  BY <1>1, <1>4, IdleStep DEF durable
<1> QED
  BY <1>3, <1>4 DEF append_indeterminate_receipt

\* append_tool_result(): the record is written from the receipt.
LEMMA AppendResultStep ==
    ASSUME IInv, NEW k \in Closers, append_tool_result(k), UNCHANGED overlap
    PROVE  IInv'
<1> DEFINE s == clo[k]
           c == s.cur[1]
           v == s.cur[2]
           r == [pc |-> "next", todo |-> s.todo \ {c}, cur |-> <<>>]
<1>1. /\ s.pc = "log" /\ Closing(k)
      /\ UNCHANGED <<intent, receipt, logged, terminal, ran, att, crashes, overlap>>
  BY DEF append_tool_result, Closing
<1>2. /\ s \in CloserRow /\ CloInv(k) /\ c \in Calls /\ v \in Results /\ v # None
      /\ s.todo \subseteq Calls
  BY <1>1, AtCloser
<1>3. v = receipt[c]
  BY <1>1, <1>2 DEF CloInv
<1>4. CASE /\ Close(k, r)
           /\ \/ result[c] = None /\ result' = [result EXCEPT ![c] = v]
              \/ UNCHANGED result
  <2>1. clo' = [clo EXCEPT ![k] = r]
    BY <1>4 DEF Close
  <2>2. r \in CloserRow /\ r.pc = "next" /\ r.todo \subseteq s.todo
    BY <1>2 DEF CloserRow
  <2> HIDE DEF r
  <2>3. /\ result' \in [Calls -> Results]
        /\ \A d \in Calls : result'[d] # result[d] => result[d] = None /\ result'[d] = receipt[d]
    BY <1>2, <1>3, <1>4 DEF IInv, TypeOK
  <2>4. Gains(0) /\ StoreInv'
    BY <1>1, <2>3 DEF Gains, IInv, StoreInv
  <2>5. ASSUME clo'[k] = r PROVE CloInv(k)'
    BY <1>1, <1>2, <2>2, <2>5 DEF CloInv
  <2>6. receipt' \in [Calls -> Results] /\ terminal' \in BOOLEAN /\ terminal' = terminal
    BY <1>1 DEF IInv, TypeOK
  <2> QED
    BY <1>1, <2>1, <2>2, <2>3, <2>4, <2>5, <2>6, CloserMoves, Zenon
<1>5. CASE Close(k, IdleCloser) /\ UNCHANGED result
  BY <1>1, <1>5, IdleStep DEF durable
<1> QED
  BY <1>4, <1>5 DEF append_tool_result

\* append_agent_run_terminal() looks for an open call first.
LEMMA CheckOpenStep ==
    ASSUME IInv, NEW k \in Closers, check_open_calls(k), UNCHANGED overlap
    PROVE  IInv'
<1> DEFINE s == clo[k]
           r == [s EXCEPT !.pc = "terminal"]
<1>1. /\ s.pc = "next" /\ Closing(k) /\ UNCHANGED <<durable, ran, att, crashes, overlap>>
  BY DEF check_open_calls, Closing
<1>2. s \in CloserRow /\ CloInv(k)
  BY AtCloser
<1>3. CASE Incomplete = {} /\ Close(k, r)
  <2>1. clo' = [clo EXCEPT ![k] = r]
    BY <1>3 DEF Close
  <2>2. r \in CloserRow /\ r.pc = "terminal" /\ r.todo = s.todo
    BY <1>2 DEF CloserRow
  <2> HIDE DEF r
  <2>3. ASSUME clo'[k] = r PROVE CloInv(k)'
    BY <1>1, <1>2, <2>2, <2>3 DEF CloInv, durable
  <2> QED
    BY <1>1, <1>3, <2>1, <2>2, <2>3, CloserMovesStill, Zenon
<1>4. CASE Close(k, IdleCloser)
  BY <1>1, <1>4, IdleStep
<1> QED
  BY <1>3, <1>4 DEF check_open_calls

\* And appends: alone, it still finds no open call.
LEMMA TerminalStep ==
    ASSUME IInv, NEW k \in Closers, append_agent_run_terminal(k), UNCHANGED overlap
    PROVE  IInv'
<1>1. /\ clo[k].pc = "terminal" /\ Closing(k) /\ terminal' = TRUE
      /\ clo' = [clo EXCEPT ![k] = IdleCloser]
      /\ UNCHANGED <<intent, receipt, logged, result, ran, att, crashes, overlap>>
  BY DEF append_agent_run_terminal, Closing, Close
<1>2. IdleCloser \in CloserRow /\ IdleCloser.pc = "idle" /\ IdleCloser.todo = {}
  BY AtCloser
<1>3. Incomplete' = Incomplete /\ (~overlap => Incomplete = {})
  BY <1>1 DEF Incomplete, IInv, AloneInv
<1>4. Gains(0) /\ StoreInv'
  BY <1>1 DEF Gains, IInv, StoreInv
<1>5. ASSUME clo'[k] = IdleCloser PROVE CloInv(k)'
  BY <1>2, <1>5 DEF CloInv
<1>6. receipt' \in [Calls -> Results] /\ result' \in [Calls -> Results]
  BY <1>1 DEF IInv, TypeOK
<1> QED
  BY <1>1, <1>2, <1>3, <1>4, <1>5, <1>6, CloserMoves, Zenon

\* A crash: what was at work has failed, what is stored stays.
LEMMA CrashStep ==
    ASSUME IInv, crash, UNCHANGED overlap
    PROVE  IInv'
<1>1. /\ crashes < MaxCrash /\ crashes' = crashes + 1
      /\ att' = [a \in Attempts |-> IF Working(a) THEN [att[a] EXCEPT !.pc = "failed"] ELSE att[a]]
      /\ clo' = [k \in Closers |-> IdleCloser]
      /\ UNCHANGED <<intent, receipt, logged, result, terminal, ran, overlap>>
  BY DEF crash, durable
<1>2. \A k \in Closers : clo'[k] = IdleCloser
  BY <1>1
<1>3. IdleCloser \in CloserRow /\ IdleCloser.pc = "idle" /\ IdleCloser.todo = {}
  BY DEF IdleCloser, CloserRow
<1>4. ASSUME NEW a \in Attempts
      PROVE  /\ att'[a] \in AttemptRow /\ ~Working(a)'
             /\ AttInv(a)'
  <2> DEFINE s == att[a]
             r == [s EXCEPT !.pc = "failed"]
  <2>1. s \in AttemptRow /\ AttInv(a)
    BY DEF IInv, TypeOK
  <2>2. att'[a] = IF Working(a) THEN r ELSE s
    BY <1>1
  <2>3. UNCHANGED <<intent, receipt, logged, result, ran>>
    BY <1>1
  <2>4. CASE Working(a)
    <3>1. /\ r \in AttemptRow /\ r.pc = "failed" /\ r.todo = s.todo /\ r.known = s.known
          /\ r.seen = s.seen /\ r.queue = s.queue
      BY <2>1, MovedRow, Zenon DEF Stopped
    <3> HIDE DEF r
    <3>2. att'[a] = r
      BY <2>2, <2>4
    <3>3. AttInv(a)'
      BY <2>1, <2>3, <3>1, <3>2 DEF AttInv, HoldInv, CurInv, ReportInv
    <3> QED
      BY <3>1, <3>2, <3>3 DEF Working, Stopped
  <2>5. CASE ~Working(a)
    <3>1. att'[a] = att[a]
      BY <2>2, <2>5
    <3>2. AttInv(a)'
      BY <2>1, <2>3, <3>1 DEF AttInv, HoldInv, CurInv, ReportInv
    <3> QED
      BY <2>1, <2>5, <3>1, <3>2 DEF Working
  <2> QED
    BY <2>4, <2>5
<1>5. TypeOK'
  <2>1. att' \in [Attempts -> AttemptRow] /\ clo' \in [Closers -> CloserRow]
    BY <1>1, <1>3, <1>4, Zenon
  <2>2. crashes' \in 0..MaxCrash
    BY <1>1, BatchBounds DEF IInv, TypeOK
  <2>3. UNCHANGED <<intent, receipt, logged, result, terminal, ran, overlap>>
    BY <1>1
  <2> QED
    BY <2>1, <2>2, <2>3 DEF IInv, TypeOK
<1>6. StoreInv'
  BY <1>1 DEF IInv, StoreInv
<1>7. \A k \in Closers : CloInv(k)' /\ ~Closing(k)' /\ clo'[k].pc # "terminal"
  BY <1>2, <1>3 DEF CloInv, Closing
<1>8. AloneInv'
  <2>1. terminal' = terminal /\ overlap' = overlap /\ Incomplete' = Incomplete
    BY <1>1 DEF Incomplete
  <2>2. terminal /\ ~overlap => Incomplete = {}
    BY DEF IInv, AloneInv
  <2>3. \A a \in Attempts : ~Working(a)'
    BY <1>4
  <2> QED
    BY <1>7, <2>1, <2>2, <2>3 DEF AloneInv
<1> QED
  BY <1>4, <1>5, <1>6, <1>7, <1>8 DEF IInv

-----------------------------------------------------------------------------
(* The theorems. *)

\* Every step keeps the invariant.
LEMMA NextIInv == IInv /\ [Next]_<<vars, overlap>> => IInv'
<1> SUFFICES ASSUME IInv, [Next]_<<vars, overlap>> PROVE IInv'
  OBVIOUS
<1>1. CASE Next
  <2>1. UNCHANGED overlap
    BY <1>1 DEF Next
  <2>2. ASSUME NEW a \in Attempts, load_tool_execution_facts(a) PROVE IInv'
    BY <2>1, <2>2, LoadStep
  <2>3. ASSUME NEW a \in Attempts, AttemptStep(a) PROVE IInv'
    BY <2>1, <2>3, EnsureStep, CommitStep, SettleKnownStep, SettleNewStep, RunToolStep, SinkStep,
       PersistStep, NotifyStep, RecoverStep, FinishStep DEF AttemptStep
  <2>4. ASSUME NEW a \in Attempts, drop_attempt(a) PROVE IInv'
    BY <2>1, <2>4, FailStep DEF drop_attempt
  <2>5. ASSUME NEW k \in Closers, CloserStep(k) PROVE IInv'
    BY <2>1, <2>5, OpenCallsStep, RecoverOpenStep, AppendReceiptStep, AppendResultStep,
       CheckOpenStep, TerminalStep DEF CloserStep
  <2>6. CASE crash
    BY <2>1, <2>6, CrashStep
  <2> QED
    BY <1>1, <2>2, <2>3, <2>4, <2>5, <2>6 DEF Next
<1>2. CASE UNCHANGED <<vars, overlap>>
  <2>1. UNCHANGED <<intent, receipt, logged, result, terminal, ran, att, clo, crashes, overlap>>
    BY <1>2 DEF vars, durable
  <2>2. Gains(0) /\ 0 \notin Attempts
    BY <2>1, BatchBounds DEF Gains, Attempts
  <2>3. (\A a \in Attempts : AttInv(a)') /\ (\A k \in Closers : CloInv(k)')
    BY <2>1, <2>2, OthersKeep, ClosersKeep
  <2>4. TypeOK' /\ StoreInv' /\ AloneInv'
    BY <2>1 DEF IInv, TypeOK, StoreInv, AloneInv, Working, Closing, Incomplete
  <2> QED
    BY <2>3, <2>4 DEF IInv
<1> QED
  BY <1>1, <1>2

\* The invariant holds along every behaviour of attempts, closers and crashes.
THEOREM Invariance == Spec => []IInv
  BY InitIInv, NextIInv, PTL DEF Spec

\* Whatever crashes, is retried, dropped or overlaps, a tool is run at most once
\* for a call and only after its tool_call record (ensure_tool_execution_intent
\* and commit_session_tool_call come before the run).
THEOREM EffectOnce == Spec => []OneEffect
<1>1. IInv => OneEffect
  BY DEF IInv, StoreInv, OneEffect, ToolRunsOnce, EffectIsRecorded
<1> QED
  BY <1>1, Invariance, PTL

\* The log shows the receipt, a finished batch hands the model what the log shows,
\* and the log of an ended run has no open call unless attempts overlap.
THEOREM Agreement == Spec => []RecordsAgree
<1>1. IInv => TypeOK /\ LoggedIsReceipt
  BY DEF IInv, StoreInv, LoggedIsReceipt
<1>2. IInv => ReportedIsLogged
  BY DEF IInv, AttInv, ReportInv, ReportedIsLogged
<1>3. IInv => TerminalIsClosed
  BY DEF IInv, AloneInv, TerminalIsClosed
<1>4. IInv => RecordsAgree
  BY <1>1, <1>2, <1>3 DEF RecordsAgree
<1> QED
  BY <1>4, Invariance, PTL
===============================================================================
