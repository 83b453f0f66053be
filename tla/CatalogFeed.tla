------------------------------ MODULE CatalogFeed ------------------------------
(***************************************************************************)
(* The paged Session list: the Host's numbered catalog entries             *)
(* (runtime/src/session_catalog/paging.rs) and the view that follows them  *)
(* (ui/src/lib/sessionCatalogClient.ts), which loads bounded windows and   *)
(* then asks for changes.                                                  *)
(*                                                                         *)
(* Every request is one step of the Host; entries change between any two.  *)
(* A Session is listed in its scope by the time of its last change, the    *)
(* newest first.                                                           *)
(***************************************************************************)
EXTENDS Integers, Sequences, FiniteSets, FiniteSetsExt

CONSTANTS
    Sessions,
    Window,       \* rows of a page and of a loaded window (50)
    ChangeLimit,  \* entries of an answer about changes (100)
    Retained,     \* revisions a deletion is remembered for (4096)
    MaxStamp,     \* bound: changes of Sessions
    MaxRebuilds,  \* bound: times the index file is made anew
    MaxFailures   \* bound: requests that fail

FeedAssumption ==
    /\ {Window, ChangeLimit, Retained} \subseteq Nat \ {0}
    /\ {MaxStamp, MaxRebuilds, MaxFailures} \subseteq Nat

VARIABLES
    stamp,       \* time of the last change of a Session
    generation,  \* identity of the index file
    revision,    \* number of the last published change
    entries,     \* Session -> [rev, sum]; rev 0 when there is no entry
    rows,        \* Session -> the summary the view has, or Gone
    scopes,      \* scope -> its loaded window
    cursor,      \* where the view follows changes from, or NoCursor
    todo,        \* what is left of the view's operation
    failures,
    outcome,     \* how the view's last initialize or sync ended
    stray,       \* pages still under way when the load that asked for them failed
    late         \* history: a page older than the cursor was merged

host == <<stamp, generation, revision, entries>>
strays == <<stray, late>>
vars == <<stamp, generation, revision, entries, rows, scopes, cursor, todo, failures, outcome, stray, late>>

Modes == {"pinned", "recent"}
Gone == [mode |-> "none", updated |-> 0]
NoEntry == [rev |-> 0, sum |-> Gone]
NoCursor == [generation |-> 0, revision |-> 0]
NoPage == [generation |-> 0, revision |-> 0, key |-> 0]
Empty == [ids |-> {}, next |-> NoPage, capacity |-> Window]
Idle == todo = <<>>

Init ==
    /\ stamp = 0 /\ generation = 1 /\ revision = 0
    /\ entries = [s \in Sessions |-> NoEntry]
    /\ rows = [s \in Sessions |-> Gone]
    /\ scopes = [m \in Modes |-> Empty]
    /\ cursor = NoCursor
    /\ todo = <<>>
    /\ failures = 0 /\ outcome = "none"
    /\ stray = {} /\ late = FALSE

-----------------------------------------------------------------------------
\* The Host.

\* A deletion is kept while a cursor that has not seen it may still be served.
Pruned(es, rev) ==
    [s \in Sessions |-> IF es[s].sum = Gone /\ es[s].rev < rev - Retained THEN NoEntry ELSE es[s]]

\* An unchanged summary gets no number.
publish(s, sum) ==
    /\ entries[s] = NoEntry \/ sum # entries[s].sum
    /\ revision' = revision + 1
    /\ entries' = Pruned([entries EXCEPT ![s] = [rev |-> revision + 1, sum |-> sum]], revision + 1)
    /\ UNCHANGED generation

\* A Session is created, used, pinned or unpinned.
session_changes(s, m) ==
    /\ stamp < MaxStamp /\ stamp' = stamp + 1
    /\ publish(s, [mode |-> m, updated |-> stamp + 1])
    /\ UNCHANGED <<rows, scopes, cursor, todo, failures, outcome, strays>>

\* Its log is gone, or was never finished.
session_deleted(s) ==
    /\ stamp < MaxStamp /\ stamp' = stamp + 1
    /\ publish(s, Gone)
    /\ UNCHANGED <<rows, scopes, cursor, todo, failures, outcome, strays>>

\* The index is rebuilt from the logs in a new file, in any order.
install ==
    LET live == {s \in Sessions : entries[s].sum # Gone} IN
    /\ generation <= MaxRebuilds /\ generation' = generation + 1
    /\ revision' = Cardinality(live)
    /\ \E order \in [live -> 1 .. Cardinality(live)] :
          /\ \A s, t \in live : s # t => order[s] # order[t]
          /\ entries' = [s \in Sessions |->
                IF s \in live THEN [rev |-> order[s], sum |-> entries[s].sum] ELSE NoEntry]
    /\ UNCHANGED <<stamp, rows, scopes, cursor, todo, failures, outcome, strays>>

Here == [generation |-> generation, revision |-> revision]

\* Mutant: a cursor is served however old it is.
ResetChanges_never(c) == c.generation # generation \/ c.revision > revision

\* A cursor of changes is refused when its file is gone, or when deletions it
\* has not seen may be forgotten.
ResetChanges(c) ==
    \/ c.generation # generation
    \/ c.revision > revision
    \/ c.revision < revision - Retained

\* The entries after a cursor, in the order of their numbers.
Changed(c) ==
    LET after == {s \in Sessions : entries[s].rev > c.revision} IN
    {s \in after : Cardinality({t \in after : entries[t].rev < entries[s].rev}) < ChangeLimit}

ChangesCursor(c) ==
    LET after == {s \in Sessions : entries[s].rev > c.revision} IN
    IF Cardinality(after) > ChangeLimit
    THEN [generation |-> generation, revision |-> Max({entries[s].rev : s \in Changed(c)})]
    ELSE Here

\* The rows of a list after a key: the newest first; key 0 is the beginning.
Listing(m, key) ==
    {s \in Sessions : entries[s].sum.mode = m /\ (key = 0 \/ entries[s].sum.updated < key)}
Page(m, key) ==
    {s \in Listing(m, key) :
        Cardinality({t \in Listing(m, key) : entries[t].sum.updated > entries[s].sum.updated}) < Window}
NextPage(m, key) ==
    IF Cardinality(Listing(m, key)) > Window
    THEN [generation |-> generation, revision |-> revision,
          key |-> Min({entries[s].sum.updated : s \in Page(m, key)})]
    ELSE NoPage

\* A list cursor holds for one revision only.
ResetPage(c) == c.generation # generation \/ c.revision # revision

-----------------------------------------------------------------------------
\* The view.
Merged(rs, ss) == [s \in Sessions |-> IF s \in ss THEN entries[s].sum ELSE rs[s]]
Loaded(ids, next) == [ids |-> ids, next |-> next, capacity |-> Max({Window, Cardinality(ids)})]

\* A page of a scope: the first one, or the one after its cursor.
Paged(m, key, append) ==
    /\ rows' = Merged(rows, Page(m, key))
    /\ scopes' = [scopes EXCEPT ![m] =
           Loaded((IF append THEN @.ids ELSE {}) \cup Page(m, key), NextPage(m, key))]

\* The view starts to follow before it reads the lists, into new scopes.
StartOver ==
    /\ cursor' = Here
    /\ rows' = [s \in Sessions |-> Gone]
    /\ scopes' = [m \in Modes |-> Empty]
    /\ stray' = {[p EXCEPT !.registered = FALSE] : p \in stray}
    /\ late' = FALSE

\* Pages are asked for together: either may be served first.
initialize ==
    /\ Idle
    /\ StartOver
    /\ todo' \in {<<"load", "pinned", "recent">>, <<"load", "recent", "pinned">>}
    /\ UNCHANGED <<host, failures, outcome>>

load_page ==
    /\ ~Idle /\ todo[1] \in {"load", "more"}
    /\ Paged(todo[2], 0, FALSE)
    /\ todo' = IF Len(todo) = 2 THEN <<>> ELSE <<"load">> \o SubSeq(todo, 3, Len(todo))
    /\ outcome' = IF todo[1] = "load" /\ Len(todo) = 2 THEN "ok" ELSE outcome
    /\ UNCHANGED <<host, cursor, failures, strays>>

\* The next page; a cursor that no longer holds starts the scope again.
more(m) ==
    /\ Idle /\ scopes[m].next # NoPage
    /\ IF ResetPage(scopes[m].next)
       THEN todo' = <<"more", m>> /\ UNCHANGED <<rows, scopes>>
       ELSE Paged(m, scopes[m].next.key, TRUE) /\ UNCHANGED todo
    /\ UNCHANGED <<host, cursor, failures, outcome, strays>>

sync ==
    /\ Idle
    /\ UNCHANGED <<host, failures, outcome>>
    /\ IF cursor = NoCursor
       THEN StartOver /\ todo' \in {<<"load", "pinned", "recent">>, <<"load", "recent", "pinned">>}
       ELSE IF ResetChanges(cursor)
       THEN todo' = <<"restart">> /\ UNCHANGED <<rows, scopes, cursor, strays>>
       ELSE /\ rows' = Merged(rows, Changed(cursor))
            /\ scopes' = [m \in Modes |-> [scopes[m] EXCEPT !.ids =
                             @ \ {s \in Changed(cursor) : entries[s].sum = Gone}]]
            /\ cursor' = ChangesCursor(cursor)
            /\ todo' = <<"windows", "pinned", "recent">>
            /\ UNCHANGED strays

restart ==
    /\ ~Idle /\ todo[1] = "restart"
    /\ StartOver
    /\ todo' \in {<<"load", "pinned", "recent">>, <<"load", "recent", "pinned">>}
    /\ UNCHANGED <<host, failures, outcome>>

Candidates(m) == {s \in Sessions : rows[s].mode = m}
Newest(m, n) ==
    {s \in Candidates(m) : Cardinality({t \in Candidates(m) : rows[t].updated > rows[s].updated}) < n}

\* Each window is cut to its size; one that was complete and overflows is
\* loaded again, to learn where it goes on.
window ==
    /\ ~Idle /\ todo[1] = "windows" /\ Len(todo) > 1
    /\ LET m == todo[2] IN
       IF Cardinality(Candidates(m)) > scopes[m].capacity /\ scopes[m].next = NoPage
       THEN Paged(m, 0, FALSE)
       ELSE scopes' = [scopes EXCEPT ![m].ids = Newest(m, scopes[m].capacity)] /\ UNCHANGED rows
    /\ todo' = <<"windows">> \o SubSeq(todo, 3, Len(todo))
    /\ UNCHANGED <<host, cursor, failures, outcome, strays>>

\* Rows outside every window are dropped.
retain ==
    /\ todo = <<"windows">>
    /\ rows' = [s \in Sessions |-> IF \E m \in Modes : s \in scopes[m].ids THEN rows[s] ELSE Gone]
    /\ todo' = <<>> /\ outcome' = "ok"
    /\ UNCHANGED <<host, scopes, cursor, failures, strays>>

\* A request fails: the operation ends where it stands.  Promise.all rejects at
\* once, and the other page of a load stays under way.
request_fails ==
    /\ failures < MaxFailures /\ failures' = failures + 1
    /\ ~Idle /\ todo # <<"windows">>
    /\ todo' = <<>> /\ outcome' = "failed"
    /\ stray' = IF todo[1] = "load" /\ Len(todo) = 3
                THEN stray \cup {[mode |-> todo[3], served |-> FALSE, registered |-> TRUE]} ELSE stray
    /\ UNCHANGED <<host, rows, scopes, cursor, late>>

\* The Host answers such a page.
stray_served(p) ==
    /\ ~p.served
    /\ stray' = (stray \ {p}) \cup
          {[mode |-> p.mode, served |-> TRUE, registered |-> p.registered, at |-> Here,
            items |-> [s \in Page(p.mode, 0) |-> entries[s].sum], next |-> NextPage(p.mode, 0)]}
    /\ UNCHANGED <<host, rows, scopes, cursor, todo, failures, outcome, late>>

\* It is merged whatever the queue is at, into the rows and into the scope it
\* was asked for, if that is still registered; or it fails as well.
stray_merged(p) ==
    /\ p.served
    /\ stray' = stray \ {p}
    /\ rows' = [s \in Sessions |-> IF s \in DOMAIN p.items THEN p.items[s] ELSE rows[s]]
    /\ scopes' = IF p.registered
                 THEN [scopes EXCEPT ![p.mode] = Loaded(DOMAIN p.items, p.next)] ELSE scopes
    /\ late' = (late \/ (cursor # NoCursor
                            /\ (cursor.generation # p.at.generation \/ cursor.revision > p.at.revision)))
    /\ UNCHANGED <<host, cursor, todo, failures, outcome>>

stray_fails(p) ==
    /\ stray' = stray \ {p}
    /\ UNCHANGED <<host, rows, scopes, cursor, todo, failures, outcome, late>>

Next ==
    \/ \E s \in Sessions : session_deleted(s) \/ \E m \in Modes : session_changes(s, m)
    \/ install
    \/ initialize \/ load_page \/ sync \/ restart \/ window \/ retain \/ request_fails
    \/ \E m \in Modes : more(m)
    \/ \E p \in stray : stray_served(p) \/ stray_merged(p) \/ stray_fails(p)

Spec == Init /\ [][Next]_vars

-----------------------------------------------------------------------------
\* State has its type; the numbers of entries are distinct and not in the
\* future.
TypeOK ==
    /\ stamp \in 0 .. MaxStamp /\ generation \in 1 .. MaxRebuilds + 1
    /\ \A s \in Sessions : entries[s].rev \in 0 .. revision
    /\ \A s, t \in Sessions : s # t /\ entries[s].rev > 0 => entries[s].rev # entries[t].rev
    /\ \A m \in Modes : scopes[m].ids \subseteq Sessions /\ scopes[m].capacity >= Window
    /\ Cardinality(stray) <= failures /\ late \in BOOLEAN

\* The last initialize or sync succeeded, and there is nothing newer.
CaughtUp == Idle /\ outcome = "ok" /\ cursor = Here

\* A view that has every change shows no deleted Session and no old summary,
\* although deletions are forgotten and lists were read at other revisions.  A
\* page of a failed load may come late, as long as it is no older than the
\* cursor it is merged beside.
ShownIsCurrent ==
    CaughtUp /\ ~late => \A s \in Sessions : rows[s] # Gone => rows[s] = entries[s].sum

\* "all requests share one queue" (sessionCatalogClient.ts:24): no page is merged
\* out of its turn.  It does not hold (README, section 6).
ShownIsAlwaysCurrent ==
    CaughtUp => \A s \in Sessions : rows[s] # Gone => rows[s] = entries[s].sum

\* A view that has every change shows every Session, or offers more of its list
\* (sessionCatalogClient.ts: observation starts before the pages are read, "so
\* concurrent changes cannot be lost"), while none of its requests fails.
NothingHidden ==
    CaughtUp /\ failures = 0 => \A s \in Sessions :
        entries[s].sum # Gone => rows[s] # Gone \/ scopes[entries[s].sum.mode].next # NoPage

\* A view that has every change shows the list: nothing old, nothing deleted,
\* nothing missing (initialize, sync, more).
ViewMatchesList == TypeOK /\ ShownIsCurrent /\ NothingHidden
=============================================================================
