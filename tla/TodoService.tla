---------------------------- MODULE TodoService ----------------------------
(***************************************************************************)
(* The todo resource: the domain entity (internal/todo), its use-cases     *)
(* (Service), the Postgres repository and the HTTP handlers, as many       *)
(* requests run them at once against one table.                            *)
(*                                                                         *)
(* A handler that makes one database call is one action.  The handlers     *)
(* that compute a todo and then store it (Create, Complete) are two: what  *)
(* they read is in `held` while other requests change the table, because   *)
(* the service opens no transaction.  The database may fail a call, and it *)
(* may fail a write that it has applied (the connection, the deadline or   *)
(* the client is gone before the acknowledgement).                         *)
(***************************************************************************)
EXTENDS Integers, FiniteSets

CONSTANTS
    Clients,          \* connections that issue create, get and complete
    Walkers,          \* clients that page through the list
    Ids,              \* the uuids newID may return; their order is the uuid order
    SentIds,          \* the ids clients send: uuids, NotUuid, OverlongId
    Titles,           \* titles as sent: [pad |-> blanks around, runes |-> length once trimmed]
    Limits,           \* values of the limit parameter
    MaxTitleLength,   \* maxTitleLength
    DefaultPageSize,
    MaxPageSize,
    Precision,        \* clock ticks per unit a timestamptz column can store
    Times             \* what time.Now may return, in any process that serves requests

ASSUME TitleAssumption == MaxTitleLength \in Nat \ {0}
                          /\ Titles \subseteq [pad : Nat, runes : Nat]
ASSUME PageAssumption == /\ DefaultPageSize \in 1..MaxPageSize
                         /\ MaxPageSize \in Nat
                         /\ Limits \subseteq Int
ASSUME TimeAssumption == Precision \in Nat \ {0} /\ Times \subseteq Nat
ASSUME IdAssumption == Ids \subseteq Nat /\ IsFiniteSet(Ids)

VARIABLES
    issued,   \* the uuids newID has returned
    rows,     \* the todos table: a todo or NoTodo for every id
    held,     \* per client: the todo its handler is about to save, or NoTodo
    reply,    \* per client: the last response
    walk      \* per walker: its walk through the pages

vars == <<issued, rows, held, reply, walk>>

-----------------------------------------------------------------------------
(* Data.                                                                   *)

NoTime == -1
Title == [pad : Nat, runes : Nat]
Status == {"open", "completed"}
Todo == [id : Ids, title : Title, status : Status, createdAt : Nat,
         completedAt : Nat \cup {NoTime}]
NoTodo == [id |-> -1]

\* Strings a client may send as an id that are not uuids.
NotUuid == -2
OverlongId == -3
ASSUME SentIdAssumption == SentIds \subseteq Ids \cup {NotUuid, OverlongId}

\* A position in the (created_at, id) ordering; NoCursor is the nil cursor.
NoCursor == [createdAt |-> -1, id |-> -1]
Cursor == [createdAt : Nat, id : Ids]

\* Who calls the use-case: an HTTP request, whose input Huma validates, or Go code.
Via == {"http", "direct"}

-----------------------------------------------------------------------------
(* The domain.                                                             *)

TrimSpace(title) == [title EXCEPT !.pad = 0]
ValidTitle(title) == TrimSpace(title).runes \in 1..MaxTitleLength

\* MUTANTS: the title is stored as sent; the creation time is left at zero.
NewTodo_Untrimmed(id, title, at) ==
    [id |-> id, title |-> title, status |-> "open", createdAt |-> at, completedAt |-> NoTime]
NewTodo_Unstamped(id, title, at) ==
    [id |-> id, title |-> TrimSpace(title), status |-> "open",
     createdAt |-> NoTime, completedAt |-> NoTime]

NewTodo(id, title, at) ==
    [id |-> id, title |-> TrimSpace(title), status |-> "open",
     createdAt |-> at, completedAt |-> NoTime]

CompleteTodo(t, at) ==
    IF t.status = "completed" THEN t
    ELSE [t EXCEPT !.status = "completed", !.completedAt = at]

\* The bounds Huma enforces from the struct tags, on the title as sent.
TitleInSchema(title) == title.pad + title.runes \in 1..MaxTitleLength
LimitInSchema(limit) == limit \in 1..MaxPageSize

\* MUTANT: only a missing limit is replaced.
ClampLimit_NoMax(limit) == IF limit <= 0 THEN DefaultPageSize ELSE limit

ClampLimit(limit) ==
    IF limit <= 0 THEN DefaultPageSize
    ELSE IF limit > MaxPageSize THEN MaxPageSize ELSE limit

-----------------------------------------------------------------------------
(* The repository.                                                         *)

\* timestamptz drops what is finer than its precision.
Trunc(t) == t - (t % Precision)

\* The row an upsert writes for a todo.
ToRow(t) ==
    [t EXCEPT !.createdAt = Trunc(t.createdAt),
              !.completedAt = IF t.completedAt = NoTime THEN NoTime ELSE Trunc(t.completedAt)]

Upsert(t) == [rows EXCEPT ![t.id] = ToRow(t)]

Stored == {i \in Ids : rows[i] # NoTodo}
FoundByID(id) == id \in Stored

KeyOf(i) == [createdAt |-> rows[i].createdAt, id |-> i]
KeyLess(a, b) == \/ a.createdAt < b.createdAt
                 \/ a.createdAt = b.createdAt /\ a.id < b.id

\* The ids the WHERE clause keeps, and the first n of them in ORDER BY order.
\* MUTANT: the comparison with the cursor is >=.
RowsAfter_Inclusive(cursor) ==
    {i \in Stored : cursor = NoCursor \/ ~KeyLess(KeyOf(i), cursor)}

RowsAfter(cursor) == {i \in Stored : cursor = NoCursor \/ KeyLess(cursor, KeyOf(i))}
FirstOf(S, n) == {i \in S : Cardinality({j \in S : KeyLess(KeyOf(j), KeyOf(i))}) < n}
ListTodos(cursor, n) == FirstOf(RowsAfter(cursor), n)

\* One row more than the page holds is fetched, to learn whether a page follows;
\* if so the page is cut to its limit and its last row is the next cursor.
Last(page) == CHOOSE i \in page : \A j \in page : ~KeyLess(KeyOf(i), KeyOf(j))
\* MUTANT: the next cursor is the row fetched in excess.
RepoList_CursorFromExtra(cursor, limit) ==
    LET fetched == ListTodos(cursor, limit + 1)
    IN IF Cardinality(fetched) > limit
       THEN [todos |-> FirstOf(fetched, limit), more |-> TRUE, next |-> KeyOf(Last(fetched))]
       ELSE [todos |-> fetched, more |-> FALSE, next |-> NoCursor]

\* MUTANT: every page has a next cursor, an empty one that of the request.
RepoList_AlwaysMore(cursor, limit) ==
    LET page == ListTodos(cursor, limit)
    IN [todos |-> page, more |-> TRUE, next |-> IF page = {} THEN cursor ELSE KeyOf(Last(page))]

RepoList(cursor, limit) ==
    LET fetched == ListTodos(cursor, limit + 1)
        page == FirstOf(fetched, limit)
    IN IF Cardinality(fetched) > limit
       THEN [todos |-> page, more |-> TRUE, next |-> KeyOf(Last(page))]
       ELSE [todos |-> fetched, more |-> FALSE, next |-> NoCursor]

-----------------------------------------------------------------------------
(* Responses.                                                              *)

ToHumaError == [NotFound |-> 404, InvalidTitle |-> 422, InvalidCursor |-> 422, Other |-> 500]

Respond(c, code, t) == reply' = [reply EXCEPT ![c] = [code |-> code, todo |-> t]]
Refuse(c, err) == Respond(c, ToHumaError[err], NoTodo)
Schema422(c) == Respond(c, 422, NoTodo)

Idle(c) == held[c] = NoTodo

-----------------------------------------------------------------------------
(* Create: validate and stamp, then save.                                  *)

CreateRejected(c, title, via) ==
    /\ Idle(c)
    /\ via = "http" /\ ~TitleInSchema(title)
    /\ Schema422(c)
    /\ UNCHANGED <<issued, rows, held, walk>>

CreateInvalid(c, id, title, via) ==
    /\ Idle(c) /\ id \notin issued
    /\ via = "http" => TitleInSchema(title)
    /\ ~ValidTitle(title)
    /\ issued' = issued \cup {id}
    /\ Refuse(c, "InvalidTitle")
    /\ UNCHANGED <<rows, held, walk>>

\* MUTANT: newID may return an id it returned before.
CreateBegin_IdReused(c, id, title, via, at) ==
    /\ Idle(c)
    /\ via = "http" => TitleInSchema(title)
    /\ ValidTitle(title)
    /\ issued' = issued \cup {id}
    /\ held' = [held EXCEPT ![c] = NewTodo(id, title, at)]
    /\ UNCHANGED <<rows, reply, walk>>

CreateBegin(c, id, title, via, at) ==
    /\ Idle(c) /\ id \notin issued
    /\ via = "http" => TitleInSchema(title)
    /\ ValidTitle(title)
    /\ issued' = issued \cup {id}
    /\ held' = [held EXCEPT ![c] = NewTodo(id, title, at)]
    /\ UNCHANGED <<rows, reply, walk>>

Create(c) ==
    \E title \in Titles, via \in Via :
        \/ CreateRejected(c, title, via)
        \/ \E id \in Ids : \/ CreateInvalid(c, id, title, via)
                          \/ \E at \in Times : CreateBegin(c, id, title, via, at)

(* Complete: find the todo and mark the copy, then save it.                *)

CompleteMissing(c, id) ==
    /\ Idle(c) /\ ~FoundByID(id)
    /\ IF id = OverlongId THEN Schema422(c) ELSE Refuse(c, "NotFound")
    /\ UNCHANGED <<issued, rows, held, walk>>

CompleteBegin(c, id, at) ==
    /\ Idle(c) /\ FoundByID(id)
    /\ held' = [held EXCEPT ![c] = CompleteTodo(rows[id], at)]
    /\ UNCHANGED <<issued, rows, reply, walk>>

Complete(c) ==
    \E id \in SentIds : CompleteMissing(c, id) \/ \E at \in Times : CompleteBegin(c, id, at)

(* The save that ends both.  The body is the todo the handler holds.       *)

Saved(c) ==
    /\ ~Idle(c)
    /\ rows' = Upsert(held[c])
    /\ Respond(c, IF held[c].status = "open" THEN 201 ELSE 200, held[c])
    /\ held' = [held EXCEPT ![c] = NoTodo]
    /\ UNCHANGED <<issued, walk>>

\* MUTANT: the error of the save is dropped.
SaveFailed_Swallowed(c) ==
    /\ ~Idle(c)
    /\ rows' \in {rows, Upsert(held[c])}
    /\ Respond(c, 200, held[c])
    /\ held' = [held EXCEPT ![c] = NoTodo]
    /\ UNCHANGED <<issued, walk>>

\* The save fails; the upsert has been applied or it has not.
SaveFailed(c) ==
    /\ ~Idle(c)
    /\ rows' \in {rows, Upsert(held[c])}
    /\ Refuse(c, "Other")
    /\ held' = [held EXCEPT ![c] = NoTodo]
    /\ UNCHANGED <<issued, walk>>

Save(c) == Saved(c) \/ SaveFailed(c)

(* Get, and the database error that any find may meet.                     *)

Get(c) ==
    /\ Idle(c)
    /\ \E id \in SentIds :
          \/ FoundByID(id) /\ Respond(c, 200, rows[id])
          \/ id = OverlongId /\ Schema422(c)
          \/ id # OverlongId /\ ~FoundByID(id) /\ Refuse(c, "NotFound")
    /\ UNCHANGED <<issued, rows, held, walk>>

FindFailed(c) ==
    /\ Idle(c)
    /\ Refuse(c, "Other")
    /\ UNCHANGED <<issued, rows, held, walk>>

-----------------------------------------------------------------------------
(* List.  A walk starts without a cursor and copies nextCursor back until  *)
(* a page comes without one; `base` is what was stored when it started.    *)

NoWalk == [state |-> "none", cursor |-> NoCursor, seen |-> {}, base |-> {},
           delivered |-> 0, code |-> 0]

\* Why a page is refused: the limit is outside the schema, the token does not
\* decode, the id of the cursor is not a uuid, the query fails.
ListError == [limit |-> 422, token |-> 422, uuid |-> ToHumaError.InvalidCursor,
              query |-> ToHumaError.Other]

\* The page after `cursor`, added to what the walk has seen so far.
TakePage(w, limit, cursor, seen, base, delivered) ==
    LET result == RepoList(cursor, limit)
    IN walk' = [walk EXCEPT ![w] =
           [state |-> IF result.more THEN "open" ELSE "done", cursor |-> result.next,
            seen |-> seen \cup result.todos, base |-> base,
            delivered |-> delivered + Cardinality(result.todos), code |-> 200]]

ListFirst(w, limit) ==
    /\ walk[w].state # "open"
    /\ TakePage(w, ClampLimit(limit), NoCursor, {}, Stored, 0)
    /\ UNCHANGED <<issued, rows, held, reply>>

ListNext(w, limit) ==
    /\ walk[w].state = "open"
    /\ TakePage(w, ClampLimit(limit), walk[w].cursor,
                walk[w].seen, walk[w].base, walk[w].delivered)
    /\ UNCHANGED <<issued, rows, held, reply>>

\* The walk stays where it was: the client may send its cursor again.
ListRefused(w) ==
    /\ \E cause \in DOMAIN ListError : walk' = [walk EXCEPT ![w].code = ListError[cause]]
    /\ UNCHANGED <<issued, rows, held, reply>>

Accepted(limit, via) == via = "http" => LimitInSchema(limit)
FirstPage(w) == \E limit \in Limits, via \in Via : Accepted(limit, via) /\ ListFirst(w, limit)
NextPage(w) == \E limit \in Limits, via \in Via : Accepted(limit, via) /\ ListNext(w, limit)

-----------------------------------------------------------------------------
Init ==
    /\ issued = {}
    /\ rows = [i \in Ids |-> NoTodo]
    /\ held = [c \in Clients |-> NoTodo]
    /\ reply = [c \in Clients |-> [code |-> 0, todo |-> NoTodo]]
    /\ walk = [w \in Walkers |-> NoWalk]

Next ==
    \/ \E c \in Clients : Create(c) \/ Complete(c) \/ Save(c) \/ Get(c) \/ FindFailed(c)
    \/ \E w \in Walkers : FirstPage(w) \/ NextPage(w) \/ ListRefused(w)

Spec == Init /\ [][Next]_vars

\* A walker keeps asking and its query does not fail for ever.
FairSpec == Spec /\ \A w \in Walkers : WF_vars(NextPage(w))

-----------------------------------------------------------------------------
(* Properties.                                                             *)

\* Every variable keeps its type.
TypeOK ==
    /\ issued \subseteq Ids
    /\ rows \in [Ids -> Todo \cup {NoTodo}]
    /\ held \in [Clients -> Todo \cup {NoTodo}]
    /\ reply \in [Clients -> [code : {0, 200, 201, 404, 422, 500}, todo : Todo \cup {NoTodo}]]
    /\ walk \in [Walkers -> [state : {"none", "open", "done"}, cursor : Cursor \cup {NoCursor},
                             seen : SUBSET Ids, base : SUBSET Ids,
                             delivered : Nat, code : {0, 200, 422, 500}]]

\* What the table holds is a todo the domain allows, whoever raced to write it:
\* stored under its own id, with a trimmed title of legal length, and with a
\* completion time exactly when it is completed (NewTodo, Todo.Complete, the
\* whole-row upsert).
RowsWellFormed ==
    \A i \in Stored :
        /\ rows[i].id = i
        /\ rows[i].title.pad = 0 /\ rows[i].title.runes \in 1..MaxTitleLength
        /\ (rows[i].completedAt = NoTime) <=> (rows[i].status = "open")

\* A body a client was given stays true of the table: the todo is there, with the
\* title and (up to the column's precision) the creation time of the body, and a
\* todo once reported completed is never open again, although Complete writes back
\* a whole row it read earlier.
AnswersStayTrue ==
    \A c \in Clients :
        LET t == reply[c].todo IN
        t # NoTodo =>
            /\ t.id \in Stored
            /\ rows[t.id].title = t.title
            /\ rows[t.id].createdAt = Trunc(t.createdAt)
            /\ t.status = "completed" => rows[t.id].status = "completed"

\* No step of any request rewrites history: a stored todo stays stored, keeps its
\* title and creation time (the pagination key), and is never reopened, even by a
\* save of a copy that was read before another request's save.
HistoryKept ==
    [][\A i \in Stored :
         /\ rows'[i] # NoTodo
         /\ rows'[i].title = rows[i].title
         /\ rows'[i].createdAt = rows[i].createdAt
         /\ rows[i].status = "completed" => rows'[i].status = "completed"]_rows

\* "Completing an already-completed todo is idempotent and preserves the original
\* completion time" (todo.go): once stored, a completion time never changes.
CompletionTimeKept ==
    [][\A i \in Stored : rows[i].status = "completed"
          => rows'[i].completedAt = rows[i].completedAt]_rows

\* A walk misses nothing that was stored when it began: it has delivered every
\* such todo at or before its cursor, and all of them once a page came without a
\* nextCursor, whatever was inserted or completed meanwhile and however the
\* limit changed from page to page.
WalkMissesNothing ==
    \A w \in Walkers : \A i \in walk[w].base :
        (\/ walk[w].state = "done"
         \/ walk[w].state = "open" /\ ~KeyLess(walk[w].cursor, KeyOf(i)))
        => i \in walk[w].seen

\* A page leaves no gap behind the cursor it returns: of what is stored when the
\* query runs, everything from the request's cursor up to nextCursor (all of it when
\* there is none) is on the page.  A todo that a walk misses can therefore only be
\* one saved behind its cursor later: createdAt is stamped before the insert commits.
PagesLeaveNoGap ==
    [][\A w \in Walkers :
         LET from == IF walk[w].state = "open" THEN walk[w].cursor ELSE NoCursor
             passed == {i \in Stored : /\ from = NoCursor \/ KeyLess(from, KeyOf(i))
                                       /\ \/ walk'[w].state = "done"
                                          \/ ~KeyLess(walk'[w].cursor, KeyOf(i))}
         IN walk'[w].code = 200 /\ walk'[w] # walk[w] => passed \subseteq walk'[w].seen]_walk

\* No todo is delivered twice in one walk: the pages it was given add up to the
\* number of different todos on them.
WalkRepeatsNothing ==
    \A w \in Walkers : Cardinality(walk[w].seen) = walk[w].delivered

\* "returns at most `limit` todos (default 20, max 100)": no page is larger than
\* MaxPageSize, for a direct caller of the service too, although the query
\* fetches one row more.
PagesBounded ==
    [][\A w \in Walkers :
         walk'[w].delivered <= MaxPageSize
         \/ walk'[w].delivered - walk[w].delivered <= MaxPageSize]_walk

\* A walk makes progress although todos are created meanwhile, behind its cursor or
\* ahead of it: whatever is stored ahead of the cursor is delivered in the end, as
\* clocks advance and only so many todos are stamped before it; and the walk ends,
\* unless todos are created for ever, when there may always be one more ahead.
\* ListTodos compares with >, and List returns a cursor only when a row was left out.
WalkProgresses ==
    \A w \in Walkers :
        /\ \A i \in Ids :
              (walk[w].state = "open" /\ i \in Stored /\ KeyLess(walk[w].cursor, KeyOf(i)))
                  ~> i \in walk[w].seen
        /\ []<><<Stored' # Stored>>_rows \/ (walk[w].state = "open" ~> walk[w].state = "done")
=============================================================================
