# A TLA+ model of template-go-api

These modules model the core of the service: the todo resource over its
Postgres table, the rate limiter, the composition root with its start-up and
shutdown, the middleware chain around every request, the authorization engine,
and around them the configuration, the commands, the migrations and the local
stack. TLC checks them on small instances; TLAPS proves every safety property of the
passing runs, and both refinements, for every instance.

Paths below are relative to `src/internal/` unless they start with `src/`.

## 1. The system

### 1.1 Components

| Component | State | Operations | Talks to |
|---|---|---|---|
| todo domain and service (`todo/`) | none of its own; a `Todo` in hand while a use-case runs | `NewTodo`, `Todo.Complete`; `Service.Create`, `Get`, `List`, `Complete` | the repository port, twice in `Create`/`Complete`, with no transaction |
| todo Postgres repository (`todo/postgres`) | the `todos` table | `Save` (upsert of the whole row), `FindByID`, `List` (keyset query, limit + 1), `Ping` | the pool |
| todo handlers (`todo/httpapi`) | none | create, get, list, complete; cursor encoding; error to status | the service |
| rate limiter (`ratelimit/memory.go`) | the map of buckets and their last-seen times; a janitor goroutine with a ticker | `Allow`, `bucket`, `evictIdle`, `Stop` | `golang.org/x/time/rate` |
| rate-limit middleware (`ratelimit/middleware.go`) | none | `limit`: admit, 429 with `Retry-After`, or let through when the limiter fails | the limiter |
| composition root (`app/`, `cli/serve.go`) | pool, limiter, tracer, servers, the `serveErr` channel | `New`, `Run`, `shutdown`, the deferred cleanup | everything |
| pool (`adapter/postgres`) | pgx connections | `Connect` with its ping, acquire and release, `Close` | Postgres |
| router and middleware (`adapter/http`) | per request: the chain it is in | `Recoverer`, `RequestLogger`, `CORS`, `Metrics`, `Timeout`, the Huma gates | handlers |
| observability (`observability/`, `logctx/`) | in-flight gauge, request counter, tracer provider | access line, metrics, spans | the chain |
| authorization engine (`authz/`) | the type-to-resolver map; per request a getter with a cache and an error sink | `New` (policy files, merge, type ownership), `authenticate`, `authorize`, `evaluate`, `getter.Get` | Cedar, the slices' resolvers |
| api keys (`authz/apikey`) | the `api_keys` table | `Authenticate`, `Lookup` | the pool |
| todo authz slice (`todo/authz`) | none | `Resolve` of a `Todo` entity | the repository |
| configuration (`config/`, `cli/root.go`) | none; flags, variables and defaults | `Load`, `Validate` | pflag, Viper |
| commands (`cli/`, `src/cmd`) | one process each: what it was given, its exit code | `serve`, `migrate up/down/status`, `openapi`, `version` | the configuration, `app`, goose |
| migrations (`adapter/postgres/migrate.go`, `migrations/`) | the tables and goose's `goose_db_version` | `Migrate` with `up`, `down`, `status` | goose |
| local stack (`src/compose.yaml`, `src/hack/sql`) | which of its services ran, and how they ended | `migrate`, then `seed`, then `api` | the commands, psql |
| OpenAPI export (`adapter/http/api.go`) | none | `SpecYAML`, `OpenAPIYAML` | Huma, `authz.DocumentSecurity` |

### 1.2 What is hard

* **Read, then save, without a transaction** (`todo/service.go:115-129`): two
  requests hold copies of one row and write whole rows back.
* **Pages over a table that changes** (`todo/postgres/repository.go:68-108`): a
  keyset cursor, one row fetched in excess, limits that vary.
* **Writes whose acknowledgement is lost**: the client is told 500 about a
  change that took place.
* **A bucket used after the lock that found it was released**
  (`ratelimit/memory.go:69`), beside a janitor that evicts buckets; reservations
  of one key that interleave with each other's cancellations.
* **A ticker whose ticks are dropped**, and a `select` that may prefer the tick
  to the stop channel.
* **Start-up that fails half way; a server that fails; a signal at any moment;
  one grace period for all servers; a pool that waits for its connections.**
* **Panics and deadlines** in a chain in which some steps are deferred and some
  are not, and in which a response can be written twice.
* **Facts that change, and loads that fail, in the middle of one Cedar
  evaluation**; a principal type that a slice owns; policies of several slices and
  files merged under one set of ids.
* **Migrations without a lock** (`adapter/postgres/migrate.go:35`): several
  processes read the same current version, and any of them may die between two
  queries or miss the answer to a commit.
* **Steps that only an exit code keeps in order**: `serve` never looks at the
  schema.
* **Two parsers for one setting**: pflag refuses what Viper silently turns into a
  zero value.

`PROJECT.json` lists each of these as a hazard at its line, with the properties
that would catch it going wrong.

### 1.3 What makes each part correct

* *Todo*: rows obey the domain's rules whoever raced to write them; a body a
  client was given stays true; no save rewrites a title, a creation time or a
  completion; a walk through the pages misses nothing that was there, repeats
  nothing, has bounded pages, gets past everything that is there and ends unless
  more is created.
* *Limiter*: requests and janitor never disagree about which bucket a key has;
  nothing mints tokens; an unused bucket goes away; a denied check costs nothing
  and its `Retry-After` is long enough; `Stop` ends the goroutine.
* *Lifecycle*: every exit of `Run` releases everything; a nil from `Run` means a
  drained process; a signal ends the process; no goroutine stays behind.
* *Pipeline*: a handler runs only behind every configured gate; the gauge, the
  access line and the metric tell the truth; panics end as intended; every
  request ends.
* *Authorization*: a request proceeds only for a reason; a failed load fails
  closed; an evaluation sees one version of the facts; a slice cannot answer for
  the caller; no policy that was given to `New` is lost.
* *Migrations*: the ledger tells the schema whatever happened to the runs that
  wrote it; an `up` that ended well applied everything.
* *Stack and commands*: the api serves only what was migrated and seeded; a
  variable means what the flag of the same name means.

## 2. Modules

| Module | Models | Composes |
|---|---|---|
| `TodoService` | domain, service, repository and handlers of the todo resource | |
| `TodoServiceProofs` | theorems about it | `TodoService` |
| `TokenBucket` | what the limiter promises (`ratelimit/memory.go:15-18`) | |
| `RateLimiter` | `InMemory`, its janitor, `Retry-After` | implements `TokenBucket` |
| `RateLimiterProofs` | theorems about its map and its janitor | `RateLimiter` |
| `RateLimiterQuotaProofs` | theorems about its tokens, and that it implements `TokenBucket` | `RateLimiterProofs` |
| `AppLifecycle` | `New`, `Run`, shutdown, cleanup, pool and requests in flight | |
| `AppLifecycleProofs` | theorems about it | `AppLifecycle` |
| `HttpPipeline` | the chi and Huma middleware around every request | |
| `HttpPipelineProofs` | theorems about it | `HttpPipeline` |
| `AuthzEngine` | engine construction, authentication, authorization, getter | |
| `AuthzEngineProofs` | theorems about it | `AuthzEngine` |
| `Configuration` | flags, variables, defaults, `Load`, `Validate`, as operators | |
| `Migrations` | `Migrate` and goose's runs over one database | |
| `MigrationsProofs` | theorems about them | `Migrations` |
| `CommandLine` | the commands, their processes, the compose stack and an operator | `Configuration`, `Migrations` |
| `CommandLineProofs` | theorems about them, and that they implement `Migrations` | `CommandLine`, `MigrationsProofs` |
| `MC...` | small instances of each, for TLC | |

The components share little state at run time: the pool (in `AppLifecycle`,
where its closing matters), the table (in `TodoService`), and the middleware
order (in `HttpPipeline`, where the limiter and the authorizer are gates with
every outcome their own modules allow them). `RateLimiter` and `AuthzEngine` are
the insides of two of those gates.

Definitions keep the names of the code where they can. A definition marked
`\* MUTANT` is a plausible wrong version of the one that follows it; no
specification uses it. `PROJECT.json` pairs every checked property with a mutant
that breaks it.

### 2.1 `TodoService`

`rows` is the table, `held` the todo that a handler has computed and not yet
saved, `reply` the last response of each client, `walk` each walker's progress
through the pages, `issued` the uuids handed out. There is no clock in the model:
`time.Now` is read by any of several processes, so a use-case is stamped with any
reading of `Times`, later or earlier than the last.

A handler that makes one database call is one action (`Get`, `FirstPage`,
`NextPage`, and the refusals). `Create` and `Complete` are two: `CreateBegin` or
`CompleteBegin` computes the todo, `Saved` or `SaveFailed` ends the request, and
anything may happen in between. `SaveFailed` leaves the table as it was or
changed. Each use-case is entered over HTTP, where Huma's schema limits apply
first, or directly, where only the service's own checks do. A title is its
length and the blanks around it; a time loses what the column cannot store
(`Trunc`); a cursor is the key it encodes, since its base64 form is a bijection
and a token that does not decode is one of the refusals of `ListRefused`.

### 2.2 `RateLimiter` and `TokenBucket`

`Allow` is its critical sections: `Bucket` (the map under its lock), `Reserve`,
`Granted` or `Denied` (the delay), `Cancel`. Between them any other request, the
janitor and the clock may run. Instants are kept as distances from now, in ticks;
a token costs `Cost` ticks of refill, so levels are integers, and a bucket's level
is kept refilled, which is what `rate.Limiter` computes whenever it is next used.
`event` and `wait` are `lastEvent` and `timeToAct`, from which `Cancel` decides
what it can give back. `rate.Limiter` reads the clock just before its lock; the
model takes both as one instant.

`JanitorTick` and `Sweep` are `evictIdle` before and after it takes the lock,
because its cutoff is computed before; the ticker's channel holds one tick and
drops the rest (`Ticked`). `Retry-After` is part of `Denied`.

`fair` is a ledger and not state of the code: the level each key would have if
cancelled checks had never been made. `TokenBucket` has one variable, the quota of
each key, which refills and is granted from; `ImplementsTokenBucket` maps it to
the ledger plus the reservations not yet decided. `crossed` is history: the keys of
which a reservation was made while another was held, or was cancelled only after its
time had come, when `rate.Limiter` gives nothing back. `CancelIsExact` and
`RetryHonest` are about the others.

### 2.3 `AppLifecycle`

`pc` is the main goroutine: the steps of `New` in order (each error returns with
what was built so far), `Run`'s start, its `select`, `shutdown` server by server
with the shared grace period, and the deferred calls, last deferred first. The
server goroutines (`Listen`, `ServeEnds`, `Report`) run beside it, `Listen` racing
`BeginShutdown`. Requests are in flight from the moment their connection is
accepted, and those of the API server take a connection for one query at a time
(`Acquire`, `Release`), or find the pool closed (`AcquireFails`). The
configuration is any: repository injected or Postgres, authorization off, with
api keys or with an injected authenticator, limiter, tracing and the dedicated
metrics server on or off. `Faults` says what may go wrong.

### 2.4 `HttpPipeline`

A request has a kind, which with the configuration determines its `Chain`. It
walks in (`Enter...`), is answered somewhere, and walks out (`Leave...`) through
what it entered; a panicking request walks out too and runs only what the code
defers. `Write` is `problem.Write` and its like: the first status counts, a body is
always appended. `Baked` is Huma's rule that an operation gets the middleware
installed before it was registered (`Installed`, gate by gate), and `Advertises` its counterpart for the
document: `ApplySecurity` stamps the operations registered before it runs, in the
server (`ServedDocument`) as in the export (`ExportedDocument`). `armed`, `stuck`, `passed`, `logged`,
`metered` and `scope` record what happened to the request, for the properties.

Three steps on the way in query the database under the request's context (`Queries`): the key
lookup of `authenticate`, the facts of `authorize`, and the check of `/readyz`. Such a
query, like the handler's own, may hang until the deadline ends it (`QueryHangs`,
`Returned`), which the step then answers with 401, 500 or 503, or panic (`QueryPanics`).

### 2.5 `AuthzEngine`

`New` accepts or refuses a list of contributions (`ValidateTypeOwnership`), loads the
embedded policies or those of a directory, its `.cedar` files read as one document
(`LoadBasePolicies`, `Concatenated`), and merges them with
the contributions' under new ids (`MergePolicies`, `PolicyID`). A document is the
sequence of its policies, one of which may be malformed; the order of the files
decides nothing but the ids. A request is authenticated, then authorized by its operation's declaration, then
evaluated: Cedar (external) takes the policies in any order, reading one entity
for each through `Get`, which routes it (`Route`), asks the resolver once and
caches the answer, misses included. A slice's resolver may find the entity, miss
it, or fail, which it reports on the side (`failed`) while answering with a miss.
`Decide` looks at the failure first. Keys and facts change at any time.

### 2.6 `Configuration`

Operators only. A text is a class of strings that the parsers treat alike ("one",
"negative", "junk", a list with commas, a list with blanks, ...). `Parse` is what
pflag makes of it or refuses; `Cast` is what Viper's getters make of the same text in
a variable, and what they cannot cast is the zero value. `Load` has the precedence of
flag, variable and default; `Validate` is the method's conditions one by one.

### 2.7 `Migrations`

`ledger` is goose's table: the id of each version's row, from which `Current` (the
newest row) is computed as goose does. `run` is where each process's command is.
`Ensure`, `CreateLedger`, `CheckMissing` and `NextVersion` are goose's queries, one step
each; `UpTx` and `DownTx` are a migration's transaction, which goose closes together
with the ledger's row, with or without the run hearing of the commit; `Fail` is
anything that ends the run in between. Version v stands for one `.sql` file, whose
`Up` creates a table and whose `Down` drops it.

### 2.8 `CommandLine`

`proc` has one process for each service of the stack and one for the operator, who
runs any command with one setting as a flag or a variable, and starts a stack that
stopped again. A process parses its flags (`Execute`), loads its configuration and then
prints, migrates (its goose steps are those of `Migrations`) or serves, which here is
one phase; `Exit` turns the error into the code that `depends_on` waits for. `seeded`
is which tables have their seed data; a table that is dropped takes it along.

## 3. Runs

All bounds are constants of the `.cfg` files. Deadlock is checked for the rate
limiter and the todo service, which never stop; the others describe processes and
requests that end, and a stack that may stop at a failed step.

| Run | Shows | Bounds, and why they are enough |
|---|---|---|
| `todo_races` | `RowsWellFormed`, `AnswersStayTrue`, `HistoryKept` under races and failed saves | Two clients and two ids: a lost update needs two requests on one row. A column coarser than the clock, so that truncation shows; titles blank, padded, at and beyond the limit. |
| `todo_pages` | `WalkMissesNothing`, `WalkRepeatsNothing`, `PagesLeaveNoGap`, `PagesBounded`, and under fairness `WalkProgresses` | Three ids, pages of one and two, limits 0, 1 and beyond the maximum: walks of up to three pages with inserts before and behind the cursor, creation times that go back, and two readings that truncate differently, so that created todos tie or do not. One writer; the safety properties are proved for any number. The finite ids do not make the walk end: `WalkProgresses` claims its end only of behaviours in which creations cease, and for the others that it gets past every todo. |
| `limiter_interleave` | `HeldBucketKept`, `NeverOverGrants`, `IdleBounded`, and for keys whose reservations have not crossed `CancelIsExact`, `RetryHonest` | Three requests of one key (keys do not interact), burst 2, calls and sweeps that last up to two ticks, as long as a token, so that a denial may be cancelled when its time has passed; a TTL of five ticks, longer than the four a burst takes to refill. |
| `limiter_promises` | `ImplementsTokenBucket`, and under fairness `StopEndsJanitor` | Two requests of one key; calls are short against a tick (`MaxStall` 0), because the abstract bucket charges a request at the instant it is granted and a refill in between would be capped differently (see 4.3). |
| `app_faults` | `NilMeansDrained`, `ReleasedOnEveryExit`, `SignalShutsServers`, and under fairness `SignalEndsRun`, `ServersEnd` | every configuration and fault; two requests on one connection, so that one may wait for the other's |
| `http_concurrent` | `GaugeExact`, `HandlerGuarded`, `AccountsHonest`, `PanicsEndRight`, `OneDocument`, and under fairness `RequestsEnd` | Two requests of every kind; they share only the gauge. Every option on, and every option off; the proofs cover every configuration. |
| `authz_requests` | `RoutingUnambiguous`, `ProceedJustified`, `LoadErrorFailsClosed`, `OneSnapshot`, `PrincipalNotShadowed` | One request, as requests share nothing but the tables, which change at any step; two permits on roles, one permit and one forbid on attributes; lists of up to two contributions (a clash of types or of policy ids needs two), with empty, repeated and reserved types, a type owned without a resolver, one that owns the caller's type and one whose policies do not parse; a policy directory of several files, and one for every way to be refused. |
| `cli_stack` | `SchemaTold`, `StackInOrder`, `EnvMeansFlag` | The two migrations and seed files of the repository; the stack and one operator, so two runs of goose at once; three commands, enough to roll back, migrate again and restart a stack that failed. Every setting with every class of text, one at a time, because no setting's value depends on another. |

`Times`, `MaxDebt` and `IdleCap` bound what is otherwise unbounded: the readings of a
clock (two to four, on both sides of a unit of the column), the debt of a
bucket (a request is not issued beyond it) and the idle time that is told apart.

`TypeOK` is an invariant of the first run of each module. `PagesLeaveNoGap` says
exactly which todos a walk may miss: those saved behind a cursor that was already
handed out, which happens because a creation time is stamped before its insert
commits. `HandlerGuarded` also compares the gates a request passed with what the
served document advertises, and that with the exported one.

### 3.1 Where the code and its documentation disagree

Four runs check what a comment says and end with a counterexample.

| Run | Comment | What happens |
|---|---|---|
| `todo_completion` | completing "is idempotent and preserves the original completion time" (`todo/todo.go:77-78`) | two concurrent completions both read the todo open; the later save replaces the time |
| `limiter_evict` | the depth and rate of `ratelimit/memory.go:15-18` | with a TTL shorter than a burst's refill, which `config.Validate` accepts, eviction refills the bucket |
| `http_late` | the deadline gives a 504 (`adapter/http/middleware/timeout.go:12-13`) | a handler that honours its context answers 500 first |
| `http_accounts` | preflights are "logged and metered" (`adapter/http/router.go:93-94`), "one structured line per request" (`observability/requestlog.go:21-23`) | a preflight is not metered: CORS is outside `Metrics`; and a request that panics has neither line nor metric, as neither is deferred |

Other comments are true under a condition they do not state. There a passing run
checks the claim with its condition; without it TLC has a short counterexample.

| Comment | Holds, as checked, | and otherwise |
|---|---|---|
| "Cancel so this check does not consume a future token" (`ratelimit/memory.go:79-80`) | until two reservations of the key have overlapped or one was overdue (`CancelIsExact`) | of two overlapping denials, the earlier is not given back; nor is one whose time came before its `Cancel` |
| "the client never retries before a token is actually available" (`ratelimit/middleware.go:103-104`) | likewise (`RetryHonest`) | the wait counts on an exact cancellation and is too short |
| `Run` blocks "until ctx is cancelled or a server fails, then shuts every server down" (`app/serve.go:28-29`) | after a signal (`SignalShutsServers`) | when one server fails `Run` returns its error with the other still listening |
| "no in-flight handler loses its connection" (`app/serve.go:85-88`) | when `Run` returns nil (`NilMeansDrained`) | after a server failure or an expired grace period a query may find the pool closed |
| after a handler's own response "the 504 [is] a no-op" (`timeout.go:14-16`) | for the status; the body is one document until the deadline or a panic (`OneDocument`) | the problem document is appended to the body |
| a panic is logged "through the request-scoped logger, falling back to base" (`adapter/http/middleware/recover.go:12-13`) | it is logged (`PanicsEndRight`) | always through the fallback: the scoped one is in the inner context (`Scope`) |
| the caller "must Close" the pool (`adapter/postgres/postgres.go:27-28`) | a failed `Connect` closes it (`ReleasedOnEveryExit`) | a later error of `New` drops the open pool and the running janitor |
| every setting "is also a `TEMPLATE_GO_API_*` environment variable" (`src/README.md:182`) | for every text the flag accepts (`EnvMeansFlag`), | except an empty one, which counts as unset, although "empty serves `/metrics` on `--addr`" (`src/README.md:189`), and a list, which a variable splits at blanks although it is "comma-separated" (`src/README.md:198`); a text the flag refuses is the zero value |

`AccountsHonest` is the part of `EveryRequestAccounted` that does hold: what is logged or
metered is what the client got, the line is there unless the request panicked, and the
metric unless it panicked or is a preflight.

The process exits right after `Run` or `New` fails, so what those paths leave behind
lives on only in an embedding program or a test.

### 3.2 Fairness

* `TodoService`: a walker goes on asking, and its query does not fail for ever. That
  is the premise of `WalkProgresses`, which is about a client that follows
  `nextCursor`; nothing is assumed of the others. That a walk gets past every todo
  also needs clocks that advance, so that only so many todos are stamped before it;
  in the model `Times` and `Ids` are finite. That it ends is claimed only while
  nothing is created: new todos are stamped ahead of its cursor.
* `RateLimiter`: weak fairness of `Sweep` (the goroutine runs) and strong fairness
  of `JanitorExit`, because Go's `select` chooses at random among ready cases and
  so does not pass over one of them for ever.
* `AppLifecycle`: the goroutines run, the grace timer fires, and a query ends,
  because its context carries the request deadline. Handlers that hold no
  connection are not assumed to end.
* `AuthzEngine`, `Migrations` and `CommandLine` state safety only: nothing in the code
  makes an operator or a container runtime go on.
* `HttpPipeline`: the request's goroutine runs and its timer fires. A hanging query
  is ended by nothing but its deadline.

## 4. Proofs

Every theorem below holds for all values of the constants that satisfy the named
assumptions of the module it is about; a theorem that needs more says so in its
`ASSUME`. The argument is always the same: an invariant `Inv` that holds initially, is
kept by every action (one lemma per action or group of actions) and implies the
properties. What follows says what each `Inv` adds to the properties, and why.

### 4.1 `TodoServiceProofs`

For all clients, walkers, finite sets of ids, titles, limits, precisions and clock
readings, in any order:
`TypeCorrect`, `RowsAlwaysWellFormed`, `AnswersAlwaysTrue`, `HistoryAlwaysKept`,
`WalkNeverMisses`, `WalkNeverRepeats`, `PagesAlwaysBounded`, `PagesNeverGap`.

`RowInv`: a stored row is a legal todo whose creation time is already truncated, so
reading it and saving it again does not move it. `HeldInv`: a todo in hand is either
the only copy of an id that was issued and is not stored, or agrees with the stored
row on title and creation time and is completed; so a late save never reopens and
never moves a row. `WalkInv`: what a walk has seen is stored, lies at or before its
cursor, and was counted once. The pages rest on lemmas about the key order: it is
total (`KeyOrder`), a finite set of rows has a first and a last (`FirstAndLast`),
`FirstOf(S, n)` has the smaller of n and |S| rows and everything it leaves out comes
later (`LimitLemma`), and so a page is exactly the rows between two cursors
(`PageLemma`), which is also why it leaves no gap.

### 4.2 `RateLimiterProofs`

For all keys, finite sets of requests, bursts, rates and TTLs: `TypeCorrect`,
`HeldBucketAlwaysKept`, `IdleAlwaysBounded`. The premise that carries them is
`StallAssumption`: a call of `Allow` or a sweep takes less than half the TTL, which
`NewInMemory` keeps at a minute or more. `HeldFresh` says that a held bucket was
seen no longer ago than its request is old, so a sweep, which evicts only what is
older than the TTL, passes it by. `JanitorInv` relates the ticker, a pending tick
and the lag of a sweep; `AgeInv` bounds every idle time by the time since the last
sweep, plus one period while a sweep is due.

### 4.3 `RateLimiterQuotaProofs`

`CancelAlwaysExact` and `RetryAlwaysHonest` need nothing more. Their invariant
(`TokensInvariance`) has three parts. `DebtInv`: the reservations that wait for a token of one
bucket are a token apart, within its debt and no later than its last event. `ExactInv`:
of a key that is not `crossed` nothing was lost, and the one reservation there may be
is the bucket's last, so `Cancel` gives back all of it. `PromiseInv`: what a promised
retry still lacks comes with the ticks left of the promise and with the token of the
request that holds one.

`NeverOverGranted`, `GrantAlwaysCovered` and `ImplementsBucket` assume `RefillsInTime`:
a bucket that is not used is full before the janitor may take it. It is what
`limiter_evict` shows to be necessary: there it is false, `config.Validate` accepts the
configuration, and eviction mints tokens. The invariant (`LedgerInvariance`) says of each
key that its bucket never holds more than the ledger, and a missing bucket belongs to
a full ledger (`Unminted`); that what is not reserved grows with the idle time
(`Spared`), which is why an eviction mints nothing; and `Covered`: for every set of
undecided requests, once the longest wait among them is over, the ledger with all
other reservations given back is not negative. The quantification over sets is what
makes it inductive, because any subset of the waiting requests may turn out to be
denied; for the one request that is granted it says that a token is there.

`GrantAlwaysCovered` is the promise with calls that stall for up to `MaxStall`. The
refinement also assumes `MaxStall = 0`: a reservation is charged when it is made, and
if its bucket refills to the brim before the request is decided, the quota (ledger
plus undecided reservations) is above the burst for a moment, a state `TokenBucket`
does not have.

### 4.4 `AppLifecycleProofs`

For any set of requests, number of connections and set of faults: `TypeCorrect`,
`NilAlwaysMeansDrained`, `AlwaysReleased`, `SignalAlwaysShuts`, and `ChannelHasRoom`,
that no server goroutine ever blocks on the `serveErr` channel (`app/serve.go`), which no run
checks.

`NothingShut`: until shutdown begins no server is closed, so no goroutine has ended
without an error. `ShutdownProgress`: while shutdown walks the list of servers each is
shut or still to come, and without an error so far the ones dealt with have no request
left. It becomes `CleanupInv` when the deferred calls begin, since no server that is
shut accepts a request. `ResourceInv` says which deferred calls have already run.
`RoomInv`, for the channel: it holds at most one message per server that ended.

### 4.5 `HttpPipelineProofs`

For any finite set of requests, every configuration of CORS, limiter and authorizer and every
kind of panic: `TypeCorrect`, `GaugeAlwaysExact`, `HandlersAlwaysGuarded`,
`AccountsAlwaysHonest`, `PanicsAlwaysEndRight`, `AlwaysOneDocument`.

Requests share only the gauge, so the invariant is one predicate of a request's record
(`Good`) and the fact that the gauge is the number of requests inside `Metrics`.
`PlaceInv`: where a request may be, by direction. `PassedInv`: on its way in it has
passed exactly the gates above its depth, all of them when the handler runs.
`WrittenInv`: how many bodies were written by which depth on the way out.
`AccountsInv`: what was logged and metered, which is nothing until the request has left
the middleware and the status on the wire afterwards. `GoDeeper`, `GoOut` and
`GoOutward` show that the three ways to move keep `Good`, `PanicLemma` that a panic of
a query or the handler does; `CountLemma` moves one request in or out of the count.

### 4.6 `AuthzEngineProofs`

For any requests, contributions and policy directories: `TypeCorrect`,
`RoutingAlwaysUnambiguous`, `AlwaysJustified`, `LoadErrorAlwaysCloses`,
`AlwaysOneSnapshot`, `PrincipalNeverShadowed`.

`EngineInv`: an engine that is ready was given contributions that own no type twice,
and has every policy it was given and no other (`MergeLemma`: the new ids collide for
no two policies). Of a request (`Good`): nothing is read before the evaluation
(`FreshInv`); what the policies saw is what the cache holds (`CacheInv`), so facts and
keys may change under it; every policy but those still to come has been evaluated on
the cache (`EvalInv`); a failed load ends in a 500 and a success was allowed
(`DoneInv`). That the files of a directory, however many, are merged into a document
of policies (`ConcatenatedType`) is an induction over the files.

### 4.7 `MigrationsProofs` and `CommandLineProofs`

For any number of processes and of migrations: `SchemaAlwaysTold`, `UpAlwaysComplete`;
for any number of migrations and of operator commands: `StackInvariance`,
`ProcessesMigrate` (every behaviour of `CommandLine` is one of `Migrations`),
`SchemaToldInStack`, `StackAlwaysInOrder`, `StackTypeCorrect` and `EnvAlwaysMeansFlag`.

`SchemaTold` alone is not inductive: a transaction must be about a version that exists
(`TargetInv`), and whoever got past the ledger has seen it (`LedgerInv`). That an `up`
which ended well has applied everything rests on `PrefixInv`: until the first rollback
versions were recorded in order, with growing row ids, so the newest row is the
highest version, whichever run wrote it, and a run's target follows a recorded version
even if another run has overtaken it. `CurrentLemma` (a finite ledger has a newest row)
uses the well-foundedness of the naturals. The stack adds `ProcInv`, which process may
be in which phase, and `SeedInv`, what each step has left for the next. `EnvMeansFlag`
is about the parsers: `CastIsParse` goes through the kinds of settings and shows that
Viper's cast of a text the flag accepts is what pflag makes of it, with the two
exceptions that the property names; `GivenInv` adds that a process is given only
settings that exist.

### 4.8 Only model-checked

Liveness: `WalkProgresses`, `StopEndsJanitor`, `SignalEndsRun`, `ServersEnd` and
`RequestsEnd` hold under fairness, which the prover cannot reason about (nor about
`ENABLED`), so they are checked on the instances of section 3. So is the absence of
deadlock. The four counterexamples of 3.1 are TLC's.

The library's induction theorems take a predicate as parameter, which the provers do
not instantiate. Where an induction over the naturals is needed (`ConcatenatedType`,
`FirstAndLast`, `CurrentLemma`) it is done on a set, from the existence of a least
element (`WFMin` with `NatLessThanWellFounded`).

## 5. Not modelled

* Client-IP resolution, request ids, the `Allow` header of a 405, spans and metric
  labels: annotations that change no step of a request. What the limiter is keyed by
  is an input of `RateLimiter`.
* net/http's own read, write and idle deadlines. With the defaults the write deadline
  (10 s) is over before the request deadline (15 s) writes its 504.
* The contents of the OpenAPI document beyond its security requirements, the texts of
  help and version, generated code and test doubles.
* Cedar, goose, pgx, pflag, Viper, x/time/rate, net/http and Huma are external and
  appear as far as the code relies on them.
* Postgres and the container runtime themselves: in `CommandLine` the database is up
  and its data stays while the stack runs.

## 6. Plan

Done: all modules of section 2, with a theorem for every safety property that a
passing run checks and for both refinements.

Next, to prove:

1. The refinement of `TokenBucket` with calls that stall. It needs an abstract bucket
   that knows of requests granted and not yet charged; `GrantAlwaysCovered` is the part
   of it that matters to a client.
2. The condition under which an overlapping cancellation loses tokens, as a bound on
   what is lost: at most a token for each reservation behind it.

Worth modelling later: the authorizer reads a todo that the handler reads again, and
what a client may conclude from the two; the write deadline of a connection beside the
request's own.
