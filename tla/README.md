# TLA+ models of the four-language data API

This directory holds a formal model of the program in `src/`: four services
(JavaScript, Python, C, C++) that expose the same REST API over one Postgres
table and one Redis cache, with the migration runner, the schema bootstrap and
the operational procedures around them. The modules are checked with TLC on
small instances; what matters most is proved with TLAPS for every value of the
constants. `PROJECT.json` lists the runs, the mutants, the theorems, and for
every modelled definition the lines of source it stands for.

## 1. The system

| Component | State it keeps | Operations | Talks to |
|---|---|---|---|
| Data routes (`apps/*/…handlers, main, app`) | none between requests | list, get one, create | Redis (GET, SET…EX, DEL), Postgres (SELECT, INSERT) |
| Redis clients (`cache.*`) | one connection; JS also a cooldown | get, set, del; every failure is swallowed | Redis |
| Postgres clients (`db.*`) | C, C++: one connection; JS, Python: a pool | query, insert, ensure schema, reset | Postgres |
| Schema bootstrap (`main.c`, `server.js`, `main.py`, `main.cpp`) | Python: `schema_ready` | CREATE TABLE IF NOT EXISTS at start, retries | Postgres |
| Migration runner (`db/migrate.sh`) | `schema_migrations` | up, status, seed-admin | Postgres; started by `deploy.yml` |
| Auth (`auth.*`, API-key gate) | keys and secret read at start | login, logout, me, gate | Postgres (users), Secrets Manager |
| Access logs (`access_log.*`) | an open file | write, rotate | file system |
| Dispatchers (`handlers.c`, `main.cpp`, `app.js`, `main.py`) | the place that holds a request's user for its log line | key, session, role, size, syntax, field, database | all of the above |
| Deployment (`deploy.yml`, `terraform/`) | task definitions, the secret | build, migrate, roll, apply | ECS |

The four services run the same three handlers with the same control: a read
tries Redis, falls through to Postgres on a miss *or any error*, and stores
what it found with a TTL; a create inserts and then deletes `data:all`. The
services never talk to each other: they meet in the table and in the keys
`data:all` and `data:<id>`. `map` therefore names, for the actions of one
handler, the lines of different services, so that together the map covers all
four; each action was read against all of them.

What is hard in this code: fills and invalidations of different services
racing on one key; commands that outlive their client's timeout; commits whose
answer is lost; tasks killed between a commit and its invalidation; client
objects and pools shared by concurrent calls without a lock; cooldowns and
retries; a pool ended under the queries that wait in it; concurrent CREATE
TABLE and concurrent migrations; deploys that overlap, time out and are rolled
back; connections that died without the client noticing; configuration read
once and kept; threads that serve one request after the other; log files
rotated by renames that may fail; four dispatchers and four JSON readers, written
apart, that must give one answer; hand-written parsers in C and C++. The list, with lines, is
`hazards` in `PROJECT.json`.

What makes each part correct: the cache never holds what the table never was,
and catches up with it; an acknowledged create lasts; the clients recover from
outages of Redis and Postgres without harming each other's calls, and answer
every request; each migration takes effect once, in order, and before the
services that need it; a key rotation refuses nobody and a lost right ends; a
log line names its own user, and rotation keeps the newest lines in order; the
gates hold on every path, and where the languages depart from the one contract is
known completely.

## 2. Modules

### DataApi: what the services promise

No cache. Workers (request handlers) serve `list`, `get` and `create` over a
table that only grows. A `get` is answered from the table at one instant
between the request and the answer; a `list` from the table as it is or once
was (`past` holds its history); a `create` adds one row once; any request may be
refused with 503, and a refused create may have taken effect.

### CacheAside: the four services over Postgres and Redis

Extends `DataApi` with Redis (`cache`, a function from the keys present), the
commands clients gave up on (`late`), each worker's place in its handler
(`pc`), and two history variables (`acked`, `began`).

| Action | Code |
|---|---|
| `StartRead`, `StartCreate` | a request passes the gate and the validation |
| `CacheHit`, `CacheMiss` | GET; a miss, an error and a timeout all fall through |
| `QueryFound`, `QueryNotFound`, `QueryFailed` | SELECT; 404s are not cached; 503 |
| `Fill` | SET with TTL, outcome ignored |
| `Inserted`, `InsertFailed` | INSERT … RETURNING; a failure may come after the commit |
| `Invalidate` | DEL `data:all`, outcome ignored |
| `Respond`, `Crash` | the answer is sent; the task is killed in any step |
| `Expire`, `Flush`, `LateExecuted`, `LateLost` | Redis by itself |

`Send` is one round trip to Redis: executed, not executed, or left on its way
(`late`). A row never changes and has no DELETE route, so it is identified
with its key and a cached value is a set of rows. 503 also stands for the 500
that C and C++ give to some database errors.

Checked and proved: `CacheFaithful` (Redis never holds what the table never
was), `ItemReadYourWrites`, `CreatesDurable`, and the refinement of `DataApi`
(`ApiSpec`). Checked: `ListConverges`. Refuted: `ImmediatelyVisible`.

### ListStaleness: how old a cached list can be

`CacheAside` says only that a cached list is a past table. This module keeps
the part that concerns `data:all` and adds discrete time: a served list lacks
only rows committed less than `TTL + MaxLag` ago, `MaxLag` being the longest
time from a SELECT's snapshot to the execution of its SET. The TTL alone
(30 s) is not the bound.

### JsCacheClient: the lazily dialled Redis client (`cache.js`)

`client`, `connecting` and `lastFailureAt` are shared by all operations of the
process; an operation suspends at each `await`. Time is discrete; a tick
cannot pass a timer that is due, since an event loop that is not blocked runs
it. Proved (in `JsService`): an operation's failure never drops a client other
than its own (the catch block does not check; the cooldown, being longer than
the timeout, makes it so, which is why `Timeout < Cooldown` is an assumption),
and at most one client is open or dialling. Refuted: `RetriesAfterCooldown`.

### JsDbPool: the Postgres pool (`db.js`)

One shared `pool`, opened by the first query and detached by `reset()`. A step
is what runs between two awaits, and the events of pg's pool under it: a query
waits in the queue of its pool (`GivenIdle`, `GivenRoom`, `QueueTimeout`), or
dials (`DialDone`, `DialFailed`), runs (`QueryOk`, `QueryError`, `QueryLost`),
and on failure resets *whatever pool is shared by now* (`Reset`) and awaits
its end (`Ended`); a login answers 503 without a reset (`NoReset`).
`fresh` and `dead` count the idle clients of the shared pool before and after
Postgres dropped their connections; `clean` remembers that someone has reset
since. pg itself is external: what its `end()`, its queue and its timeout do
is modelled from how `db.js` configures and calls them.

### JsService: the requests of the JavaScript service

Composes the two clients: `at[r]` is the call request `r` is in, and each
action is a conjunction of one action of a client with `UNCHANGED` of the other
or with an action of the other (`Store` is `QueryOk /\ Call`). A read is
`Lookup`, `Hit` or `Miss`, then the query, then `Store` or `NothingToStore`; a
create starts at the query; `Refuse` is the 503. What the clients need of their
environment is thereby checked against what the handlers really do: no request
has two calls at once. Checked: the invariants of both clients and
`EveryRequestAnswered`.

### PyDbPool: `Database._pool` (`db.py`)

`list` and `get` run in a thread pool over one attribute with no lock. Each
read or write of it is an action. A statement fails for an outage (`QueryFailed`) or
is refused for what it says on a connection that is good (`StatementRefused`, for
instance a NUL in a text); `except Exception` closes the shared pool in both cases.
`unfit` are the calls whose own statement was refused. `RetriesCleanlyAlone` holds: a
call that no other overlaps, begun with Postgres up, is refused only for its own
statement, whatever happened before. `RetriesCleanly`, the same with overlaps, is
refuted.

### SchemaBootstrap: the table and the connections

CREATE TABLE IF NOT EXISTS at start in each language, with what each does
after a failure (JavaScript retries for ever, Python before each query until
once successful, C and C++ never), and the reconnects after an outage. A
CREATE is two steps because Postgres checks and then inserts into its catalog:
of two that overlap, the second may fail with a duplicate. The actions are
shared by the four languages; where they differ the definition says so
(`AfterFailure`, `Created`, `EnsureFailed`).

### Migrations: `migrate.sh up` and `status`

Runners are started by deploys, which have no concurrency group, and may be
killed at any point. One file is one transaction together with its row in
`schema_migrations`, whose primary key arbitrates between two runners.
`upto[r]` is the last file of the commit runner `r` comes from: files are only
ever added at the end, so the files of two commits are prefixes of one list.
Every psql call is an action; `is_applied` failing is taken for "pending", as in
the script (`set -e` does not reach into an `if`).

### Release: what the pipeline promises

`schema` counts the migrations applied and grows by one at a time; `live[s]`,
the commits service `s` runs or may start, gains a commit only when the schema
has all of its migrations (`CHANGELOG.md:93-96`).

### Fleet: the deploy workflows over ECS

Extends `Migrations` with the workflow of each commit and the services.

| Action | Code |
|---|---|
| `RegisterMigrator`, `RunMigrator` | job `migrate`: register a revision of the migrator's family; `run-task` with its ARN |
| `Migrated`, `MigrateFailed` | `wait tasks-stopped` and the exit code; or any aws call that fails, or the wait that gives up while the task goes on |
| `Roll` | job `deploy`: describe, register, update-service of one language |
| `Deployed`, `DeployFailed`, `RerunAll` | `wait services-stable`; a failed job is rerun from its start |
| `StartTask`, `StopTask`, `Complete`, `RollBack` | ECS: rolling update, task replacement, the circuit breaker of `terraform/modules/ecs/main.tf` |
| `Migrator` | a migrator task runs by itself; an operator may start the newest revision |

`MigratedBeforeRolled` is about `Live(s)`: what a service runs, is to run, or
can be rolled back to. The refinement of `Release` maps `schema` to
`Cardinality(recorded)` and `live` to `Live`: it says that two overlapping
migrators, one of them possibly given up by its workflow, still advance one
schema by single steps. The images from before the pipeline (`NoCommit`) are
not gated by it and are left out of `Live`.

### Gate: API keys, sessions, and the secret behind both

Each task reads the two API keys and the key that signs tokens when it starts
(`env`), from the secret that `terraform apply` writes (`secret`).

*API key.* The operator redeploys between staging a key and moving the callers,
as `terraform/modules/ecs/variables.tf:73` asks. `MigrateAtOnce`, the mutant, is
the procedure of `README.md:143-158`, which relies on a roll after `terraform
apply` that `ignore_changes` prevents; with it callers are refused.

*Session.* One user is followed through logins on any task: `ReadUser` is the
SELECT, `Sign` what follows the password check, and the row may change between
the two (`RowChanges`). `tokens` are all the copies that are about, not the
content of one browser's cookie jar: logout (`Forget`) drops a copy, and no task
learns of it. `Admits` is what a task decides of a request, from its own `env`
and the token alone. `since` is history: how long ago the table last allowed the
user to read or to create. A lost right is honoured for less than
`TTL + MaxLogin`, `MaxLogin` being the longest time from the SELECT to the
signature; `TTL` alone (one hour) is not the bound.

| Action or operator | Code |
|---|---|
| `Accepts`, `Verified`, `Allowed`, `Admits` | `check_api_key_dual`, `jwt_verify_hs256`, `roles_contains_any`, the dispatch of each service |
| `ReadUser`, `Sign`, `LoginFails`, `Forget` | POST /auth/login, POST /auth/logout |
| `Replace`, `RotateJwt`, `Stage`, `Swap` | a task starts; `terraform apply` |
| `Migrate`, `CallerMoves` | the operator, the callers |
| `RowChanges` | `seed-admin`, or SQL by hand |

The four implementations agree on what is modelled here; they differ in the
details left to `Routes` (which bodies and emails a login takes) or left out (without a
secret, a toggle for tests, C and C++ answer 401 on /auth/me and JavaScript and Python
500).

### Routes: four dispatchers and one contract

A pure module. A request is a record of what the checks look at: key, route, method,
session, the size, Content-Type and kind of its body, the kind of its id, whether
Postgres is up, down, or up with statements failing, and whether the row, or the user
with that password, is there. Each service's answer is the status of the first check
that applies, its checks being listed in the order of its code (`CAnswer`,
`CppAnswer`, `JsAnswer`, `PyAnswer`; `COne` and its counterparts for the id and what
its query makes of it; `CCreate`, `CLogin` and theirs for the bodies). A body is one
of sixteen kinds; `CRejects` and its counterparts are the kinds a service's JSON
reader or its test of the fields rejects, `CRefused` and its counterparts those whose
text is then refused by the driver or by Postgres.

`Contract` is what the services have in common: the statuses of `README.md:87-133`,
with a body counted as malformed if it is no JSON text of RFC 8259, and a statement
that fails as Postgres being down, as three of the four do. The README states
no order for a request with several faults; the contract's order, key before session
before role before size before syntax before Postgres, is what the four codes share.
`Departs` lists, for each service, the requests it answers otherwise, and
`IdenticalContract` says that the list is exact: `Answer # Contract <=> Departs`, for
every request that has a route and whose text Postgres can store. A body with a NUL or
half a surrogate pair in its text (`Unstorable`) has no contract, and a request without
a route none either. `GatesHold` speaks of all requests. All 48 438 are evaluated.

| Body of a create, else in order | C | C++ | JavaScript | Python |
|---|---|---|---|---|
| text after the root, or a comma after the last field | **201** | 400 | 400 | 400 |
| `NaN` for a number | 400 | 400 | 400 | **201** |
| a string, a number, null | 400 | **500** | 400 | 400 |
| a raw control character in the text | **201** | **201** | 400 | 400 |
| bytes that are no UTF-8 | **500** | **503** | **201** | 400 |
| an escape of `/` or of a character above 0xff | **400** | 201 | 201 | 201 |
| one escape from 0x80 to 0xff | **500** | 201 | 201 | 201 |
| the escapes of a surrogate pair | **400** | **503** | 201 | 201 |
| no Content-Type | 201 | 201 | **400** | 201 |
| a statement fails with Postgres up | **500** | 503 | 503 | 503 |
| *no contract:* the escape of half a pair | 400 | 503 | 201 | 503 |
| *no contract:* an escaped NUL inside the text | 201, cut | 201, cut | 503 | 503 |
| *no contract:* an escaped NUL before it | 400 | 201, empty | 503 | 503 |

(Bold: a departure.) For logins there are besides: a Content-Type other than
`application/json` is 400 in JavaScript; an email of blanks is 400 in JavaScript and
Python, which trim, and 401 in C and C++; one with blanks around it is found by the
first two alone; the limits of section 4. The kinds are the ones in which the four
readers were seen to differ; not enumerated are a field that occurs twice, a byte order
mark, nesting beyond a reader's depth, parameters of a Content-Type, compressed bodies,
and combinations of two faults in one body.

### Session: base64url, the Cookie header, the roles

A pure module for what C and C++ do by hand and the other two leave to
libraries: `Encode` and `Decode` (with the `buf` that is never masked),
`SessionOf` (`cookie_get_session`), `ContainsAny` (`roles_contains_any`). Each is
compared with what its input means over enumerated inputs: all payloads of at
most 5 bytes out of 4 bit patterns; all headers of at most 3 cookies out of 9
with two separators; all lists of at most 3 roles out of 5, names containing
each other or a separator among them. `Decode`'s loop is a function of the position
(`Loop`), so that it can be proved about: section 5 has the round trip, the roles and
the cookies for inputs of any length. The meaning a header is compared with is the
first cookie of the name: C, C++ and JavaScript take that one, while Starlette, in
Python, takes the last. The roles are modelled from the list on; how the payload's
parser cuts the brackets out of the token is not.

### AccessLog: the rotating file (`access_log.c`, `access_log.cpp`)

`file[0]` and its backups as sequences of line numbers. `Write` appends and, if
the file has its full size, rotates first: `Shift(failed)` is the loop of renames
from the oldest backup down, where each rename in `failed` fails and is ignored,
as in the code; then the open may fail, after which `open` stays false for ever.

### Requests: from a request to its log line

Composes `Routes`, `Session` and `AccessLog`. A task of one of the four services
(`service`, chosen in `Init`) with threads that serve requests one after the
other; `user[t]` is the place that holds the user's id for the line:
`last_user_id`, `g_current_user_id`, `req.user`, `request.state.user`.

| Action or operator | Code |
|---|---|
| `Receive`, `Resets` | a request arrives and its place is emptied: `ev_handler`, `before_handle`; Crow answers what has no route without it |
| `Handle`, `Verifies`, `Noted` | the dispatcher runs; where it verifies the session the user is noted |
| `Log`, `Logged` | `log_access`, `after_handle`, morgan, `access_log_middleware` |
| `Restart` | the task is replaced; its disk goes with it |

The results of the two pure modules are stated here as invariants of the service
that runs (`IdenticalContract`, `GatesHold`, `RoundTrip`, `CookieFound`,
`RolesRead`), which puts them beside the states they are about.

### How they fit together

`CacheAside` EXTENDS `DataApi` and implements it (same variables, so the
refinement mapping is the identity on them; the cache is hidden).
`ListStaleness` refines one clause of `CacheFaithful` with time. `JsService`
composes `JsCacheClient` and `JsDbPool`; `Fleet` composes `Migrations` with the
pipeline and implements `Release`; `Requests` composes `Routes`, `Session` and
`AccessLog`. `JsService`, `PyDbPool` and `SchemaBootstrap` look inside single
steps of `CacheAside` (`Send`, `CacheMiss`, `QueryFailed`, `InsertFailed`), which
allows every outcome they can produce; `Gate` decides which requests its
`StartRead` and `StartCreate` see, and `Routes` the order of those decisions.
These last relations are by reading, not by refinement.

## 3. Runs

| Run | Instance | Shows |
|---|---|---|
| `CacheAside` | 2 workers, 1 row, 2 late commands | type invariant, the three safety properties, `DataApi` is implemented, the cached list converges |
| `CacheAsideVisible` | 2 workers, 1 row, nothing fails | finding 1 |
| `ListStaleness` | 2 readers, 3 rows, TTL 3, lag 2 | the bound on staleness |
| `JsService` | 2 requests, 2 client objects, a pool of 1, 3 pool objects | the invariants of both clients; every request is answered |
| `JsCacheCooldown` | 1 operation | finding 2 |
| `PyDbPool` | 3 threads, 4 pools | lone calls fail for themselves only; no closed pool stays |
| `PyDbPoolShared` | 2 threads | finding 3 |
| `SchemaBootstrap` | a JavaScript, a Python and a C process | `schema_ready` is true; one call lost per outage; the table appears |
| `Fleet` | 2 commits, 2 migrator tasks, 2 files, 1 service | migrations once and in order; a commit runs only when migrated; `Release` is implemented |
| `Gate` | 2 tasks, 2 callers, 3 API keys, 2 signing secrets, 2 logins, 2 tokens, TTL 2, login 1 | no refusal with a redeploy; a lost right ends |
| `Requests` | each service, 2 threads, 2 users, 4 kinds of request, 3 backups of 2 lines, 11 lines, 1 failed rename | lines name their user, rotation keeps order; the pure parts |
| `AccessLogUser` | the same, smaller | finding 4 |

Bounds. Every race in `CacheAside` is between two handlers, or a handler and a
command left over from another, on one key; two workers and two late commands,
which may overtake each other, give all of them, and one row already gives the
table two states to be stale between (the theorems have no bound). `MaxTimes` and
`MaxLost` cap counters where one more value would behave like the last.
Object pools (`Clients`, `Pools`) are larger than what can be referred to at
once, so an object is never reused while anything holds it. In `JsService` a pool
of one client is the one in which queries queue; a second request is enough to
wait in that queue while the first resets the pool. `Fleet` has one service:
services interact only through the order of the deploy job's loop, which nothing
depends on (the theorems cover any number); the two commits differ by a migration,
the case in which their order matters. `Requests` has three backups since with
fewer some wrong orders of renames look right, and enough lines to fill all files
and rotate once more. `SchemaBootstrap` runs without a C++ process: it drops its
connection like Python and never retries like C (with one of each language the run
also passes, in three minutes; the theorems cover every fleet). Symmetry is used
only in runs without liveness. All runs check for deadlock.

Fairness. `CacheAside!FairSpec`: a handler that has begun goes on (its calls
have timeouts), the list key's TTL expires, a command on its way is executed
or lost in the end. `JsCacheClient!FairSpec`: time passes, calls keep coming,
calls and dials in progress end. `JsService!FairSvcSpec`: for each request, its
continuations and the events of its query happen (pg's timeouts, the socket's
end), commands and dials end, time passes; new requests, outages and other
people's resets are not fair. `SchemaBootstrap!FairSpec`: started work goes
on, the JavaScript timer fires, calls keep coming; Postgres staying up and
tasks staying alive are hypotheses of the property (`Calm`), not fairness.

## 4. Findings

1. `README.md:226` says that rows created through one language are
   "immediately visible to the others". A list handler that read before the
   commit may execute its SET after the create's DEL; the list lacks the row
   until the TTL ends, with nothing failing.
2. `cache.js:101` renews the cooldown on the cooldown's own refusal: under
   steady traffic the service never dials Redis again after one failure.
3. `db.py:72-78`: one thread's `close()` closes, or forgets, the pool that
   another thread is about to use; that call is refused with Postgres up
   (`db.py:90` says "so next call retries cleanly"). No outage is needed: in the
   counterexample Postgres is up throughout, and the first thread calls `close()`
   because its own statement was refused (`db.py:147-149`).
4. `main.cpp:89` says that the user id of the log line is "reset per request",
   but only `before_handle` resets the thread_local, and Crow completes a request
   that matches no route with `after_handle` alone (`crow_all.h:9235-9246`): its
   line names the user of the request the thread served before. The C service
   resets its own at the start of each request (`main.c:82`), and so do the other two:
   for these the property is proved (`OthersResetForAll`).

Seen while modelling and not stated as runs of their own:

*Data and caches.* `users.email` is UNIQUE with case while login compares
`LOWER(email)`; the services write `created_at` under the shared keys in three
forms (milliseconds and `Z`, microseconds and `Z`, `+00:00`), so an item's text
depends on which service filled the cache.

*Recovery.* `main.c:150` prints "will retry on demand" and nothing does (`main.cpp`
likewise): a C service that boots during an outage answers errors until another
service, a migration or a restart creates the table. With the JavaScript pool
saturated, one failure makes resets recur: the queries queued on an ended pool
time out after two seconds and reset the pool opened since; and the 503 is sent
only after `end()`, that is, after the hung queries of the old pool. A C or C++
service whose access log cannot be opened, at the start or after a rotation, never
tries again; in C, when the first open fails, nothing is logged at all
(`access_log.c:37` returns before the line is copied to stderr).

*Deployment.* The procedure of `README.md:143-158` refuses callers, since `terraform
apply` replaces no task (`Gate` with its mutant). `wait services-stable` passes also
after the circuit breaker has gone back to the old commit, so the workflow is green.
Of two overlapping deploys the older commit may be the one left running, or one in
each language. describe-then-register may drop a change Terraform makes in between.

*The contract.* What follows is proved to be all there is, over the requests of
`Routes` (`ContractIsIdentical`). "Malformed JSON body → 400" (`README.md:98`) is not
so in C, which creates the row when the text goes on after the root, and in C and C++
for control characters and bad UTF-8; the table in section 2 has the rest. With
Postgres up and a statement failing C answers 500, the others 503; in C++ the handlers'
own 500 (`handlers.cpp:248-250`) is not reached by a statement, since `db.cpp` turns
every `std::exception` into `DatabaseUnavailable`. An id beyond int4 answers 404 in C
and Python, and 503 in C++ and JavaScript, where C++ drops its connection as well;
Python takes padded and longer ones. Logins over 8192 bytes answer 413 in JavaScript,
and Python has no limit. `chaos_test.sh:60-71,110-115` sends its malformed bodies and
bad ids with a key and no cookie and waits for 400; every service verifies the session
first and answers 401.

*Outside the contract.* A wrong method answers 405 in C and Python and 404 in the other
two. Python's API-key
gate is outside its log middleware, so refused requests are in no access log, where
`CHANGELOG.md:164-167` promises one line per request in every app. C and C++ take a
cookie's name without regard to case, and a pair without `=` hides the next cookie.

## 5. Proofs

Each `…Proofs` module defines an inductive invariant `IInv`, proves
`Init => IInv` and one lemma per action for `IInv /\ [Next]_vars => IInv'`, and
derives the theorems. Assumptions are the named ASSUMEs of the modules only.

- `CacheAsideProofs`. `CacheFaithful` is not inductive: a `Fill` stores what
  the *reply* holds. `IInv` adds, for each worker by its `pc`, that a 200 for
  an item names a committed row equal to the request's key, that a list reply is
  in `past`, that a 201 in hand names a row nobody else's 201 names, and that
  what a request could know when it began is in the table. `ImplementsApi`
  maps `StartRead`/`StartCreate` to `Invoke`, `CacheHit`/`QueryFound`/
  `QueryNotFound` to `Get` or `List`, `Inserted` to `Create`, the failures to
  `Refuse`, `Respond`/`Crash` to `Finish`, the rest to stutters. `CacheHit` on
  an item's key is the interesting case: it is a `Get` at the instant of the
  hit because the row is still in the table.
- `ListStalenessProofs`. A value stored at most `MaxLag` after its snapshot
  lives `TTL`: the invariant bounds the age of the first missing row by
  `MaxLag + TTL - left`, for the cached value, and by `lag` for each reader.
- `JsServiceProofs`. Every step of the service is a step or a stutter of the Redis
  client, of the pool, or of both (`HandlersKeepToTheClients`); so the invariants of
  the two are proved apart and carried over. For the client: each command running on a dropped connection is
  younger than its timeout by at least the time since the failure, so the
  cooldown still lasts when it fails. For the pool (`PInv`): a pool in `ending` is
  still referred to by a caller, so a new pool is none of them and the shared one is
  never ended (`NoQueryToEndedPool`); after a reset, a query on a lost connection belongs to a detached pool.
- `PyDbPoolProofs`. A step invariant per place in `_ensure_pool`/`close`, and a
  clause for the lone call: until its own statement is refused, it is on no way to a
  refusal.
- `FleetProofs`. First `Migrations`: `recorded` is downward closed; a runner past file
  `v` has seen `1..v` recorded; the primary key makes the second commit fail. Then the
  fleet: a step of it is a step of `Migrations` or leaves that alone
  (`FleetRunsMigrations`), so `IInv` carries over; `Gated` adds that a workflow waits for a task of its own,
  with its own commit's files, and rolls only when they are applied, which never
  ends since `recorded` only grows. `ImplementsRelease` maps the commit of a file to
  `Migrate` (`recorded` gains one element), `Roll`, `RollBack`, `StartTask`,
  `StopTask` and `Complete` to `Change` or a stutter.
- `RequestsProofs`. For the lines' users: a request with a route finds its place empty
  until it is handled, and an answer other than 401 behind the session's gate means
  that the session was verified first (`AdmittedIsVerified`), a look at each
  dispatcher's first checks (`First` as a lemma). `OwnLine` is false without "with a
  route", which is finding 4; `OthersResetForAll` states that the finding is of C++
  alone. The dispatchers' theorems reduce each answer to the first check that applies
  (`FirstOf`), by list length: first those of the single routes (`Fetched`, `CCreated`,
  `CLoggedIn` and so on), then those of the dispatchers. What is left is one chain of
  conditions for the answer, one for the contract, and `Departs`, compared field by
  field for each service apart (`CDepartsAsSaid` and its counterparts), with
  `ReadOne` for the rows that are read. `GatesHold` follows from the same chains.
  For the files: two places never hold the same file after `Shift`, whichever renames
  fail, so order is preserved; `Ordered` adds to `InOrder` that nothing held is newer
  than the last line written. `DiskBounded` and `NewestKept` speak of all the files
  together and are not inductive: the next rotation moves each of them. `Rotated`
  says the first of *every set of places* (`Bounded`) and the second of *every number
  of backups*, counting in each file only the places a full file has (`Kept`), since
  a current file that could not be renamed is longer; `UpClosed` says that without a
  failure nothing newer than a line held is missing. Sums over files are avoided by
  adding one file at a time to a set.
  For what C and C++ scan by hand: induction over the input is an argument by the least
  counterexample (`LeastOf`, from the well-founded order of the naturals), with
  functions where the library's theorems have operators. `DecodeEncode` holds of
  every sequence of bytes, by the loop invariant `Reads`: after each character `out`
  has the bytes read so far, and the low bits of `buf` those of the byte begun,
  whatever has overflowed above them. A scan defined backwards from the end of the text
  exists (`DescentExists`); with the positions at which the text of a list or a jar has
  its parts (`Written`, `Baked`), each step of it finds the next role or cookie, and
  what is wanted is found at the least index or not at all (`Walk`). So `RolesAreRead`
  holds of every list over any names without a quote, and `CookiesAreFound` of every
  jar whose names have no `=`, blank or semicolon and whose values no semicolon, the
  characters a cookie may not have (RFC 6265).
- `GateProofs`. For the key: until the callers move every task accepts the key
  they all send (perhaps as the next key of a rotation long past), and while
  they move every task has both. For the session: what a login read is no
  further from the truth than the login is old, and what a token says no
  further than `MaxLogin + TTL - left`.
- `SchemaBootstrapProofs`. A CREATE that succeeds leaves the table; a call that
  fails leaves no dead connection.

Type invariants are proved for every module that has theorems.

Only model-checked: the liveness properties (`ListConverges`, `TableAppears`,
`EveryRequestAnswered`), since the prover handles neither fairness nor ENABLED. Every
other property of a passing run is a theorem. The four properties that are violated
(section 4) are refuted by TLC's counterexamples.

## 6. Not modelled

- *Event loop and health checks.* The C service's blocking calls to Postgres
  (`db.c:84`, up to five seconds each) keep it from answering `/health`. Whether a
  task is replaced for it depends on the configured intervals and thresholds and on
  libpq's timeout, not on control in the code: a model would check numbers chosen by
  its own `.cfg`.
- *Log files of JavaScript and Python.* Rotation is done by rotating-file-stream and
  `logging.handlers`; only who is named in a line is modelled.
- *Wording.* JSON texts, timestamps and error messages; the cryptography of tokens
  and passwords; buffer sizes in C; clocks that differ between tasks.
- *Configuration without a key or a secret.* The test setups that turn the gates
  off. Production sets both.
- *Shutdown.* `close()` of clients and pools when a process ends.
- *CI and infrastructure.* The test, lint and build jobs, which decide only whether a
  workflow gets as far as `Fleet`'s `built`; Terraform beyond task replacement and the
  secret; container files, benchmarks, security scans.
- *Vendored libraries.* mongoose, cJSON, Crow and Unity, except for Crow's path for
  requests without a route and for what the JSON readers of mongoose and Crow accept.

## 7. Plan

All modules planned are written, and every safety property of a passing run is
proved. What could be added: liveness from the safety invariants, should a prover
handle fairness; and, once pg's pool is vendored or pinned, checking `JsDbPool`'s
external part against its source.
