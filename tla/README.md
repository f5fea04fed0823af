# A TLA+ model of the multi-tenant API gateway

The repository is a Django application that checks requests to a multi-tenant
API gateway (API key, route, method policy, access grant, end-user token, rate
limit, destination) and answers with a preview of the request it would
forward. Its state is in MySQL (a three-node Group Replication cluster) and in
a Redis Cluster that all gateway replicas share. This directory models its
concurrent core, checks it with TLC and proves its main properties with TLAPS.

## 1. Inventory

| Component | State | Operations | Interacts with |
|---|---|---|---|
| Route tables (`apps/routes/models.py`) | `BackendService`, `Route` rows | `_read_route`'s join | read by the route cache, written by administration |
| Administration of routes and services (`apps/routes/views.py`, `signals.py`) | one transaction per request, its `on_commit` callbacks | create and update services and routes, delete routes, bulk updates | schedules invalidations of the route cache |
| Route cache (`apps/gateway/route_cache.py`) | per (project, path): a data key with a TTL and a generation key, in Redis | `get_route`, `invalidate_route`, `invalidate_project_routes` | reads the tables; called by requests and by signals |
| Rate limiter (`apps/gateway/services.py`) | per key and window: a Redis counter with a TTL | `allow_request` | called by the gateway, registration and login |
| Gateway request (`apps/gateway/middleware.py`, `views.py`) | none across requests | the chain of checks in `forward` | all of the others |
| Method policies and grants (`RouteMethod`, `RoutePermission`) | rows | create, update, cascade with the route | read by the gateway request, never cached |
| Applications and API keys (`apps/authentication/models.py`, `apps/users/views.py`) | `Application`, `APIKey` rows | create, issue/rotate, revoke, expire, `validate_key` | the middleware |
| Application users (`apps/client_auth`) | `ApplicationUser` rows; signed tokens in clients' hands | register, log in, refresh, verify, provision, disable, Django admin site | the gateway request, the limiter |
| Database router (`gateway_project/db_router.py`, `settings.py`) over the MySQL cluster (`mysql/bootstrap.js`) | two connection aliases; three members that apply one order of transactions | route a read or a write to an alias; fail over; rejoin | every query of the others |
| Data migrations (`apps/*/migrations`), run by `api-gateway-migrate` in `docker-compose.yml` | the tables of two earlier releases, the schema as far as it is changed | eight migrations, operation by operation; retry; an operator's repairs | leave the tables all the others work on |
| Destinations, response cache, Redis bootstrap, staff accounts, demo data | see section 7 | | |

What is hard here: requests take no locks and make one query per check;
administrators read without a lock and save whole rows; a Redis command can
fail for its caller and still run, later or twice; workers die between a
commit and the callbacks that repair the cache; counters expire while requests
are on their way; rotation reuses a row that a revocation has already read;
reads go to replicas that lag; a Redis replica without the last writes is
promoted; migrations rewrite permissions and stop half-way on a database that
does not roll schema changes back.
`PROJECT.json` lists these under `hazards`, each at its line.

What makes each component correct:

* route cache: a stale fill never undoes an invalidation; entries that differ
  from MySQL have an invalidation coming; lookups end; tenants stay apart;
* tables: paths stay unique and services, policies and grants within their
  project, though all checks are made before the write and without a lock;
* limiter: the quota holds over all replicas, refusals are justified, counters
  live to the end of their window, longer only by a script's delay;
* keys and tokens: what was rotated, revoked, disabled or expired stays dead;
* gateway request: a 200 rests only on what was true while the request ran;
* database router: two aliases look like one database;
* data migrations: who may call what, and where calls go, is the same before
  and after, or the migration refuses.

## 2. Modules

| Module | Models |
|---|---|
| `RouteStore` | the two tables and `_read_route` |
| `RouteAdmin` (extends `RouteStore`) | administrators' transactions with row locks, signals and callbacks |
| `RouteCache` (extends `RouteStore`) | `get_route` step by step, the two Lua scripts, Redis failures and TTL |
| `RouteSystem` (composes the two) | `invalidate_route` as the callback; the properties; the refinement |
| `RouteLookup` | the abstract specification of `get_route` |
| `RouteFailover` (extends `RouteSystem`) | asynchronous Redis replicas and their promotion |
| `RoutePath` | path normalisation, `build_target_url` and the one-segment rule, as operators on sequences of characters |
| `RouteMigrations` (extends `RoutePath`) | the data migrations, Django's executor, the retry loop and the operator |
| `ReplicaReads` | `PrimaryReplicaRouter` over Group Replication, with a writer's invalidation and a lookup's refill |
| `OneDatabase` | the abstract specification of MySQL that the other modules assume |
| `RateLimiter` | `allow_request` for one rate key |
| `ClientAuth` | accounts, tokens, staff and the admin site |
| `ApiKeys` | applications and their keys |
| `Gateway` | the request's checks against racing policy and grant changes |
| `MC*` | constants and symmetry for TLC |
| `*Proofs` | theorems and their proofs |

### How state and actions correspond to the code

**RouteAdmin.** `tx[a]` is one administrator's request. Each action is one SQL
statement: `Load*` is `get_object()` with the view's validation,
`RememberPreviousRoute` the `pre_save` SELECT, `Save*` the UPDATE, INSERT or
DELETE with the keys its `post_save`/`post_delete` handler registers,
`PostSaveService` the handler's SELECT, `Commit` makes the row visible, and
the callbacks run one by one afterwards. The level is READ COMMITTED, Django's
default for MySQL, so every SELECT sees the committed rows of its moment.
Written rows are locked until COMMIT; the lock operators are InnoDB's, derived
from which transactions have written what. `Rollback` covers every exception.

**RouteCache.** `get[r]` is one `get_route` call; its steps are the Redis
commands and the query of the loop. `late` holds scripts the client gave up
on; redis-py's cluster client also resends. `fresh` and `allowed` are history
variables for the abstract specification.

**RateLimiter.** A worker reads the clock, then Redis runs the script; `Tick`
in between moves the window. `granted`, `refused`, `wasted` and `rolled` are
history, and so are `read`, the second in which a script's request read the
clock, and `delay`, how long the script that started a counter was on its way.
All processes share one clock (one Docker host).

**ClientAuth, ApiKeys.** A request is split where the code acts on what it read
earlier; under `select_for_update` it is one step. In `ClientAuth` the claims
carry two history fields: the application whose key was used and the number of
acknowledged disables when the row was read. In `ApiKeys`, `live` is the
history of keys handed out and not retired.

**Gateway.** One step per query: middleware, route, policy, the two queries of
`has_permission`, token, limiter, destination. Tables are one record `conf`;
`seen[w]` is the history of its values while request `w` ran. Staff changes
are validated (`Load`) and saved later as whole rows (`Save`). `stale` holds
deleted routes the cache may still answer with, which is what `RouteLookup`
permits; keys and tokens simply become valid or invalid.

**RouteFailover.** A shard holds a project's keys (`_keys` pins them by a hash
tag). `Replicate` copies it to its replica, `Promote` puts the copy in its
place; `rolled` is the history of keys whose version went back.

**RouteMigrations.** `db` is the tables, as records of functions and sets;
`mig`, `pos` and `high` are the migration, the next operation of this attempt
and the operations that earlier attempts have committed. A `RunPython`
operation is one step, because Django runs it in a transaction, and so is each
schema operation. `Refused` and `Violating` are the rows an exception is about,
`Rewritten` what the operation does to the tables. On failure SQLite goes back
to `saved` and MySQL to nothing. On MySQL the loop of `docker-compose.yml` counts
the attempts; on SQLite `migrate` is run by hand and ends with its first error.
After the last attempt the operator removes or renames one of the rows that the errors named. `legacy` is
the history of the tables as they were, less what the operator removed; the
properties compare its meaning (`LegacyAccess`, `LegacyDestinations`) with that
of the new tables (`Access`, `Destination`). The migrations in between only add
or drop columns and indexes that none of these reads.

**ReplicaReads.** `log` counts the transactions Group Replication has ordered,
`applied[m]` those that member `m` has applied; the version of the one row is
the number of its transaction. `Connect` is what MySQL Router makes of the two
ports in `DATABASES`. A written row is locked until the primary has committed
(`Locks`), not until the callback has run, so the callbacks of two writers run in
either order. `Fail` may hit the primary; a commit in progress then stays in the
log without its callback.

## 3. Runs

| Run | Shows |
|---|---|
| `route_cache` | `IndInv`, `NoStaleRefill`, `CoherentInv`, `Coherent`, `ImplementsLookup`: one administrator, all six kinds of writes, with failed, late and repeated scripts and dead workers; the lookup implements `RouteLookup` |
| `route_tenants` | `TablesConsistent` and `TenantIsolation`, with their inductive invariants `TablesInv` and `TenantInv`: two interleaved administrators, two tenants on one path |
| `route_failover` | a promoted replica breaks the guard only where a version key went back (`StaleOnlyByRollback`, inductively `FailoverInv`); lookups end; the cache converges even after a failed invalidation or a rollback |
| `limiter` | quota, justified refusals, and when counters expire (`CounterLifetime`: at the window's end plus the delay of the script that started them), with faults and failover |
| `client_auth` | unique accounts, bound tokens, final revocation |
| `api_keys` | retired keys stay dead; working keys die for a cause (`KeysDieForCause`); one row per application |
| `gateway` | answers rest on what was true meanwhile, and so do refusals (`RefusalJustified`); policies and grants stay consistent |
| `migration` | `NothingLost`, `NothingGained`: what a key's holder may call; `DestinationKept`, `LogsFollow`; `Reachable`: every path that is left can be looked up and forwarded; `ValidationSuffices`: no constraint fails but that on service names; `SqliteMigrates` |
| `replica_reads` | `ImplementsOneDatabase`: the cluster behind two aliases refines one database; `RefillFresh`, inductively `ReplicaInv`; `RequestsReturn` |

Three runs end in a violation, each of a sentence of the repository:

| Run | What happens |
|---|---|
| `route_service_race` | A service is changed; its routes are listed before the commit; one of them is renamed meanwhile. A request caches the new path with the old origin, and only the TTL removes it. |
| `migration_widens` | GET of a path is disabled, POST enabled, and an application has a grant on GET only, so it may call nothing there. `consolidate_routes` finds no enabled method granted and skips its check, then merges "any active grant" into the surviving route: the application may call POST. |
| `migration_rerun` | Two methods of one path have different targets and `consolidate_routes` refuses them; the operator removes one of the rows, as the error asks; on MySQL the table `RouteMethod`, created before the check, is still there and every further attempt fails on it. The databases of this run are those with such a conflict (`MCConflictDatabases`). routes.0009 adds `base_url` before it checks the targets and ends in the same way. |

`route_cache` has one administrator: `Coherent` holds when administrative
writes do not overlap, and `route_service_race` shows that two overlapping ones
suffice to break it. `client_auth` has one staff member and an admin site that
never posts `is_active = False`; no run meets the two hazards that this leaves
out, which are described under `RevocationFinal` below. The administrators of
`route_tenants` change routes only; that saves of services break nothing rests on
`TablesSafety`. In `route_failover` the invalidations are bounded by `MaxOps`, so
`LookupTerminates` alone would hold of a loop without bound as well; that the
loop ends after `MaxAttempts` rejections is part of `FailoverInv` and `IndInv`
(`CallShape`), which hold, and are proved, for every `MaxOps`.

Properties that name an exception do so because the exception is real, and the
model without it is violated:

* `NothingGained`: see `migration_widens`. Orphan keys are adopted by their
  project's default application with whatever grants it has (`Adopted` in
  `NothingLost`).
* `ValidationSuffices`: two services of one name pass every check and fail the
  last operation of routes.0008, on MySQL after all others are committed.
* `StaleOnlyByRollback`: after a rollback the version key repeats numbers, and
  a publication that was read before can pass; the TTL removes it.
* `KeysDieForCause`: a revocation that read the row before a rotation marks
  the new key, since `revoke()` writes by primary key.
* `RefusalJustified`: an application's only grant moves away between
  `has_permission`'s two queries; it is refused though permitted before and
  after.
* `WindowQuota` speaks of windows that last: a script that reaches Redis after
  its window's counter has expired starts a new count for the old window.
* `CounterLifetime`: `src/README.md:140` says that a counter expires "at the
  window boundary". The TTL is computed before the script is sent, so that holds
  exactly when the script which starts the counter runs in the second in which
  its request read the clock. Otherwise the counter lives longer by the delay,
  and a straggler may start one after its window, for at most `Window` seconds.
* `RevocationFinal`: with two staff members, a change form of the admin site
  loaded before an API disable and saved after it restores the old
  `token_version`; with a site that switches users off, the API's disable is a
  no-op on an inactive user, whose old tokens work again when it is switched on.
  In both cases `src/README.md:165` does not hold; `client_auth` with a second
  member in `Staff`, or with `FALSE` in `SiteActive` (and then without the
  deadlock check, since every user may end up inactive), shows the violation.
* `Coherent`: of two updates of one route, the second remembers the path before
  the first's rename and writes the old path back; the entry cached in between
  is never invalidated.

### Bounds

Every bound is a named constant in a guard: `MaxOps` (administrative
operations), `MaxFaults` (failed commands, dead workers, failovers),
`MaxAttempts` (2 instead of 3 loop rounds, so that rejection, retry and
fallback all happen; 1 in `route_tenants`, whose invariants do not depend on
the retry), `MaxTime`, `MaxRequests`, `MaxStaffOps`, `MaxChanges`.
Two operations are enough for every pairwise race. One reader makes repeated
calls, and its abandoned scripts run while it makes the next one, so fills
overlap; the theorems cover any number of readers. Three windows of two
seconds allow for expiry and stragglers. `generated` in `ApiKeys` is bounded by
the set of raw keys, four of which allow two first issues and two rotations.
Three applications and two routes in two projects let two updates of one grant
be valid each and mix projects if their columns were merged. One HTTP method is
enough for a request; that updates move policies between methods is covered by
the theorem.

The databases of `migration` are the release of routes.0003 (targets in a table
of their own, services named by a column, keys of projects) and the one of
routes.0007 (a row per method); at most four routes suffice for a pair of
methods, a neighbour of the same path and a second path of the application.
`MaxTries` is 2 instead of 30: one attempt that fails and one that meets what it
left. `ReplicaReads` has the three members of `docker-compose.yml`, two requests
and two commits: one to be read late and one to overtake it.

Workers, clients, users, keys, rows, administrators and staff are symmetric
where a run checks invariants only; runs with liveness use no symmetry.

`CHECK_DEADLOCK FALSE` stands where the bounds, not the code, stop the model:
the limiter when time and requests are used up, and `Gateway` when requests and
staff changes are.

### Fairness

`FairSpec` assumes weak fairness of each lookup's own steps (a worker thread
keeps running and commands return or time out after 0.5 s), of key expiry, and
of late scripts being run or dropped (sockets are drained or closed).
Administrators have none: they may stop anywhere. `Converges` rests on
`MaxOps`: it says what holds once changes stop.

`RouteMigrations` assumes that a running `migrate` goes on, and that the operator
repairs what an error named and starts the service again, which is what the
error messages ask for. `ReplicaReads` assumes that online members go on
applying and that the server answers when its wait is over; members may fail
and need not come back.

## 4. Proofs

All hold for every value of the constants, under the named assumptions of the
modules: `None` is not a row or a key, the initial tables are well typed,
`MaxAttempts` and `Window` are positive, bounds are natural numbers. The
initial route tables also satisfy `unique_together` and keep services within
their project (`InitConsistent` in `RouteStore`): the tables are empty at first,
and a model that starts in the middle starts with what MySQL accepted.

* **RouteSystemProofs**, about the cache: `TypeCorrect`, `GuardSafety`
  (`NoStaleRefill`) and `Refinement` (`RouteSystem` implements `RouteLookup`),
  from `Invariance` (`IndInv`). `NoStaleRefill` speaks only of the cache and is
  not inductive: a fill that is still on its way could be stale. `IndInv` adds
  that the version a call, or a late publication, carries is not ahead of the
  counter, and that if the counter has not moved its snapshot is still fresh;
  invalidation moves the counter and empties `fresh` in one script, so nothing
  older passes the guard. `AnswersAllowed` carries the refinement: whatever a
  call may still return is in its `allowed` set. Any number of administrators
  and failures. The lemmas about the guard are stated for a set `K` of keys, so
  that `RouteFailoverProofs` can use them for the keys that never went back.
* **RouteSystemProofs**, about the tables: `TablesSafety` (`TablesConsistent`)
  from `TablesInvariance` (`TablesInv`), for any number of interleaved
  administrators. The checks of the views are made without a lock, so
  consistency is not inductive: one needs what an open transaction is going to
  write. `TablesInv` says that a written key is nobody else's until COMMIT
  (`KeysReserved`, by the unique index), that the service a view validated stays
  in the route's project (`ServicesChecked`), and it stays there because no save
  moves a service to another project (`ProjectsKept`).
* **RouteSystemProofs**, about tenants: `TenantSafety` (`TenantIsolation`) from
  `TenantInvariance` (`TenantInv`). A snapshot outlives its row, so the cache
  cannot be compared with the tables alone; `TenantInv` says that there is an
  assignment of primary keys to projects, fixed once a key is handed out, that
  fits the rows, the saves on their way, the cache, all calls and all late
  scripts. It needs that AUTO_INCREMENT does not reuse keys (`issued`).
* **RouteSystemProofs**, about signals: `Coherence` (`Coherent`) from
  `CoherentInvariance` (`CoherentInv`), for any number of readers and failures,
  under `OneAdministrator`: administrative requests do not overlap.
  `route_service_race` shows that the theorem is false without it.
  `CoherentInv` adds that the callbacks an open transaction has registered cover
  every key its COMMIT will change (`Covers`: the remembered key, the new one,
  all keys of the service) and that a publication which can still pass agrees
  with MySQL or is on a key whose invalidation is due.
* **RouteFailoverProofs**: `FailoverSafety` (`StaleOnlyByRollback`) from
  `FailoverInvariance` (`FailoverInv`), for any number of failovers. Off the
  keys in `rolled` the guard of `RouteSystem` holds as before; the replica's
  copy has a version not ahead of the master's, and the same version only
  with data that is still fresh (`ReplicaBehind`), so that promoting it changes
  nothing there.
* **ReplicaReadsProofs**: `RefillsFresh` (`RefillFresh`) from `Invariance`
  (`ReplicaInv`), and `Refinement` (`ImplementsOneDatabase`: every step of the
  cluster is a step of `OneDatabase` or a stutter), for any number of members,
  clients and failures. `ReplicaInv` says that no member, read or invalidation
  is ahead of the log, that atomic blocks stay on the primary, and that a lookup
  under the present version key waits for at least what was invalidated.
* **RateLimiterProofs**: `TypeCorrect`, `QuotaHolds`, `RefusalsJustified`,
  `CountersExpire`. The quota needs that the counter of a running window is
  never dropped, which needs that each script on its way sets a TTL reaching the
  window's end (`JobsOnTime`): clock reading plus TTL is the window's end, and the
  TTL counts from when the script runs, which is no earlier. `CountersExpire`
  makes that exact: a live counter expires at its window's end plus the delay of
  the script that started it, and at most `Window` seconds from now.
* **ClientAuthProofs**: `AccountsUnique` and `TokensBound` unconditionally;
  `RevocationInvariance` (`RevocationInv`) and `RevocationHolds` assume at most
  one staff request at a time and that the admin site clears nobody's
  `is_active`; section 3 shows what happens without either. The invariant says
  that claims carrying the row's version were read after the last disable.
* **ApiKeysProofs**: `DeadKeys`, `SingleKey` and the action property
  `CausesOfDeath` (`KeysDieForCause`) from `Invariance` (`KeyInv`), for any
  number of racing staff requests. The invariant places every key: in one row,
  in one pending insert, or nowhere.
* **GatewayProofs**: `AnswersChecked`, `AccessRefusals` (`RefusalJustified`),
  `GrantsContained`, `PoliciesStayConsistent`. Changes that wait to be saved
  were validated as whole rows and are written as whole rows; each check a
  request has behind it held in a state it has seen. For refusals the invariant
  (`RefusalInv`) records that a request past the first query of
  `has_permission` has seen a state in which the application had grants.
* **RouteMigrationsProofs**: `AccessKept` (`NothingLost`), `AccessNotWidened`
  (`NothingGained`), `DestinationSafety` (`DestinationKept`), `LogSafety`
  (`LogsFollow`), `Reachability` (`Reachable`) and `ConstraintSafety`
  (`ValidationSuffices`), from `Invariance` (`MigrationInv`): for every database
  that the two old releases may leave, any number of attempts, lost connections
  and rows that the operator resolves.
  The properties speak of the state after some migration, so that none is
  inductive. `MigrationInv` says what holds in between: `Follows(legacy, d, m,
  h)` is what tables `d` are when migration `m` has committed `h` operations,
  stage by stage (targets copied, applications assigned, routes joined, origins
  moved, keys and paths checked), and it holds of `db`, and on SQLite of `saved`
  with `h = 0`. One lemma per operation leads from a stage to the next; what
  `consolidate_routes`, `migrate_service_origins` and the two validations refuse
  is exactly what their lemmas need. `Progress` says that only the migrations
  that begin with a `RunPython` operation get past their start twice, hence that
  neither `consolidate_routes` nor `migrate_service_origins` ever runs on
  its own result; `BlameKept` that a route named by an error is still there, and
  in `routes.0008` still as a row of the old release, when the operator removes
  it. That `NothingGained` holds rests on the old `unique_together`: an application
  granted all enabled methods is granted each by the row of that method.
  `Reachability` rests on a lemma for every path of one segment and every
  remainder that is empty or starts with a slash (`BelowIsReached`).
  Assumed of the databases (`DatabasesAssumption`): the tables are well-formed
  (and the keys finite), foreign keys and `unique_together` hold, the application of a key is one
  of its project, targets are where the release kept them and services have no
  origins yet. TLC evaluates the assumption on every database of the runs.

Only model-checked: liveness (`LookupTerminates`, `Converges`, `SqliteMigrates`,
`RequestsReturn`), which is out of the prover's reach.

## 5. Simplifications

* Outside `ReplicaReads` MySQL is one database, which `ImplementsOneDatabase`
  justifies.
* In `RouteMigrations` paths, slugs and names differ in more than letter case.
  MySQL's default collation ignores case and Python's grouping does not, so
  that rows for `/a` and `/A` are two groups to `consolidate_routes` and one key
  to the unique constraint after it.
* A disabled path keeps its route and loses its methods: `consolidate_routes`
  writes policies for enabled rows only. No property speaks of it.
* Names, slugs, descriptions, timestamps and ownership checks that only refuse
  a request are left out; staff act on projects they own.
* A backend service that route creation inserts through `get_or_create` is a
  service creation of its own.
* Of the writes that send no signals only bulk updates of services' `is_active`
  are modelled, with the invalidation the docs ask of their caller; bulk renames
  and raw deletes of routes would need the same.
* `db_for_read` is called with and without its `for_write` hint, though no code of
  the repository passes one.
* `Application.is_active` is set at creation; no endpoint changes it.
* Redis failover is modelled for counters and for route and version keys, one
  shard at a time.
* SHA-256, PyJWT and password hashing are perfect.
* No endpoint deletes routes; `route.delete()` (shell, cascades) is modelled
  because the signals and the docs provide for it.

## 6. Plan

1. `Gateway` over the detailed `RouteCache` instead of its promise.
2. Clock skew between replicas in `RateLimiter`.

## 7. Not modelled

The destination policy is a pure check of URLs whose outcome `Gateway` leaves
open. The response cache is used by no request path. The Redis bootstrap script
and the parts of the MySQL one that create and clone members are calls of
external tools. Demo seeding is a one-off command. Staff accounts, projects,
staff login and the dashboard are thin wrappers over Django and SimpleJWT
without state of their own that changes later. Analytics holds no code besides
its migrations. The preview's payload, serializers' field lists, migrations that
only change the schema, and settings other than `DATABASES` are data.
