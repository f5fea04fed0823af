-------------------------- MODULE RouteMigrations ---------------------------
(***************************************************************************)
(* `manage.py migrate`: in a loop of attempts on MySQL, as the service     *)
(* api-gateway-migrate of docker-compose runs it, by hand on SQLite; with  *)
(* an operator behind it, and the migrations that rewrite or check rows.   *)
(*                                                                         *)
(* A migration is a sequence of operations and is recorded after its last. *)
(* SQLite runs a migration in one transaction.  MySQL commits every schema *)
(* operation by itself: what an attempt has changed before it fails stays, *)
(* and a schema operation that meets its own result fails.  A RunPython    *)
(* operation is a transaction on both.                                     *)
(*                                                                         *)
(* Rows whose primary key is not looked at are named by a unique column    *)
(* pair: services and applications by (project, slug).  Paths, slugs and   *)
(* names differ in more than letter case, which MySQL's collation ignores. *)
(* Migrations that only add or drop columns and indexes are left out.      *)
(***************************************************************************)
EXTENDS RoutePath

CONSTANTS
  Databases,     \* initial states: [backend, applied, db]
  Slug,          \* downstream_service -> slugify(downstream_service)
  Origins,       \* the valid ones: http(s), a host, no credentials
  None,          \* NULL, or an empty URL
  MaxTries,      \* attempts of the loop before it exits (30)
  MaxCrashes     \* bound: lost connections, killed processes

VARIABLES
  backend,       \* "sqlite" or "mysql"
  db,            \* the tables
  saved,         \* the tables when the current migration's attempt began
  mig,           \* the migration being applied, an index of Plan
  pos,           \* its next operation in this attempt
  high,          \* its operations that are committed, though unrecorded
  status,        \* "running", "exited" or "done"
  tries,         \* failed attempts of this loop
  blame,         \* the rows that this loop's errors are about
  crashes,
  legacy         \* history: the tables before, less what the operator removed

vars == <<backend, db, saved, mig, pos, high, status, tries, blame, crashes,
          legacy>>

\* The migrations that touch rows.
Routes0004 == [name |-> "routes.0004", ops |->
  <<"CreateModel.BackendService", "AddField.backendservice.project",
    "AddField.route.backend_service", "copy_downstream_services",
    "RemoveField.route.downstream_service", "AddIndex.route.backend_service",
    "AddIndex.backendservice.project", "AddIndex.backendservice.slug",
    "Unique.backendservice.project.slug">>]
Routes0005 == [name |-> "routes.0005", ops |->
  <<"RemoveField.route.load_balancing", "AddField.route.target_url",
    "copy_first_target_url", "DeleteModel.RouteTarget">>]
Authentication0008 == [name |-> "authentication.0008", ops |->
  <<"backfill_application", "RemoveIndex.apikey.project",
    "NotNull.apikey.application", "RemoveField.apikey.project">>]
Routes0008 == [name |-> "routes.0008", ops |->
  <<"CreateModel.RouteMethod", "Unique.routemethod.route.method",
    "consolidate_routes", "DropUnique.route", "RemoveIndex.route.project",
    "RemoveIndex.route.method", "RemoveIndex.route.backend_service",
    "RemoveField.route.method", "RemoveField.route.auth_policy",
    "RenameField.route.path", "Unique.route.project.base_path",
    "Unique.backendservice.project.name">>]
Routes0009 == [name |-> "routes.0009", ops |->
  <<"AddField.backendservice.base_url", "migrate_service_origins",
    "RemoveField.route.target_url">>]
Authentication0009 == [name |-> "authentication.0009", ops |->
  <<"validate_single_key_per_application", "Unique.apikey.application">>]
Analytics0006 ==
  [name |-> "analytics.0006", ops |-> <<"DeleteModel.RequestLog">>]
Routes0010 == [name |-> "routes.0010", ops |-> <<"validate_paths">>]

\* In the order of Django's plan: the dependencies of analytics.0006 first,
\* routes.0010 last.
Plan == <<Routes0004, Routes0005, Authentication0008, Routes0008, Routes0009,
          Authentication0009, Analytics0006, Routes0010>>

PythonOps == {"copy_downstream_services", "copy_first_target_url",
  "backfill_application", "consolidate_routes", "migrate_service_origins",
  "validate_single_key_per_application", "validate_paths"}

DefaultApplication(p) == [project |-> p, slug |-> "default-application"]

IsRecord(x, fields) == x = [f \in fields |-> x[f]]

\* Tables, and a service for every route that names one.
WellFormed(d) ==
  /\ IsRecord(d, {"routes", "grants", "keys", "methods", "services", "logs"})
  /\ DOMAIN d.routes \subseteq Nat
  /\ \A r \in DOMAIN d.routes :
       /\ IsRecord(d.routes[r], {"project", "method", "path", "active", "policy",
                                 "downstream", "targets", "service", "target"})
       /\ d.routes[r].service \in DOMAIN d.services \cup {None}
       /\ d.routes[r].path \in Seq(Range(d.routes[r].path))
       /\ d.routes[r].targets \in Seq(Range(d.routes[r].targets))
  /\ IsRecord(d.services, DOMAIN d.services)
  /\ \A s \in DOMAIN d.services : IsRecord(d.services[s], {"name", "url"})
  /\ IsFiniteSet(DOMAIN d.keys)
  /\ \A k \in DOMAIN d.keys : IsRecord(d.keys[k], {"project", "app"})

\* What the old releases' foreign keys and unique_together of (project,
\* method, path) enforce.  A key of an application is one of its project.
Referential(d) ==
  /\ \A r, q \in DOMAIN d.routes :
       (/\ d.routes[r].project = d.routes[q].project
        /\ d.routes[r].path = d.routes[q].path
        /\ d.routes[r].method = d.routes[q].method) => r = q
  /\ \A r \in DOMAIN d.routes : \A url \in {d.routes[r].target}
         \cup {t.url : t \in Range(d.routes[r].targets)} :
       url # None => url.path \in Seq(Range(url.path))
  /\ \A g \in d.grants : g.route \in DOMAIN d.routes
  /\ \A l \in DOMAIN d.logs : d.logs[l] \in DOMAIN d.routes \cup {None}
  /\ \A k \in DOMAIN d.keys :
       /\ d.keys[k].app # None => d.keys[k].app.project = d.keys[k].project
       /\ DefaultApplication(d.keys[k].project) # None

\* The release of routes.0003 kept targets in a table of their own, that of
\* routes.0007 in a column; neither knew origins of services.
ASSUME DatabasesAssumption ==
  \A s \in Databases :
    /\ s.backend \in {"sqlite", "mysql"} /\ s.applied \in {0, 2}
    /\ WellFormed(s.db) /\ Referential(s.db)
    /\ \A r \in DOMAIN s.db.routes :
         IF s.applied = 0 THEN s.db.routes[r].target = None
         ELSE s.db.routes[r].targets = <<>>
    /\ \A v \in DOMAIN s.db.services : s.db.services[v].url = None

ASSUME NoneAssumption == None \notin Origins \cup Nat

Applied(name) == \E i \in 1..(mig - 1) : Plan[i].name = name

Init ==
  \E d \in Databases :
    /\ backend = d.backend
    /\ db = d.db /\ saved = d.db /\ legacy = d.db
    /\ mig = d.applied + 1
    /\ pos = 1 /\ high = 0
    /\ status = "running"
    /\ tries = 0 /\ blame = {} /\ crashes = 0

-----------------------------------------------------------------------------
(* Migrations routes.0004 and 0005.                                        *)

\* copy_downstream_services: get_or_create by project and slug.
ServiceOf(row) ==
  [project |-> row.project,
   slug |-> IF Slug[row.downstream] = "" THEN "backend-service"
            ELSE Slug[row.downstream]]

CopyDownstreamServices(d) ==
  LET made == {ServiceOf(d.routes[r]) : r \in DOMAIN d.routes}
  IN  [d EXCEPT
        !.services = [s \in DOMAIN @ \cup made |->
          IF s \in DOMAIN @ THEN @[s] ELSE [name |-> s.slug, url |-> None]],
        !.routes = [r \in DOMAIN @ |->
          [@[r] EXCEPT !.service = ServiceOf(d.routes[r])]]]

\* The first active RouteTarget, or else the first; None if there is none.
FirstTarget(targets) ==
  LET active == {i \in DOMAIN targets : targets[i].active}
  IN  IF targets = <<>> THEN None
      ELSE targets[Min(IF active = {} THEN DOMAIN targets ELSE active)].url

CopyFirstTargetUrl(d) ==
  [d EXCEPT !.routes = [r \in DOMAIN @ |->
    [@[r] EXCEPT !.target = FirstTarget(d.routes[r].targets)]]]

-----------------------------------------------------------------------------
(* Migrations authentication.0008 and 0009.                                *)

BackfillApplication(d) ==
  [d EXCEPT !.keys = [k \in DOMAIN @ |->
    IF @[k].app # None THEN @[k]
    ELSE [@[k] EXCEPT !.app = DefaultApplication(d.keys[k].project)]]]

\* Mutant of KeysSharing: count__gt is 2.
KeysSharingThree(d) ==
  {k \in DOMAIN d.keys :
     Cardinality({j \in DOMAIN d.keys : d.keys[j].app = d.keys[k].app}) > 2}

\* validate_single_key_per_application.
KeysSharing(d) ==
  {k \in DOMAIN d.keys :
     Cardinality({j \in DOMAIN d.keys : d.keys[j].app = d.keys[k].app}) > 1}

-----------------------------------------------------------------------------
(* Migration routes.0008: one route per base path, a policy per method.    *)

\* groups[(route.project_id, route.path)].
Group(d, r) ==
  {q \in DOMAIN d.routes :
     d.routes[q].project = d.routes[r].project
       /\ d.routes[q].path = d.routes[r].path}

\* rows[0] in the order of ids.
Survivor(d, r) == Min(Group(d, r))

ActiveMethods(d, G) == {d.routes[r].method : r \in {q \in G : d.routes[q].active}}

\* grants[application_id]
GrantedMethods(d, app, G) ==
  {d.routes[g.route].method : g \in {h \in d.grants :
     /\ h.app = app /\ h.route \in G
     /\ h.active /\ d.routes[h.route].active}}

\* Mutant of MethodSpecific: some grant for every enabled method will do.
MethodSpecificJointly(d, G) ==
  LET granted == UNION {GrantedMethods(d, g.app, G) : g \in d.grants}
  IN  granted # {} /\ granted # ActiveMethods(d, G)

\* "Fail safely instead": an application may use some of the methods only.
MethodSpecific(d, G) ==
  \E g \in d.grants :
    LET granted == GrantedMethods(d, g.app, G)
    IN  granted # {} /\ granted # ActiveMethods(d, G)

ConsolidateConflicts(d) ==
  {r \in DOMAIN d.routes :
     \/ \E q \in Group(d, r) :
          \/ d.routes[q].target # d.routes[r].target
          \/ d.routes[q].service # d.routes[r].service
     \/ MethodSpecific(d, Group(d, r))}

\* Mutant of MergedGrant: is_active is the surviving row's alone.
MergedGrantOwn(d, g) ==
  [app |-> g.app, route |-> Survivor(d, g.route),
   active |-> \E h \in d.grants : /\ h.app = g.app /\ h.active
                                  /\ h.route = Survivor(d, g.route)]

\* The grant of g.app on the survivor: selected, should_be_active.
MergedGrant(d, g) ==
  [app |-> g.app, route |-> Survivor(d, g.route),
   active |-> \E h \in d.grants : /\ h.app = g.app /\ h.active
                                  /\ h.route \in Group(d, g.route)]

\* Mutant of MovedLog: logs of the duplicates are left to SET_NULL.
MovedLogNever(d, r) == IF r # None /\ r = Survivor(d, r) THEN r ELSE None

\* RequestLog.route_id after the duplicates are gone.
MovedLog(d, r) == IF r = None THEN None ELSE Survivor(d, r)

\* consolidate_routes, once nothing was refused.
ConsolidateRoutes(d) ==
  [d EXCEPT
    !.methods = {[route |-> Survivor(d, r), method |-> d.routes[r].method,
                  policy |-> d.routes[r].policy] :
                 r \in {q \in DOMAIN d.routes : d.routes[q].active}},
    !.routes = [r \in {Survivor(d, q) : q \in DOMAIN @} |->
      [@[r] EXCEPT !.active = ActiveMethods(d, Group(d, r)) # {}]],
    !.grants = {MergedGrant(d, g) : g \in @},
    !.logs = [l \in DOMAIN @ |-> MovedLog(d, @[l])]]

-----------------------------------------------------------------------------
(* Migrations routes.0009 and 0010.                                        *)

\* Mutant of TargetRefused: backend paths are not compared.
TargetRefusedOrigin(row) == row.target.origin \notin Origins

\* A target that the new scheme cannot express: urlsplit's parts are not a
\* plain origin, or its path is not the public one.
TargetRefused(row) ==
  LET path == RStrip(row.target.path)
  IN  \/ row.target.origin \notin Origins
      \/ (IF path = <<>> THEN <<"/">> ELSE path) # NormalizePath(row.path)

OriginConflicts(d) ==
  {r \in DOMAIN d.routes :
     LET row == d.routes[r] IN
     IF row.service = None THEN row.target # None
     ELSE \/ row.project # row.service.project
          \/ row.target # None /\ TargetRefused(row)
          \/ \E q \in DOMAIN d.routes :
               /\ d.routes[q].service = row.service
               /\ \/ (d.routes[q].target = None) # (row.target = None)
                  \/ /\ d.routes[q].target # None /\ row.target # None
                     /\ d.routes[q].target.origin # row.target.origin}

\* migrate_service_origins, once nothing was refused.
MigrateServiceOrigins(d) ==
  [d EXCEPT !.services = [s \in DOMAIN @ |->
    LET origins == {d.routes[r].target.origin : r \in {q \in DOMAIN d.routes :
                      d.routes[q].service = s /\ d.routes[q].target # None}}
    IN  IF origins = {} THEN @[s]
        ELSE [@[s] EXCEPT !.url = CHOOSE o \in origins : TRUE]]]

\* Mutant of InvalidPaths: any path below the root.
InvalidPathsRootOnly(d) ==
  {r \in DOMAIN d.routes : BasePath(d.routes[r].path) = <<"/">>}

\* validate_paths.
InvalidPaths(d) == {r \in DOMAIN d.routes : ~OneSegment(d.routes[r].path)}

-----------------------------------------------------------------------------
(* Operations.                                                             *)

\* The rows a RuntimeError is about, tagged by their table.
Refused(op, d) ==
  CASE op = "consolidate_routes" -> {"route"} \X ConsolidateConflicts(d)
    [] op = "migrate_service_origins" -> {"route"} \X OriginConflicts(d)
    [] op = "validate_paths" -> {"route"} \X InvalidPaths(d)
    [] op = "validate_single_key_per_application" -> {"key"} \X KeysSharing(d)
    [] OTHER -> {}

Rewritten(op, d) ==
  CASE op = "copy_downstream_services" -> CopyDownstreamServices(d)
    [] op = "copy_first_target_url" -> CopyFirstTargetUrl(d)
    [] op = "backfill_application" -> BackfillApplication(d)
    [] op = "consolidate_routes" -> ConsolidateRoutes(d)
    [] op = "migrate_service_origins" -> MigrateServiceOrigins(d)
    [] op = "DeleteModel.RequestLog" -> [d EXCEPT !.logs = <<>>]
    [] OTHER -> d

\* The rows that keep a constraint from being added.
Violating(op, d) ==
  CASE op = "NotNull.apikey.application" ->
         {"key"} \X {k \in DOMAIN d.keys : d.keys[k].app = None}
    [] op = "Unique.apikey.application" ->
         {"key"} \X {k \in DOMAIN d.keys : \E j \in DOMAIN d.keys \ {k} :
            d.keys[j].app = d.keys[k].app}
    [] op = "Unique.route.project.base_path" ->
         {"route"} \X {r \in DOMAIN d.routes : Group(d, r) # {r}}
    [] op = "Unique.backendservice.project.name" ->
         {"service"} \X {s \in DOMAIN d.services : \E z \in DOMAIN d.services :
            s # z /\ s.project = z.project
              /\ d.services[s].name = d.services[z].name}
    [] OTHER -> {}

\* The loop of api-gateway-migrate, on MySQL, tries again or gives up; on
\* SQLite migrate is run by hand.
CountAttempt ==
  /\ tries' = tries + 1
  /\ status' = IF backend = "sqlite" \/ tries + 1 = MaxTries THEN "exited"
               ELSE "running"

\* Mutant of Fail: atomic = False in the migration.
FailNotAtomic(rows) ==
  /\ UNCHANGED <<db, high>>
  /\ pos' = 1
  /\ CountAttempt
  /\ blame' = blame \cup rows
  /\ UNCHANGED <<backend, saved, mig, legacy>>

\* manage.py migrate exits with an error, and Django rolls back what the
\* database can roll back.
Fail(rows) ==
  /\ IF backend = "sqlite" THEN db' = saved /\ high' = 0
     ELSE UNCHANGED <<db, high>>
  /\ pos' = 1
  /\ CountAttempt
  /\ blame' = blame \cup rows
  /\ UNCHANGED <<backend, saved, mig, legacy>>

Op == Plan[mig].ops[pos]

\* The schema operation finds that an earlier attempt has done it.
Repeated == Op \notin PythonOps /\ pos <= high

Operation ==
  /\ status = "running" /\ pos <= Len(Plan[mig].ops)
  /\ LET stopping == IF Repeated THEN {} ELSE Refused(Op, db) \cup Violating(Op, db)
     IN  IF Repeated \/ stopping # {} THEN Fail(stopping)
         ELSE /\ db' = Rewritten(Op, db)
              /\ pos' = pos + 1
              /\ high' = Max({high, pos})
              /\ UNCHANGED <<backend, saved, mig, status, tries, blame, legacy>>
  /\ UNCHANGED crashes

\* The migration is recorded in django_migrations.
Record ==
  /\ status = "running" /\ pos > Len(Plan[mig].ops)
  /\ mig' = mig + 1
  /\ pos' = 1 /\ high' = 0
  /\ saved' = db
  /\ status' = IF mig = Len(Plan) THEN "done" ELSE "running"
  /\ UNCHANGED <<backend, db, tries, blame, crashes, legacy>>

\* The connection is lost or the process killed between two operations.
Interrupt ==
  /\ status = "running"
  /\ crashes < MaxCrashes
  /\ crashes' = crashes + 1
  /\ Fail({})

-----------------------------------------------------------------------------
(* The operator, once the loop has exited.                                 *)

\* DELETE of routes: grants cascade, logs keep NULL.
WithoutRoutes(d, R) ==
  [d EXCEPT
    !.routes = [r \in DOMAIN @ \ R |-> @[r]],
    !.grants = {g \in @ : g.route \notin R},
    !.methods = {m \in @ : m.route \notin R},
    !.logs = [l \in DOMAIN @ |-> IF @[l] \in R THEN None ELSE @[l]]]

WithoutKey(d, key) == [d EXCEPT !.keys = [k \in DOMAIN @ \ {key} |-> @[k]]]

\* What a row of db was before it was consolidated.
Originals(r) == IF Applied("routes.0008") THEN Group(legacy, r) ELSE {r}

\* The operator resolves one of the conflicts that the error named...
Resolve(row) ==
  \/ /\ row[1] = "route"
     /\ db' = WithoutRoutes(db, {row[2]})
     /\ legacy' = WithoutRoutes(legacy, Originals(row[2]))
  \/ /\ row[1] = "key"
     /\ db' = WithoutKey(db, row[2])
     /\ legacy' = WithoutKey(legacy, row[2])
  \/ /\ row[1] = "service"
     /\ db' = [db EXCEPT !.services[row[2]].name = @ \o row[2].slug]
     /\ UNCHANGED legacy

\* ...and in any case starts the service again.
Operator ==
  /\ status = "exited"
  /\ \/ \E row \in blame : Resolve(row)
     \/ blame = {} /\ UNCHANGED <<db, legacy>>
  /\ saved' = db'
  /\ status' = "running"
  /\ tries' = 0 /\ blame' = {}
  /\ UNCHANGED <<backend, mig, pos, high, crashes>>

\* The gateway starts only after "done".
Finished == status = "done" /\ UNCHANGED vars

Next == Operation \/ Record \/ Interrupt \/ Operator \/ Finished

Spec ==
  /\ Init /\ [][Next]_vars
  /\ WF_vars(Operation) /\ WF_vars(Record) /\ WF_vars(Operator)

-----------------------------------------------------------------------------
(* What the rows mean.                                                     *)

\* Application.has_permission, of whatever a route row is at the time.
HasPermission(d, app, r) ==
  \/ \A g \in d.grants : g.app # app
  \/ \E g \in d.grants : g.app = app /\ g.route = r /\ g.active

\* What the holder of a key may call, before and after routes.0008.
LegacyAccess(d, k) ==
  {[method |-> d.routes[r].method, path |-> d.routes[r].path,
    policy |-> d.routes[r].policy] : r \in {q \in DOMAIN d.routes :
      /\ d.routes[q].active
      /\ d.routes[q].project = d.keys[k].project
      /\ d.keys[k].app = None \/ HasPermission(d, d.keys[k].app, q)}}

Access(d, k) ==
  {[method |-> m.method, path |-> d.routes[m.route].path,
    policy |-> m.policy] : m \in {n \in d.methods :
      /\ d.routes[n.route].active
      /\ d.routes[n.route].project = d.keys[k].app.project
      /\ HasPermission(d, d.keys[k].app, n.route)}}

\* An orphan key takes over whatever its project's default application may.
Adopted(k) ==
  legacy.keys[k].app = None
    /\ \E g \in legacy.grants : g.app = DefaultApplication(legacy.keys[k].project)

\* An enabled grant on a disabled method of a path with an enabled method:
\* grants[app_id] skips it, should_be_active does not.
DormantGrant(d, app) ==
  \E g \in d.grants :
    /\ g.app = app
    /\ g.active /\ ~d.routes[g.route].active
    /\ ActiveMethods(d, Group(d, g.route)) # {}

\* Where requests to a row's own path went, and go.
LegacyDestinations(row) ==
  LET on == {t \in Range(row.targets) : t.active}
      of == IF on = {} THEN Range(row.targets) ELSE on
  IN  IF row.targets = <<>> THEN {row.target} ELSE {t.url : t \in of}

Destination(d, r) ==
  LET row == d.routes[r]
  IN  IF row.service = None \/ d.services[row.service].url = None THEN None
      ELSE BuildTargetUrl(d.services[row.service].url, row.path, row.path, None)

-----------------------------------------------------------------------------
(* Properties.                                                             *)

\* Consolidating routes takes no call from the holder of a key, and leaves
\* its authentication policy ("Preserve method-specific authentication",
\* consolidate_routes; backfill_application).
NothingLost ==
  Applied("routes.0008") => \A k \in DOMAIN db.keys :
    Adopted(k) \/ LegacyAccess(legacy, k) \subseteq Access(db, k)

\* Nor does it give one, unless the application had a dormant grant
\* (consolidate_routes).
NothingGained ==
  Applied("routes.0008") => \A k \in DOMAIN db.keys :
    \/ DormantGrant(legacy, db.keys[k].app)
    \/ Access(db, k) \subseteq LegacyAccess(legacy, k)

\* "Validate first: never silently widen permissions": what the comment in
\* consolidate_routes says, without the exception.
NeverWidened ==
  Applied("routes.0008") =>
    \A k \in DOMAIN db.keys : Access(db, k) \subseteq LegacyAccess(legacy, k)

\* Once origins belong to services, a route still leads where one of its
\* targets did, or nowhere if it had none (copy_first_target_url,
\* migrate_service_origins).
DestinationKept ==
  Applied("routes.0009") => \A q \in DOMAIN legacy.routes :
    \E r \in DOMAIN db.routes :
      /\ db.routes[r].project = legacy.routes[q].project
      /\ db.routes[r].path = legacy.routes[q].path
      /\ \E url \in LegacyDestinations(legacy.routes[q]) :
           Destination(db, r) =
             IF url = None THEN None
             ELSE [origin |-> url.origin, path |-> NormalizePath(url.path)]

\* Until its table is dropped, a log refers to a route of the project and
\* path it was written for (consolidate_routes, analytics.0006).
LogsFollow ==
  \A l \in DOMAIN db.logs :
    LET was == legacy.logs[l] now == db.logs[l]
    IN  was # None =>
          now # None /\ db.routes[now].project = legacy.routes[was].project
            /\ db.routes[now].path = legacy.routes[was].path

Below == {<<>>, <<"/">>, <<"/", "a">>, <<"/", "a", "/", "a">>}

\* After the last migration a request for a route's path, or below it, is
\* looked up under that path and has a target (validate_paths,
\* get_route_for_request, build_target_url).
Reachable ==
  status = "done" => \A r \in DOMAIN db.routes : \A s \in Below :
    LET base == db.routes[r].path
    IN  BasePath(base \o s) = base /\ BelongsTo(base \o s, base)

\* The data migrations leave nothing for a constraint to refuse, except two
\* services of one name, which none of them looks for.
ValidationSuffices ==
  status = "running" /\ pos <= Len(Plan[mig].ops) =>
    \A row \in Violating(Op, db) : row[1] = "service"

Migrated == status = "done"

\* Where a migration is one transaction, an operator who resolves what the
\* errors name gets to the end, whatever fails on the way.
SqliteMigrates == backend = "sqlite" ~> Migrated

\* "Resolve them before running this migration" (consolidate_routes): one
\* who does gets to the end, on the database of docker-compose as well.
ResolvedMigrates == <>Migrated
=============================================================================
