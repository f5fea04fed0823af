----------------------------- MODULE RouteStore -----------------------------
(***************************************************************************)
(* The MySQL tables a gateway route is resolved from: BackendService and   *)
(* Route (apps/routes/models.py), and the query that joins them,           *)
(* _read_route of apps/gateway/route_cache.py.  The variables hold the     *)
(* COMMITTED rows.  A row that does not exist is None.                     *)
(*                                                                         *)
(* The read replica is not told apart from the primary: the cluster runs   *)
(* with group_replication_consistency = BEFORE_AND_AFTER, so a read        *)
(* returns the rows of the last acknowledged commit.                       *)
(***************************************************************************)
EXTENDS Naturals

CONSTANTS
  Projects,      \* tenants
  Paths,         \* single-segment base paths (Route.save refuses others)
  Origins,       \* values of BackendService.base_url
  Services,      \* primary keys of BackendService
  Routes,        \* primary keys of Route
  None,          \* Python's None, SQL's NULL, a missing row
  InitServices,  \* the two tables when the system is first observed
  InitRoutes

VARIABLES
  services,      \* BackendService rows by primary key
  routes,        \* Route rows by primary key
  issued         \* Route keys AUTO_INCREMENT has handed out, never reused

storeVars == <<services, routes, issued>>

ServiceRow == [project : Projects, url : Origins, active : BOOLEAN]

RouteRow == [project : Projects, service : Services \cup {None},
             path : Paths, active : BOOLEAN]

Keys == Projects \X Paths

\* What _read_route returns for a route and what Redis stores of it.
Snapshots == [id : Routes, path : Paths,
              service : [id : Services, url : Origins] \cup {None}]

Found == Snapshots \cup {None}

ASSUME InitAssumption ==
  /\ InitServices \in [Services -> ServiceRow \cup {None}]
  /\ InitRoutes \in [Routes -> RouteRow \cup {None}]

ASSUME NoneAssumption ==
  /\ None \notin Services /\ None \notin Routes /\ None \notin Keys
  /\ None \notin ServiceRow /\ None \notin RouteRow

KeyOf(row) == <<row.project, row.path>>

\* The tables start as the schema and the views leave them: a unique
\* (project, base_path), and for a route a service of its own project.
ASSUME InitConsistent ==
  \A r \in Routes : InitRoutes[r] # None =>
    /\ \A q \in Routes \ {r} :
         InitRoutes[q] # None => KeyOf(InitRoutes[q]) # KeyOf(InitRoutes[r])
    /\ InitRoutes[r].service # None =>
         /\ InitServices[InitRoutes[r].service] # None
         /\ InitServices[InitRoutes[r].service].project
              = InitRoutes[r].project

\* The WHERE clause of _read_route, without the project filter: a route
\* without a service, or one whose service is enabled and the project's own.
Reachable(row) ==
  /\ row.active
  /\ \/ row.service = None
     \/ /\ services[row.service] # None
        /\ services[row.service].project = row.project
        /\ services[row.service].active

Matches(r, k) ==
  routes[r] # None /\ KeyOf(routes[r]) = k /\ Reachable(routes[r])

\* For the mutant of ReadRoute: the project is not compared.
MatchesAnyProject(r, k) ==
  routes[r] # None /\ routes[r].path = k[2] /\ Reachable(routes[r])

SnapshotOf(r) ==
  [id |-> r, path |-> routes[r].path,
   service |-> IF routes[r].service = None THEN None
               ELSE [id |-> routes[r].service,
                     url |-> services[routes[r].service].url]]

\* Mutant of ReadRoute: filter(base_path=...) alone.
ReadRouteAnyProject(k) ==
  IF \E r \in Routes : MatchesAnyProject(r, k)
  THEN SnapshotOf(CHOOSE r \in Routes : MatchesAnyProject(r, k)) ELSE None

\* _read_route(project_id, base_path); (project, base_path) is unique.
ReadRoute(k) ==
  IF \E r \in Routes : Matches(r, k)
  THEN SnapshotOf(CHOOSE r \in Routes : Matches(r, k)) ELSE None

StoreInit ==
  /\ services = InitServices
  /\ routes = InitRoutes
  /\ issued = {r \in Routes : InitRoutes[r] # None}

StoreTypeOK ==
  /\ services \in [Services -> ServiceRow \cup {None}]
  /\ routes \in [Routes -> RouteRow \cup {None}]
  /\ issued \subseteq Routes
=============================================================================
