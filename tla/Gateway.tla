------------------------------- MODULE Gateway ------------------------------
(***************************************************************************)
(* A gateway request, from GatewayAuthenticationMiddleware through         *)
(* GatewayProxyView.forward (apps/gateway), while staff change method    *)
(* policies and access grants (apps/routes/views.py) and delete routes.    *)
(*                                                                         *)
(* The request makes one MySQL query per step and takes no lock, so its    *)
(* checks see different states of the tables.  Staff changes read without  *)
(* a lock, validate, and later save the whole row.                         *)
(*                                                                         *)
(* Other components are used by what they promise: get_route may still     *)
(* answer with a deleted route until its entry is invalidated or expires   *)
(* (RouteLookup), a key or a token is valid or not (ApiKeys, ClientAuth),  *)
(* the limiter allows, refuses or is unavailable (RateLimiter), and the    *)
(* snapshot's destination is missing, refused or fine.  Staff own the      *)
(* projects they change; any other request is refused before it writes.    *)
(***************************************************************************)
EXTENDS Naturals

CONSTANTS
  Apps, Routes,  \* primary keys of Application and Route
  ProjectOf,     \* the project of each, which nothing changes
  Methods,       \* HTTP methods
  MethodRows,    \* primary keys of RouteMethod
  GrantRows,     \* primary keys of RoutePermission
  Requests,      \* concurrent gateway requests
  Staff,         \* concurrent staff requests
  None,          \* a missing row
  MaxChanges     \* bound: changes begun in a behaviour

Policies == {"api_key_only", "api_key_and_jwt"}
MethodRow == [route : Routes, method : Methods, policy : Policies]
GrantRow == [app : Apps, route : Routes, active : BOOLEAN]

ASSUME NoneAssumption ==
  None \notin MethodRow /\ None \notin GrantRow
    /\ None \notin MethodRows /\ None \notin GrantRows

VARIABLES
  routes,        \* routes that exist
  stale,         \* deleted routes the route cache may still answer with
  conf,          \* method rows, grant rows, valid keys and tokens
  edit,          \* each staff member's change
  changes,       \* changes begun so far
  req,           \* each gateway request; "at" is the step that answered it
  seen           \* history: values of conf while the request ran

vars == <<routes, stale, conf, edit, changes, req, seen>>

Steps == {"resolve", "policy", "countGrants", "findGrant", "token", "limit",
          "destination"}
Statuses == {200, 401, 403, 404, 405, 429, 503}

Conf == [methods : [MethodRows -> MethodRow \cup {None}],
         grants : [GrantRows -> GrantRow \cup {None}],
         keys : SUBSET Apps, tokens : SUBSET Apps]

\* A change that was validated and waits to be saved; old is the row it was
\* made from.
Edit == [pc : {"idle"}]
          \cup [pc : {"methods"}, pk : MethodRows \cup {None},
                row : MethodRow, old : MethodRow \cup {None}]
          \cup [pc : {"grants"}, pk : GrantRows \cup {None},
                row : GrantRow, old : GrantRow \cup {None}]

Request == [pc : {"idle"}]
             \cup [pc : Steps \cup {"done"}, app : Apps, route : Routes,
                   method : Methods, policy : Policies \cup {None},
                   status : Statuses \cup {None}, at : Steps \cup {None}]

Idle == [pc |-> "idle"]

Init ==
  /\ routes = Routes
  /\ stale = {}
  /\ conf = [methods |-> [m \in MethodRows |-> None],
             grants |-> [g \in GrantRows |-> None],
             keys |-> Apps, tokens |-> Apps]
  /\ edit = [s \in Staff |-> Idle]
  /\ changes = 0
  /\ req = [w \in Requests |-> Idle]
  /\ seen = [w \in Requests |-> {}]

-----------------------------------------------------------------------------
(* The gateway request.                                                    *)

Running(w) == req[w].pc \in Steps

Continue(w, next) ==
  /\ req' = [req EXCEPT ![w] = next]
  /\ UNCHANGED <<routes, stale, conf, edit, changes, seen>>

Goto(w, pc) == Continue(w, [req[w] EXCEPT !.pc = pc])

Respond(w, status) ==
  Continue(w, [req[w] EXCEPT !.pc = "done", !.status = status,
                             !.at = req[w].pc])

\* The middleware: validate_key accepts the key.  The path asked for is the
\* one of route r in the key's project, if r exists.
Authenticate(w) ==
  \E a \in conf.keys, r \in Routes, method \in Methods :
    /\ ~Running(w)
    /\ ProjectOf[r] = ProjectOf[a]
    /\ req' = [req EXCEPT ![w] =
         [pc |-> "resolve", app |-> a, route |-> r, method |-> method,
          policy |-> None, status |-> None, at |-> None]]
    /\ seen' = [seen EXCEPT ![w] = {conf}]
    /\ UNCHANGED <<routes, stale, conf, edit, changes>>

\* RouteResolver.get_route_for_request; also a 404 when the route or its
\* service is disabled.
ResolveRoute(w) ==
  /\ req[w].pc = "resolve"
  /\ \/ req[w].route \in routes \cup stale /\ Goto(w, "policy")
     \/ Respond(w, 404)

\* RouteMethod.objects.filter(route_id, method): the policy, from MySQL.
ReadPolicy(w) ==
  LET found == {m \in MethodRows :
                  /\ conf.methods[m] # None
                  /\ conf.methods[m].route = req[w].route
                  /\ conf.methods[m].method = req[w].method}
  IN
  /\ req[w].pc = "policy"
  /\ \/ /\ found = {} /\ Respond(w, 405)
     \/ \E m \in found :
          Continue(w, [req[w] EXCEPT !.pc = "countGrants",
                                     !.policy = conf.methods[m].policy])

AfterAccess(w) ==
  Goto(w, IF req[w].policy = "api_key_and_jwt" THEN "token" ELSE "limit")

GrantsOf(c, a) ==
  {g \in GrantRows : c.grants[g] # None /\ c.grants[g].app = a}

\* Mutant of CountGrants: an application without grants may do nothing.
CountGrantsStrict(w) ==
  /\ req[w].pc = "countGrants"
  /\ IF ProjectOf[req[w].route] # ProjectOf[req[w].app]
     THEN Respond(w, 403)
     ELSE Goto(w, "findGrant")

\* Application.has_permission, first query: no grants, no restriction.
CountGrants(w) ==
  /\ req[w].pc = "countGrants"
  /\ IF ProjectOf[req[w].route] # ProjectOf[req[w].app]
     THEN Respond(w, 403)
     ELSE IF GrantsOf(conf, req[w].app) = {}
     THEN AfterAccess(w)
     ELSE Goto(w, "findGrant")

\* Mutant of Permits: a grant that was switched off still counts.
PermitsInactive(grant, r) == grant.route = r

Permits(grant, r) == grant.route = r /\ grant.active

\* Second query: an active grant for this route.
FindGrant(w) ==
  /\ req[w].pc = "findGrant"
  /\ IF \E g \in GrantsOf(conf, req[w].app) :
          Permits(conf.grants[g], req[w].route)
     THEN AfterAccess(w)
     ELSE Respond(w, 403)

\* authenticate_client_bearer.
CheckToken(w) ==
  /\ req[w].pc = "token"
  /\ IF req[w].app \in conf.tokens THEN Goto(w, "limit") ELSE Respond(w, 401)

\* RedisRateLimiter.allow_request.
CheckLimit(w) ==
  /\ req[w].pc = "limit"
  /\ Goto(w, "destination") \/ Respond(w, 429) \/ Respond(w, 503)

\* The snapshot's destination: none, not allowed, or previewed.
Answer(w) ==
  /\ req[w].pc = "destination"
  /\ Respond(w, 503) \/ Respond(w, 403) \/ Respond(w, 200)

RequestNext(w) ==
  \/ Authenticate(w) \/ ResolveRoute(w) \/ ReadPolicy(w) \/ CountGrants(w)
  \/ FindGrant(w) \/ CheckToken(w) \/ CheckLimit(w) \/ Answer(w)

-----------------------------------------------------------------------------
(* Changes by staff.                                                       *)

\* A commit: requests in progress may see the new state from here on.
Commit(new) ==
  /\ conf' = new
  /\ seen' = [w \in Requests |->
                IF Running(w) THEN seen[w] \cup {new} ELSE seen[w]]
  /\ UNCHANGED req

BeginChange(s) ==
  /\ edit[s] = Idle
  /\ changes < MaxChanges
  /\ changes' = changes + 1

Load(s, table, pk, row, old) ==
  /\ BeginChange(s)
  /\ edit' = [edit EXCEPT ![s] =
       [pc |-> table, pk |-> pk, row |-> row, old |-> old]]
  /\ UNCHANGED <<routes, stale, conf, req, seen>>

\* (route, method) and (application, route) are unique.
MethodTaken(row, except) ==
  \E m \in MethodRows \ {except} :
    /\ conf.methods[m] # None
    /\ conf.methods[m].route = row.route /\ conf.methods[m].method = row.method

GrantTaken(row, except) ==
  \E g \in GrantRows \ {except} :
    /\ conf.grants[g] # None
    /\ conf.grants[g].app = row.app /\ conf.grants[g].route = row.route

\* RouteMethodListCreateView.perform_create: exists() comes first.
CreateMethod(s) ==
  \E row \in MethodRow :
    /\ row.route \in routes
    /\ ~MethodTaken(row, None)
    /\ Load(s, "methods", None, row, None)

\* RouteMethodDetailView.update: a policy stays with its route.
UpdateMethod(s) ==
  \E m \in MethodRows, method \in Methods, policy \in Policies :
    LET row == [conf.methods[m] EXCEPT !.method = method, !.policy = policy] IN
    /\ conf.methods[m] # None
    /\ ~MethodTaken(row, m)
    /\ Load(s, "methods", m, row, conf.methods[m])

SameProject(row) == ProjectOf[row.app] = ProjectOf[row.route]

\* RoutePermissionListCreateView.perform_create.
CreateGrant(s) ==
  \E row \in GrantRow :
    /\ row.route \in routes
    /\ SameProject(row)
    /\ ~GrantTaken(row, None)
    /\ Load(s, "grants", None, row, None)

\* RoutePermissionDetailView.update: the row as a whole is validated.
UpdateGrant(s) ==
  \E g \in GrantRows, row \in GrantRow :
    /\ conf.grants[g] # None
    /\ row.route \in routes
    /\ SameProject(row)
    /\ ~GrantTaken(row, g)
    /\ Load(s, "grants", g, row, conf.grants[g])

\* Mutant of Written: only the columns that the request changed.
WrittenChanged(new, old, now) ==
  IF old = None \/ now = None THEN new
  ELSE [f \in DOMAIN new |-> IF new[f] = old[f] THEN now[f] ELSE new[f]]

\* save(): every column of the instance, whatever the row holds by now.
Written(new, old, now) == new

\* The primary keys a save may write: its own, or for a new row a free one.
Targets(s, table) ==
  IF edit[s].pk # None THEN {edit[s].pk}
  ELSE {k \in DOMAIN conf[table] : conf[table][k] = None}

\* Mutant of Taken: no unique index behind the exists() checks.
TakenNever(table, row, except) == FALSE

Taken(table, row, except) ==
  IF table = "methods" THEN MethodTaken(row, except)
  ELSE GrantTaken(row, except)

\* The UPDATE or INSERT with its COMMIT; IntegrityError (a 500) when the
\* unique index or the foreign key objects.
Save(s) ==
  \E table \in {"methods", "grants"} :
    /\ edit[s].pc = table
    /\ \E k \in Targets(s, table) :
         LET row == Written(edit[s].row, edit[s].old, conf[table][k]) IN
         \/ /\ row.route \in routes /\ ~Taken(table, row, k)
            /\ Commit([conf EXCEPT ![table][k] = row])
         \/ /\ row.route \notin routes \/ Taken(table, row, k)
            /\ UNCHANGED <<conf, req, seen>>
    /\ edit' = [edit EXCEPT ![s] = Idle]
    /\ UNCHANGED <<routes, stale, changes>>

\* route.delete(): its method policies and grants go with it.
DeleteRoute(s) ==
  \E r \in routes :
    /\ BeginChange(s)
    /\ routes' = routes \ {r}
    /\ stale' = stale \cup {r}
    /\ Commit([conf EXCEPT
         !.methods = [m \in MethodRows |->
           IF @[m] # None /\ @[m].route = r THEN None ELSE @[m]],
         !.grants = [g \in GrantRows |->
           IF @[g] # None /\ @[g].route = r THEN None ELSE @[g]]])
    /\ UNCHANGED edit

\* Keys and tokens come and go (ApiKeys, ClientAuth).
ChangeCredentials(s) ==
  \E f \in {"keys", "tokens"}, a \in Apps :
    /\ BeginChange(s)
    /\ Commit([conf EXCEPT ![f] = IF a \in @ THEN @ \ {a} ELSE @ \cup {a}])
    /\ UNCHANGED <<routes, stale, edit>>

\* The route-cache entry is invalidated or expires.
ForgetRoute(r) ==
  /\ r \in stale
  /\ stale' = stale \ {r}
  /\ UNCHANGED <<routes, conf, edit, changes, req, seen>>

StaffNext(s) ==
  \/ CreateMethod(s) \/ UpdateMethod(s) \/ CreateGrant(s) \/ UpdateGrant(s)
  \/ Save(s) \/ DeleteRoute(s) \/ ChangeCredentials(s)

Next ==
  \/ \E w \in Requests : RequestNext(w)
  \/ \E s \in Staff : StaffNext(s)
  \/ \E r \in stale : ForgetRoute(r)

Spec == Init /\ [][Next]_vars

-----------------------------------------------------------------------------
(* Properties.                                                             *)

\* Every variable keeps its type (the tables, requests and changes).
TypeOK ==
  /\ routes \subseteq Routes
  /\ stale \subseteq Routes
  /\ conf \in Conf
  /\ edit \in [Staff -> Edit]
  /\ changes \in Nat
  /\ req \in [Requests -> Request]
  /\ seen \in [Requests -> SUBSET Conf]

HasPermission(c, a, r) ==
  \/ GrantsOf(c, a) = {}
  \/ \E g \in GrantsOf(c, a) : c.grants[g].route = r /\ c.grants[g].active

HasPolicy(c, r, method, policy) ==
  \E m \in MethodRows :
    c.methods[m] = [route |-> r, method |-> method, policy |-> policy]

AllChecked(q, states) ==
  /\ \E c \in states : q.app \in c.keys
  /\ \E c \in states : HasPolicy(c, q.route, q.method, q.policy)
  /\ \E c \in states : HasPermission(c, q.app, q.route)
  /\ q.policy = "api_key_and_jwt" => \E c \in states : q.app \in c.tokens

\* A request is answered 200 only on what MySQL said while it ran, never on
\* older policies or grants (forward, has_permission): each check held at
\* some time between its arrival and its answer, for the route it resolved,
\* even if the route came from the cache.
CheckedWhileRunning ==
  \A w \in Requests : req[w].pc = "done" /\ req[w].status = 200 =>
    AllChecked(req[w], seen[w])

\* Refused by has_permission.
Refused(q) ==
  q.pc = "done" /\ q.status = 403 /\ q.at \in {"countGrants", "findGrant"}

\* An application got its first grant, or lost its last one.
Turned(states, a) ==
  \E c, d \in states : GrantsOf(c, a) = {} /\ GrantsOf(d, a) # {}

\* Application.has_permission makes two queries, of whether the application
\* has grants and of an active one for the route.  Unless a change gives the
\* application its first grant or takes its last one meanwhile, it is refused
\* only if it was really not permitted at some time while the request ran.
RefusalJustified ==
  \A w \in Requests : Refused(req[w]) /\ ~Turned(seen[w], req[w].app) =>
    \E c \in seen[w] : ~HasPermission(c, req[w].app, req[w].route)

\* No grant ever joins an application to another project's route, though
\* updates validate a row read without a lock and race with each other.
GrantsWithinProject ==
  \A g \in GrantRows : conf.grants[g] # None => SameProject(conf.grants[g])

\* A method has one policy on a route, and neither policies nor grants
\* outlive their route.
PoliciesConsistent ==
  /\ \A m \in MethodRows : conf.methods[m] # None =>
       /\ ~MethodTaken(conf.methods[m], m)
       /\ conf.methods[m].route \in routes
  /\ \A g \in GrantRows : conf.grants[g] # None =>
       /\ ~GrantTaken(conf.grants[g], g)
       /\ conf.grants[g].route \in routes

-----------------------------------------------------------------------------
(* Why these hold, as an inductive invariant.                              *)

\* What waits to be saved was validated as a whole row.
EditsWithinProject ==
  \A s \in Staff : edit[s].pc = "grants" => SameProject(edit[s].row)

\* A request in progress has seen the current tables, and each check it has
\* behind it held in a state it has seen.
CheckedSoFar(q, states) ==
  /\ \E c \in states : q.app \in c.keys
  /\ q.pc \notin {"resolve", "policy"} =>
       \E c \in states : HasPolicy(c, q.route, q.method, q.policy)
  /\ q.pc \in {"token", "limit", "destination"} =>
       \E c \in states : HasPermission(c, q.app, q.route)
  /\ q.pc \in {"limit", "destination"} /\ q.policy = "api_key_and_jwt" =>
       \E c \in states : q.app \in c.tokens

ChecksSeen ==
  \A w \in Requests :
    Running(w) => conf \in seen[w] /\ CheckedSoFar(req[w], seen[w])

\* Validated changes stay within their project, the tables stay consistent
\* and every check a request has passed is accounted for.
GatewayInv ==
  /\ TypeOK
  /\ EditsWithinProject
  /\ GrantsWithinProject
  /\ PoliciesConsistent
  /\ ChecksSeen
  /\ CheckedWhileRunning

\* A request is for a route of its own project, and one that looks for a
\* grant was seen to have some.
Grounded(q, states) ==
  /\ q.pc \in Steps => ProjectOf[q.route] = ProjectOf[q.app]
  /\ q.pc = "findGrant" => \E c \in states : GrantsOf(c, q.app) # {}

\* What the refusals rest on.
RefusalInv ==
  /\ GatewayInv
  /\ \A w \in Requests : Grounded(req[w], seen[w])
  /\ RefusalJustified
=============================================================================
