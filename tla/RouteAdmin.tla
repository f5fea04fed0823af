----------------------------- MODULE RouteAdmin -----------------------------
(***************************************************************************)
(* The administrators' writes to BackendService and Route                  *)
(* (apps/routes/views.py) with the signal handlers that schedule the       *)
(* route-cache invalidations (apps/routes/signals.py).                     *)
(*                                                                         *)
(* Each administrator runs one MySQL transaction at a time, at READ        *)
(* COMMITTED (Django's default for MySQL), one SQL statement per action:   *)
(*                                                                         *)
(*   get_object + validation -> pre_save SELECT -> UPDATE/INSERT/DELETE    *)
(*   -> post_save SELECT -> COMMIT -> on_commit callbacks, one by one.     *)
(*                                                                         *)
(* get_object takes no lock and save() writes the WHOLE row it loaded, so  *)
(* a later save overwrites an earlier one.  A written row stays invisible  *)
(* to others, and locked, until COMMIT.  What a callback does is left to   *)
(* RouteSystem; here it is only taken off the list.                        *)
(***************************************************************************)
EXTENDS RouteStore

CONSTANTS
  Admins,        \* concurrent administrative requests
  Ops,           \* which operations the administrators perform
  MaxOps         \* bound: operations performed in a behaviour

VARIABLES
  tx,            \* each administrator's transaction
  ops            \* operations begun so far

adminVars == <<tx, ops>>

AllOps == {"patchService", "newService", "patchRoute", "newRoute",
           "deleteRoute", "bulk"}

ASSUME OpsAssumption ==
  Ops \subseteq AllOps /\ None \notin AllOps /\ MaxOps \in Nat

\* pc names the last statement the transaction has executed.
Tx == [pc : {"idle", "loaded", "remembered", "saved", "registered",
             "bulkSaved", "callbacks"},
       op : AllOps \cup {None},
       pk : Services \cup Routes \cup Projects \cup {None},
       inst : ServiceRow \cup RouteRow \cup {None},
       prev : Keys \cup {None},
       pending : SUBSET Keys]

IdleTx == [pc |-> "idle", op |-> None, pk |-> None, inst |-> None,
           prev |-> None, pending |-> {}]

AdminInit == tx = [a \in Admins |-> IdleTx] /\ ops = 0

ServiceOps == {"patchService", "newService"}
RouteOps == {"patchRoute", "newRoute", "deleteRoute"}

-----------------------------------------------------------------------------
(* Row locks, derived from the transactions that hold them.                *)

HasWritten(b) == tx[b].pc \in {"saved", "registered"}

\* InnoDB checks the foreign key only when the statement changes it.
ChecksForeignKey(b) ==
  /\ tx[b].op \in {"patchRoute", "newRoute"}
  /\ tx[b].inst.service # None
  /\ \/ tx[b].pk = None
     \/ routes[tx[b].pk] = None
     \/ routes[tx[b].pk].service # tx[b].inst.service

ServiceXLocked(a, s) ==
  \E b \in Admins \ {a} :
    HasWritten(b) /\ tx[b].op \in ServiceOps /\ tx[b].pk = s

ServiceSLocked(a, s) ==
  \E b \in Admins \ {a} :
    /\ HasWritten(b)
    /\ ChecksForeignKey(b)
    /\ tx[b].inst.service = s

RouteXLocked(a, r) ==
  \E b \in Admins \ {a} :
    HasWritten(b) /\ tx[b].op \in RouteOps /\ tx[b].pk = r

\* The unique index entry is held by another transaction's uncommitted row,
\* or by a row another transaction is about to move or delete.
KeyLocked(a, k) ==
  \E b \in Admins \ {a} :
    /\ HasWritten(b)
    /\ tx[b].op \in RouteOps
    /\ \/ KeyOf(tx[b].inst) = k
       \/ routes[tx[b].pk] # None /\ KeyOf(routes[tx[b].pk]) = k

KeyTaken(r, k) ==
  \E q \in Routes \ {r} : routes[q] # None /\ KeyOf(routes[q]) = k

-----------------------------------------------------------------------------
(* Beginning of a request: get_object and the view's validation.           *)

Begin(a, op, pk, inst) ==
  /\ op \in Ops
  /\ tx[a].pc = "idle"
  /\ ops < MaxOps
  /\ ops' = ops + 1
  /\ tx' = [tx EXCEPT ![a] =
       [pc |-> "loaded", op |-> op, pk |-> pk, inst |-> inst,
        prev |-> None, pending |-> {}]]
  /\ UNCHANGED storeVars

\* BackendServiceDetailView.update; project is read-only.
LoadService(a) ==
  \E s \in Services, url \in Origins, active \in BOOLEAN :
    /\ services[s] # None
    /\ Begin(a, "patchService", s,
             [services[s] EXCEPT !.url = url, !.active = active])

\* BackendServiceListCreateView.perform_create (names are not modelled).
LoadNewService(a) ==
  \E p \in Projects, url \in Origins, active \in BOOLEAN :
    Begin(a, "newService", None,
          [project |-> p, url |-> url, active |-> active])

\* Mutant of Selectable: the service's project is not compared.
SelectableOfAnyProject(s, p) ==
  services[s] # None /\ services[s].active

\* A service the request may name: of the route's project and enabled.
Selectable(s, p) ==
  services[s] # None /\ services[s].project = p /\ services[s].active

\* RouteDetailView.update: the service is left alone, cleared, or replaced.
LoadRoute(a) ==
  \E r \in Routes, path \in Paths, active \in BOOLEAN,
     s \in Services \cup {None} :
    /\ routes[r] # None
    /\ \/ s = routes[r].service
       \/ s = None
       \/ s \in Services /\ Selectable(s, routes[r].project)
    /\ Begin(a, "patchRoute", r,
             [routes[r] EXCEPT !.path = path, !.active = active,
                               !.service = s])

\* RouteListCreateView.perform_create: exists() check, then the service, by
\* id, name or slug.  One that get_or_create would have to insert is a
\* newService of its own here.
LoadNewRoute(a) ==
  \E p \in Projects, path \in Paths, active \in BOOLEAN, s \in Services :
    /\ ~KeyTaken(None, <<p, path>>)
    /\ Selectable(s, p)
    /\ Begin(a, "newRoute", None, [project |-> p, service |-> s,
                                   path |-> path, active |-> active])

\* route.delete() of an instance loaded earlier.
LoadDelete(a) ==
  \E r \in Routes :
    /\ routes[r] # None
    /\ Begin(a, "deleteRoute", r, routes[r])

-----------------------------------------------------------------------------
(* save() and delete() with their signals.                                 *)

Step(a, pc) == tx' = [tx EXCEPT ![a].pc = pc] /\ UNCHANGED <<storeVars, ops>>

\* Full-row UPDATE of a BackendService: takes the row's exclusive lock.
SaveService(a) ==
  /\ tx[a].pc = "loaded" /\ tx[a].op = "patchService"
  /\ ~ServiceXLocked(a, tx[a].pk) /\ ~ServiceSLocked(a, tx[a].pk)
  /\ Step(a, "saved")

\* INSERT of a BackendService: a primary key no row has.
SaveNewService(a) ==
  \E s \in Services :
    /\ tx[a].pc = "loaded" /\ tx[a].op = "newService"
    /\ services[s] = None /\ ~ServiceXLocked(a, s)
    /\ tx' = [tx EXCEPT ![a] = [@ EXCEPT !.pc = "saved", !.pk = s]]
    /\ UNCHANGED <<storeVars, ops>>

RouteKeysOfService(s) ==
  {KeyOf(routes[r]) : r \in
     {q \in Routes : routes[q] # None /\ routes[q].service = s}}

\* invalidate_routes_for_changed_service: the service's routes as committed
\* now, read inside the transaction.
PostSaveService(a) ==
  /\ tx[a].pc = "saved" /\ tx[a].op \in ServiceOps
  /\ tx' = [tx EXCEPT ![a] = [@ EXCEPT !.pc = "registered",
                      !.pending = RouteKeysOfService(tx[a].pk)]]
  /\ UNCHANGED <<storeVars, ops>>

\* remember_previous_route: an unlocked SELECT before the UPDATE.
RememberPreviousRoute(a) ==
  /\ tx[a].pc = "loaded" /\ tx[a].op = "patchRoute"
  /\ tx' = [tx EXCEPT ![a] = [@ EXCEPT !.pc = "remembered",
       !.prev = IF routes[tx[a].pk] = None THEN None
                   ELSE KeyOf(routes[tx[a].pk])]]
  /\ UNCHANGED <<storeVars, ops>>

\* The locks a route write needs, and the unique index entry it takes.
CanWriteRoute(a, r) ==
  /\ ~RouteXLocked(a, r)
  /\ ~KeyLocked(a, KeyOf(tx[a].inst))
  /\ ~KeyTaken(r, KeyOf(tx[a].inst))
  /\ ChecksForeignKey(a) => ~ServiceXLocked(a, tx[a].inst.service)

\* Mutant of SaveRoute: the previous key is not invalidated.
SaveRouteNewKeyOnly(a) ==
  /\ tx[a].pc = "remembered"
  /\ CanWriteRoute(a, tx[a].pk)
  /\ tx' = [tx EXCEPT ![a] = [@ EXCEPT !.pc = "registered",
                      !.pending = {KeyOf(tx[a].inst)}]]
  /\ UNCHANGED <<storeVars, ops>>

\* Full-row UPDATE (INSERT when another request deleted the row), then
\* invalidate_saved_route: the new key, and the previous one.
SaveRoute(a) ==
  /\ tx[a].pc = "remembered"
  /\ CanWriteRoute(a, tx[a].pk)
  /\ tx' = [tx EXCEPT ![a] = [@ EXCEPT !.pc = "registered",
       !.pending = {KeyOf(tx[a].inst)} \cup ({tx[a].prev} \ {None})]]
  /\ UNCHANGED <<storeVars, ops>>

\* INSERT of a new route: AUTO_INCREMENT gives it a key never used before.
SaveNewRoute(a) ==
  \E r \in Routes \ issued :
    /\ tx[a].pc = "loaded" /\ tx[a].op = "newRoute"
    /\ CanWriteRoute(a, r)
    /\ issued' = issued \cup {r}
    /\ tx' = [tx EXCEPT ![a] = [@ EXCEPT !.pc = "registered", !.pk = r,
                        !.pending = {KeyOf(tx[a].inst)}]]
    /\ UNCHANGED <<services, routes, ops>>

\* DELETE, then invalidate_deleted_route with the loaded instance's key.
SaveDelete(a) ==
  /\ tx[a].pc = "loaded" /\ tx[a].op = "deleteRoute"
  /\ ~RouteXLocked(a, tx[a].pk)
  /\ tx' = [tx EXCEPT ![a] = [@ EXCEPT !.pc = "registered",
                      !.pending = {KeyOf(tx[a].inst)}]]
  /\ UNCHANGED <<storeVars, ops>>

\* COMMIT: the written row becomes visible and the callbacks start.
Commit(a) ==
  /\ tx[a].pc = "registered"
  /\ tx' = [tx EXCEPT ![a].pc = "callbacks"]
  /\ \/ /\ tx[a].op \in ServiceOps
        /\ services' = [services EXCEPT ![tx[a].pk] = tx[a].inst]
        /\ UNCHANGED routes
     \/ /\ tx[a].op \in {"patchRoute", "newRoute"}
        /\ routes' = [routes EXCEPT ![tx[a].pk] = tx[a].inst]
        /\ UNCHANGED services
     \/ /\ tx[a].op = "deleteRoute"
        /\ routes' = [routes EXCEPT ![tx[a].pk] = None]
        /\ UNCHANGED services
  /\ UNCHANGED <<issued, ops>>

\* Any exception before COMMIT rolls back: a duplicate (project, base_path),
\* a deadlock or lock-wait timeout, a lost connection, a killed worker.
Rollback(a) ==
  /\ tx[a].pc \in {"loaded", "remembered", "saved", "registered"}
  /\ tx' = [tx EXCEPT ![a] = IdleTx]
  /\ UNCHANGED <<storeVars, ops>>

-----------------------------------------------------------------------------
(* A bulk QuerySet.update(is_active=...) on a project's services: no       *)
(* signals, committed at once, then invalidate_project_routes by hand.     *)

BulkUpdate(a, p) ==
  /\ "bulk" \in Ops
  /\ tx[a].pc = "idle"
  /\ ops < MaxOps
  /\ ops' = ops + 1
  /\ \A s \in Services : services[s] # None /\ services[s].project = p =>
       ~ServiceXLocked(a, s) /\ ~ServiceSLocked(a, s)
  /\ \E active \in BOOLEAN :
       services' = [s \in Services |->
         IF services[s] # None /\ services[s].project = p
         THEN [services[s] EXCEPT !.active = active] ELSE services[s]]
  /\ tx' = [tx EXCEPT ![a] =
       [pc |-> "bulkSaved", op |-> "bulk", pk |-> p, inst |-> None,
        prev |-> None, pending |-> {}]]
  /\ UNCHANGED <<routes, issued>>

RouteKeysOfProject(p) ==
  {KeyOf(routes[r]) : r \in
     {q \in Routes : routes[q] # None /\ routes[q].project = p}}

\* invalidate_project_routes: the paths of all routes of the project.
InvalidateProjectRoutes(a) ==
  /\ tx[a].pc = "bulkSaved"
  /\ tx' = [tx EXCEPT ![a] = [@ EXCEPT !.pc = "callbacks",
                      !.pending = RouteKeysOfProject(tx[a].pk)]]
  /\ UNCHANGED <<storeVars, ops>>

-----------------------------------------------------------------------------
(* After COMMIT.                                                           *)

\* One invalidate_route call has returned; it swallows Redis errors, so the
\* remaining callbacks run whatever its outcome.
FinishCallback(a, k) ==
  /\ tx[a].pc = "callbacks"
  /\ k \in tx[a].pending
  /\ tx' = [tx EXCEPT ![a].pending = @ \ {k}]
  /\ UNCHANGED <<storeVars, ops>>

Respond(a) ==
  /\ tx[a].pc = "callbacks" /\ tx[a].pending = {}
  /\ tx' = [tx EXCEPT ![a] = IdleTx]
  /\ UNCHANGED <<storeVars, ops>>

\* The worker dies after COMMIT: the remaining callbacks are never run.
CrashAfterCommit(a) ==
  /\ tx[a].pc \in {"bulkSaved", "callbacks"}
  /\ tx' = [tx EXCEPT ![a] = IdleTx]
  /\ UNCHANGED <<storeVars, ops>>

\* Steps before COMMIT, which touch no other component.
PrepareStep(a) ==
  \/ LoadService(a) \/ LoadNewService(a) \/ LoadRoute(a)
  \/ LoadNewRoute(a) \/ LoadDelete(a)
  \/ SaveService(a) \/ SaveNewService(a) \/ PostSaveService(a)
  \/ RememberPreviousRoute(a) \/ SaveRoute(a)
  \/ SaveNewRoute(a) \/ SaveDelete(a)
  \/ Rollback(a) \/ InvalidateProjectRoutes(a) \/ Respond(a)
=============================================================================
