----------------------------- MODULE RouteSystem ----------------------------
(***************************************************************************)
(* Administrators changing routes and services (RouteAdmin) while gateway  *)
(* requests resolve them through Redis (RouteCache): every on_commit       *)
(* callback is an invalidate_route call, which runs its script, or fails   *)
(* and is only logged.                                                     *)
(***************************************************************************)
EXTENDS RouteAdmin, RouteCache

VARIABLE lost    \* keys whose invalidation failed and was not repeated

vars == <<storeVars, adminVars, cacheVars, get, historyVars, lost>>

Init == StoreInit /\ AdminInit /\ CacheInit /\ lost = {}

\* A commit makes new values current, hence fresh.
Observe ==
  LET now == [k \in Keys |-> ReadRoute(k)'] IN
  /\ fresh' = [k \in Keys |-> fresh[k] \cup {now[k]}]
  /\ allowed' = [r \in Readers |->
       IF get[r].pc \in Active THEN allowed[r] \cup {now[get[r].key]}
       ELSE allowed[r]]

PrepareTx(a) == PrepareStep(a) /\ UNCHANGED <<cacheVars, get, historyVars, lost>>

CommitTx(a) ==
  /\ Commit(a) \/ \E p \in Projects : BulkUpdate(a, p)
  /\ Observe
  /\ UNCHANGED <<cacheVars, get, lost>>

-----------------------------------------------------------------------------
(* invalidate_route, called by administrator a's request.                  *)

InvalidateRoute(a, k) ==
  /\ FinishCallback(a, k)
  /\ Invalidate(k)
  /\ lost' = lost \ {k}
  /\ UNCHANGED <<late, faults, get, allowed>>

InvalidateScript(k) == [type |-> "invalidate", key |-> k]

\* RedisError or OSError: logged and forgotten, though the script may run.
InvalidateFault(a, k) ==
  /\ FinishCallback(a, k)
  /\ faults < MaxFaults
  /\ faults' = faults + 1
  /\ late' = late \/ late' = late \cup {InvalidateScript(k)}
  /\ lost' = lost \cup {k}
  /\ UNCHANGED <<cache, gen, get, historyVars>>

\* The cluster client times out and sends the script again.
InvalidateRetry(a, k) ==
  /\ tx[a].pc = "callbacks" /\ k \in tx[a].pending
  /\ faults < MaxFaults
  /\ faults' = faults + 1
  /\ late' = late \cup {InvalidateScript(k)}
  /\ UNCHANGED <<storeVars, adminVars, cache, gen, get, historyVars, lost>>

\* The keys administrator a's request has yet to invalidate.
Outstanding(a) ==
  CASE tx[a].pc = "callbacks" -> tx[a].pending
    [] tx[a].pc = "bulkSaved" -> RouteKeysOfProject(tx[a].pk)
    [] OTHER -> {}

Crash(a) ==
  /\ CrashAfterCommit(a)
  /\ faults < MaxFaults
  /\ faults' = faults + 1
  /\ lost' = lost \cup Outstanding(a)
  /\ UNCHANGED <<cache, gen, late, get, historyVars>>

AdminNext(a) ==
  \/ PrepareTx(a) \/ CommitTx(a) \/ Crash(a)
  \/ \E k \in Keys :
       InvalidateRoute(a, k) \/ InvalidateFault(a, k) \/ InvalidateRetry(a, k)

-----------------------------------------------------------------------------
LookupNext(r) == ReaderNext(r) /\ UNCHANGED <<adminVars, lost>>

ExpireEntry(k) ==
  Expire(k) /\ UNCHANGED <<storeVars, adminVars, get, historyVars, lost>>

\* An invalidation that runs late makes up for the failed one.
RunLate(c) ==
  /\ LateScript(c)
  /\ lost' = IF c.type = "invalidate" THEN lost \ {c.key} ELSE lost
  /\ UNCHANGED adminVars

DropLate(c) == LoseScript(c) /\ UNCHANGED <<adminVars, lost>>

Next ==
  \/ \E a \in Admins : AdminNext(a)
  \/ \E r \in Readers : LookupNext(r)
  \/ \E k \in Keys : ExpireEntry(k)
  \/ \E c \in late : RunLate(c) \/ DropLate(c)

Spec == Init /\ [][Next]_vars

\* A request thread keeps running, Redis expires keys and drains its
\* sockets.  Administrators owe nothing: they may stop anywhere.
Fairness ==
  /\ \A r \in Readers : WF_vars(GetStep(r) /\ UNCHANGED <<adminVars, lost>>)
  /\ \A k \in Keys : WF_vars(ExpireEntry(k))
  /\ WF_vars(\E c \in late : RunLate(c) \/ DropLate(c))

FairSpec == Spec /\ Fairness

-----------------------------------------------------------------------------
(* Properties.                                                             *)

\* Every variable keeps its type; a version read from Redis is a number
\* even when the key does not exist.
TypeOK ==
  /\ StoreTypeOK
  /\ tx \in [Admins -> Tx]
  /\ ops \in Nat
  /\ cache \in [Keys -> Found]
  /\ gen \in [Keys -> Nat]
  /\ late \subseteq Script
  /\ faults \in Nat
  /\ get \in [Readers -> Call]
  /\ fresh \in [Keys -> SUBSET Found]
  /\ allowed \in [Readers -> SUBSET Found]
  /\ lost \subseteq Keys

\* No stale fill undoes an invalidation: whatever Redis holds for a route
\* was current in MySQL at some time since the route was last invalidated.
NoStaleRefill ==
  \A k \in Keys : cache[k] # None => cache[k] \in fresh[k]

-----------------------------------------------------------------------------
(* Why no stale fill happens, as an inductive invariant.                   *)

\* What a transaction holds fits its operation.
WellFormedTx(t) ==
  /\ t.op \in ServiceOps => t.inst \in ServiceRow
  /\ t.op \in RouteOps => t.inst \in RouteRow
  /\ t.op \in {"patchRoute", "deleteRoute"} => t.pk \in Routes
  /\ t.pc = "remembered" => t.op = "patchRoute"

TxShape == \A a \in Admins : WellFormedTx(tx[a])

\* What a running call holds fits the step it is at.
WellFormedCall(g) ==
  /\ g.pc \in Active => g.key \in Keys
  /\ g.pc \in Active \ {"fallback"} => g.tries < MaxAttempts
  /\ g.pc = "publish" => g.snap \in Snapshots

CallShape == \A r \in Readers : WellFormedCall(get[r])

\* What MySQL says now has been current since any earlier invalidation.
CurrentIsFresh == \A k \in Keys : ReadRoute(k) \in fresh[k]

\* The version a call read is not ahead of the counter; if the counter has
\* not moved since, the snapshot it read afterwards is still fresh.
GuardedCall(g) ==
  /\ g.pc \in {"readRoute", "publish"} => g.gen <= gen[g.key]
  /\ g.pc = "publish" /\ g.gen = gen[g.key] => g.snap \in fresh[g.key]

ReadersGuarded == \A r \in Readers : GuardedCall(get[r])

\* The same of a publication that no call waits for any more.
LateGuarded ==
  \A c \in late : c.type = "publish" =>
    /\ c.gen <= gen[c.key]
    /\ c.gen = gen[c.key] => c.snap \in fresh[c.key]

\* What a call may still answer: everything fresh now, and what it read.
MayAnswer(g, answers) ==
  /\ g.pc \in Active => fresh[g.key] \subseteq answers
  /\ g.pc = "publish" => g.snap \in answers

AnswersAllowed == \A r \in Readers : MayAnswer(get[r], allowed[r])

\* A cached entry, and every publication on its way, is fresh as long as the
\* version it was read under is the current one.
IndInv ==
  /\ TypeOK
  /\ TxShape
  /\ CallShape
  /\ CurrentIsFresh
  /\ NoStaleRefill
  /\ ReadersGuarded
  /\ LateGuarded
  /\ AnswersAllowed

-----------------------------------------------------------------------------
\* An invalidation of k is due, or failed.
Dirty(k) == k \in lost \/ \E a \in Admins : k \in Outstanding(a)

\* Signals invalidate what a commit changed: an entry that differs from
\* MySQL is one whose invalidation has yet to run, or failed.
Coherent ==
  \A k \in Keys : cache[k] \notin {None, ReadRoute(k)} => Dirty(k)

-----------------------------------------------------------------------------
(* Why the signals suffice when requests do not overlap, as an inductive   *)
(* invariant.                                                              *)

WritesRoute(t) == t.pc = "registered" /\ t.op \in {"patchRoute", "newRoute"}

\* Nothing but an invalidation that is due tells snap from what MySQL says.
Clean(k, snap) == snap \in {None, ReadRoute(k)} \/ Dirty(k)

PublicationsCoherent ==
  /\ \A r \in Readers, k \in Keys :
       get[r].pc = "publish" /\ get[r].key = k /\ get[r].gen = gen[k] =>
         Clean(k, get[r].snap)
  /\ \A c \in late :
       c.type = "publish" /\ c.gen = gen[c.key] => Clean(c.key, c.snap)

\* The callbacks a transaction has registered cover every key whose lookup
\* its COMMIT changes: the old key, the new key, the keys of the service.
Covers(t) ==
  /\ t.pc = "loaded" /\ t.op = "deleteRoute" /\ routes[t.pk] # None =>
       KeyOf(routes[t.pk]) = KeyOf(t.inst)
  /\ t.pc = "remembered" /\ routes[t.pk] # None =>
       t.prev = KeyOf(routes[t.pk])
  /\ WritesRoute(t) => KeyOf(t.inst) \in t.pending
  /\ t.pc = "registered" /\ t.op \in RouteOps /\ routes[t.pk] # None =>
       KeyOf(routes[t.pk]) \in t.pending
  /\ t.pc = "registered" /\ t.op \in ServiceOps =>
       RouteKeysOfService(t.pk) \subseteq t.pending

\* With one administrator at a time every commit leaves behind invalidations
\* of all it changed, and no publication that can still pass undoes them.
CoherentInv ==
  Coherent /\ PublicationsCoherent /\ \A a \in Admins : Covers(tx[a])

\* A tenant never sees another tenant's route or destination through the
\* cache, or through a finished lookup.
OwnedBy(snap, p) ==
  /\ routes[snap.id] # None => routes[snap.id].project = p
  /\ snap.service # None => services[snap.service.id].project = p

TenantIsolation ==
  /\ \A k \in Keys : cache[k] # None => OwnedBy(cache[k], k[1])
  /\ \A r \in Readers :
       get[r].pc = "done" /\ get[r].snap # None =>
         OwnedBy(get[r].snap, get[r].key[1]) /\ get[r].snap.path = get[r].key[2]

\* A row's service exists and belongs to the row's project.
InProject(row) ==
  row.service # None =>
    /\ services[row.service] # None
    /\ services[row.service].project = row.project

\* (project, base_path) stays unique and a route's service stays within its
\* project, however the unlocked checks and full-row saves interleave.
TablesConsistent ==
  \A r \in Routes : routes[r] # None =>
    ~KeyTaken(r, KeyOf(routes[r])) /\ InProject(routes[r])

-----------------------------------------------------------------------------
(* Why the tables stay consistent, as an inductive invariant.              *)

\* The key of a written and uncommitted route is free, and nobody else's.
KeysReserved ==
  /\ \A a \in Admins :
       WritesRoute(tx[a]) => ~KeyTaken(tx[a].pk, KeyOf(tx[a].inst))
  /\ \A a, b \in Admins :
       a # b /\ WritesRoute(tx[a]) /\ WritesRoute(tx[b]) =>
         KeyOf(tx[a].inst) # KeyOf(tx[b].inst)

\* The service a request validated is still of the route's project.
ServicesChecked ==
  \A a \in Admins :
    tx[a].op \in {"patchRoute", "newRoute"} => InProject(tx[a].inst)

WritesService(t) == t.pc \in {"saved", "registered"} /\ t.op \in ServiceOps

\* A save of a service keeps the row's project; an inserted row is new.
ProjectsKept ==
  /\ \A a \in Admins : tx[a].op = "patchService" =>
       /\ tx[a].pk \in Services
       /\ services[tx[a].pk] # None
       /\ services[tx[a].pk].project = tx[a].inst.project
  /\ \A a \in Admins : WritesService(tx[a]) /\ tx[a].op = "newService" =>
       tx[a].pk \in Services /\ services[tx[a].pk] = None
  /\ \A a, b \in Admins :
       a # b /\ WritesService(tx[a]) /\ WritesService(tx[b]) =>
         tx[a].pk # tx[b].pk

\* What the transactions in progress will write fits the tables and each
\* other, so every COMMIT leaves the tables consistent.
TablesInv == TablesConsistent /\ KeysReserved /\ ServicesChecked /\ ProjectsKept

-----------------------------------------------------------------------------
(* Why tenants stay apart: a primary key belongs to one project for good,  *)
(* and every snapshot anywhere is one of a route its key's project owns.   *)

SnapshotOwned(owner, snap, k) ==
  /\ snap.id \in issued
  /\ owner[snap.id] = k[1]
  /\ snap.path = k[2]
  /\ snap.service # None =>
       /\ services[snap.service.id] # None
       /\ services[snap.service.id].project = k[1]

RowsOwned(owner) ==
  \A r \in Routes : routes[r] # None =>
    r \in issued /\ owner[r] = routes[r].project

\* A row that a save may bring back after another request deleted it.
WritesOwned(owner) ==
  \A a \in Admins :
    tx[a].op = "patchRoute" \/ WritesRoute(tx[a]) =>
      tx[a].pk \in issued /\ owner[tx[a].pk] = tx[a].inst.project

CacheOwned(owner) ==
  \A k \in Keys : cache[k] # None => SnapshotOwned(owner, cache[k], k)

\* A call about to publish, or one that has answered with a route.
Holds(g) == g.pc = "publish" \/ (g.pc = "done" /\ g.snap # None)

CallsOwned(owner) ==
  \A r \in Readers : Holds(get[r]) =>
    SnapshotOwned(owner, get[r].snap, get[r].key)

LateOwned(owner) ==
  \A c \in late : c.type = "publish" => SnapshotOwned(owner, c.snap, c.key)

\* One assignment of primary keys to projects fits the rows, the writes on
\* their way, the cache, every call and every late script.
TenantInv ==
  \E owner \in [issued -> Projects] :
    /\ RowsOwned(owner) /\ WritesOwned(owner)
    /\ CacheOwned(owner) /\ CallsOwned(owner) /\ LateOwned(owner)

\* Every get_route call answers.
LookupTerminates ==
  \A r \in Readers : get[r].pc \in Active ~> get[r].pc = "done"

\* Once the configuration stops changing the cache agrees with MySQL for
\* good, even if invalidations failed: the TTL removes what they left.
Converges == <>[](\A k \in Keys : cache[k] \in {None, ReadRoute(k)})

Lookup == INSTANCE RouteLookup WITH
  Values <- Found,
  current <- [k \in Keys |-> ReadRoute(k)],
  status <- [r \in Readers |->
               IF get[r].pc \in Active THEN "active" ELSE get[r].pc],
  request <- [r \in Readers |-> get[r].key],
  answer <- [r \in Readers |->
               IF get[r].pc = "done" THEN get[r].snap ELSE None]

\* get_route implements RouteLookup.
ImplementsLookup == Lookup!Spec
=============================================================================
