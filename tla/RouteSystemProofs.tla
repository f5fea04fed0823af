-------------------------- MODULE RouteSystemProofs -------------------------
(***************************************************************************)
(* Proofs about RouteSystem, for every number of tenants, routes, readers  *)
(* and administrators, and for every bound on operations and failures.     *)
(***************************************************************************)
EXTENDS RouteSystem, TLAPS

\* _read_route returns a well-formed snapshot or None.
LEMMA ReadRouteType ==
  StoreTypeOK => \A k \in Keys : ReadRoute(k) \in Found
<1> SUFFICES ASSUME StoreTypeOK, NEW k \in Keys,
                    NEW c \in Routes, Matches(c, k)
             PROVE  SnapshotOf(c) \in Snapshots
  BY DEF ReadRoute, Found
<1>1. routes[c] \in RouteRow
  BY DEF StoreTypeOK, Matches
<1>2. CASE routes[c].service = None
  BY <1>1, <1>2 DEF SnapshotOf, Snapshots, RouteRow
<1>3. CASE routes[c].service # None
  <2>1. routes[c].service \in Services
    BY <1>1, <1>3 DEF RouteRow
  <2>2. services[routes[c].service] \in ServiceRow
    BY <2>1, <1>3 DEF StoreTypeOK, Matches, Reachable
  <2> QED
    BY <1>1, <1>3, <2>1, <2>2 DEF SnapshotOf, Snapshots, RouteRow, ServiceRow
<1> QED
  BY <1>2, <1>3

\* The key of a row is a key.
LEMMA KeyOfType ==
  ASSUME NEW row \in RouteRow PROVE KeyOf(row) \in Keys
  BY DEF KeyOf, Keys, RouteRow

\* _read_route after the step returns a snapshot or nothing.
LEMMA ReadRouteTypeNext ==
  StoreTypeOK' => (\A k \in Keys : ReadRoute(k) \in Found)'
  BY ReadRouteType, PTL

-----------------------------------------------------------------------------
(* Types.                                                                  *)

TxOK == tx \in [Admins -> Tx] /\ ops \in Nat /\ TxShape

\* Replacing one transaction by a well-formed one.
LEMMA TxUpdate ==
  ASSUME TxOK, NEW a \in Admins, NEW new \in Tx, WellFormedTx(new),
         tx' = [tx EXCEPT ![a] = new], ops' \in Nat
  PROVE  TxOK'
<1>1. tx' \in [Admins -> Tx]
  BY DEF TxOK
<1>2. ASSUME NEW b \in Admins PROVE WellFormedTx(tx'[b])
  BY DEF TxOK, TxShape
<1>3. TxShape'
  BY <1>2 DEF TxShape, WellFormedTx
<1> QED
  BY <1>1, <1>3 DEF TxOK

\* The state between two transactions is well formed.
LEMMA IdleTxType == IdleTx \in Tx /\ WellFormedTx(IdleTx)
  BY OpsAssumption DEF IdleTx, Tx, WellFormedTx, AllOps, ServiceOps, RouteOps

\* Beginning a transaction with a row of the operation's table.
LEMMA BeginType ==
  ASSUME TxOK, NEW a \in Admins, NEW op, NEW pk, NEW inst, Begin(a, op, pk, inst),
         pk \in Services \cup Routes \cup {None},
         op \in ServiceOps => inst \in ServiceRow,
         op \in RouteOps => inst \in RouteRow,
         op \in ServiceOps \cup RouteOps,
         op \in {"patchRoute", "deleteRoute"} => pk \in Routes
  PROVE  TxOK' /\ UNCHANGED storeVars
<1> DEFINE new == [pc |-> "loaded", op |-> op, pk |-> pk, inst |-> inst,
                   prev |-> None, pending |-> {}]
<1>1. tx' = [tx EXCEPT ![a] = new] /\ ops' = ops + 1 /\ UNCHANGED storeVars
  BY DEF Begin
<1>2. new \in Tx /\ WellFormedTx(new)
  BY DEF Tx, WellFormedTx, AllOps, ServiceOps, RouteOps
<1>3. ops' \in Nat
  BY <1>1 DEF TxOK
<1> HIDE DEF new
<1> QED
  BY <1>1, <1>2, <1>3, TxUpdate

\* Every step before COMMIT keeps the transactions well formed and leaves
\* the committed rows alone.
LEMMA PrepareType ==
  ASSUME StoreTypeOK, TxOK, NEW a \in Admins, PrepareStep(a)
  PROVE  TxOK' /\ StoreTypeOK' /\ UNCHANGED <<services, routes>>
<1> USE DEF ServiceOps, RouteOps
<1>1. CASE LoadService(a)
  <2>1. PICK s \in Services, url \in Origins, active \in BOOLEAN :
          /\ services[s] # None
          /\ Begin(a, "patchService", s,
                   [services[s] EXCEPT !.url = url, !.active = active])
    BY <1>1 DEF LoadService
  <2>2. [services[s] EXCEPT !.url = url, !.active = active] \in ServiceRow
    BY <2>1 DEF StoreTypeOK, ServiceRow
  <2> QED
    BY <2>1, <2>2, BeginType DEF StoreTypeOK, storeVars
<1>2. CASE LoadNewService(a)
  <2>1. PICK p \in Projects, url \in Origins, active \in BOOLEAN :
          Begin(a, "newService", None,
                [project |-> p, url |-> url, active |-> active])
    BY <1>2 DEF LoadNewService
  <2>2. [project |-> p, url |-> url, active |-> active] \in ServiceRow
    BY DEF ServiceRow
  <2> QED
    BY <2>1, <2>2, BeginType DEF StoreTypeOK, storeVars
<1>3. CASE LoadRoute(a)
  <2>1. PICK r \in Routes, path \in Paths, active \in BOOLEAN,
             s \in Services \cup {None} :
          /\ routes[r] # None
          /\ Begin(a, "patchRoute", r,
                   [routes[r] EXCEPT !.path = path, !.active = active,
                                     !.service = s])
    BY <1>3 DEF LoadRoute
  <2>2. [routes[r] EXCEPT !.path = path, !.active = active, !.service = s]
          \in RouteRow
    BY <2>1 DEF StoreTypeOK, RouteRow
  <2> QED
    BY <2>1, <2>2, BeginType DEF StoreTypeOK, storeVars
<1>4. CASE LoadNewRoute(a)
  <2>1. PICK p \in Projects, path \in Paths, active \in BOOLEAN,
             s \in Services :
          Begin(a, "newRoute", None, [project |-> p, service |-> s,
                                      path |-> path, active |-> active])
    BY <1>4 DEF LoadNewRoute
  <2>2. [project |-> p, service |-> s, path |-> path, active |-> active]
          \in RouteRow
    BY DEF RouteRow
  <2> QED
    BY <2>1, <2>2, BeginType DEF StoreTypeOK, storeVars
<1>5. CASE LoadDelete(a)
  <2>1. PICK r \in Routes :
          routes[r] # None /\ Begin(a, "deleteRoute", r, routes[r])
    BY <1>5 DEF LoadDelete
  <2>2. routes[r] \in RouteRow
    BY <2>1 DEF StoreTypeOK
  <2> QED
    BY <2>1, <2>2, BeginType DEF StoreTypeOK, storeVars
<1>6. CASE SaveService(a)
  <2>1. [tx[a] EXCEPT !.pc = "saved"] \in Tx
          /\ WellFormedTx([tx[a] EXCEPT !.pc = "saved"])
    BY DEF TxOK, TxShape, WellFormedTx, Tx
  <2> QED
    BY <1>6, <2>1, TxUpdate DEF SaveService, Step, TxOK, StoreTypeOK, storeVars
<1>7. CASE SaveNewService(a)
  <2>1. PICK s \in Services :
          /\ tx[a].op = "newService"
          /\ tx' = [tx EXCEPT ![a] = [@ EXCEPT !.pc = "saved", !.pk = s]]
          /\ UNCHANGED <<storeVars, ops>>
    BY <1>7 DEF SaveNewService
  <2>2. [tx[a] EXCEPT !.pc = "saved", !.pk = s] \in Tx
          /\ WellFormedTx([tx[a] EXCEPT !.pc = "saved", !.pk = s])
    BY <2>1 DEF TxOK, TxShape, WellFormedTx, Tx
  <2> QED
    BY <2>1, <2>2, TxUpdate DEF TxOK, StoreTypeOK, storeVars
<1>8. CASE PostSaveService(a)
  <2>1. RouteKeysOfService(tx[a].pk) \subseteq Keys
    BY KeyOfType DEF RouteKeysOfService, StoreTypeOK
  <2> DEFINE new == [tx[a] EXCEPT !.pc = "registered",
                               !.pending = RouteKeysOfService(tx[a].pk)]
  <2>8. tx' = [tx EXCEPT ![a] = new] /\ UNCHANGED <<storeVars, ops>>
    BY <1>8 DEF PostSaveService
  <2>9. new \in Tx /\ WellFormedTx(new)
    BY <1>8, <2>1 DEF PostSaveService, TxOK, TxShape, WellFormedTx, Tx
  <2> QED
    BY <2>8, <2>9, TxUpdate DEF TxOK, StoreTypeOK, storeVars
<1>9. CASE RememberPreviousRoute(a)
  <2>1. tx[a].pk \in Routes
    BY <1>9 DEF RememberPreviousRoute, TxOK, TxShape, WellFormedTx
  <2> DEFINE prev == IF routes[tx[a].pk] = None THEN None
                     ELSE KeyOf(routes[tx[a].pk])
             new == [tx[a] EXCEPT !.pc = "remembered", !.prev = prev]
  <2>2. prev \in Keys \cup {None}
    BY <2>1, KeyOfType DEF StoreTypeOK
  <2>8. tx' = [tx EXCEPT ![a] = new] /\ UNCHANGED <<storeVars, ops>>
    BY <1>9 DEF RememberPreviousRoute
  <2> HIDE DEF prev
  <2>9. new \in Tx /\ WellFormedTx(new)
    BY <1>9, <2>2 DEF RememberPreviousRoute, TxOK, TxShape, WellFormedTx, Tx
  <2> QED
    BY <2>8, <2>9, TxUpdate DEF TxOK, StoreTypeOK, storeVars
<1>10. CASE SaveRoute(a)
  <2>1. KeyOf(tx[a].inst) \in Keys
    BY <1>10, KeyOfType DEF SaveRoute, TxOK, TxShape, WellFormedTx
  <2>2. tx[a].prev \in Keys \cup {None}
    BY DEF TxOK, Tx
  <2> DEFINE keys == {KeyOf(tx[a].inst)} \cup ({tx[a].prev} \ {None})
  <2>3. keys \in SUBSET Keys
    BY <2>1, <2>2
  <2> DEFINE new == [tx[a] EXCEPT !.pc = "registered", !.pending = keys]
  <2>8. tx' = [tx EXCEPT ![a] = new] /\ UNCHANGED <<storeVars, ops>>
    BY <1>10 DEF SaveRoute
  <2> HIDE DEF keys
  <2>9. new \in Tx /\ WellFormedTx(new)
    BY <1>10, <2>3 DEF SaveRoute, TxOK, TxShape, WellFormedTx, Tx
  <2> QED
    BY <2>8, <2>9, TxUpdate DEF TxOK, StoreTypeOK, storeVars
<1>11. CASE SaveNewRoute(a)
  <2>1. KeyOf(tx[a].inst) \in Keys
    BY <1>11, KeyOfType DEF SaveNewRoute, TxOK, TxShape, WellFormedTx
  <2>2. PICK r \in Routes :
          /\ issued' = issued \cup {r}
          /\ tx' = [tx EXCEPT ![a] = [@ EXCEPT !.pc = "registered", !.pk = r,
                                        !.pending = {KeyOf(tx[a].inst)}]]
          /\ UNCHANGED <<services, routes, ops>>
    BY <1>11 DEF SaveNewRoute
  <2> DEFINE new == [tx[a] EXCEPT !.pc = "registered", !.pk = r,
                                  !.pending = {KeyOf(tx[a].inst)}]
  <2>3. new \in Tx /\ WellFormedTx(new)
    BY <1>11, <2>1 DEF TxOK, TxShape, WellFormedTx, Tx
  <2> QED
    BY <2>2, <2>3, TxUpdate DEF TxOK, StoreTypeOK
<1>12. CASE SaveDelete(a)
  <2>1. KeyOf(tx[a].inst) \in Keys
    BY <1>12, KeyOfType DEF SaveDelete, TxOK, TxShape, WellFormedTx
  <2> DEFINE new == [tx[a] EXCEPT !.pc = "registered",
                               !.pending = {KeyOf(tx[a].inst)}]
  <2>8. tx' = [tx EXCEPT ![a] = new] /\ UNCHANGED <<storeVars, ops>>
    BY <1>12 DEF SaveDelete
  <2>9. new \in Tx /\ WellFormedTx(new)
    BY <1>12, <2>1 DEF SaveDelete, TxOK, TxShape, WellFormedTx, Tx
  <2> QED
    BY <2>8, <2>9, TxUpdate DEF TxOK, StoreTypeOK, storeVars
<1>13. CASE Rollback(a)
  BY <1>13, IdleTxType, TxUpdate DEF Rollback, TxOK, StoreTypeOK, storeVars
<1>14. CASE InvalidateProjectRoutes(a)
  <2>1. RouteKeysOfProject(tx[a].pk) \subseteq Keys
    BY KeyOfType DEF RouteKeysOfProject, StoreTypeOK
  <2> DEFINE new == [tx[a] EXCEPT !.pc = "callbacks",
                               !.pending = RouteKeysOfProject(tx[a].pk)]
  <2>8. tx' = [tx EXCEPT ![a] = new] /\ UNCHANGED <<storeVars, ops>>
    BY <1>14 DEF InvalidateProjectRoutes
  <2>9. new \in Tx /\ WellFormedTx(new)
    BY <1>14, <2>1 DEF InvalidateProjectRoutes, TxOK, TxShape, WellFormedTx, Tx
  <2> QED
    BY <2>8, <2>9, TxUpdate DEF TxOK, StoreTypeOK, storeVars
<1>15. CASE Respond(a)
  BY <1>15, IdleTxType, TxUpdate DEF Respond, TxOK, StoreTypeOK, storeVars
<1> QED
  BY <1>1, <1>2, <1>3, <1>4, <1>5, <1>6, <1>7, <1>8, <1>9, <1>10, <1>11,
     <1>12, <1>13, <1>14, <1>15 DEF PrepareStep

\* COMMIT and a bulk UPDATE write well-formed rows.
LEMMA CommitType ==
  ASSUME StoreTypeOK, TxOK, NEW a \in Admins,
         Commit(a) \/ \E p \in Projects : BulkUpdate(a, p)
  PROVE  TxOK' /\ StoreTypeOK'
<1>1. CASE Commit(a)
  <2> DEFINE new == [tx[a] EXCEPT !.pc = "callbacks"]
  <2>1. tx' = [tx EXCEPT ![a] = new] /\ ops' = ops
    BY <1>1 DEF Commit
  <2>2. new \in Tx /\ WellFormedTx(new)
    BY DEF TxOK, TxShape, WellFormedTx, Tx
  <2>3. TxOK'
    BY <2>1, <2>2, TxUpdate DEF TxOK
  <2>4. tx[a].op \in ServiceOps => tx[a].inst \in ServiceRow
    BY DEF TxOK, TxShape, WellFormedTx
  <2>5. tx[a].op \in RouteOps => tx[a].inst \in RouteRow
    BY DEF TxOK, TxShape, WellFormedTx
  <2>6. StoreTypeOK'
    BY <1>1, <2>4, <2>5 DEF Commit, StoreTypeOK, RouteOps
  <2> QED
    BY <2>3, <2>6
<1>2. ASSUME NEW p \in Projects, BulkUpdate(a, p) PROVE TxOK' /\ StoreTypeOK'
  <2> DEFINE new == [pc |-> "bulkSaved", op |-> "bulk", pk |-> p,
                     inst |-> None, prev |-> None, pending |-> {}]
  <2>1. tx' = [tx EXCEPT ![a] = new] /\ ops' \in Nat
    BY <1>2 DEF BulkUpdate, TxOK
  <2>2. new \in Tx /\ WellFormedTx(new)
    BY DEF Tx, WellFormedTx, AllOps, ServiceOps, RouteOps
  <2>3. TxOK'
    BY <2>1, <2>2, TxUpdate
  <2>4. PICK active \in BOOLEAN :
          services' = [s \in Services |->
            IF services[s] # None /\ services[s].project = p
            THEN [services[s] EXCEPT !.active = active] ELSE services[s]]
    BY <1>2 DEF BulkUpdate
  <2>5. ASSUME NEW s \in Services, services[s] # None
        PROVE  [services[s] EXCEPT !.active = active] \in ServiceRow
    BY <2>5 DEF StoreTypeOK, ServiceRow
  <2>6. services' \in [Services -> ServiceRow \cup {None}]
    BY <2>4, <2>5 DEF StoreTypeOK
  <2> QED
    BY <1>2, <2>3, <2>6 DEF BulkUpdate, StoreTypeOK
<1> QED
  BY <1>1, <1>2

\* After COMMIT only the list of callbacks shrinks, or is dropped.
LEMMA CallbackType ==
  ASSUME StoreTypeOK, TxOK, NEW a \in Admins,
         CrashAfterCommit(a) \/ \E k \in Keys : FinishCallback(a, k)
  PROVE  TxOK' /\ StoreTypeOK' /\ UNCHANGED storeVars
<1>1. CASE CrashAfterCommit(a)
  BY <1>1, IdleTxType, TxUpdate
  DEF CrashAfterCommit, TxOK, StoreTypeOK, storeVars
<1>2. ASSUME NEW k \in Keys, FinishCallback(a, k)
      PROVE  TxOK' /\ StoreTypeOK' /\ UNCHANGED storeVars
  <2> DEFINE new == [tx[a] EXCEPT !.pending = @ \ {k}]
  <2>1. tx' = [tx EXCEPT ![a] = new] /\ UNCHANGED <<storeVars, ops>>
    BY <1>2 DEF FinishCallback
  <2>2. new \in Tx /\ WellFormedTx(new)
    BY DEF TxOK, TxShape, WellFormedTx, Tx
  <2> QED
    BY <2>1, <2>2, TxUpdate DEF TxOK, StoreTypeOK, storeVars
<1> QED
  BY <1>1, <1>2

\* What _read_route returns depends on the two tables only.
LEMMA ReadRouteUnchanged ==
  ASSUME UNCHANGED <<services, routes>>
  PROVE  \A k \in Keys : ReadRoute(k)' = ReadRoute(k)
  BY DEF ReadRoute, Matches, Reachable, SnapshotOf, KeyOf

-----------------------------------------------------------------------------
(* The inductive invariant.                                                *)

\* The guard, for the keys of K: every one of them here, those whose version
\* never went back when a shard fails over.
FreshIn(K) == \A k \in K : cache[k] # None => cache[k] \in fresh[k]

CallGuarded(K, g) == g.key \in K => GuardedCall(g)

CallsGuarded(K) == \A r \in Readers : CallGuarded(K, get[r])

ScriptsGuarded(K) ==
  \A c \in late : c.type = "publish" /\ c.key \in K =>
    /\ c.gen <= gen[c.key]
    /\ c.gen = gen[c.key] => c.snap \in fresh[c.key]

\* The part of the invariant that is about readers, Redis and MySQL.
GuardInv(K) ==
  /\ cache \in [Keys -> Found]
  /\ gen \in [Keys -> Nat]
  /\ late \subseteq Script
  /\ get \in [Readers -> Call]
  /\ fresh \in [Keys -> SUBSET Found]
  /\ allowed \in [Readers -> SUBSET Found]
  /\ CallShape /\ CurrentIsFresh /\ AnswersAllowed
  /\ FreshIn(K) /\ CallsGuarded(K) /\ ScriptsGuarded(K)

\* The whole invariant, with the guard for the keys of K.
InvFor(K) ==
  /\ StoreTypeOK /\ TxOK /\ GuardInv(K)
  /\ faults \in Nat /\ lost \subseteq Keys

\* Asked of all keys it is the inductive invariant.
LEMMA IndInvParts == IndInv <=> InvFor(Keys)
<1>1. CallShape => (ReadersGuarded <=> CallsGuarded(Keys))
  BY DEF CallShape, WellFormedCall, ReadersGuarded, CallsGuarded, CallGuarded,
     GuardedCall, Active
<1>2. late \subseteq Script => (LateGuarded <=> ScriptsGuarded(Keys))
  <2>1. ASSUME late \subseteq Script, NEW c \in late, c.type = "publish"
        PROVE  c.key \in Keys
    BY <2>1 DEF Script
  <2> QED
    BY <2>1 DEF LateGuarded, ScriptsGuarded
<1>3. NoStaleRefill <=> FreshIn(Keys)
  BY DEF NoStaleRefill, FreshIn
<1> QED
  BY <1>1, <1>2, <1>3 DEF IndInv, TypeOK, TxOK, GuardInv, InvFor

\* One call takes a step; Redis may take a fresh entry or a guarded script.
LEMMA CallUpdate ==
  ASSUME NEW K \in SUBSET Keys, GuardInv(K), NEW r \in Readers, NEW new \in Call,
         NEW answers \in SUBSET Found,
         WellFormedCall(new), CallGuarded(K, new), MayAnswer(new, answers),
         get' = [get EXCEPT ![r] = new],
         allowed' = [allowed EXCEPT ![r] = answers],
         UNCHANGED <<services, routes, gen, fresh>>,
         cache' \in [Keys -> Found], FreshIn(K)',
         late' \subseteq Script, ScriptsGuarded(K)'
  PROVE  GuardInv(K)'
<1>1. /\ get' \in [Readers -> Call]
      /\ allowed' \in [Readers -> SUBSET Found]
      /\ gen' \in [Keys -> Nat] /\ fresh' \in [Keys -> SUBSET Found]
  BY DEF GuardInv
<1>2. \A q \in Readers : get'[q] = IF q = r THEN new ELSE get[q]
  BY DEF GuardInv
<1>3. \A q \in Readers : allowed'[q] = IF q = r THEN answers ELSE allowed[q]
  BY DEF GuardInv
<1>4. CallShape'
  BY <1>2 DEF GuardInv, CallShape, WellFormedCall
<1>5. CallsGuarded(K)'
  BY <1>2 DEF GuardInv, CallsGuarded, CallGuarded, GuardedCall
<1>6. AnswersAllowed'
  BY <1>2, <1>3 DEF GuardInv, AnswersAllowed, MayAnswer
<1>7. CurrentIsFresh'
  BY ReadRouteUnchanged DEF GuardInv, CurrentIsFresh
<1> QED
  BY <1>1, <1>4, <1>5, <1>6, <1>7 DEF GuardInv

\* _INVALIDATE moves the counter past every version read so far.
LEMMA InvalidateGuard ==
  ASSUME NEW K \in SUBSET Keys, StoreTypeOK, GuardInv(K), NEW k \in Keys, Invalidate(k),
         UNCHANGED <<services, routes, get, allowed>>,
         late' \subseteq late
  PROVE  GuardInv(K)'
<1>1. ReadRoute(k) \in Found /\ ReadRoute(k) \in fresh[k]
  BY ReadRouteType DEF GuardInv, CurrentIsFresh
<1>2. /\ gen' \in [Keys -> Nat] /\ gen'[k] = gen[k] + 1
      /\ \A q \in Keys \ {k} : gen'[q] = gen[q]
  BY DEF GuardInv, Invalidate
<1>3. /\ fresh' \in [Keys -> SUBSET Found] /\ fresh'[k] = {ReadRoute(k)}
      /\ \A q \in Keys \ {k} : fresh'[q] = fresh[q]
  BY <1>1 DEF GuardInv, Invalidate
<1>4. /\ cache' \in [Keys -> Found] /\ cache'[k] = None
      /\ \A q \in Keys \ {k} : cache'[q] = cache[q]
  BY DEF GuardInv, Invalidate, Found
<1>5. CallShape' /\ late' \subseteq Script
  BY DEF GuardInv, CallShape, WellFormedCall
<1>6. CurrentIsFresh'
  BY <1>3, ReadRouteUnchanged DEF GuardInv, CurrentIsFresh
<1>7. FreshIn(K)'
  BY <1>3, <1>4 DEF GuardInv, FreshIn
<1>8. CallsGuarded(K)'
  <2> SUFFICES ASSUME NEW r \in Readers PROVE CallGuarded(K, get[r])'
    BY DEF CallsGuarded
  <2>1. /\ get'[r] = get[r] /\ get[r].gen \in Nat
        /\ get[r].pc \in {"readRoute", "publish"} => get[r].key \in Keys
    BY DEF GuardInv, CallShape, WellFormedCall, Active, Call
  <2>2. CallGuarded(K, get[r])
    BY DEF GuardInv, CallsGuarded
  <2>3. gen \in [Keys -> Nat]
    BY DEF GuardInv
  <2> QED
    BY <1>2, <1>3, <2>1, <2>2, <2>3 DEF CallGuarded, GuardedCall
<1>9. ScriptsGuarded(K)'
  <2> SUFFICES ASSUME NEW c \in late, c.type = "publish", c.key \in K
               PROVE  /\ c.gen <= gen'[c.key]
                      /\ c.gen = gen'[c.key] => c.snap \in fresh'[c.key]
    BY DEF ScriptsGuarded
  <2>1. c.gen \in Nat /\ c.key \in Keys
    BY DEF GuardInv, Script
  <2>2. c.gen <= gen[c.key] /\ (c.gen = gen[c.key] => c.snap \in fresh[c.key])
    BY DEF GuardInv, ScriptsGuarded
  <2>3. gen \in [Keys -> Nat]
    BY DEF GuardInv
  <2> QED
    BY <1>2, <1>3, <2>1, <2>2, <2>3
<1>10. AnswersAllowed'
  <2> SUFFICES ASSUME NEW r \in Readers
               PROVE  MayAnswer(get[r], allowed[r])'
    BY DEF AnswersAllowed
  <2>1. MayAnswer(get[r], allowed[r])
    BY DEF GuardInv, AnswersAllowed
  <2>2. get[r].pc \in Active => get[r].key \in Keys
    BY DEF GuardInv, CallShape, WellFormedCall
  <2>3. \A q \in Keys : fresh'[q] \subseteq fresh[q]
    BY <1>1, <1>3
  <2> QED
    BY <2>1, <2>2, <2>3 DEF MayAnswer
<1> QED
  BY <1>2, <1>3, <1>4, <1>5, <1>6, <1>7, <1>8, <1>9, <1>10 DEF GuardInv

\* A commit only adds to what is fresh and to what may be answered.
LEMMA CommitGuard ==
  ASSUME NEW K \in SUBSET Keys, GuardInv(K), StoreTypeOK', Observe, UNCHANGED <<cacheVars, get>>
  PROVE  GuardInv(K)'
<1> DEFINE now == [k \in Keys |-> ReadRoute(k)']
<1>1. \A k \in Keys : now[k] \in Found /\ now[k] = ReadRoute(k)'
  BY ReadRouteTypeNext
<1>2. fresh' = [k \in Keys |-> fresh[k] \cup {now[k]}]
  BY DEF Observe
<1>3. allowed' = [r \in Readers |->
        IF get[r].pc \in Active THEN allowed[r] \cup {now[get[r].key]}
        ELSE allowed[r]]
  BY DEF Observe
<1> HIDE DEF now
<1>4. \A r \in Readers : get[r].pc \in Active => get[r].key \in Keys
  BY DEF GuardInv, CallShape, WellFormedCall
<1>5. /\ fresh' \in [Keys -> SUBSET Found]
      /\ allowed' \in [Readers -> SUBSET Found]
  BY <1>1, <1>2, <1>3, <1>4 DEF GuardInv
<1>6. \A k \in Keys : fresh[k] \subseteq fresh'[k]
  BY <1>2
<1>7. CurrentIsFresh'
  BY <1>1, <1>2 DEF CurrentIsFresh
<1>8. FreshIn(K)'
  BY <1>6 DEF GuardInv, FreshIn, cacheVars
<1>9. CallsGuarded(K)'
  <2> SUFFICES ASSUME NEW r \in Readers PROVE CallGuarded(K, get[r])'
    BY DEF CallsGuarded
  <2>1. CallGuarded(K, get[r])
    BY DEF GuardInv, CallsGuarded
  <2> QED
    BY <1>4, <1>6, <2>1 DEF CallGuarded, GuardedCall, cacheVars, Active
<1>10. ScriptsGuarded(K)'
  <2> SUFFICES ASSUME NEW c \in late, c.type = "publish", c.key \in K
               PROVE  /\ c.gen <= gen[c.key]
                      /\ c.gen = gen[c.key] => c.snap \in fresh'[c.key]
    BY DEF ScriptsGuarded, cacheVars
  <2>1. c.key \in Keys
    BY DEF GuardInv, Script
  <2>2. c.gen <= gen[c.key] /\ (c.gen = gen[c.key] => c.snap \in fresh[c.key])
    BY DEF GuardInv, ScriptsGuarded
  <2> QED
    BY <1>6, <2>1, <2>2
<1>11. AnswersAllowed'
  <2> SUFFICES ASSUME NEW r \in Readers
               PROVE  MayAnswer(get[r], allowed[r])'
    BY DEF AnswersAllowed
  <2>1. MayAnswer(get[r], allowed[r])
    BY DEF GuardInv, AnswersAllowed
  <2> QED
    BY <1>2, <1>3, <1>4, <2>1 DEF MayAnswer, Active
<1> QED
  BY <1>5, <1>7, <1>8, <1>9, <1>10, <1>11
  DEF GuardInv, cacheVars, CallShape, WellFormedCall

\* A finished call: nothing is asked of it any more.
LEMMA DoneCall ==
  ASSUME NEW K, NEW k \in Keys, NEW answer \in Found
  PROVE  LET new == NewCall("done", k, answer)
         IN  new \in Call /\ WellFormedCall(new) /\ CallGuarded(K, new)
             /\ MayAnswer(new, {})
  BY CacheAssumption
  DEF NewCall, Call, WellFormedCall, CallGuarded, GuardedCall, MayAnswer, Active

\* Every step of a get_route call keeps the guard.
LEMMA ReaderGuard ==
  ASSUME NEW K \in SUBSET Keys, StoreTypeOK, GuardInv(K), NEW r \in Readers, ReaderNext(r)
  PROVE  GuardInv(K)'
<1> USE DEF GuardInv
<1>0. get[r] \in Call /\ allowed[r] \in SUBSET Found
  OBVIOUS
<1>a. WellFormedCall(get[r]) /\ CallGuarded(K, get[r])
        /\ MayAnswer(get[r], allowed[r])
  BY DEF CallShape, CallsGuarded, AnswersAllowed
<1>b. allowed = [allowed EXCEPT ![r] = allowed[r]]
  OBVIOUS
<1>c. get[r].pc \in Active => get[r].key \in Keys
  BY <1>a DEF WellFormedCall
<1>d. \A k \in Keys : ReadRoute(k) \in Found /\ ReadRoute(k) \in fresh[k]
  BY ReadRouteType DEF CurrentIsFresh
<1>e. ASSUME UNCHANGED <<cache, gen, late, fresh>>
      PROVE  /\ cache' \in [Keys -> Found] /\ late' \subseteq Script
             /\ FreshIn(K)' /\ ScriptsGuarded(K)'
  BY <1>e DEF FreshIn, ScriptsGuarded
<1>1. ASSUME NEW k \in Keys, GetRoute(r, k) PROVE GuardInv(K)'
  <2> DEFINE new == NewCall("getData", k, None)
  <2>1. new \in Call /\ WellFormedCall(new) /\ CallGuarded(K, new)
          /\ MayAnswer(new, fresh[k]) /\ fresh[k] \in SUBSET Found
    BY CacheAssumption
    DEF NewCall, Call, WellFormedCall, CallGuarded, GuardedCall, MayAnswer, Active, Found
  <2>2. /\ get' = [get EXCEPT ![r] = new]
        /\ allowed' = [allowed EXCEPT ![r] = fresh[k]]
        /\ UNCHANGED <<storeVars, cacheVars, fresh>>
    BY <1>1 DEF GetRoute
  <2> HIDE DEF new
  <2> QED
    BY <2>1, <2>2, CallUpdate DEF storeVars, cacheVars, FreshIn, ScriptsGuarded
<1>2. ASSUME NEW answer \in Found, Return(r, answer), get[r].key \in Keys,
             UNCHANGED <<services, routes, gen>>,
             cache' \in [Keys -> Found], FreshIn(K)', late' = late
      PROVE  GuardInv(K)'
  <2> DEFINE new == NewCall("done", get[r].key, answer)
  <2>1. new \in Call /\ WellFormedCall(new) /\ CallGuarded(K, new)
          /\ MayAnswer(new, {})
    BY <1>2, DoneCall
  <2>2. /\ get' = [get EXCEPT ![r] = new]
        /\ allowed' = [allowed EXCEPT ![r] = {}] /\ UNCHANGED fresh
    BY <1>2 DEF Return
  <2> HIDE DEF new
  <2> QED
    BY <1>2, <2>1, <2>2, CallUpdate DEF ScriptsGuarded
<1>3. CASE GetData(r)
  <2>1. get[r].key \in Keys /\ cache[get[r].key] \in Found
    BY <1>3, <1>c DEF GetData, Active
  <2>2. CASE cache[get[r].key] # None
    <3>1. Return(r, cache[get[r].key]) /\ UNCHANGED <<storeVars, cacheVars>>
      BY <1>3, <2>2 DEF GetData
    <3>2. FreshIn(K)'
      BY <3>1 DEF Return, FreshIn, cacheVars
    <3> QED
      BY <1>2, <2>1, <3>1, <3>2 DEF storeVars, cacheVars
  <2>3. CASE cache[get[r].key] = None
    <3> DEFINE new == [get[r] EXCEPT !.pc = "getVersion"]
    <3>1. new \in Call /\ WellFormedCall(new) /\ CallGuarded(K, new)
            /\ MayAnswer(new, allowed[r])
      BY <1>0, <1>a, <1>3
      DEF GetData, Call, WellFormedCall, CallGuarded, GuardedCall, MayAnswer, Active
    <3>2. get' = [get EXCEPT ![r] = new]
            /\ UNCHANGED <<storeVars, cacheVars, historyVars>>
      BY <1>3, <2>3 DEF GetData, Goto
    <3> HIDE DEF new
    <3> QED
      BY <1>0, <1>b, <1>e, <3>1, <3>2, CallUpdate
      DEF storeVars, cacheVars, historyVars
  <2> QED
    BY <2>2, <2>3
<1>4. CASE GetVersion(r)
  <2> DEFINE version == gen[get[r].key]
             new == [get[r] EXCEPT !.pc = "readRoute", !.gen = version]
  <2>1. version \in Nat /\ version <= gen[get[r].key] /\ get[r].key \in Keys
    BY <1>4, <1>c DEF GetVersion, Active
  <2>3. get' = [get EXCEPT ![r] = new]
          /\ UNCHANGED <<storeVars, cacheVars, historyVars>>
    BY <1>4 DEF GetVersion
  <2> HIDE DEF version
  <2>2. new \in Call /\ WellFormedCall(new) /\ CallGuarded(K, new)
          /\ MayAnswer(new, allowed[r])
    BY <1>0, <1>a, <1>4, <2>1
    DEF GetVersion, Call, WellFormedCall, CallGuarded, GuardedCall, MayAnswer, Active
  <2> HIDE DEF new
  <2> QED
    BY <1>0, <1>b, <1>e, <2>2, <2>3, CallUpdate
    DEF storeVars, cacheVars, historyVars
<1>5. CASE ReadForPublish(r)
  <2>1. get[r].key \in Keys
    BY <1>5, <1>c DEF ReadForPublish, Active
  <2>2. CASE ReadRoute(get[r].key) = None
    <3>1. Return(r, None) /\ UNCHANGED <<storeVars, cacheVars>>
      BY <1>5, <2>2 DEF ReadForPublish
    <3>2. FreshIn(K)' /\ None \in Found
      BY <3>1 DEF Return, FreshIn, cacheVars, Found
    <3> QED
      BY <1>2, <2>1, <3>1, <3>2 DEF storeVars, cacheVars
  <2>3. CASE ReadRoute(get[r].key) # None
    <3> DEFINE snap == ReadRoute(get[r].key)
               new == [get[r] EXCEPT !.pc = "publish", !.snap = snap]
    <3>1. snap \in Snapshots /\ snap \in fresh[get[r].key]
      BY <1>d, <2>1, <2>3 DEF Found
    <3>2. get' = [get EXCEPT ![r] = new]
            /\ UNCHANGED <<storeVars, cacheVars, historyVars>>
      BY <1>5, <2>3 DEF ReadForPublish
    <3> HIDE DEF snap
    <3>3. new \in Call /\ WellFormedCall(new) /\ CallGuarded(K, new)
            /\ MayAnswer(new, allowed[r])
      BY <1>0, <1>a, <1>5, <3>1
      DEF ReadForPublish, Call, WellFormedCall, CallGuarded, GuardedCall, MayAnswer,
          Active, Found
    <3> HIDE DEF new
    <3> QED
      BY <1>0, <1>b, <1>e, <3>2, <3>3, CallUpdate
      DEF storeVars, cacheVars, historyVars
  <2> QED
    BY <2>2, <2>3
<1>6. CASE EvalPublish(r)
  <2>1. /\ get[r].key \in Keys /\ get[r].snap \in Snapshots
        /\ get[r].snap \in Found /\ get[r].tries < MaxAttempts
        /\ get[r].tries \in Nat
    BY <1>0, <1>a, <1>6
    DEF EvalPublish, WellFormedCall, Active, Found, Call
  <2>2. cache' \in [Keys -> Found]
    BY <1>6, <2>1 DEF EvalPublish, Publish
  <2>3. FreshIn(K)'
    <3>1. CASE gen[get[r].key] = get[r].gen
      <4>1. get[r].key \in K => get[r].snap \in fresh[get[r].key]
        BY <1>a, <1>6, <3>1 DEF EvalPublish, CallGuarded, GuardedCall
      <4>2. cache' = [cache EXCEPT ![get[r].key] = get[r].snap]
              /\ fresh' = fresh
        BY <1>6, <3>1 DEF EvalPublish, Publish, Return
      <4> QED
        BY <4>1, <4>2 DEF FreshIn
    <3>2. CASE gen[get[r].key] # get[r].gen
      BY <1>6, <3>2 DEF EvalPublish, Publish, FreshIn, historyVars
    <3> QED
      BY <3>1, <3>2
  <2>4. CASE gen[get[r].key] = get[r].gen
    BY <1>2, <1>6, <2>1, <2>2, <2>3, <2>4
    DEF EvalPublish, Publish, storeVars
  <2>5. CASE gen[get[r].key] # get[r].gen
    <3> DEFINE next == IF get[r].tries + 1 < MaxAttempts THEN "getData"
                       ELSE "fallback"
               tries == get[r].tries + 1
               new == [get[r] EXCEPT !.tries = tries, !.pc = next]
    <3>2. get' = [get EXCEPT ![r] = new]
            /\ UNCHANGED <<storeVars, late, gen, historyVars>>
      BY <1>6, <2>5 DEF EvalPublish, AfterRejection, Publish
    <3>3. /\ tries \in 0 .. MaxAttempts /\ next \in {"getData", "fallback"}
          /\ next = "getData" => tries < MaxAttempts
      BY <2>1, CacheAssumption
    <3> HIDE DEF next, tries
    <3>1. new \in Call /\ WellFormedCall(new) /\ CallGuarded(K, new)
            /\ MayAnswer(new, allowed[r])
      BY <1>0, <1>a, <1>6, <2>1, <3>3
      DEF EvalPublish, Call, WellFormedCall, CallGuarded, GuardedCall, MayAnswer, Active
    <3> HIDE DEF new
    <3> QED
      BY <1>0, <1>b, <2>2, <2>3, <3>1, <3>2, CallUpdate
      DEF storeVars, historyVars, ScriptsGuarded
  <2> QED
    BY <2>4, <2>5
<1>7. CASE Fallback(r)
  <2>1. get[r].key \in Keys
    BY <1>7, <1>c DEF Fallback, Active
  <2>2. Return(r, ReadRoute(get[r].key)) /\ UNCHANGED <<storeVars, cacheVars>>
    BY <1>7 DEF Fallback
  <2>3. FreshIn(K)'
    BY <2>2 DEF Return, FreshIn, cacheVars
  <2> QED
    BY <1>2, <1>d, <2>1, <2>2, <2>3 DEF storeVars, cacheVars
<1>8. ASSUME get[r].pc \in Active,
             Goto(r, "fallback") \/ UNCHANGED get,
             UNCHANGED <<services, routes, cache, gen, fresh, allowed>>,
             late' \subseteq Script, ScriptsGuarded(K)'
      PROVE  GuardInv(K)'
  <2> DEFINE failed == [get[r] EXCEPT !.pc = "fallback"]
  <2>1. failed \in Call /\ WellFormedCall(failed) /\ CallGuarded(K, failed)
          /\ MayAnswer(failed, allowed[r])
    BY <1>0, <1>a, <1>8
    DEF Call, WellFormedCall, CallGuarded, GuardedCall, MayAnswer, Active
  <2>2. get' = [get EXCEPT ![r] = failed] \/ get' = [get EXCEPT ![r] = get[r]]
    BY <1>8 DEF Goto
  <2> HIDE DEF failed
  <2> QED
    BY <1>0, <1>a, <1>b, <1>8, <2>1, <2>2, CallUpdate DEF FreshIn
<1>9. CASE ReadFault(r)
  BY <1>8, <1>9
  DEF ReadFault, Active, storeVars, historyVars, ScriptsGuarded
<1>10. CASE PublishTimeout(r)
  <2> DEFINE c == [type |-> "publish", key |-> get[r].key,
                   gen |-> get[r].gen, snap |-> get[r].snap]
  <2>1. get[r].key \in Keys /\ get[r].snap \in Snapshots /\ get[r].gen \in Nat
    BY <1>0, <1>a, <1>10 DEF PublishTimeout, WellFormedCall, Active, Call
  <2>2. late' = late \cup {c} /\ UNCHANGED <<gen, fresh>>
    BY <1>10 DEF PublishTimeout, historyVars
  <2>3. c \in Script
    BY <2>1 DEF Script
  <2>4. c.key \in K =>
          c.gen <= gen[c.key] /\ (c.gen = gen[c.key] => c.snap \in fresh[c.key])
    BY <1>a, <1>10 DEF PublishTimeout, CallGuarded, GuardedCall
  <2> HIDE DEF c
  <2>5. ScriptsGuarded(K)'
    BY <2>2, <2>4 DEF ScriptsGuarded
  <2> QED
    BY <1>8, <1>10, <2>2, <2>3, <2>5
    DEF PublishTimeout, Active, storeVars, historyVars
<1> QED
  BY <1>1, <1>3, <1>4, <1>5, <1>6, <1>7, <1>9, <1>10
  DEF ReaderNext, GetStep

\* Expiry, and scripts that run late or never, keep the guard.
LEMMA RedisGuard ==
  ASSUME NEW K \in SUBSET Keys, StoreTypeOK, GuardInv(K),
         \/ \E k \in Keys : ExpireEntry(k)
         \/ \E c \in late : LateScript(c) \/ LoseScript(c)
  PROVE  GuardInv(K)'
<1> USE DEF GuardInv
<1>1. ASSUME cache' \in [Keys -> Found], FreshIn(K)', late' \subseteq late,
             UNCHANGED <<services, routes, gen, fresh, get, allowed>>
      PROVE  GuardInv(K)'
  BY <1>1, ReadRouteUnchanged
  DEF CallShape, WellFormedCall, CurrentIsFresh, CallsGuarded, CallGuarded, GuardedCall,
      ScriptsGuarded, AnswersAllowed, MayAnswer
<1>2. ASSUME NEW k \in Keys, ExpireEntry(k) PROVE GuardInv(K)'
  <2>1. cache' \in [Keys -> Found] /\ FreshIn(K)'
    BY <1>2 DEF ExpireEntry, Expire, FreshIn, Found, historyVars
  <2> QED
    BY <1>1, <1>2, <2>1 DEF ExpireEntry, Expire, storeVars, historyVars
<1>3. ASSUME NEW c \in late, LoseScript(c) PROVE GuardInv(K)'
  BY <1>1, <1>3 DEF LoseScript, FreshIn, storeVars, historyVars
<1>4. ASSUME NEW c \in late, LateScript(c), c.type = "publish",
             Publish(c.key, c.gen, c.snap), UNCHANGED fresh
      PROVE  GuardInv(K)'
  <2>1. c.key \in Keys /\ c.snap \in Found
    BY <1>4 DEF Script, Found
  <2>2. c.gen = gen[c.key] /\ c.key \in K => c.snap \in fresh[c.key]
    BY <1>4 DEF ScriptsGuarded
  <2>3. cache' \in [Keys -> Found] /\ FreshIn(K)'
    BY <1>4, <2>1, <2>2 DEF Publish, FreshIn
  <2> QED
    BY <1>1, <1>4, <2>3 DEF LateScript, Publish, storeVars
<1>5. ASSUME NEW c \in late, LateScript(c), Invalidate(c.key) PROVE GuardInv(K)'
  <2>1. c.key \in Keys
    BY DEF Script
  <2> QED
    BY <1>5, <2>1, InvalidateGuard DEF LateScript, storeVars
<1> QED
  BY <1>2, <1>3, <1>4, <1>5 DEF LateScript

-----------------------------------------------------------------------------
(* The theorems.                                                           *)

\* The invariant holds initially.
LEMMA IndInvInit == Init => InvFor(Keys)
<1> SUFFICES ASSUME Init PROVE InvFor(Keys)
  OBVIOUS
<1> USE DEF Init
<1>1. StoreTypeOK
  BY InitAssumption DEF StoreInit, StoreTypeOK
<1>2. TxOK
  BY IdleTxType DEF AdminInit, TxOK, TxShape
<1>3. \A k \in Keys : ReadRoute(k) \in Found
  BY <1>1, ReadRouteType
<1>4. IdleCall \in Call /\ IdleCall.pc = "idle"
  BY CacheAssumption DEF IdleCall, NewCall, Call, Found
<1>5. GuardInv(Keys)
  BY <1>3, <1>4
  DEF CacheInit, GuardInv, Found, CallShape, WellFormedCall, CurrentIsFresh,
      FreshIn, CallsGuarded, CallGuarded, GuardedCall, ScriptsGuarded,
      AnswersAllowed, MayAnswer, Active
<1>6. faults \in Nat /\ lost \subseteq Keys
  BY DEF CacheInit
<1> QED
  BY <1>1, <1>2, <1>5, <1>6 DEF InvFor

\* A step that leaves Redis and the history alone keeps every guard.
LEMMA GuardUnchanged ==
  ASSUME NEW K \in SUBSET Keys, GuardInv(K), UNCHANGED <<services, routes, cache, gen, get, historyVars>>,
         late' \subseteq Script, ScriptsGuarded(K)'
  PROVE  GuardInv(K)'
  BY ReadRouteUnchanged
  DEF GuardInv, historyVars, CallShape, WellFormedCall, CurrentIsFresh,
      FreshIn, CallsGuarded, CallGuarded, GuardedCall, AnswersAllowed, MayAnswer

\* Sending an invalidation that nobody waits for keeps the guard.
LEMMA InvalidateSent ==
  ASSUME NEW K \in SUBSET Keys, GuardInv(K), NEW k \in Keys, UNCHANGED <<gen, historyVars>>,
         late' = late \/ late' = late \cup {InvalidateScript(k)}
  PROVE  late' \subseteq Script /\ ScriptsGuarded(K)'
  BY DEF GuardInv, InvalidateScript, Script, ScriptsGuarded, historyVars

\* Every step of administrators, readers and Redis preserves the invariant.
LEMMA InvForStep ==
  ASSUME NEW K \in SUBSET Keys, InvFor(K), [Next]_vars
  PROVE  InvFor(K)'
<1>0. StoreTypeOK /\ TxOK /\ GuardInv(K) /\ faults \in Nat /\ lost \subseteq Keys
  BY DEF InvFor
<1>a. ASSUME StoreTypeOK', TxOK', GuardInv(K)', faults' \in Nat, lost' \subseteq Keys
      PROVE  InvFor(K)'
  BY <1>a DEF InvFor
<1>b. ASSUME UNCHANGED adminVars PROVE TxOK'
  BY <1>0, <1>b DEF adminVars, TxOK, TxShape, WellFormedTx
<1>c. ASSUME UNCHANGED storeVars PROVE StoreTypeOK'
  BY <1>0, <1>c DEF storeVars, StoreTypeOK
<1>1. ASSUME NEW a \in Admins, PrepareTx(a) PROVE InvFor(K)'
  <2>1. TxOK' /\ StoreTypeOK' /\ UNCHANGED <<services, routes>>
    BY <1>0, <1>1, PrepareType DEF PrepareTx
  <2>2. GuardInv(K)'
    BY <1>0, <1>1, <2>1, GuardUnchanged
    DEF PrepareTx, cacheVars, GuardInv, ScriptsGuarded, historyVars
  <2> QED
    BY <1>0, <1>1, <1>a, <2>1, <2>2 DEF PrepareTx, cacheVars
<1>2. ASSUME NEW a \in Admins, CommitTx(a) PROVE InvFor(K)'
  <2>1. TxOK' /\ StoreTypeOK'
    BY <1>0, <1>2, CommitType DEF CommitTx
  <2>2. GuardInv(K)'
    BY <1>0, <1>2, <2>1, CommitGuard DEF CommitTx
  <2> QED
    BY <1>0, <1>2, <1>a, <2>1, <2>2 DEF CommitTx, cacheVars
<1>3. ASSUME NEW a \in Admins, NEW k \in Keys, InvalidateRoute(a, k)
      PROVE  InvFor(K)'
  <2>1. TxOK' /\ StoreTypeOK' /\ UNCHANGED storeVars
    BY <1>0, <1>3, CallbackType DEF InvalidateRoute
  <2>2. GuardInv(K)'
    BY <1>0, <1>3, <2>1, InvalidateGuard DEF InvalidateRoute, storeVars
  <2> QED
    BY <1>0, <1>3, <1>a, <2>1, <2>2 DEF InvalidateRoute
<1>4. ASSUME NEW a \in Admins, NEW k \in Keys, InvalidateFault(a, k)
      PROVE  InvFor(K)'
  <2>1. TxOK' /\ StoreTypeOK' /\ UNCHANGED storeVars
    BY <1>0, <1>4, CallbackType DEF InvalidateFault
  <2>2. late' \subseteq Script /\ ScriptsGuarded(K)'
    BY <1>0, <1>4, InvalidateSent DEF InvalidateFault
  <2>3. GuardInv(K)'
    BY <1>0, <1>4, <2>1, <2>2, GuardUnchanged DEF InvalidateFault, storeVars
  <2> QED
    BY <1>0, <1>4, <1>a, <2>1, <2>3 DEF InvalidateFault
<1>5. ASSUME NEW a \in Admins, NEW k \in Keys, InvalidateRetry(a, k)
      PROVE  InvFor(K)'
  <2>1. late' \subseteq Script /\ ScriptsGuarded(K)'
    BY <1>0, <1>5, InvalidateSent DEF InvalidateRetry
  <2>2. GuardInv(K)'
    BY <1>0, <1>5, <2>1, GuardUnchanged DEF InvalidateRetry, storeVars
  <2> QED
    BY <1>0, <1>5, <1>a, <1>b, <1>c, <2>2 DEF InvalidateRetry
<1>6. ASSUME NEW a \in Admins, Crash(a) PROVE InvFor(K)'
  <2>1. TxOK' /\ StoreTypeOK' /\ UNCHANGED storeVars
    BY <1>0, <1>6, CallbackType DEF Crash
  <2>2. Outstanding(a) \subseteq Keys
    <3>1. tx[a].pending \subseteq Keys
      BY <1>0 DEF TxOK, Tx
    <3>2. RouteKeysOfProject(tx[a].pk) \subseteq Keys
      BY <1>0, KeyOfType DEF RouteKeysOfProject, StoreTypeOK
    <3> QED
      BY <3>1, <3>2 DEF Outstanding
  <2>3. GuardInv(K)'
    BY <1>0, <1>6, <2>1, GuardUnchanged
    DEF Crash, storeVars, GuardInv, ScriptsGuarded, historyVars
  <2> QED
    BY <1>0, <1>6, <1>a, <2>1, <2>2, <2>3 DEF Crash
<1>7. ASSUME NEW r \in Readers, LookupNext(r) PROVE InvFor(K)'
  <2>1. UNCHANGED storeVars /\ faults' \in Nat
    BY <1>0, <1>7
    DEF LookupNext, ReaderNext, GetRoute, GetStep, GetData, GetVersion,
        ReadForPublish, EvalPublish, Fallback, ReadFault, PublishTimeout,
        cacheVars
  <2>2. GuardInv(K)'
    BY <1>0, <1>7, ReaderGuard DEF LookupNext
  <2> QED
    BY <1>0, <1>7, <1>a, <1>b, <1>c, <2>1, <2>2 DEF LookupNext
<1>8. ASSUME NEW k \in Keys, ExpireEntry(k) PROVE InvFor(K)'
  <2>1. GuardInv(K)'
    BY <1>0, <1>8, RedisGuard
  <2> QED
    BY <1>0, <1>8, <1>a, <1>b, <1>c, <2>1 DEF ExpireEntry, Expire
<1>9. ASSUME NEW c \in late, RunLate(c) \/ DropLate(c) PROVE InvFor(K)'
  <2>1. GuardInv(K)'
    BY <1>0, <1>9, RedisGuard DEF RunLate, DropLate
  <2>2. UNCHANGED <<storeVars, adminVars, faults>> /\ lost' \subseteq Keys
    BY <1>0, <1>9 DEF RunLate, DropLate, LateScript, LoseScript
  <2> QED
    BY <1>0, <1>a, <1>b, <1>c, <2>1, <2>2
<1>10. CASE UNCHANGED vars
  <2>1. GuardInv(K)'
    BY <1>0, <1>10, GuardUnchanged
    DEF vars, storeVars, cacheVars, historyVars, GuardInv, ScriptsGuarded
  <2> QED
    BY <1>0, <1>10, <1>a, <1>b, <1>c, <2>1 DEF vars, cacheVars
<1> QED
  BY <1>1, <1>2, <1>3, <1>4, <1>5, <1>6, <1>7, <1>8, <1>9, <1>10
  DEF Next, AdminNext

\* In particular for all keys.
LEMMA IndInvStep == IndInv /\ [Next]_vars => IndInv'
<1>1. InvFor(Keys) /\ [Next]_vars => InvFor(Keys)'
  BY InvForStep
<1> QED
  BY <1>1, IndInvParts, PTL

\* Every state the system reaches satisfies the inductive invariant.
THEOREM Invariance == Spec => []IndInv
  BY IndInvInit, IndInvStep, IndInvParts, PTL DEF Spec

\* Every variable keeps its type, for every number of administrators,
\* readers, tenants, routes and failures.
THEOREM TypeCorrect == Spec => []TypeOK
<1>1. IndInv => TypeOK
  BY DEF IndInv
<1> QED
  BY <1>1, Invariance, PTL

\* The generation guard: no cache fill, however late, undoes an invalidation.
THEOREM GuardSafety == Spec => []NoStaleRefill
<1>1. IndInv => NoStaleRefill
  BY DEF IndInv
<1> QED
  BY <1>1, Invariance, PTL

-----------------------------------------------------------------------------
(* get_route implements RouteLookup.                                       *)

\* A call that moves on without returning is invisible in RouteLookup.
LEMMA QuietCall ==
  ASSUME IndInv, NEW r \in Readers, NEW new \in Call,
         get[r].pc \in Active, new.pc \in Active, new.key = get[r].key,
         get' = [get EXCEPT ![r] = new],
         UNCHANGED <<services, routes, historyVars>>
  PROVE  UNCHANGED Lookup!lookupVars
<1>1. get \in [Readers -> Call]
  BY DEF IndInv, TypeOK
<1>2. \A q \in Readers : get'[q] = IF q = r THEN new ELSE get[q]
  BY <1>1
<1>3. \A k \in Keys : ReadRoute(k)' = ReadRoute(k)
  BY ReadRouteUnchanged
<1> QED
  BY <1>2, <1>3 DEF Lookup!lookupVars, historyVars, Active

\* A returning call answers with a value it is allowed to answer with.
LEMMA ReturnStep ==
  ASSUME IndInv, NEW r \in Readers, NEW answer \in allowed[r],
         get[r].pc \in Active, Return(r, answer),
         UNCHANGED <<services, routes>>
  PROVE  Lookup!Return(r)
<1>1. get \in [Readers -> Call] /\ allowed \in [Readers -> SUBSET Found]
  BY DEF IndInv, TypeOK
<1>2. \A q \in Readers :
        get'[q] = IF q = r THEN NewCall("done", get[r].key, answer) ELSE get[q]
  BY <1>1 DEF Return
<1>3. \A k \in Keys : ReadRoute(k)' = ReadRoute(k)
  BY ReadRouteUnchanged
<1> QED
  BY <1>1, <1>2, <1>3 DEF Lookup!Return, Return, NewCall, Active

\* Every step of a call is a Begin, a Return or invisible.
LEMMA ReaderRefines ==
  ASSUME IndInv, NEW r \in Readers, ReaderNext(r)
  PROVE  Lookup!Next \/ UNCHANGED Lookup!lookupVars
<1>0. /\ get \in [Readers -> Call] /\ allowed \in [Readers -> SUBSET Found]
      /\ WellFormedCall(get[r]) /\ MayAnswer(get[r], allowed[r])
  BY DEF IndInv, TypeOK, CallShape, AnswersAllowed
<1>1. ASSUME NEW k \in Keys, GetRoute(r, k) PROVE Lookup!Begin(r, k)
  <2>1. \A q \in Readers :
          get'[q] = IF q = r THEN NewCall("getData", k, None) ELSE get[q]
    BY <1>0, <1>1 DEF GetRoute
  <2>2. \A q \in Keys : ReadRoute(q)' = ReadRoute(q)
    BY <1>1, ReadRouteUnchanged DEF GetRoute, storeVars
  <2>3. \A q \in Readers :
          /\ get'[q].pc = IF q = r THEN "getData" ELSE get[q].pc
          /\ get'[q].key = IF q = r THEN k ELSE get[q].key
          /\ q # r => get'[q].snap = get[q].snap
    BY <2>1 DEF NewCall
  <2>4. get[r].pc \notin Active /\ "getData" \in Active /\ "active" \notin Active
    BY <1>1 DEF GetRoute, Active
  <2>5. allowed' = [allowed EXCEPT ![r] = fresh[k]] /\ fresh' = fresh
    BY <1>1 DEF GetRoute
  <2>6. get[r].pc # "active"
    BY <1>0 DEF Call, Active
  <2> QED
    BY <2>2, <2>3, <2>4, <2>5, <2>6 DEF Lookup!Begin
<1>2. ASSUME NEW answer \in allowed[r], get[r].pc \in Active,
             Return(r, answer), UNCHANGED storeVars
      PROVE  Lookup!Next
  BY <1>2, ReturnStep DEF Lookup!Next, storeVars
<1>3. CASE GetData(r)
  <2>1. get[r].key \in Keys /\ get[r].pc \in Active
    BY <1>0, <1>3 DEF GetData, WellFormedCall, Active
  <2>2. CASE cache[get[r].key] # None
    <3>1. cache[get[r].key] \in allowed[r]
      BY <1>0, <2>1, <2>2 DEF IndInv, NoStaleRefill, MayAnswer
    <3> QED
      BY <1>2, <1>3, <2>1, <2>2, <3>1 DEF GetData
  <2>3. CASE cache[get[r].key] = None
    <3> DEFINE new == [get[r] EXCEPT !.pc = "getVersion"]
    <3>1. new \in Call /\ new.pc \in Active /\ new.key = get[r].key
      BY <1>0 DEF Call, Active
    <3>2. get' = [get EXCEPT ![r] = new] /\ UNCHANGED <<storeVars, historyVars>>
      BY <1>3, <2>3 DEF GetData, Goto
    <3> QED
      BY <2>1, <3>1, <3>2, QuietCall DEF storeVars
  <2> QED
    BY <2>2, <2>3
<1>4. CASE GetVersion(r)
  <2> DEFINE new == [get[r] EXCEPT !.pc = "readRoute",
                                   !.gen = gen[get[r].key]]
  <2>1. get[r].key \in Keys /\ get[r].pc \in Active
    BY <1>0, <1>4 DEF GetVersion, WellFormedCall, Active
  <2>2. gen[get[r].key] \in Nat
    BY <2>1 DEF IndInv, TypeOK
  <2>3. new \in Call /\ new.pc \in Active /\ new.key = get[r].key
    BY <1>0, <2>2 DEF Call, Active
  <2>4. get' = [get EXCEPT ![r] = new] /\ UNCHANGED <<storeVars, historyVars>>
    BY <1>4 DEF GetVersion
  <2> QED
    BY <2>1, <2>3, <2>4, QuietCall DEF storeVars
<1>5. \A k \in Keys : ReadRoute(k) \in fresh[k] /\ ReadRoute(k) \in Found
  BY ReadRouteType DEF IndInv, CurrentIsFresh, TypeOK
<1>6. CASE ReadForPublish(r)
  <2>1. /\ get[r].key \in Keys /\ get[r].pc \in Active
        /\ ReadRoute(get[r].key) \in allowed[r]
    BY <1>0, <1>5, <1>6 DEF ReadForPublish, WellFormedCall, Active, MayAnswer
  <2>2. CASE ReadRoute(get[r].key) = None
    BY <1>2, <1>6, <2>1, <2>2 DEF ReadForPublish
  <2>3. CASE ReadRoute(get[r].key) # None
    <3> DEFINE snap == ReadRoute(get[r].key)
               new == [get[r] EXCEPT !.pc = "publish", !.snap = snap]
    <3>1. get' = [get EXCEPT ![r] = new] /\ UNCHANGED <<storeVars, historyVars>>
      BY <1>6, <2>3 DEF ReadForPublish
    <3>2. snap \in Found
      BY <1>5, <2>1
    <3> HIDE DEF snap
    <3>3. new \in Call /\ new.pc \in Active /\ new.key = get[r].key
      BY <1>0, <3>2 DEF Call, Active
    <3> QED
      BY <2>1, <3>1, <3>3, QuietCall DEF storeVars
  <2> QED
    BY <2>2, <2>3
<1>7. CASE EvalPublish(r)
  <2>1. /\ get[r].pc \in Active /\ get[r].snap \in allowed[r]
        /\ get[r].tries \in Nat /\ get[r].tries < MaxAttempts
    BY <1>0, <1>7 DEF EvalPublish, Active, MayAnswer, Call, WellFormedCall
  <2>2. CASE gen[get[r].key] = get[r].gen
    BY <1>2, <1>7, <2>1, <2>2 DEF EvalPublish
  <2>3. CASE gen[get[r].key] # get[r].gen
    <3> DEFINE next == IF get[r].tries + 1 < MaxAttempts THEN "getData"
                       ELSE "fallback"
               tries == get[r].tries + 1
               new == [get[r] EXCEPT !.tries = tries, !.pc = next]
    <3>1. get' = [get EXCEPT ![r] = new] /\ UNCHANGED <<storeVars, historyVars>>
      BY <1>7, <2>3 DEF EvalPublish, AfterRejection
    <3>2. tries \in 0 .. MaxAttempts /\ next \in {"getData", "fallback"}
      BY <2>1, CacheAssumption
    <3> HIDE DEF next, tries
    <3>3. new \in Call /\ new.pc \in Active /\ new.key = get[r].key
      BY <1>0, <3>2 DEF Call, Active
    <3> QED
      BY <2>1, <3>1, <3>3, QuietCall DEF storeVars
  <2> QED
    BY <2>2, <2>3
<1>8. CASE Fallback(r)
  <2>1. get[r].pc \in Active /\ ReadRoute(get[r].key) \in allowed[r]
    BY <1>0, <1>5, <1>8 DEF Fallback, WellFormedCall, Active, MayAnswer
  <2> QED
    BY <1>2, <1>8, <2>1 DEF Fallback
<1>9. CASE ReadFault(r) \/ PublishTimeout(r)
  <2> DEFINE new == [get[r] EXCEPT !.pc = "fallback"]
  <2>1. /\ new \in Call /\ new.pc \in Active /\ new.key = get[r].key
        /\ get[r].pc \in Active /\ get[r] \in Call
    BY <1>0, <1>9 DEF Call, Active, ReadFault, PublishTimeout
  <2>2. /\ get' = [get EXCEPT ![r] = new] \/ get' = [get EXCEPT ![r] = get[r]]
        /\ UNCHANGED <<storeVars, historyVars>>
    BY <1>0, <1>9 DEF ReadFault, PublishTimeout, Goto
  <2> HIDE DEF new
  <2> QED
    BY <2>1, <2>2, QuietCall DEF storeVars
<1> QED
  BY <1>1, <1>3, <1>4, <1>6, <1>7, <1>8, <1>9
  DEF ReaderNext, GetStep, Lookup!Next

\* RouteLookup sees only the commits and the invalidations of the rest.
LEMMA StepRefines ==
  IndInv /\ [Next]_vars => [Lookup!Next]_(Lookup!lookupVars)
<1> SUFFICES ASSUME IndInv, [Next]_vars
             PROVE  Lookup!Next \/ UNCHANGED Lookup!lookupVars
  OBVIOUS
<1>0. StoreTypeOK /\ TxOK /\ get \in [Readers -> Call]
  BY DEF IndInv, TypeOK, TxOK
<1>a. ASSUME UNCHANGED <<services, routes, get, historyVars>>
      PROVE  UNCHANGED Lookup!lookupVars
  <2>1. \A k \in Keys : ReadRoute(k)' = ReadRoute(k)
    BY <1>a, ReadRouteUnchanged
  <2> QED
    BY <1>a, <2>1 DEF Lookup!lookupVars, historyVars
<1>b. ASSUME NEW k \in Keys, Invalidate(k),
             UNCHANGED <<services, routes, get, allowed>>
      PROVE  Lookup!Next
  <2>1. \A q \in Keys : ReadRoute(q)' = ReadRoute(q)
    BY <1>b, ReadRouteUnchanged
  <2>2. Lookup!Invalidate(k)
    BY <1>b, <2>1 DEF Lookup!Invalidate, Invalidate
  <2> QED
    BY <2>2 DEF Lookup!Next
<1>1. ASSUME NEW a \in Admins, PrepareTx(a)
      PROVE  UNCHANGED Lookup!lookupVars
  <2>1. UNCHANGED <<services, routes>>
    BY <1>0, <1>1, PrepareType DEF PrepareTx
  <2> QED
    BY <1>1, <1>a, <2>1 DEF PrepareTx
<1>2. ASSUME NEW a \in Admins, CommitTx(a) PROVE Lookup!Next
  <2>1. StoreTypeOK'
    BY <1>0, <1>2, CommitType DEF CommitTx
  <2>2. \A k \in Keys : ReadRoute(k)' \in Found
    BY <2>1, ReadRouteTypeNext
  <2>3. \A r \in Readers : get[r].pc \in Active => get[r].key \in Keys
    BY DEF IndInv, CallShape, WellFormedCall
  <2>4. \A r \in Readers : get[r].pc # "active"
    BY <1>0 DEF Call, Active
  <2> DEFINE now == [k \in Keys |-> ReadRoute(k)']
  <2>5. /\ get' = get
        /\ fresh' = [k \in Keys |-> fresh[k] \cup {now[k]}]
        /\ allowed' = [r \in Readers |->
             IF get[r].pc \in Active THEN allowed[r] \cup {now[get[r].key]}
             ELSE allowed[r]]
    BY <1>2 DEF CommitTx, Observe
  <2>6. Lookup!Change
    BY <2>2, <2>3, <2>4, <2>5 DEF Lookup!Change
  <2> QED
    BY <2>6 DEF Lookup!Next
<1>3. ASSUME NEW a \in Admins, NEW k \in Keys, InvalidateRoute(a, k)
      PROVE  Lookup!Next
  BY <1>3, <1>b DEF InvalidateRoute, FinishCallback, storeVars
<1>4. ASSUME NEW a \in Admins, NEW k \in Keys,
             InvalidateFault(a, k) \/ InvalidateRetry(a, k)
      PROVE  UNCHANGED Lookup!lookupVars
  BY <1>4, <1>a
  DEF InvalidateFault, InvalidateRetry, FinishCallback, storeVars
<1>5. ASSUME NEW a \in Admins, Crash(a) PROVE UNCHANGED Lookup!lookupVars
  BY <1>5, <1>a DEF Crash, CrashAfterCommit, storeVars
<1>6. ASSUME NEW r \in Readers, LookupNext(r)
      PROVE  Lookup!Next \/ UNCHANGED Lookup!lookupVars
  BY <1>6, ReaderRefines DEF LookupNext
<1>7. ASSUME NEW k \in Keys, ExpireEntry(k)
      PROVE  UNCHANGED Lookup!lookupVars
  BY <1>7, <1>a DEF ExpireEntry, storeVars
<1>8. ASSUME NEW c \in late, RunLate(c) \/ DropLate(c)
      PROVE  Lookup!Next \/ UNCHANGED Lookup!lookupVars
  <2>1. c.key \in Keys
    BY DEF IndInv, TypeOK, Script
  <2>2. CASE Invalidate(c.key) /\ LateScript(c)
    BY <1>b, <2>1, <2>2 DEF LateScript, storeVars
  <2>3. CASE UNCHANGED fresh /\ LateScript(c)
    BY <1>a, <2>3 DEF LateScript, storeVars, historyVars
  <2>4. CASE LoseScript(c)
    BY <1>a, <2>4 DEF LoseScript, storeVars
  <2> QED
    BY <1>8, <2>2, <2>3, <2>4 DEF RunLate, DropLate, LateScript
<1>9. CASE UNCHANGED vars
  BY <1>9, <1>a DEF vars, storeVars
<1> QED
  BY <1>1, <1>2, <1>3, <1>4, <1>5, <1>6, <1>7, <1>8, <1>9
  DEF Next, AdminNext

\* The initial states are initial states of the abstract lookup.
LEMMA InitRefines == Init => Lookup!Init
<1> SUFFICES ASSUME Init PROVE Lookup!Init
  OBVIOUS
<1>1. \A k \in Keys : ReadRoute(k) \in Found
  BY InitAssumption, ReadRouteType DEF Init, StoreInit, StoreTypeOK
<1>2. /\ get = [r \in Readers |-> IdleCall]
      /\ IdleCall.pc = "idle" /\ IdleCall.key = None
      /\ fresh = [k \in Keys |-> {ReadRoute(k)}]
      /\ allowed = [r \in Readers |-> {}]
  BY DEF Init, CacheInit, IdleCall, NewCall
<1> QED
  BY <1>1, <1>2 DEF Lookup!Init, Active

\* get_route with its signals, retries and late scripts implements the
\* abstract lookup: a call answers with a value that was fresh while it ran.
THEOREM Refinement == Spec => ImplementsLookup
  BY InitRefines, StepRefines, Invariance, PTL
  DEF Spec, ImplementsLookup, Lookup!Spec
-----------------------------------------------------------------------------
(* The tables stay consistent.                                             *)

\* What administrator a is about to write, held in t, fits the tables and
\* what the others are about to write.
FitsRoute(a, t) ==
  /\ WritesRoute(t) =>
       /\ ~KeyTaken(t.pk, KeyOf(t.inst))
       /\ \A b \in Admins \ {a} :
            WritesRoute(tx[b]) => KeyOf(tx[b].inst) # KeyOf(t.inst)
  /\ t.op \in {"patchRoute", "newRoute"} => InProject(t.inst)

FitsService(a, t) ==
  /\ t.op = "patchService" =>
       /\ t.pk \in Services
       /\ services[t.pk] # None
       /\ services[t.pk].project = t.inst.project
  /\ WritesService(t) /\ t.op = "newService" =>
       t.pk \in Services /\ services[t.pk] = None
  /\ WritesService(t) =>
       \A b \in Admins \ {a} : WritesService(tx[b]) => tx[b].pk # t.pk

Fits(a, t) == FitsRoute(a, t) /\ FitsService(a, t)

\* The invariant, transaction by transaction.
LEMMA TablesParts ==
  TablesInv <=> TablesConsistent /\ \A a \in Admins : Fits(a, tx[a])
  BY Zenon DEF TablesInv, KeysReserved, ServicesChecked, ProjectsKept,
     Fits, FitsRoute, FitsService

\* The same, of the next state.
LEMMA TablesPartsNext ==
  TablesInv' <=> TablesConsistent' /\ (\A a \in Admins : Fits(a, tx[a]))'
  BY TablesParts, PTL

\* A step that writes no committed row and leaves one transaction fitting.
LEMMA TablesTx ==
  ASSUME TablesInv, tx \in [Admins -> Tx], NEW a \in Admins, NEW new,
         tx' = [tx EXCEPT ![a] = new], UNCHANGED <<services, routes>>,
         Fits(a, new)
  PROVE  TablesInv'
<1>1. TablesConsistent'
  BY DEF TablesInv, TablesConsistent, InProject, KeyTaken, KeyOf
<1>2. tx'[a] = new /\ \A b \in Admins \ {a} : tx'[b] = tx[b]
  OBVIOUS
<1>3. ASSUME NEW b \in Admins PROVE FitsRoute(b, tx[b])'
  BY <1>2, TablesParts
  DEF Fits, FitsRoute, InProject, KeyTaken, KeyOf, WritesRoute
<1>4. ASSUME NEW b \in Admins PROVE FitsService(b, tx[b])'
  BY <1>2, TablesParts DEF Fits, FitsService, WritesService
<1> QED
  BY <1>1, <1>3, <1>4, TablesPartsNext DEF Fits

\* A transaction that goes on with the row it holds still fits.
LEMMA FitsOn ==
  ASSUME NEW a, NEW t, NEW new, Fits(a, t),
         new.op = t.op, new.pk = t.pk, new.inst = t.inst,
         WritesRoute(new) => WritesRoute(t),
         WritesService(new) => WritesService(t)
  PROVE  Fits(a, new)
  BY DEF Fits, FitsRoute, FitsService

\* Nothing is about to be written between two transactions.
LEMMA FitsIdle == \A a \in Admins : Fits(a, IdleTx)
  BY OpsAssumption DEF Fits, FitsRoute, FitsService, WritesRoute, WritesService, IdleTx,
     AllOps

\* A transaction that has only loaded its row.
LEMMA TablesBegin ==
  ASSUME TablesInv, TxOK, NEW a \in Admins, NEW op, NEW pk, NEW inst,
         Begin(a, op, pk, inst),
         op \in {"patchRoute", "newRoute"} => InProject(inst),
         op = "patchService" =>
           /\ pk \in Services
           /\ services[pk] # None
           /\ services[pk].project = inst.project
  PROVE  TablesInv'
<1> DEFINE new == [pc |-> "loaded", op |-> op, pk |-> pk, inst |-> inst,
                   prev |-> None, pending |-> {}]
<1>1. tx' = [tx EXCEPT ![a] = new] /\ UNCHANGED <<services, routes>>
  BY DEF Begin, storeVars
<1>2. Fits(a, new)
  BY DEF Fits, FitsRoute, FitsService, WritesRoute, WritesService
<1> HIDE DEF new
<1> QED
  BY <1>1, <1>2, TablesTx DEF TxOK

\* A saved route has the key of its unique index entry to itself.
LEMMA FitsSaved ==
  ASSUME TablesInv, TxOK, NEW a \in Admins, NEW new, NEW r,
         CanWriteRoute(a, r), tx[a].op \in {"patchRoute", "newRoute"},
         new.op = tx[a].op, new.inst = tx[a].inst, new.pk = r
  PROVE  Fits(a, new)
<1>1. Fits(a, tx[a])
  BY TablesParts
<1>2. ASSUME NEW b \in Admins \ {a}, WritesRoute(tx[b])
      PROVE  KeyOf(tx[b].inst) # KeyOf(new.inst)
  BY <1>2 DEF CanWriteRoute, KeyLocked, HasWritten, WritesRoute, RouteOps
<1>3. FitsRoute(a, new)
  BY <1>1, <1>2 DEF Fits, FitsRoute, CanWriteRoute
<1> QED
  BY <1>3 DEF Fits, FitsService, WritesService, ServiceOps

\* Every step before COMMIT keeps what will be written in order.
LEMMA PrepareTables ==
  ASSUME StoreTypeOK, TxOK, TablesInv, NEW a \in Admins, PrepareStep(a)
  PROVE  TablesInv'
<1>0. Fits(a, tx[a]) /\ tx \in [Admins -> Tx]
  BY TablesParts DEF TxOK
<1>1. CASE LoadService(a)
  <2>1. PICK s \in Services, url \in Origins, active \in BOOLEAN :
          /\ services[s] # None
          /\ Begin(a, "patchService", s,
                   [services[s] EXCEPT !.url = url, !.active = active])
    BY <1>1 DEF LoadService
  <2>2. [services[s] EXCEPT !.url = url, !.active = active].project
          = services[s].project
    BY <2>1 DEF StoreTypeOK, ServiceRow
  <2> QED
    BY <2>1, <2>2, TablesBegin
<1>2. CASE LoadNewService(a)
  BY <1>2, TablesBegin DEF LoadNewService
<1>3. CASE LoadRoute(a)
  <2>1. PICK r \in Routes, path \in Paths, active \in BOOLEAN,
             s \in Services \cup {None} :
          /\ routes[r] # None
          /\ \/ s = routes[r].service
             \/ s = None
             \/ s \in Services /\ Selectable(s, routes[r].project)
          /\ Begin(a, "patchRoute", r,
                   [routes[r] EXCEPT !.path = path, !.active = active,
                                     !.service = s])
    BY <1>3 DEF LoadRoute
  <2> DEFINE inst == [routes[r] EXCEPT !.path = path, !.active = active,
                                       !.service = s]
  <2>2. inst.service = s /\ inst.project = routes[r].project
    BY <2>1 DEF StoreTypeOK, RouteRow
  <2>3. Begin(a, "patchRoute", r, inst)
    BY <2>1
  <2>4. InProject(routes[r])
    BY <2>1 DEF TablesInv, TablesConsistent
  <2> HIDE DEF inst
  <2>5. InProject(inst)
    BY <2>1, <2>2, <2>4 DEF InProject, Selectable
  <2> QED
    BY <2>3, <2>5, TablesBegin
<1>4. CASE LoadNewRoute(a)
  <2>1. PICK p \in Projects, path \in Paths, active \in BOOLEAN,
             s \in Services :
          /\ Selectable(s, p)
          /\ Begin(a, "newRoute", None, [project |-> p, service |-> s,
                                         path |-> path, active |-> active])
    BY <1>4 DEF LoadNewRoute
  <2>2. InProject([project |-> p, service |-> s, path |-> path,
                   active |-> active])
    BY <2>1 DEF InProject, Selectable
  <2> QED
    BY <2>1, <2>2, TablesBegin
<1>5. CASE LoadDelete(a)
  BY <1>5, TablesBegin DEF LoadDelete
<1>6. CASE SaveService(a)
  <2> DEFINE new == [tx[a] EXCEPT !.pc = "saved"]
  <2>1. tx' = [tx EXCEPT ![a] = new] /\ UNCHANGED <<services, routes>>
    BY <1>6 DEF SaveService, Step, storeVars
  <2>2. /\ new.pc = "saved" /\ new.op = "patchService"
        /\ new.pk = tx[a].pk /\ new.inst = tx[a].inst
    BY <1>6, <1>0 DEF SaveService, Tx
  <2> HIDE DEF new
  <2>3. ~ServiceXLocked(a, tx[a].pk) /\ tx[a].op = "patchService"
    BY <1>6 DEF SaveService
  <2>4. Fits(a, new)
    BY <1>0, <2>2, <2>3 DEF Fits, FitsRoute, FitsService, WritesRoute, WritesService,
       ServiceXLocked, HasWritten
  <2> QED
    BY <1>0, <2>1, <2>4, TablesTx
<1>7. CASE SaveNewService(a)
  <2>1. PICK s \in Services :
          /\ tx[a].op = "newService"
          /\ services[s] = None /\ ~ServiceXLocked(a, s)
          /\ tx' = [tx EXCEPT ![a] = [@ EXCEPT !.pc = "saved", !.pk = s]]
          /\ UNCHANGED <<storeVars, ops>>
    BY <1>7 DEF SaveNewService
  <2> DEFINE new == [tx[a] EXCEPT !.pc = "saved", !.pk = s]
  <2>2. tx' = [tx EXCEPT ![a] = new] /\ UNCHANGED <<services, routes>>
    BY <2>1 DEF storeVars
  <2>3. new.pc = "saved" /\ new.op = "newService" /\ new.pk = s
    BY <2>1, <1>0 DEF Tx
  <2> HIDE DEF new
  <2>4. Fits(a, new)
    BY <2>1, <2>3 DEF Fits, FitsRoute, FitsService, WritesRoute, WritesService,
       ServiceXLocked, HasWritten
  <2> QED
    BY <1>0, <2>2, <2>4, TablesTx
<1>8. CASE PostSaveService(a)
  <2> DEFINE new == [tx[a] EXCEPT !.pc = "registered",
                               !.pending = RouteKeysOfService(tx[a].pk)]
  <2>1. tx' = [tx EXCEPT ![a] = new] /\ UNCHANGED <<services, routes>>
    BY <1>8 DEF PostSaveService, storeVars
  <2>2. new.op = tx[a].op /\ new.pk = tx[a].pk /\ new.inst = tx[a].inst
    BY <1>0 DEF Tx
  <2> HIDE DEF new
  <2>3. tx[a].op \in ServiceOps /\ tx[a].pc = "saved"
    BY <1>8 DEF PostSaveService
  <2>4. Fits(a, new)
    BY <1>0, <2>2, <2>3, FitsOn DEF WritesRoute, WritesService, ServiceOps
  <2> QED
    BY <1>0, <2>1, <2>4, TablesTx
<1>9. CASE RememberPreviousRoute(a)
  <2> DEFINE new == [tx[a] EXCEPT !.pc = "remembered",
       !.prev = IF routes[tx[a].pk] = None THEN None
                   ELSE KeyOf(routes[tx[a].pk])]
  <2>1. tx' = [tx EXCEPT ![a] = new] /\ UNCHANGED <<services, routes>>
    BY <1>9 DEF RememberPreviousRoute, storeVars
  <2>2. /\ new.pc = "remembered" /\ new.op = tx[a].op
        /\ new.pk = tx[a].pk /\ new.inst = tx[a].inst
    BY <1>0 DEF Tx
  <2> HIDE DEF new
  <2>3. Fits(a, new)
    BY <1>0, <2>2, FitsOn DEF WritesRoute, WritesService
  <2> QED
    BY <1>0, <2>1, <2>3, TablesTx
<1>10. CASE SaveRoute(a)
  <2> DEFINE new == [tx[a] EXCEPT !.pc = "registered",
       !.pending = {KeyOf(tx[a].inst)} \cup ({tx[a].prev} \ {None})]
  <2>1. tx' = [tx EXCEPT ![a] = new] /\ UNCHANGED <<services, routes>>
    BY <1>10 DEF SaveRoute, storeVars
  <2>2. new.op = tx[a].op /\ new.pk = tx[a].pk /\ new.inst = tx[a].inst
    BY <1>0 DEF Tx
  <2> HIDE DEF new
  <2>3. CanWriteRoute(a, tx[a].pk) /\ tx[a].op = "patchRoute"
    BY <1>10 DEF SaveRoute, TxOK, TxShape, WellFormedTx
  <2>4. Fits(a, new)
    BY <2>2, <2>3, FitsSaved
  <2> QED
    BY <1>0, <2>1, <2>4, TablesTx
<1>11. CASE SaveNewRoute(a)
  <2>1. PICK r \in Routes :
          /\ tx[a].op = "newRoute"
          /\ CanWriteRoute(a, r)
          /\ tx' = [tx EXCEPT ![a] = [@ EXCEPT !.pc = "registered", !.pk = r,
                                        !.pending = {KeyOf(tx[a].inst)}]]
          /\ UNCHANGED <<services, routes, ops>>
    BY <1>11 DEF SaveNewRoute
  <2> DEFINE new == [tx[a] EXCEPT !.pc = "registered", !.pk = r,
                                  !.pending = {KeyOf(tx[a].inst)}]
  <2>2. tx' = [tx EXCEPT ![a] = new] /\ UNCHANGED <<services, routes>>
    BY <2>1
  <2>3. new.op = tx[a].op /\ new.pk = r /\ new.inst = tx[a].inst
    BY <1>0 DEF Tx
  <2> HIDE DEF new
  <2>4. Fits(a, new)
    BY <2>1, <2>3, FitsSaved
  <2> QED
    BY <1>0, <2>2, <2>4, TablesTx
<1>12. CASE SaveDelete(a)
  <2> DEFINE new == [tx[a] EXCEPT !.pc = "registered",
                               !.pending = {KeyOf(tx[a].inst)}]
  <2>1. tx' = [tx EXCEPT ![a] = new] /\ UNCHANGED <<services, routes>>
    BY <1>12 DEF SaveDelete, storeVars
  <2>2. new.op = "deleteRoute"
    BY <1>0, <1>12 DEF Tx, SaveDelete
  <2> HIDE DEF new
  <2>3. Fits(a, new)
    BY <2>2 DEF Fits, FitsRoute, FitsService, WritesRoute, WritesService, ServiceOps
  <2> QED
    BY <1>0, <2>1, <2>3, TablesTx
<1>13. CASE Rollback(a)
  BY <1>0, <1>13, FitsIdle, TablesTx DEF Rollback, storeVars
<1>14. CASE InvalidateProjectRoutes(a)
  <2> DEFINE new == [tx[a] EXCEPT !.pc = "callbacks",
                               !.pending = RouteKeysOfProject(tx[a].pk)]
  <2>1. tx' = [tx EXCEPT ![a] = new] /\ UNCHANGED <<services, routes>>
    BY <1>14 DEF InvalidateProjectRoutes, storeVars
  <2>2. /\ new.pc = "callbacks" /\ new.op = tx[a].op
        /\ new.pk = tx[a].pk /\ new.inst = tx[a].inst
    BY <1>0 DEF Tx
  <2> HIDE DEF new
  <2>3. Fits(a, new)
    BY <1>0, <2>2, FitsOn DEF WritesRoute, WritesService
  <2> QED
    BY <1>0, <2>1, <2>3, TablesTx
<1>15. CASE Respond(a)
  BY <1>0, <1>15, FitsIdle, TablesTx DEF Respond, storeVars
<1> QED
  BY <1>1, <1>2, <1>3, <1>4, <1>5, <1>6, <1>7, <1>8, <1>9, <1>10, <1>11,
     <1>12, <1>13, <1>14, <1>15 DEF PrepareStep

\* Services are never removed and never change project.
ServicesPersist ==
  \A s \in Services : services[s] # None =>
    services'[s] # None /\ services'[s].project = services[s].project

\* A committed service row is a new one, or keeps the project of the old one.
LEMMA CommitPersists ==
  ASSUME StoreTypeOK, TxOK, TablesInv, NEW a \in Admins,
         Commit(a) \/ \E p \in Projects : BulkUpdate(a, p)
  PROVE  ServicesPersist
<1>1. CASE Commit(a) /\ tx[a].op \in ServiceOps
  <2>1. /\ services' = [services EXCEPT ![tx[a].pk] = tx[a].inst]
        /\ tx[a].pc = "registered"
    BY <1>1 DEF Commit, ServiceOps
  <2>2. FitsService(a, tx[a]) /\ WritesService(tx[a])
    BY <1>1, <2>1, TablesParts DEF Fits, WritesService
  <2>3. tx[a].pk \in Services /\ tx[a].inst \in ServiceRow
    BY <1>1, <2>2 DEF FitsService, ServiceOps, TxOK, TxShape, WellFormedTx
  <2>4. services'[tx[a].pk] = tx[a].inst /\ tx[a].inst # None
    BY <2>1, <2>3, NoneAssumption DEF StoreTypeOK
  <2>5. \A s \in Services \ {tx[a].pk} : services'[s] = services[s]
    BY <2>1 DEF StoreTypeOK
  <2>6. services[tx[a].pk] # None =>
          services[tx[a].pk].project = tx[a].inst.project
    BY <1>1, <2>2 DEF FitsService, ServiceOps
  <2> QED
    BY <2>4, <2>5, <2>6 DEF ServicesPersist
<1>2. CASE Commit(a) /\ tx[a].op \notin ServiceOps
  BY <1>2 DEF Commit, ServicesPersist
<1>3. ASSUME NEW p \in Projects, BulkUpdate(a, p) PROVE ServicesPersist
  <2>1. PICK active \in BOOLEAN :
          services' = [s \in Services |->
            IF services[s] # None /\ services[s].project = p
            THEN [services[s] EXCEPT !.active = active] ELSE services[s]]
    BY <1>3 DEF BulkUpdate
  <2>2. ASSUME NEW s \in Services, services[s] # None
        PROVE  /\ [services[s] EXCEPT !.active = active].project
                    = services[s].project
               /\ [services[s] EXCEPT !.active = active] \in ServiceRow
    BY <2>2 DEF StoreTypeOK, ServiceRow
  <2> QED
    BY <2>1, <2>2, NoneAssumption DEF ServicesPersist
<1> QED
  BY <1>1, <1>2, <1>3

\* A write to services that keeps them and takes nobody's new key.
LEMMA TablesServices ==
  ASSUME StoreTypeOK, TxOK, TablesInv, NEW a \in Admins, NEW new,
         tx' = [tx EXCEPT ![a] = new], routes' = routes, ServicesPersist,
         new.pc \notin {"saved", "registered"},
         new.op \notin {"patchRoute", "newRoute"},
         new.op = "patchService" =>
           /\ new.pk \in Services
           /\ services'[new.pk] # None
           /\ services'[new.pk].project = new.inst.project,
         \A b \in Admins \ {a} :
           WritesService(tx[b]) /\ tx[b].op = "newService" =>
             services'[tx[b].pk] = None
  PROVE  TablesInv'
<1>1. ASSUME NEW row \in RouteRow, InProject(row) PROVE InProject(row)'
  BY <1>1 DEF InProject, ServicesPersist, RouteRow
<1>2. TablesConsistent'
  <2> SUFFICES ASSUME NEW r \in Routes, routes[r] # None
               PROVE  ~KeyTaken(r, KeyOf(routes[r]))' /\ InProject(routes[r])'
    BY DEF TablesConsistent
  <2>1. routes[r] \in RouteRow
    BY DEF StoreTypeOK
  <2>2. ~KeyTaken(r, KeyOf(routes[r])) /\ InProject(routes[r])
    BY DEF TablesInv, TablesConsistent
  <2>3. ~KeyTaken(r, KeyOf(routes[r]))'
    BY <2>2 DEF KeyTaken, KeyOf
  <2>4. InProject(routes[r])'
    BY <2>1, <2>2 DEF InProject, ServicesPersist, RouteRow
  <2> QED
    BY <2>3, <2>4
<1>3. tx'[a] = new /\ \A b \in Admins \ {a} : tx'[b] = tx[b]
  BY DEF TxOK
<1>4. ASSUME NEW b \in Admins PROVE FitsRoute(b, tx[b])'
  <2>1. CASE b = a
    BY <2>1, <1>3 DEF FitsRoute, WritesRoute
  <2>2. CASE b # a
    <3>1. tx'[b] = tx[b] /\ Fits(b, tx[b])
      BY <2>2, <1>3, TablesParts
    <3>2. tx[b].op \in {"patchRoute", "newRoute"} => InProject(tx[b].inst)'
      <4> SUFFICES ASSUME tx[b].op \in {"patchRoute", "newRoute"}
                   PROVE  InProject(tx[b].inst)'
        OBVIOUS
      <4>1. tx[b].inst \in RouteRow
        BY DEF TxOK, TxShape, WellFormedTx, RouteOps
      <4>2. InProject(tx[b].inst)
        BY <3>1 DEF Fits, FitsRoute
      <4> QED
        BY <3>1, <4>1, <4>2 DEF InProject, ServicesPersist, RouteRow
    <3>3. WritesRoute(tx[b]) => ~KeyTaken(tx[b].pk, KeyOf(tx[b].inst))'
      BY <3>1 DEF Fits, FitsRoute, KeyTaken, KeyOf
    <3>4. WritesRoute(tx[b]) =>
            \A c \in Admins \ {b} :
              WritesRoute(tx'[c]) => KeyOf(tx'[c].inst) # KeyOf(tx[b].inst)
      BY <3>1, <1>3 DEF Fits, FitsRoute, WritesRoute
    <3> QED
      BY <3>1, <3>2, <3>3, <3>4 DEF FitsRoute, WritesRoute, KeyOf
  <2> QED
    BY <2>1, <2>2
<1>5. ASSUME NEW b \in Admins PROVE FitsService(b, tx[b])'
  <2>1. CASE b = a
    BY <2>1, <1>3 DEF FitsService, WritesService
  <2>2. CASE b # a
    <3>1. tx'[b] = tx[b] /\ FitsService(b, tx[b])
      BY <2>2, <1>3, TablesParts DEF Fits
    <3> QED
      BY <2>2, <3>1, <1>3 DEF FitsService, WritesService, ServicesPersist
  <2> QED
    BY <2>1, <2>2
<1> QED
  BY <1>2, <1>4, <1>5, TablesPartsNext DEF Fits

\* COMMIT of a service, and a bulk UPDATE.
LEMMA ServiceCommitTables ==
  ASSUME StoreTypeOK, TxOK, TablesInv, NEW a \in Admins,
         \/ Commit(a) /\ tx[a].op \in ServiceOps
         \/ \E p \in Projects : BulkUpdate(a, p)
  PROVE  TablesInv'
<1>1. CASE Commit(a) /\ tx[a].op \in ServiceOps
  <2> DEFINE new == [tx[a] EXCEPT !.pc = "callbacks"]
  <2>1. /\ tx' = [tx EXCEPT ![a] = new]
        /\ services' = [services EXCEPT ![tx[a].pk] = tx[a].inst]
        /\ routes' = routes /\ tx[a].pc = "registered"
    BY <1>1 DEF Commit, ServiceOps
  <2>2. /\ new.pc = "callbacks" /\ new.op = tx[a].op
        /\ new.pk = tx[a].pk /\ new.inst = tx[a].inst
    BY DEF TxOK, Tx
  <2> HIDE DEF new
  <2>3. FitsService(a, tx[a]) /\ WritesService(tx[a])
    BY <1>1, <2>1, TablesParts DEF Fits, WritesService
  <2>4. tx[a].pk \in Services /\ tx[a].inst \in ServiceRow
    BY <1>1, <2>3 DEF FitsService, ServiceOps, TxOK, TxShape, WellFormedTx
  <2>5. services'[tx[a].pk] = tx[a].inst /\ tx[a].inst # None
    BY <2>1, <2>4, NoneAssumption DEF StoreTypeOK
  <2>6. \A s \in Services \ {tx[a].pk} : services'[s] = services[s]
    BY <2>1 DEF StoreTypeOK
  <2>8. ServicesPersist
    BY <1>1, CommitPersists
  <2>9. ASSUME NEW b \in Admins \ {a}, WritesService(tx[b]),
               tx[b].op = "newService"
        PROVE  services'[tx[b].pk] = None
    <3>1. tx[b].pk \in Services /\ services[tx[b].pk] = None
      BY <2>9, TablesParts DEF Fits, FitsService
    <3>2. tx[b].pk # tx[a].pk
      BY <2>3, <2>9 DEF FitsService
    <3> QED
      BY <3>1, <3>2, <2>6
  <2> QED
    BY <1>1, <2>1, <2>2, <2>4, <2>5, <2>8, <2>9, TablesServices DEF ServiceOps
<1>2. ASSUME NEW p \in Projects, BulkUpdate(a, p) PROVE TablesInv'
  <2> DEFINE new == [pc |-> "bulkSaved", op |-> "bulk", pk |-> p,
                     inst |-> None, prev |-> None, pending |-> {}]
  <2>1. tx' = [tx EXCEPT ![a] = new] /\ routes' = routes
    BY <1>2 DEF BulkUpdate
  <2>2. PICK active \in BOOLEAN :
          services' = [s \in Services |->
            IF services[s] # None /\ services[s].project = p
            THEN [services[s] EXCEPT !.active = active] ELSE services[s]]
    BY <1>2 DEF BulkUpdate
  <2>4. ServicesPersist
    BY <1>2, CommitPersists
  <2>5. ASSUME NEW b \in Admins \ {a}, WritesService(tx[b]),
               tx[b].op = "newService"
        PROVE  services'[tx[b].pk] = None
    <3>1. tx[b].pk \in Services /\ services[tx[b].pk] = None
      BY <2>5, TablesParts DEF Fits, FitsService
    <3> QED
      BY <3>1, <2>2
  <2>6. new.pc = "bulkSaved" /\ new.op = "bulk"
    OBVIOUS
  <2> HIDE DEF new
  <2> QED
    BY <2>1, <2>4, <2>5, <2>6, TablesServices
<1> QED
  BY <1>1, <1>2

\* COMMIT of a route: its key was reserved when the row was written.
LEMMA RouteCommitTables ==
  ASSUME StoreTypeOK, TxOK, TablesInv, NEW a \in Admins, Commit(a),
         tx[a].op \in RouteOps
  PROVE  TablesInv'
<1> DEFINE new == [tx[a] EXCEPT !.pc = "callbacks"]
           row == IF tx[a].op = "deleteRoute" THEN None ELSE tx[a].inst
<1>1. /\ tx' = [tx EXCEPT ![a] = new]
      /\ routes' = [routes EXCEPT ![tx[a].pk] = row]
      /\ services' = services /\ tx[a].pc = "registered"
  BY DEF Commit, RouteOps, ServiceOps
<1>2. /\ new.pc = "callbacks" /\ new.op = tx[a].op
      /\ new.pk = tx[a].pk /\ new.inst = tx[a].inst
  BY DEF TxOK, Tx
<1>3. row # None => WritesRoute(tx[a]) /\ row = tx[a].inst
  BY <1>1 DEF WritesRoute, RouteOps
<1> HIDE DEF new, row
<1>4. row # None => /\ ~KeyTaken(tx[a].pk, KeyOf(row))
                    /\ InProject(row)
                    /\ \A b \in Admins \ {a} : WritesRoute(tx[b]) =>
                         KeyOf(tx[b].inst) # KeyOf(row)
  BY <1>3, TablesParts DEF Fits, FitsRoute, WritesRoute
<1>5. /\ \A r \in Routes \ {tx[a].pk} : routes'[r] = routes[r]
      /\ tx[a].pk \in Routes => routes'[tx[a].pk] = row
  BY <1>1 DEF StoreTypeOK
<1>6. TablesConsistent'
  <2> SUFFICES ASSUME NEW r \in Routes, routes'[r] # None
               PROVE  ~KeyTaken(r, KeyOf(routes[r]))' /\ InProject(routes[r])'
    BY DEF TablesConsistent
  <2>1. InProject(routes[r])'
    <3>1. InProject(routes'[r])
      BY <1>4, <1>5 DEF TablesInv, TablesConsistent
    <3> QED
      BY <1>1, <3>1 DEF InProject
  <2>2. ASSUME NEW q \in Routes \ {r}, routes'[q] # None
        PROVE  KeyOf(routes'[q]) # KeyOf(routes'[r])
    <3>1. CASE q = tx[a].pk
      <4>1. routes'[q] = row /\ row # None /\ routes'[r] = routes[r]
        BY <3>1, <2>2, <1>5
      <4> QED
        BY <4>1, <3>1, <1>4 DEF KeyTaken
    <3>2. CASE r = tx[a].pk
      <4>1. routes'[r] = row /\ row # None /\ routes'[q] = routes[q]
        BY <3>2, <1>5
      <4> QED
        BY <4>1, <3>2, <2>2, <1>4 DEF KeyTaken
    <3>3. CASE q # tx[a].pk /\ r # tx[a].pk
      <4>1. routes'[r] = routes[r] /\ routes'[q] = routes[q]
        BY <3>3, <1>5
      <4> QED
        BY <4>1, <2>2 DEF TablesInv, TablesConsistent, KeyTaken
    <3> QED
      BY <3>1, <3>2, <3>3
  <2> QED
    BY <2>1, <2>2 DEF KeyTaken, KeyOf
<1>7. tx'[a] = new /\ \A b \in Admins \ {a} : tx'[b] = tx[b]
  BY <1>1 DEF TxOK
<1>8. ASSUME NEW b \in Admins PROVE FitsRoute(b, tx[b])'
  <2>0. Fits(b, tx[b])
    BY TablesParts
  <2>1. tx'[b].op \in {"patchRoute", "newRoute"} => InProject(tx[b].inst)'
    <3>1. tx'[b].op = tx[b].op /\ tx'[b].inst = tx[b].inst
      BY <1>2, <1>7
    <3> QED
      BY <3>1, <2>0, <1>1 DEF Fits, FitsRoute, InProject
  <2>2. CASE b = a
    BY <2>1, <2>2, <1>2, <1>7 DEF FitsRoute, WritesRoute
  <2>3. CASE b # a
    <3>1. tx'[b] = tx[b]
      BY <2>3, <1>7
    <3>2. ASSUME WritesRoute(tx[b]), NEW q \in Routes \ {tx[b].pk},
                 routes'[q] # None
          PROVE  KeyOf(routes'[q]) # KeyOf(tx[b].inst)
      <4>1. CASE q = tx[a].pk
        BY <4>1, <3>2, <1>4, <1>5, <2>3
      <4>2. CASE q # tx[a].pk
        BY <4>2, <3>2, <1>5, <2>0 DEF Fits, FitsRoute, KeyTaken
      <4> QED
        BY <4>1, <4>2
    <3>3. WritesRoute(tx[b]) =>
            \A c \in Admins \ {b} :
              WritesRoute(tx'[c]) => KeyOf(tx'[c].inst) # KeyOf(tx[b].inst)
      BY <2>0, <1>2, <1>7 DEF Fits, FitsRoute, WritesRoute
    <3> QED
      BY <2>1, <3>1, <3>2, <3>3 DEF FitsRoute, WritesRoute, KeyTaken, KeyOf
  <2> QED
    BY <2>2, <2>3
<1>9. ASSUME NEW b \in Admins PROVE FitsService(b, tx[b])'
  <2>0. FitsService(b, tx[b])
    BY TablesParts DEF Fits
  <2>1. CASE b = a
    BY <2>1, <1>2, <1>7 DEF FitsService, WritesService, RouteOps, ServiceOps
  <2>2. CASE b # a
    BY <2>0, <2>2, <1>1, <1>2, <1>7 DEF FitsService, WritesService
  <2> QED
    BY <2>1, <2>2
<1> QED
  BY <1>6, <1>8, <1>9, TablesPartsNext DEF Fits

\* A finished callback, or a dead worker, concerns no row.
LEMMA CallbackTables ==
  ASSUME TxOK, TablesInv, NEW a \in Admins,
         CrashAfterCommit(a) \/ \E k \in Keys : FinishCallback(a, k)
  PROVE  TablesInv'
<1>0. Fits(a, tx[a]) /\ tx \in [Admins -> Tx]
  BY TablesParts DEF TxOK
<1>1. CASE CrashAfterCommit(a)
  BY <1>0, <1>1, FitsIdle, TablesTx DEF CrashAfterCommit, storeVars
<1>2. ASSUME NEW k \in Keys, FinishCallback(a, k) PROVE TablesInv'
  <2> DEFINE new == [tx[a] EXCEPT !.pending = @ \ {k}]
  <2>1. tx' = [tx EXCEPT ![a] = new] /\ UNCHANGED <<services, routes>>
    BY <1>2 DEF FinishCallback, storeVars
  <2>2. /\ new.pc = tx[a].pc /\ new.op = tx[a].op
        /\ new.pk = tx[a].pk /\ new.inst = tx[a].inst
    BY <1>0 DEF Tx
  <2> HIDE DEF new
  <2>3. Fits(a, new)
    BY <1>0, <2>2, FitsOn DEF WritesRoute, WritesService
  <2> QED
    BY <1>0, <2>1, <2>3, TablesTx
<1> QED
  BY <1>1, <1>2

\* The tables start consistent and nothing is being written.
LEMMA TablesInit == Init => TablesInv
<1> SUFFICES ASSUME Init PROVE TablesInv
  OBVIOUS
<1>1. TablesConsistent
  BY InitConsistent DEF Init, StoreInit, TablesConsistent, KeyTaken, InProject
<1>2. \A a \in Admins : Fits(a, tx[a])
  BY FitsIdle DEF Init, AdminInit
<1> QED
  BY <1>1, <1>2, TablesParts

\* Every step keeps the tables and the transactions consistent.
LEMMA TablesStep == IndInv /\ TablesInv /\ [Next]_vars => TablesInv'
<1> SUFFICES ASSUME IndInv, TablesInv, [Next]_vars PROVE TablesInv'
  OBVIOUS
<1>0. StoreTypeOK /\ TxOK
  BY DEF IndInv, TypeOK, TxOK
<1>1. ASSUME UNCHANGED <<storeVars, adminVars>> PROVE TablesInv'
  BY <1>1 DEF storeVars, adminVars, TablesInv, TablesConsistent, KeysReserved,
     ServicesChecked, ProjectsKept, InProject, KeyTaken, KeyOf, WritesRoute, WritesService
<1>2. ASSUME NEW a \in Admins, AdminNext(a) PROVE TablesInv'
  <2>1. CASE PrepareTx(a)
    BY <1>0, <2>1, PrepareTables DEF PrepareTx
  <2>2. CASE CommitTx(a)
    <3>1. CASE \E p \in Projects : BulkUpdate(a, p)
      BY <1>0, <3>1, ServiceCommitTables
    <3>2. CASE Commit(a)
      <4>1. tx[a].op \in ServiceOps \/ tx[a].op \in RouteOps
        BY <3>2 DEF Commit, RouteOps
      <4> QED
        BY <1>0, <3>2, <4>1, ServiceCommitTables, RouteCommitTables
    <3> QED
      BY <2>2, <3>1, <3>2 DEF CommitTx
  <2>3. CASE Crash(a)
    BY <1>0, <2>3, CallbackTables DEF Crash
  <2>4. ASSUME NEW k \in Keys,
               InvalidateRoute(a, k) \/ InvalidateFault(a, k)
        PROVE  TablesInv'
    BY <1>0, <2>4, CallbackTables DEF InvalidateRoute, InvalidateFault
  <2>5. ASSUME NEW k \in Keys, InvalidateRetry(a, k) PROVE TablesInv'
    BY <2>5, <1>1 DEF InvalidateRetry
  <2> QED
    BY <1>2, <2>1, <2>2, <2>3, <2>4, <2>5 DEF AdminNext
<1>3. ASSUME NEW r \in Readers, LookupNext(r) PROVE TablesInv'
  <2>1. UNCHANGED storeVars
    BY <1>3 DEF LookupNext, ReaderNext, GetStep, GetRoute, GetData, GetVersion,
       ReadForPublish, EvalPublish, Fallback, ReadFault, PublishTimeout
  <2> QED
    BY <1>1, <1>3, <2>1 DEF LookupNext
<1>4. ASSUME NEW k \in Keys, ExpireEntry(k) PROVE TablesInv'
  BY <1>1, <1>4 DEF ExpireEntry
<1>5. ASSUME NEW c \in late, RunLate(c) \/ DropLate(c) PROVE TablesInv'
  BY <1>1, <1>5 DEF RunLate, DropLate, LateScript, LoseScript
<1>6. CASE UNCHANGED vars
  BY <1>1, <1>6 DEF vars
<1> QED
  BY <1>2, <1>3, <1>4, <1>5, <1>6 DEF Next

\* Whatever unlocked checks and full-row saves interleave, the tables and
\* what is about to be committed to them stay consistent.
THEOREM TablesInvariance == Spec => []TablesInv
<1>1. Init => TablesInv
  BY TablesInit
<1> QED
  BY <1>1, TablesStep, Invariance, PTL DEF Spec

\* (project, base_path) stays unique and a route's service stays within its
\* project, for any number of administrators.
THEOREM TablesSafety == Spec => []TablesConsistent
<1>1. TablesInv => TablesConsistent
  BY DEF TablesInv
<1> QED
  BY <1>1, TablesInvariance, PTL

-----------------------------------------------------------------------------
(* Tenants stay apart.                                                     *)

\* Nobody's route changes hands: owners are only added.
OwnersGrow(owner, new) ==
  /\ issued \subseteq issued'
  /\ \A r \in issued : new[r] = owner[r]

\* A snapshot stays owned while services keep their project.
LEMMA SnapshotKept ==
  ASSUME NEW owner, NEW new, OwnersGrow(owner, new), ServicesPersist,
         NEW snap \in Snapshots, NEW k, SnapshotOwned(owner, snap, k)
  PROVE  /\ snap.id \in issued'
         /\ new[snap.id] = k[1]
         /\ snap.path = k[2]
         /\ snap.service # None =>
              /\ services'[snap.service.id] # None
              /\ services'[snap.service.id].project = k[1]
<1>1. snap.service # None => snap.service.id \in Services
  BY DEF Snapshots
<1> QED
  BY <1>1 DEF SnapshotOwned, OwnersGrow, ServicesPersist

\* Tables may change, as long as services persist, under what Redis and the
\* readers hold.
LEMMA HoldersKept ==
  ASSUME IndInv, NEW owner, NEW new, OwnersGrow(owner, new), ServicesPersist,
         UNCHANGED <<cache, get, late>>,
         CacheOwned(owner), CallsOwned(owner), LateOwned(owner)
  PROVE  CacheOwned(new)' /\ CallsOwned(new)' /\ LateOwned(new)'
<1>1. CacheOwned(new)'
  <2> SUFFICES ASSUME NEW k \in Keys, cache[k] # None
               PROVE  SnapshotOwned(new, cache[k], k)'
    BY DEF CacheOwned
  <2>1. cache[k] \in Snapshots /\ SnapshotOwned(owner, cache[k], k)
    BY DEF IndInv, TypeOK, Found, CacheOwned
  <2> QED
    BY <2>1, SnapshotKept DEF SnapshotOwned
<1>2. CallsOwned(new)'
  <2> SUFFICES ASSUME NEW r \in Readers, Holds(get[r])
               PROVE  SnapshotOwned(new, get[r].snap, get[r].key)'
    BY DEF CallsOwned, Holds
  <2>1. get[r].snap \in Snapshots
    BY DEF IndInv, TypeOK, Call, Found, CallShape, WellFormedCall, Holds
  <2>2. SnapshotOwned(owner, get[r].snap, get[r].key)
    BY DEF CallsOwned
  <2> QED
    BY <2>1, <2>2, SnapshotKept DEF SnapshotOwned
<1>3. LateOwned(new)'
  <2> SUFFICES ASSUME NEW c \in late, c.type = "publish"
               PROVE  SnapshotOwned(new, c.snap, c.key)'
    BY DEF LateOwned
  <2>1. c.snap \in Snapshots
    BY DEF IndInv, TypeOK, Script
  <2>2. SnapshotOwned(owner, c.snap, c.key)
    BY DEF LateOwned
  <2> QED
    BY <2>1, <2>2, SnapshotKept DEF SnapshotOwned
<1> QED
  BY <1>1, <1>2, <1>3

\* _read_route returns a route of the project it was asked for.
LEMMA ReadOwned ==
  ASSUME StoreTypeOK, NEW owner, RowsOwned(owner), NEW k \in Keys,
         ReadRoute(k) # None
  PROVE  SnapshotOwned(owner, ReadRoute(k), k)
<1>1. PICK r \in Routes : Matches(r, k) /\ ReadRoute(k) = SnapshotOf(r)
  BY DEF ReadRoute
<1> DEFINE snap == SnapshotOf(r)
<1>2. snap.id = r /\ snap.path = routes[r].path
  BY DEF SnapshotOf
<1>3. routes[r].project = k[1] /\ routes[r].path = k[2] /\ routes[r] # None
  BY <1>1 DEF Matches, KeyOf
<1>4. snap.service # None =>
        routes[r].service # None /\ snap.service.id = routes[r].service
  BY DEF SnapshotOf
<1>5. routes[r].service # None =>
        /\ services[routes[r].service] # None
        /\ services[routes[r].service].project = k[1]
  BY <1>1, <1>3 DEF Matches, Reachable
<1> HIDE DEF snap
<1>6. SnapshotOwned(owner, snap, k)
  BY <1>2, <1>3, <1>4, <1>5 DEF SnapshotOwned, RowsOwned
<1> QED
  BY <1>1, <1>6 DEF snap

\* The parts of the invariant that Redis and the readers do not share.
TablesOwned(owner) == RowsOwned(owner) /\ WritesOwned(owner)
HoldersOwned(owner) ==
  CacheOwned(owner) /\ CallsOwned(owner) /\ LateOwned(owner)

\* Ownership of rows needs the tables and the transactions only.
LEMMA TablesOwnedKept ==
  ASSUME NEW owner, TablesOwned(owner), UNCHANGED <<storeVars, adminVars>>
  PROVE  TablesOwned(owner)'
  BY DEF TablesOwned, RowsOwned, WritesOwned, WritesRoute, storeVars, adminVars

\* A step of one transaction that writes no row and holds the row it held,
\* or none that a save could bring back, or one of the project that owns it.
LEMMA WritesKept ==
  ASSUME NEW owner, NEW new, TxOK, TablesOwned(owner), OwnersGrow(owner, new),
         routes' = routes, NEW a \in Admins, NEW t,
         tx' = [tx EXCEPT ![a] = t],
         t.op = "patchRoute" \/ WritesRoute(t) =>
           t.pk \in issued' /\ new[t.pk] = t.inst.project
  PROVE  TablesOwned(new)'
<1>1. RowsOwned(new)'
  BY DEF TablesOwned, RowsOwned, OwnersGrow
<1>2. tx'[a] = t /\ \A b \in Admins \ {a} : tx'[b] = tx[b]
  BY DEF TxOK
<1>3. ASSUME NEW b \in Admins, tx'[b].op = "patchRoute" \/ WritesRoute(tx[b])'
      PROVE  tx'[b].pk \in issued' /\ new[tx'[b].pk] = tx'[b].inst.project
  <2>1. CASE b = a
    BY <1>2, <1>3, <2>1 DEF WritesRoute
  <2>2. CASE b # a
    <3>1. tx'[b] = tx[b] /\ (tx[b].op = "patchRoute" \/ WritesRoute(tx[b]))
      BY <1>2, <1>3, <2>2 DEF WritesRoute
    <3>2. tx[b].pk \in issued /\ owner[tx[b].pk] = tx[b].inst.project
      BY <3>1 DEF TablesOwned, WritesOwned
    <3> QED
      BY <3>1, <3>2 DEF OwnersGrow
  <2> QED
    BY <2>1, <2>2
<1>4. WritesOwned(new)'
  BY <1>3 DEF WritesOwned
<1> QED
  BY <1>1, <1>4 DEF TablesOwned

\* Beginning a transaction with a row of the owner's.
LEMMA BeginOwned ==
  ASSUME NEW owner, TxOK, TablesOwned(owner), NEW a \in Admins,
         NEW op, NEW pk, NEW inst, Begin(a, op, pk, inst),
         op = "patchRoute" => pk \in issued /\ owner[pk] = inst.project
  PROVE  TablesOwned(owner)' /\ issued' = issued
<1> DEFINE t == [pc |-> "loaded", op |-> op, pk |-> pk, inst |-> inst,
                 prev |-> None, pending |-> {}]
<1>1. tx' = [tx EXCEPT ![a] = t] /\ routes' = routes /\ issued' = issued
  BY DEF Begin, storeVars
<1>2. t.pc = "loaded" /\ t.op = op /\ t.pk = pk /\ t.inst = inst
  OBVIOUS
<1> HIDE DEF t
<1>3. t.op = "patchRoute" \/ WritesRoute(t) =>
        t.pk \in issued' /\ owner[t.pk] = t.inst.project
  BY <1>1, <1>2 DEF WritesRoute
<1>4. OwnersGrow(owner, owner)
  BY <1>1 DEF OwnersGrow
<1> QED
  BY <1>1, <1>3, <1>4, WritesKept

\* A transaction that goes on with the row it holds.
LEMMA OnwardOwned ==
  ASSUME NEW owner, TxOK, TablesOwned(owner), NEW a \in Admins, NEW t,
         tx' = [tx EXCEPT ![a] = t], UNCHANGED <<routes, issued>>,
         \/ t.op \notin {"patchRoute", "newRoute"}
         \/ /\ t.op = tx[a].op /\ t.pk = tx[a].pk /\ t.inst = tx[a].inst
            /\ WritesRoute(t) => tx[a].op = "patchRoute" \/ WritesRoute(tx[a])
  PROVE  TablesOwned(owner)' /\ issued' = issued
<1>1. t.op = "patchRoute" \/ WritesRoute(t) =>
        t.pk \in issued' /\ owner[t.pk] = t.inst.project
  BY DEF TablesOwned, WritesOwned, WritesRoute
<1>2. OwnersGrow(owner, owner)
  BY DEF OwnersGrow
<1> QED
  BY <1>1, <1>2, WritesKept

\* Before COMMIT a new route gets an owner; nothing else changes.
LEMMA PrepareOwned ==
  ASSUME StoreTypeOK, TxOK, NEW a \in Admins, PrepareStep(a),
         NEW owner \in [issued -> Projects], TablesOwned(owner)
  PROVE  \E new \in [issued' -> Projects] :
           OwnersGrow(owner, new) /\ TablesOwned(new)'
<1>0. /\ UNCHANGED <<services, routes>>
      /\ \A b \in Admins : tx[b] \in Tx /\ WellFormedTx(tx[b])
  BY PrepareType DEF TxOK, TxShape
<1> SUFFICES ASSUME ~SaveNewRoute(a)
             PROVE  TablesOwned(owner)' /\ issued' = issued
  <2>1. CASE SaveNewRoute(a)
    <3>1. PICK r \in Routes \ issued :
            /\ tx[a].op = "newRoute"
            /\ issued' = issued \cup {r}
            /\ tx' = [tx EXCEPT ![a] = [@ EXCEPT !.pc = "registered", !.pk = r,
                                          !.pending = {KeyOf(tx[a].inst)}]]
      BY <2>1 DEF SaveNewRoute
    <3> DEFINE t == [tx[a] EXCEPT !.pc = "registered", !.pk = r,
                                  !.pending = {KeyOf(tx[a].inst)}]
    <3>2. tx' = [tx EXCEPT ![a] = t]
      BY <3>1
    <3>3. t.op = "newRoute" /\ t.pk = r /\ t.inst = tx[a].inst
      BY <3>1, <1>0 DEF Tx
    <3> HIDE DEF t
    <3>4. tx[a].inst.project \in Projects
      BY <1>0, <3>1 DEF WellFormedTx, RouteOps, RouteRow
    <3>5. \E new \in [issued' -> Projects] :
            (\A q \in issued : new[q] = owner[q]) /\ new[r] = tx[a].inst.project
      <4> DEFINE all == [q \in issued' |-> IF q = r THEN tx[a].inst.project
                                           ELSE owner[q]]
      <4>1. all \in [issued' -> Projects]
        BY <3>1, <3>4
      <4>2. (\A q \in issued : all[q] = owner[q]) /\ all[r] = tx[a].inst.project
        BY <3>1
      <4> HIDE DEF all
      <4> QED
        BY <4>1, <4>2
    <3> PICK new \in [issued' -> Projects] :
          (\A q \in issued : new[q] = owner[q]) /\ new[r] = tx[a].inst.project
      BY <3>5
    <3>6. OwnersGrow(owner, new)
      BY <3>1 DEF OwnersGrow
    <3>7. t.pk \in issued' /\ new[t.pk] = t.inst.project
      BY <3>1, <3>3, <3>6
    <3>8. TablesOwned(new)'
      BY <1>0, <3>2, <3>6, <3>7, WritesKept
    <3> QED
      BY <3>6, <3>8
  <2>2. CASE ~SaveNewRoute(a)
    BY <2>2 DEF OwnersGrow
  <2> QED
    BY <2>1, <2>2
<1>1. CASE LoadService(a)
  BY <1>1, BeginOwned DEF LoadService
<1>2. CASE LoadNewService(a)
  BY <1>2, BeginOwned DEF LoadNewService
<1>3. CASE LoadRoute(a)
  <2>1. PICK r \in Routes, path \in Paths, active \in BOOLEAN,
             s \in Services \cup {None} :
          /\ routes[r] # None
          /\ Begin(a, "patchRoute", r,
                   [routes[r] EXCEPT !.path = path, !.active = active,
                                     !.service = s])
    BY <1>3 DEF LoadRoute
  <2>2. [routes[r] EXCEPT !.path = path, !.active = active,
                          !.service = s].project = routes[r].project
    BY <2>1 DEF StoreTypeOK, RouteRow
  <2>3. r \in issued /\ owner[r] = routes[r].project
    BY <2>1 DEF TablesOwned, RowsOwned
  <2> QED
    BY <2>1, <2>2, <2>3, BeginOwned
<1>4. CASE LoadNewRoute(a)
  BY <1>4, BeginOwned DEF LoadNewRoute
<1>5. CASE LoadDelete(a)
  BY <1>5, BeginOwned DEF LoadDelete
<1>6. CASE SaveService(a)
  <2> DEFINE t == [tx[a] EXCEPT !.pc = "saved"]
  <2>1. tx' = [tx EXCEPT ![a] = t] /\ UNCHANGED <<routes, issued>>
    BY <1>6 DEF SaveService, Step, storeVars
  <2>2. t.op = "patchService"
    BY <1>6, <1>0 DEF SaveService, Tx
  <2> HIDE DEF t
  <2> QED
    BY <2>1, <2>2, OnwardOwned
<1>7. CASE SaveNewService(a)
  <2>1. PICK s \in Services :
          /\ tx[a].op = "newService"
          /\ tx' = [tx EXCEPT ![a] = [@ EXCEPT !.pc = "saved", !.pk = s]]
          /\ UNCHANGED <<storeVars, ops>>
    BY <1>7 DEF SaveNewService
  <2> DEFINE t == [tx[a] EXCEPT !.pc = "saved", !.pk = s]
  <2>2. tx' = [tx EXCEPT ![a] = t] /\ UNCHANGED <<routes, issued>>
    BY <2>1 DEF storeVars
  <2>3. t.op = "newService"
    BY <2>1, <1>0 DEF Tx
  <2> HIDE DEF t
  <2> QED
    BY <2>2, <2>3, OnwardOwned
<1>8. CASE PostSaveService(a)
  <2> DEFINE t == [tx[a] EXCEPT !.pc = "registered",
                             !.pending = RouteKeysOfService(tx[a].pk)]
  <2>1. tx' = [tx EXCEPT ![a] = t] /\ UNCHANGED <<routes, issued>>
    BY <1>8 DEF PostSaveService, storeVars
  <2>2. t.op \in ServiceOps
    BY <1>8, <1>0 DEF PostSaveService, Tx
  <2> HIDE DEF t
  <2> QED
    BY <2>1, <2>2, OnwardOwned DEF ServiceOps
<1>9. CASE RememberPreviousRoute(a)
  <2> DEFINE t == [tx[a] EXCEPT !.pc = "remembered",
       !.prev = IF routes[tx[a].pk] = None THEN None
                   ELSE KeyOf(routes[tx[a].pk])]
  <2>1. tx' = [tx EXCEPT ![a] = t] /\ UNCHANGED <<routes, issued>>
    BY <1>9 DEF RememberPreviousRoute, storeVars
  <2>2. /\ t.pc = "remembered" /\ t.op = tx[a].op
        /\ t.pk = tx[a].pk /\ t.inst = tx[a].inst
    BY <1>0 DEF Tx
  <2> HIDE DEF t
  <2> QED
    BY <2>1, <2>2, OnwardOwned DEF WritesRoute
<1>10. CASE SaveRoute(a)
  <2> DEFINE t == [tx[a] EXCEPT !.pc = "registered",
       !.pending = {KeyOf(tx[a].inst)} \cup ({tx[a].prev} \ {None})]
  <2>1. tx' = [tx EXCEPT ![a] = t] /\ UNCHANGED <<routes, issued>>
    BY <1>10 DEF SaveRoute, storeVars
  <2>2. t.op = tx[a].op /\ t.pk = tx[a].pk /\ t.inst = tx[a].inst
    BY <1>0 DEF Tx
  <2>3. tx[a].op = "patchRoute"
    BY <1>10, <1>0 DEF SaveRoute, WellFormedTx
  <2> HIDE DEF t
  <2> QED
    BY <2>1, <2>2, <2>3, OnwardOwned
<1>11. CASE SaveDelete(a)
  <2> DEFINE t == [tx[a] EXCEPT !.pc = "registered",
                             !.pending = {KeyOf(tx[a].inst)}]
  <2>1. tx' = [tx EXCEPT ![a] = t] /\ UNCHANGED <<routes, issued>>
    BY <1>11 DEF SaveDelete, storeVars
  <2>2. t.op = "deleteRoute"
    BY <1>11, <1>0 DEF SaveDelete, Tx
  <2> HIDE DEF t
  <2> QED
    BY <2>1, <2>2, OnwardOwned
<1>12. CASE Rollback(a) \/ Respond(a)
  <2>1. tx' = [tx EXCEPT ![a] = IdleTx] /\ UNCHANGED <<routes, issued>>
    BY <1>12 DEF Rollback, Respond, storeVars
  <2>2. IdleTx.op \notin {"patchRoute", "newRoute"}
    BY OpsAssumption DEF IdleTx, AllOps
  <2> QED
    BY <2>1, <2>2, OnwardOwned
<1>13. CASE InvalidateProjectRoutes(a)
  <2> DEFINE t == [tx[a] EXCEPT !.pc = "callbacks",
                             !.pending = RouteKeysOfProject(tx[a].pk)]
  <2>1. tx' = [tx EXCEPT ![a] = t] /\ UNCHANGED <<routes, issued>>
    BY <1>13 DEF InvalidateProjectRoutes, storeVars
  <2>2. /\ t.pc = "callbacks" /\ t.op = tx[a].op
        /\ t.pk = tx[a].pk /\ t.inst = tx[a].inst
    BY <1>0 DEF Tx
  <2> HIDE DEF t
  <2> QED
    BY <2>1, <2>2, OnwardOwned DEF WritesRoute
<1> QED
  BY <1>1, <1>2, <1>3, <1>4, <1>5, <1>6, <1>7, <1>8, <1>9, <1>10, <1>11,
     <1>12, <1>13 DEF PrepareStep

\* COMMIT writes a row of the project that owns its key.
LEMMA CommitOwned ==
  ASSUME StoreTypeOK, TxOK, NEW a \in Admins,
         Commit(a) \/ \E p \in Projects : BulkUpdate(a, p),
         NEW owner, TablesOwned(owner)
  PROVE  TablesOwned(owner)' /\ issued' = issued
<1>1. CASE Commit(a)
  <2> DEFINE t == [tx[a] EXCEPT !.pc = "callbacks"]
  <2>1. tx' = [tx EXCEPT ![a] = t] /\ issued' = issued
    BY <1>1 DEF Commit
  <2>2. /\ t.pc = "callbacks" /\ t.op = tx[a].op
        /\ t.pk = tx[a].pk /\ t.inst = tx[a].inst
    BY DEF TxOK, Tx
  <2> HIDE DEF t
  <2>3. tx'[a] = t /\ \A b \in Admins \ {a} : tx'[b] = tx[b]
    BY <2>1 DEF TxOK
  <2>4. WritesOwned(owner)'
    <3>1. ASSUME NEW b \in Admins,
                 tx'[b].op = "patchRoute" \/ WritesRoute(tx[b])'
          PROVE  tx'[b].pk \in issued' /\ owner[tx'[b].pk] = tx'[b].inst.project
      <4>1. tx[b].op = "patchRoute" \/ WritesRoute(tx[b])
        BY <2>2, <2>3, <3>1 DEF WritesRoute
      <4>2. tx'[b].pk = tx[b].pk /\ tx'[b].inst = tx[b].inst
        BY <2>2, <2>3
      <4> QED
        BY <2>1, <4>1, <4>2 DEF TablesOwned, WritesOwned
    <3> QED
      BY <3>1 DEF WritesOwned
  <2>5. RowsOwned(owner)'
    <3> SUFFICES ASSUME NEW r \in Routes, routes'[r] # None
                 PROVE  r \in issued' /\ owner[r] = routes'[r].project
      BY DEF RowsOwned
    <3>1. CASE routes'[r] = routes[r]
      BY <2>1, <3>1 DEF TablesOwned, RowsOwned
    <3>2. CASE routes'[r] # routes[r]
      <4>1. /\ tx[a].op \in {"patchRoute", "newRoute"} /\ r = tx[a].pk
            /\ routes'[r] = tx[a].inst /\ tx[a].pc = "registered"
        BY <1>1, <3>2 DEF Commit, StoreTypeOK
      <4>2. WritesRoute(tx[a])
        BY <4>1 DEF WritesRoute
      <4> QED
        BY <2>1, <4>1, <4>2 DEF TablesOwned, WritesOwned
    <3> QED
      BY <3>1, <3>2
  <2> QED
    BY <2>1, <2>4, <2>5 DEF TablesOwned
<1>2. ASSUME NEW p \in Projects, BulkUpdate(a, p)
      PROVE  TablesOwned(owner)' /\ issued' = issued
  <2> DEFINE t == [pc |-> "bulkSaved", op |-> "bulk", pk |-> p,
                   inst |-> None, prev |-> None, pending |-> {}]
  <2>1. tx' = [tx EXCEPT ![a] = t] /\ UNCHANGED <<routes, issued>>
    BY <1>2 DEF BulkUpdate
  <2>2. t.op = "bulk"
    OBVIOUS
  <2> HIDE DEF t
  <2> QED
    BY <2>1, <2>2, OnwardOwned
<1> QED
  BY <1>1, <1>2

\* After COMMIT rows are not touched.
LEMMA CallbackOwned ==
  ASSUME TxOK, NEW a \in Admins, NEW owner, TablesOwned(owner),
         CrashAfterCommit(a) \/ \E k \in Keys : FinishCallback(a, k)
  PROVE  TablesOwned(owner)' /\ UNCHANGED storeVars
<1>1. CASE CrashAfterCommit(a)
  <2>1. tx' = [tx EXCEPT ![a] = IdleTx] /\ UNCHANGED storeVars
    BY <1>1 DEF CrashAfterCommit
  <2>2. IdleTx.op \notin {"patchRoute", "newRoute"}
    BY OpsAssumption DEF IdleTx, AllOps
  <2> QED
    BY <2>1, <2>2, OnwardOwned DEF storeVars
<1>2. ASSUME NEW k \in Keys, FinishCallback(a, k)
      PROVE  TablesOwned(owner)' /\ UNCHANGED storeVars
  <2> DEFINE t == [tx[a] EXCEPT !.pending = @ \ {k}]
  <2>1. tx' = [tx EXCEPT ![a] = t] /\ UNCHANGED storeVars
    BY <1>2 DEF FinishCallback
  <2>2. /\ t.pc = tx[a].pc /\ t.op = tx[a].op
        /\ t.pk = tx[a].pk /\ t.inst = tx[a].inst
    BY DEF TxOK, Tx
  <2> HIDE DEF t
  <2> QED
    BY <2>1, <2>2, OnwardOwned DEF WritesRoute, storeVars
<1> QED
  BY <1>1, <1>2

\* While the tables stand still, Redis and the readers only pass owned
\* snapshots on, or read them from the tables.
LEMMA HoldersMove ==
  ASSUME NEW owner, HoldersOwned(owner), UNCHANGED storeVars,
         \A k \in Keys : cache'[k] \notin {None, cache[k]} =>
           SnapshotOwned(owner, cache'[k], k),
         \A r \in Readers :
           get'[r] # get[r] /\ Holds(get'[r]) =>
             SnapshotOwned(owner, get'[r].snap, get'[r].key),
         \A c \in late' \ late : c.type = "publish" =>
           SnapshotOwned(owner, c.snap, c.key)
  PROVE  HoldersOwned(owner)'
<1>1. ASSUME NEW snap, NEW k, SnapshotOwned(owner, snap, k)
      PROVE  /\ snap.id \in issued'
             /\ owner[snap.id] = k[1]
             /\ snap.path = k[2]
             /\ snap.service # None =>
                  /\ services'[snap.service.id] # None
                  /\ services'[snap.service.id].project = k[1]
  BY <1>1 DEF SnapshotOwned, storeVars
<1>2. CacheOwned(owner)'
  <2>1. ASSUME NEW k \in Keys, cache'[k] # None
        PROVE  SnapshotOwned(owner, cache'[k], k)
    BY <2>1 DEF HoldersOwned, CacheOwned
  <2> QED
    BY <1>1, <2>1 DEF CacheOwned, SnapshotOwned
<1>3. CallsOwned(owner)'
  <2>1. ASSUME NEW r \in Readers, Holds(get'[r])
        PROVE  SnapshotOwned(owner, get'[r].snap, get'[r].key)
    BY <2>1 DEF HoldersOwned, CallsOwned
  <2> SUFFICES ASSUME NEW r \in Readers, Holds(get'[r])
               PROVE  SnapshotOwned(owner, get[r].snap, get[r].key)'
    BY DEF CallsOwned, Holds
  <2>2. PICK snap, k : snap = get'[r].snap /\ k = get'[r].key
    OBVIOUS
  <2>3. SnapshotOwned(owner, snap, k)
    BY <2>1, <2>2
  <2>4. /\ snap.id \in issued'
        /\ owner[snap.id] = k[1]
        /\ snap.path = k[2]
        /\ snap.service # None =>
             /\ services'[snap.service.id] # None
             /\ services'[snap.service.id].project = k[1]
    BY <1>1, <2>3
  <2> QED
    BY <2>2, <2>4 DEF SnapshotOwned
<1>4. LateOwned(owner)'
  <2>1. ASSUME NEW c \in late', c.type = "publish"
        PROVE  SnapshotOwned(owner, c.snap, c.key)
    BY <2>1 DEF HoldersOwned, LateOwned
  <2> QED
    BY <1>1, <2>1 DEF LateOwned, SnapshotOwned
<1> QED
  BY <1>2, <1>3, <1>4 DEF HoldersOwned

\* A reader answers and publishes what it read for its own key.
LEMMA ReaderOwned ==
  ASSUME IndInv, NEW r \in Readers, ReaderNext(r), NEW owner,
         RowsOwned(owner), HoldersOwned(owner)
  PROVE  HoldersOwned(owner)'
<1>0. /\ StoreTypeOK /\ cache \in [Keys -> Found] /\ get \in [Readers -> Call]
      /\ get[r].pc \in Active => get[r].key \in Keys
  BY DEF IndInv, TypeOK, CallShape, WellFormedCall
<1>1. ASSUME NEW new, get' = [get EXCEPT ![r] = new], UNCHANGED storeVars,
             UNCHANGED <<cache, late>>,
             Holds(new) => SnapshotOwned(owner, new.snap, new.key)
      PROVE  HoldersOwned(owner)'
  <2>1. get'[r] = new /\ \A q \in Readers \ {r} : get'[q] = get[q]
    BY <1>0, <1>1
  <2> QED
    BY <1>1, <2>1, HoldersMove
<1>2. ASSUME NEW answer, Return(r, answer), UNCHANGED storeVars, UNCHANGED <<cache, late>>,
             answer # None => SnapshotOwned(owner, answer, get[r].key)
      PROVE  HoldersOwned(owner)'
  <2> DEFINE new == NewCall("done", get[r].key, answer)
  <2>1. get' = [get EXCEPT ![r] = new]
    BY <1>2 DEF Return
  <2>2. new.pc = "done" /\ new.snap = answer /\ new.key = get[r].key
    BY DEF NewCall
  <2> HIDE DEF new
  <2> QED
    BY <1>1, <1>2, <2>1, <2>2 DEF Holds
<1>3. ASSUME NEW pc, Goto(r, pc), UNCHANGED storeVars, UNCHANGED <<cache, late>>,
             pc \notin {"publish", "done"}, get[r].pc \in Active
      PROVE  HoldersOwned(owner)'
  <2> DEFINE new == [get[r] EXCEPT !.pc = pc]
  <2>1. get' = [get EXCEPT ![r] = new]
    BY <1>3 DEF Goto
  <2>2. new.pc = pc
    BY <1>0 DEF Call
  <2> HIDE DEF new
  <2> QED
    BY <1>1, <1>3, <2>1, <2>2 DEF Holds
<1>4. ASSUME NEW k \in Keys, GetRoute(r, k) PROVE HoldersOwned(owner)'
  <2> DEFINE new == NewCall("getData", k, None)
  <2>1. get' = [get EXCEPT ![r] = new] /\ UNCHANGED storeVars /\ UNCHANGED <<cache, late>>
    BY <1>4 DEF GetRoute, cacheVars
  <2>2. new.pc = "getData"
    BY DEF NewCall
  <2> HIDE DEF new
  <2> QED
    BY <1>1, <2>1, <2>2 DEF Holds
<1>5. CASE GetData(r)
  <2>1. /\ get[r].pc = "getData" /\ get[r].key \in Keys
        /\ UNCHANGED storeVars /\ UNCHANGED <<cache, late>>
    BY <1>0, <1>5 DEF GetData, cacheVars, Active
  <2>2. CASE cache[get[r].key] # None
    <3>1. SnapshotOwned(owner, cache[get[r].key], get[r].key)
      BY <2>1, <2>2 DEF HoldersOwned, CacheOwned
    <3>2. Return(r, cache[get[r].key])
      BY <1>5, <2>2 DEF GetData
    <3> QED
      BY <1>2, <2>1, <3>1, <3>2
  <2>3. CASE cache[get[r].key] = None
    <3>1. Goto(r, "getVersion")
      BY <1>5, <2>3 DEF GetData
    <3> QED
      BY <1>3, <2>1, <3>1 DEF Active
  <2> QED
    BY <2>2, <2>3
<1>6. CASE GetVersion(r)
  <2> DEFINE new == [get[r] EXCEPT !.pc = "readRoute", !.gen = gen[get[r].key]]
  <2>1. get' = [get EXCEPT ![r] = new] /\ UNCHANGED storeVars /\ UNCHANGED <<cache, late>>
    BY <1>6 DEF GetVersion, cacheVars
  <2>2. new.pc = "readRoute"
    BY <1>0 DEF Call
  <2> HIDE DEF new
  <2> QED
    BY <1>1, <2>1, <2>2 DEF Holds
<1>7. CASE ReadForPublish(r)
  <2>1. /\ get[r].pc = "readRoute" /\ get[r].key \in Keys
        /\ UNCHANGED storeVars /\ UNCHANGED <<cache, late>>
    BY <1>0, <1>7 DEF ReadForPublish, cacheVars, Active
  <2>2. CASE ReadRoute(get[r].key) = None
    BY <1>2, <1>7, <2>1, <2>2 DEF ReadForPublish
  <2>3. CASE ReadRoute(get[r].key) # None
    <3> DEFINE new == [get[r] EXCEPT !.pc = "publish",
                                     !.snap = ReadRoute(get[r].key)]
    <3>1. get' = [get EXCEPT ![r] = new]
      BY <1>7, <2>3 DEF ReadForPublish
    <3>2. new.snap = ReadRoute(get[r].key) /\ new.key = get[r].key
      BY <1>0 DEF Call
    <3>3. SnapshotOwned(owner, ReadRoute(get[r].key), get[r].key)
      BY <1>0, <2>1, <2>3, ReadOwned
    <3> HIDE DEF new
    <3> QED
      BY <1>1, <2>1, <3>1, <3>2, <3>3
  <2> QED
    BY <2>2, <2>3
<1>8. CASE EvalPublish(r)
  <2>1. /\ get[r].pc = "publish" /\ get[r].key \in Keys
        /\ UNCHANGED storeVars /\ UNCHANGED late
        /\ Publish(get[r].key, get[r].gen, get[r].snap)
    BY <1>0, <1>8 DEF EvalPublish, Active
  <2>6. Holds(get[r])
    BY <2>1 DEF Holds
  <2>2. SnapshotOwned(owner, get[r].snap, get[r].key)
    BY <2>6 DEF HoldersOwned, CallsOwned
  <2>3. \A k \in Keys : cache'[k] \notin {None, cache[k]} =>
          SnapshotOwned(owner, cache'[k], k)
    BY <1>0, <2>1, <2>2 DEF Publish
  <2>4. CASE gen[get[r].key] = get[r].gen
    <3> DEFINE new == NewCall("done", get[r].key, get[r].snap)
    <3>1. get' = [get EXCEPT ![r] = new]
      BY <1>8, <2>4 DEF EvalPublish, Return
    <3>2. new.snap = get[r].snap /\ new.key = get[r].key
      BY DEF NewCall
    <3> HIDE DEF new
    <3>3. get'[r] = new /\ \A q \in Readers \ {r} : get'[q] = get[q]
      BY <1>0, <3>1
    <3> QED
      BY <2>1, <2>2, <2>3, <3>2, <3>3, HoldersMove
  <2>5. CASE gen[get[r].key] # get[r].gen
    <3> DEFINE pc == IF get[r].tries + 1 < MaxAttempts THEN "getData"
                     ELSE "fallback"
               new == [get[r] EXCEPT !.tries = get[r].tries + 1, !.pc = pc]
    <3>1. get' = [get EXCEPT ![r] = new]
      BY <1>8, <2>5 DEF EvalPublish, AfterRejection
    <3>2. new.pc \notin {"publish", "done"}
      BY <1>0 DEF Call
    <3> HIDE DEF new
    <3>3. get'[r] = new /\ \A q \in Readers \ {r} : get'[q] = get[q]
      BY <1>0, <3>1
    <3> QED
      BY <2>1, <2>3, <3>2, <3>3, HoldersMove DEF Holds
  <2> QED
    BY <2>4, <2>5
<1>9. CASE Fallback(r)
  <2>1. /\ get[r].key \in Keys /\ UNCHANGED storeVars /\ UNCHANGED <<cache, late>>
        /\ Return(r, ReadRoute(get[r].key))
    BY <1>0, <1>9 DEF Fallback, cacheVars, Active
  <2>2. ReadRoute(get[r].key) # None =>
          SnapshotOwned(owner, ReadRoute(get[r].key), get[r].key)
    BY <1>0, <2>1, ReadOwned
  <2> QED
    BY <1>2, <2>1, <2>2
<1>10. CASE ReadFault(r)
  BY <1>3, <1>10 DEF ReadFault, Active
<1>11. CASE PublishTimeout(r)
  <2> DEFINE c == [type |-> "publish", key |-> get[r].key,
                   gen |-> get[r].gen, snap |-> get[r].snap]
  <2>1. /\ get[r].pc = "publish" /\ late' = late \cup {c}
        /\ UNCHANGED storeVars /\ cache' = cache
    BY <1>11 DEF PublishTimeout
  <2>2. c.snap = get[r].snap /\ c.key = get[r].key
    OBVIOUS
  <2> HIDE DEF c
  <2>3. Holds(get[r])
    BY <2>1 DEF Holds
  <2>4. SnapshotOwned(owner, c.snap, c.key)
    BY <2>2, <2>3 DEF HoldersOwned, CallsOwned
  <2>5. \A q \in Readers : get'[q] # get[q] => get'[q].pc = "fallback"
    BY <1>0, <1>11 DEF PublishTimeout, Goto, Call
  <2> QED
    BY <2>1, <2>4, <2>5, HoldersMove DEF Holds
<1> QED
  BY <1>4, <1>5, <1>6, <1>7, <1>8, <1>9, <1>10, <1>11 DEF ReaderNext, GetStep

\* Redis by itself: entries are removed, or written by a late script.
LEMMA RedisOwned ==
  ASSUME IndInv, NEW owner, HoldersOwned(owner),
         \/ \E k \in Keys : ExpireEntry(k)
         \/ \E c \in late : RunLate(c) \/ DropLate(c)
  PROVE  HoldersOwned(owner)'
<1>0. cache \in [Keys -> Found] /\ late \subseteq Script
  BY DEF IndInv, TypeOK
<1>1. ASSUME NEW k \in Keys, ExpireEntry(k) PROVE HoldersOwned(owner)'
  <2>1. UNCHANGED storeVars /\ UNCHANGED <<get, late>>
    BY <1>1 DEF ExpireEntry, Expire
  <2>2. \A q \in Keys : cache'[q] \in {None, cache[q]}
    BY <1>0, <1>1 DEF ExpireEntry, Expire
  <2> QED
    BY <2>1, <2>2, HoldersMove
<1>2. ASSUME NEW c \in late, RunLate(c) \/ DropLate(c)
      PROVE  HoldersOwned(owner)'
  <2>1. UNCHANGED storeVars /\ UNCHANGED get /\ late' \subseteq late
    BY <1>2 DEF RunLate, DropLate, LateScript, LoseScript
  <2>2. ASSUME NEW q \in Keys, cache'[q] \notin {None, cache[q]}
        PROVE  c.type = "publish" /\ q = c.key /\ cache'[q] = c.snap
    BY <1>0, <1>2, <2>2
    DEF RunLate, DropLate, LateScript, LoseScript, Publish, Invalidate
  <2>3. c.type = "publish" => SnapshotOwned(owner, c.snap, c.key)
    BY DEF HoldersOwned, LateOwned
  <2> QED
    BY <2>1, <2>2, <2>3, HoldersMove
<1> QED
  BY <1>1, <1>2

\* Nobody owns anything yet but the rows that exist.
LEMMA TenantInit == Init => TenantInv
<1> SUFFICES ASSUME Init PROVE TenantInv
  OBVIOUS
<1> DEFINE owner == [r \in issued |-> InitRoutes[r].project]
<1>1. owner \in [issued -> Projects]
  BY InitAssumption DEF Init, StoreInit, RouteRow
<1>2. RowsOwned(owner)
  BY InitAssumption DEF Init, StoreInit, RowsOwned
<1> HIDE DEF owner
<1>3. \A a \in Admins : tx[a] = IdleTx
  BY DEF Init, AdminInit
<1>4. IdleTx.op = None /\ None # "patchRoute" /\ None # "newRoute"
  BY OpsAssumption DEF IdleTx, AllOps
<1>5. WritesOwned(owner)
  BY <1>3, <1>4 DEF WritesOwned, WritesRoute
<1>6. CacheOwned(owner) /\ LateOwned(owner)
  BY DEF Init, CacheInit, CacheOwned, LateOwned
<1>7. CallsOwned(owner)
  BY DEF Init, CacheInit, CallsOwned, Holds, IdleCall, NewCall
<1> QED
  BY <1>1, <1>2, <1>5, <1>6, <1>7 DEF TenantInv

\* The invariant, by what it is about.
LEMMA TenantParts ==
  TenantInv <=> \E owner \in [issued -> Projects] :
                  TablesOwned(owner) /\ HoldersOwned(owner)
  BY DEF TenantInv, TablesOwned, HoldersOwned

\* TenantInv of the next state, with the keys issued by then.
LEMMA TenantPartsNext ==
  TenantInv' <=> \E owner \in [issued' -> Projects] :
                   TablesOwned(owner)' /\ HoldersOwned(owner)'
  BY DEF TenantInv, TablesOwned, HoldersOwned

\* Every step keeps the owners of routes and of snapshots.
LEMMA TenantStep ==
  IndInv /\ TablesInv /\ TenantInv /\ [Next]_vars => TenantInv'
<1> SUFFICES ASSUME IndInv, TablesInv, TenantInv, [Next]_vars PROVE TenantInv'
  OBVIOUS
<1>0. StoreTypeOK /\ TxOK
  BY DEF IndInv, TypeOK, TxOK
<1> PICK owner \in [issued -> Projects] : TablesOwned(owner) /\ HoldersOwned(owner)
  BY TenantParts
<1>1. ASSUME NEW new \in [issued' -> Projects], OwnersGrow(owner, new),
             TablesOwned(new)', ServicesPersist, UNCHANGED <<cache, get, late>>
      PROVE  TenantInv'
  <2>1. HoldersOwned(new)'
    BY <1>1, HoldersKept DEF HoldersOwned
  <2> QED
    BY <1>1, <2>1, TenantPartsNext
<1>2. ASSUME UNCHANGED issued, TablesOwned(owner)', HoldersOwned(owner)'
      PROVE  TenantInv'
  BY <1>2, TenantPartsNext
<1>3. ASSUME UNCHANGED services PROVE ServicesPersist
  BY <1>3 DEF ServicesPersist
<1>4. ASSUME UNCHANGED issued PROVE OwnersGrow(owner, owner)
  BY <1>4 DEF OwnersGrow
<1>5. ASSUME UNCHANGED storeVars PROVE UNCHANGED <<services, issued>>
  BY <1>5 DEF storeVars
<1>6. ASSUME NEW a \in Admins, AdminNext(a) PROVE TenantInv'
  <2>1. CASE PrepareTx(a)
    <3>1. PrepareStep(a) /\ UNCHANGED <<cache, get, late>>
      BY <2>1 DEF PrepareTx, cacheVars
    <3>2. ServicesPersist
      BY <1>0, <1>3, <3>1, PrepareType
    <3>3. PICK new \in [issued' -> Projects] :
            OwnersGrow(owner, new) /\ TablesOwned(new)'
      BY <1>0, <3>1, PrepareOwned
    <3> QED
      BY <1>1, <3>1, <3>2, <3>3
  <2>2. CASE CommitTx(a)
    <3>1. /\ Commit(a) \/ \E p \in Projects : BulkUpdate(a, p)
          /\ UNCHANGED <<cache, get, late>>
      BY <2>2 DEF CommitTx, cacheVars
    <3>2. TablesOwned(owner)' /\ issued' = issued
      BY <1>0, <3>1, CommitOwned
    <3>3. ServicesPersist
      BY <1>0, <3>1, CommitPersists
    <3> QED
      BY <1>1, <1>4, <3>1, <3>2, <3>3
  <2>3. CASE Crash(a)
    <3>1. TablesOwned(owner)' /\ UNCHANGED storeVars
      BY <1>0, <2>3, CallbackOwned DEF Crash
    <3>2. UNCHANGED <<cache, get, late>>
      BY <2>3 DEF Crash
    <3> QED
      BY <1>1, <1>3, <1>4, <1>5, <3>1, <3>2
  <2>4. ASSUME NEW k \in Keys, InvalidateRoute(a, k) PROVE TenantInv'
    <3>1. TablesOwned(owner)' /\ UNCHANGED storeVars
      BY <1>0, <2>4, CallbackOwned DEF InvalidateRoute
    <3>2. UNCHANGED <<get, late>>
      BY <2>4 DEF InvalidateRoute
    <3>3. \A q \in Keys : cache'[q] \in {None, cache[q]}
      BY <2>4 DEF InvalidateRoute, Invalidate, IndInv, TypeOK
    <3>4. HoldersOwned(owner)'
      BY <3>1, <3>2, <3>3, HoldersMove
    <3> QED
      BY <1>2, <1>5, <3>1, <3>4
  <2>5. ASSUME NEW k \in Keys,
               InvalidateFault(a, k) \/ InvalidateRetry(a, k)
        PROVE  TenantInv'
    <3>1. TablesOwned(owner)' /\ UNCHANGED storeVars
      BY <1>0, <2>5, CallbackOwned, TablesOwnedKept
      DEF InvalidateFault, InvalidateRetry
    <3>2. UNCHANGED <<get, cache>>
      BY <2>5 DEF InvalidateFault, InvalidateRetry
    <3>3. \A c \in late' \ late : c.type # "publish"
      BY <2>5 DEF InvalidateFault, InvalidateRetry, InvalidateScript
    <3>4. HoldersOwned(owner)'
      BY <3>1, <3>2, <3>3, HoldersMove
    <3> QED
      BY <1>2, <1>5, <3>1, <3>4
  <2> QED
    BY <1>6, <2>1, <2>2, <2>3, <2>4, <2>5 DEF AdminNext
<1>7. ASSUME NEW r \in Readers, LookupNext(r) PROVE TenantInv'
  <2>1. UNCHANGED storeVars /\ UNCHANGED adminVars
    BY <1>7 DEF LookupNext, ReaderNext, GetStep, GetRoute, GetData, GetVersion,
       ReadForPublish, EvalPublish, Fallback, ReadFault, PublishTimeout
  <2>2. HoldersOwned(owner)'
    BY <1>7, ReaderOwned DEF LookupNext, TablesOwned
  <2> QED
    BY <1>2, <1>5, <2>1, <2>2, TablesOwnedKept
<1>8. ASSUME \/ \E k \in Keys : ExpireEntry(k)
             \/ \E c \in late : RunLate(c) \/ DropLate(c)
      PROVE  TenantInv'
  <2>1. UNCHANGED storeVars /\ UNCHANGED adminVars
    BY <1>8 DEF ExpireEntry, RunLate, DropLate, LateScript, LoseScript
  <2> QED
    BY <1>2, <1>5, <1>8, <2>1, RedisOwned, TablesOwnedKept
<1>9. CASE UNCHANGED vars
  <2>1. UNCHANGED storeVars /\ UNCHANGED adminVars /\ UNCHANGED <<cache, get, late>>
    BY <1>9 DEF vars, cacheVars
  <2> QED
    BY <1>1, <1>3, <1>4, <1>5, <2>1, TablesOwnedKept
<1> QED
  BY <1>6, <1>7, <1>8, <1>9 DEF Next

\* A primary key belongs to one project for good, deleted and restored rows
\* included, and snapshots never leave their project.
THEOREM TenantInvariance == Spec => []TenantInv
<1>1. Init => TenantInv
  BY TenantInit
<1> QED
  BY <1>1, TenantStep, Invariance, TablesInvariance, PTL DEF Spec

\* No tenant sees another's route or destination, through the cache or
\* through a finished lookup, for any number of tenants and failures.
THEOREM TenantSafety == Spec => []TenantIsolation
<1>1. TenantInv /\ IndInv => TenantIsolation
  <2> SUFFICES ASSUME TenantInv, IndInv PROVE TenantIsolation
    OBVIOUS
  <2> PICK owner \in [issued -> Projects] :
        TablesOwned(owner) /\ HoldersOwned(owner)
    BY TenantParts
  <2>1. ASSUME NEW snap, NEW k, SnapshotOwned(owner, snap, k)
        PROVE  OwnedBy(snap, k[1]) /\ snap.path = k[2]
    <3>1. snap.id \in Routes
      BY <2>1 DEF SnapshotOwned, IndInv, TypeOK, StoreTypeOK
    <3> QED
      BY <2>1, <3>1 DEF SnapshotOwned, OwnedBy, TablesOwned, RowsOwned
  <2> QED
    BY <2>1 DEF TenantIsolation, HoldersOwned, CacheOwned, CallsOwned, Holds
<1> QED
  BY <1>1, TenantInvariance, Invariance, PTL

-----------------------------------------------------------------------------
(* The signals cover every commit, when administrative requests do not     *)
(* overlap (the run service_race shows that they must not).                *)

\* One administrative request at a time.
OneAdministrator == \A a, b \in Admins : a = b

\* (project, base_path) being unique, _read_route has no choice.
LEMMA ReadMatch ==
  ASSUME TablesConsistent, NEW k, NEW r \in Routes, Matches(r, k)
  PROVE  ReadRoute(k) = SnapshotOf(r)
<1>1. \A q \in Routes : Matches(q, k) => q = r
  BY DEF TablesConsistent, KeyTaken, Matches
<1>2. (CHOOSE q \in Routes : Matches(q, k)) = r
  BY <1>1
<1> QED
  BY <1>2 DEF ReadRoute

\* The row that matches a key in the next state is the one a lookup reads.
LEMMA ReadMatchNext ==
  ASSUME TablesConsistent', NEW k, NEW r \in Routes, Matches(r, k)'
  PROVE  ReadRoute(k)' = SnapshotOf(r)'
<1>1. \A q \in Routes : Matches(q, k)' => q = r
  BY DEF TablesConsistent, KeyTaken, Matches, KeyOf
<1>2. (CHOOSE q \in Routes : Matches(q, k)') = r
  BY <1>1
<1> QED
  BY <1>2 DEF ReadRoute

\* A lookup changes only if a route that matches does.
LEMMA ReadSame ==
  ASSUME TablesConsistent, TablesConsistent', NEW k,
         \A r \in Routes : Matches(r, k)' <=> Matches(r, k),
         \A r \in Routes : Matches(r, k) => SnapshotOf(r)' = SnapshotOf(r)
  PROVE  ReadRoute(k)' = ReadRoute(k)
<1>1. ASSUME NEW r \in Routes, Matches(r, k)
      PROVE  ReadRoute(k)' = ReadRoute(k)
  BY <1>1, ReadMatch, ReadMatchNext
<1>2. ASSUME \A r \in Routes : ~Matches(r, k)
      PROVE  ReadRoute(k)' = ReadRoute(k)
  BY <1>2 DEF ReadRoute
<1> QED
  BY <1>1, <1>2

\* COMMIT changes no lookup but those the callbacks will invalidate.
LEMMA CommitCovered ==
  ASSUME StoreTypeOK, TxOK, TablesInv, TablesInv', NEW a \in Admins,
         Commit(a), Covers(tx[a]), NEW k \in Keys, k \notin tx[a].pending
  PROVE  ReadRoute(k)' = ReadRoute(k)
<1>0. TablesConsistent /\ TablesConsistent' /\ tx[a].pc = "registered"
  BY DEF TablesInv, Commit
<1>1. CASE tx[a].op \in RouteOps
  <2>1. services' = services /\ \A r \in Routes \ {tx[a].pk} : routes'[r] = routes[r]
    BY <1>1 DEF Commit, StoreTypeOK, RouteOps, ServiceOps
  <2>2. ASSUME NEW r \in Routes, r # tx[a].pk
        PROVE  /\ Matches(r, k)' <=> Matches(r, k)
               /\ SnapshotOf(r)' = SnapshotOf(r)
    BY <2>1, <2>2 DEF Matches, Reachable, SnapshotOf, KeyOf
  <2>3. ~Matches(tx[a].pk, k)
    BY <1>0, <1>1 DEF Covers, Matches
  <2>4. \A r \in Routes : Matches(r, k)' <=> Matches(r, k)
    <3> SUFFICES ASSUME NEW r \in Routes, r = tx[a].pk
                 PROVE  Matches(r, k)' <=> Matches(r, k)
      BY <2>2
    <3>1. routes'[r] # None =>
            WritesRoute(tx[a]) /\ routes'[r] = tx[a].inst
      BY <1>0, <1>1
      DEF Commit, StoreTypeOK, RouteOps, ServiceOps, WritesRoute
    <3>2. ~(Matches(r, k)')
      BY <3>1 DEF Covers, Matches, KeyOf
    <3> QED
      BY <2>3, <3>2
  <2>5. \A r \in Routes : Matches(r, k) => SnapshotOf(r)' = SnapshotOf(r)
    BY <2>2, <2>3
  <2> QED
    BY <1>0, <2>4, <2>5, ReadSame
<1>2. CASE tx[a].op \in ServiceOps
  <2>1. routes' = routes /\ \A s \in Services \ {tx[a].pk} : services'[s] = services[s]
    BY <1>2 DEF Commit, StoreTypeOK, RouteOps, ServiceOps
  <2>2. ASSUME NEW r \in Routes, routes[r] # None, KeyOf(routes[r]) = k
        PROVE  routes[r].service # tx[a].pk
    BY <1>0, <1>2, <2>2 DEF Covers, RouteKeysOfService
  <2>3. ASSUME NEW r \in Routes
        PROVE  /\ Matches(r, k)' <=> Matches(r, k)
               /\ Matches(r, k) => SnapshotOf(r)' = SnapshotOf(r)
    <3>1. CASE routes[r] # None /\ KeyOf(routes[r]) = k
      <4>1. routes[r].service \in Services \cup {None}
        BY <3>1 DEF StoreTypeOK, RouteRow
      <4>2. routes[r].service # None =>
              services'[routes[r].service] = services[routes[r].service]
        BY <2>1, <2>2, <3>1, <4>1
      <4> QED
        BY <2>1, <4>2 DEF Matches, Reachable, SnapshotOf, KeyOf
    <3>2. CASE ~(routes[r] # None /\ KeyOf(routes[r]) = k)
      BY <2>1, <3>2 DEF Matches, KeyOf
    <3> QED
      BY <3>1, <3>2
  <2> QED
    BY <1>0, <2>3, ReadSame
<1> QED
  BY <1>1, <1>2 DEF Commit, RouteOps

\* A bulk update of a project's services changes lookups of that project's
\* routes only: any other project's route to such a service is unreachable.
LEMMA BulkCovered ==
  ASSUME StoreTypeOK, TablesInv, TablesInv', NEW a \in Admins,
         NEW p \in Projects, BulkUpdate(a, p),
         NEW k \in Keys, k \notin RouteKeysOfProject(p)
  PROVE  ReadRoute(k)' = ReadRoute(k)
<1>0. TablesConsistent /\ TablesConsistent' /\ routes' = routes
  BY DEF TablesInv, BulkUpdate
<1>1. PICK active \in BOOLEAN :
        services' = [s \in Services |->
          IF services[s] # None /\ services[s].project = p
          THEN [services[s] EXCEPT !.active = active] ELSE services[s]]
  BY DEF BulkUpdate
<1>2. \A s \in Services : services[s] = None \/ services[s].project # p =>
        services'[s] = services[s]
  BY <1>1
<1>3. ASSUME NEW r \in Routes
      PROVE  /\ Matches(r, k)' <=> Matches(r, k)
             /\ Matches(r, k) => SnapshotOf(r)' = SnapshotOf(r)
  <2>1. CASE routes[r] # None /\ KeyOf(routes[r]) = k
    <3>1. routes[r].project # p
      BY <2>1 DEF RouteKeysOfProject
    <3>2. routes[r].service \in Services \cup {None}
      BY <2>1 DEF StoreTypeOK, RouteRow
    <3>3. InProject(routes[r])
      BY <1>0, <2>1 DEF TablesConsistent
    <3>4. routes[r].service # None =>
            services'[routes[r].service] = services[routes[r].service]
      BY <1>2, <3>1, <3>2, <3>3 DEF InProject
    <3> QED
      BY <1>0, <3>4 DEF Matches, Reachable, SnapshotOf, KeyOf
  <2>2. CASE ~(routes[r] # None /\ KeyOf(routes[r]) = k)
    BY <1>0, <2>2 DEF Matches, KeyOf
  <2> QED
    BY <2>1, <2>2
<1> QED
  BY <1>0, <1>3, ReadSame

\* A key keeps its state of affairs: what was due is due, and a lookup that
\* changed has become due.
Steady(k) ==
  /\ gen'[k] = gen[k]
  /\ Dirty(k)' \/ (~Dirty(k) /\ ReadRoute(k)' = ReadRoute(k))

\* _INVALIDATE has run for the key.
Renewed(k) ==
  /\ gen'[k] = gen[k] + 1
  /\ cache'[k] = None
  /\ UNCHANGED get
  /\ late' \subseteq late

\* What was clean stays clean on a steady key.
LEMMA CleanKept ==
  ASSUME NEW k, NEW snap, Steady(k), Clean(k, snap)
  PROVE  Clean(k, snap)'
  BY DEF Steady, Clean

\* Entries and publications stay coherent, key by key.
LEMMA CoherentMove ==
  ASSUME IndInv, Coherent, PublicationsCoherent,
         \A k \in Keys : Steady(k) \/ Renewed(k),
         \A k \in Keys : cache'[k] \in {None, cache[k]} \/ Clean(k, cache'[k]),
         \A r \in Readers, k \in Keys :
           get'[r] # get[r] /\ get'[r].pc = "publish" /\ get'[r].key = k =>
             Clean(k, get'[r].snap),
         \A c \in late' \ late :
           c.type = "publish" /\ c.gen = gen[c.key] => Clean(c.key, c.snap),
         late' \subseteq Script
  PROVE  Coherent' /\ PublicationsCoherent'
<1>0. /\ gen \in [Keys -> Nat] /\ late \subseteq Script
      /\ get \in [Readers -> Call]
      /\ ReadersGuarded /\ LateGuarded
  BY DEF IndInv, TypeOK
<1>1. ASSUME NEW k \in Keys PROVE Clean(k, cache[k])'
  <2>1. CASE Steady(k)
    <3>1. PICK snap : snap = cache'[k]
      OBVIOUS
    <3>2. Clean(k, snap)
      BY <3>1 DEF Coherent, Clean
    <3>3. Clean(k, snap)'
      BY <2>1, <3>2, CleanKept
    <3> QED
      BY <3>1, <3>3 DEF Clean
  <2>2. CASE Renewed(k)
    BY <2>2 DEF Renewed, Clean
  <2> QED
    BY <2>1, <2>2
<1>2. ASSUME NEW r \in Readers, NEW k \in Keys, get'[r].pc = "publish",
             get'[r].key = k, get'[r].gen = gen'[k]
      PROVE  Clean(k, get[r].snap)'
  <2>1. CASE Steady(k)
    <3>1. PICK snap : snap = get'[r].snap
      OBVIOUS
    <3>2. Clean(k, snap)
      BY <1>2, <2>1, <3>1 DEF PublicationsCoherent, Steady
    <3>3. Clean(k, snap)'
      BY <2>1, <3>2, CleanKept
    <3> QED
      BY <3>1, <3>3 DEF Clean
  <2>2. CASE Renewed(k)
    <3>1. get[r].gen \in Nat /\ gen[k] \in Nat
      BY <1>0 DEF Call
    <3>2. get'[r] = get[r]
      BY <2>2 DEF Renewed
    <3>3. get[r].gen <= gen[k]
      BY <1>0, <1>2, <3>2 DEF ReadersGuarded, GuardedCall
    <3> QED
      BY <1>2, <2>2, <3>1, <3>2, <3>3 DEF Renewed
  <2> QED
    BY <2>1, <2>2
<1>3. ASSUME NEW c \in late', c.type = "publish", c.gen = gen'[c.key]
      PROVE  Clean(c.key, c.snap)'
  <2>0. c.key \in Keys /\ c.gen \in Nat
    BY <1>3 DEF Script
  <2>1. CASE Steady(c.key)
    <3>1. Clean(c.key, c.snap)
      BY <1>3, <2>1 DEF PublicationsCoherent, Steady
    <3> QED
      BY <2>1, <3>1, CleanKept
  <2>2. CASE Renewed(c.key)
    <3>1. c \in late /\ gen[c.key] \in Nat
      BY <1>0, <2>0, <2>2 DEF Renewed
    <3>2. c.gen <= gen[c.key]
      BY <1>0, <1>3, <3>1 DEF LateGuarded
    <3> QED
      BY <1>3, <2>0, <2>2, <3>1, <3>2 DEF Renewed
  <2> QED
    BY <2>0, <2>1, <2>2
<1>4. Coherent'
  BY <1>1 DEF Coherent, Clean
<1>5. PublicationsCoherent'
  BY <1>2, <1>3 DEF PublicationsCoherent
<1> QED
  BY <1>4, <1>5

\* The keys a transaction in state t has yet to invalidate.
Due(t) ==
  CASE t.pc = "callbacks" -> t.pending
    [] t.pc = "bulkSaved" -> RouteKeysOfProject(t.pk)
    [] OTHER -> {}

\* A transaction still before COMMIT, with nothing registered.
LEMMA NothingDue ==
  ASSUME NEW t, t.pc \in {"idle", "loaded", "saved"},
         t.pc = "loaded" /\ t.op = "deleteRoute" /\ routes[t.pk] # None =>
           KeyOf(routes[t.pk]) = KeyOf(t.inst)
  PROVE  Covers(t) /\ Due(t) = {}
  BY DEF Covers, Due, WritesRoute

\* Beginning a transaction.
LEMMA BeginCovers ==
  ASSUME NEW a \in Admins, NEW op, NEW pk, NEW inst, Begin(a, op, pk, inst),
         op = "deleteRoute" => inst = routes[pk]
  PROVE  \E t : /\ tx' = [tx EXCEPT ![a] = t]
                /\ Covers(t) /\ Due(t) = Due(tx[a])
<1> DEFINE t == [pc |-> "loaded", op |-> op, pk |-> pk, inst |-> inst,
                 prev |-> None, pending |-> {}]
<1>1. tx' = [tx EXCEPT ![a] = t] /\ tx[a].pc = "idle"
  BY DEF Begin
<1>2. t.pc = "loaded" /\ t.op = op /\ t.pk = pk /\ t.inst = inst
  OBVIOUS
<1> HIDE DEF t
<1>3. Covers(t) /\ Due(t) = {}
  BY <1>2, NothingDue
<1>4. Due(tx[a]) = {}
  BY <1>1 DEF Due
<1> QED
  BY <1>1, <1>3, <1>4

\* Every step before COMMIT registers what its write will change.
LEMMA PrepareCovers ==
  ASSUME StoreTypeOK, TxOK, TenantInv, NEW a \in Admins, PrepareStep(a),
         Covers(tx[a])
  PROVE  \E t : /\ tx' = [tx EXCEPT ![a] = t]
                /\ Covers(t) /\ Due(t) = Due(tx[a])
<1>0. tx[a] \in Tx /\ WellFormedTx(tx[a])
  BY DEF TxOK, TxShape
<1>1. CASE LoadService(a)
  BY <1>1, BeginCovers DEF LoadService
<1>2. CASE LoadNewService(a)
  BY <1>2, BeginCovers DEF LoadNewService
<1>3. CASE LoadRoute(a)
  BY <1>3, BeginCovers DEF LoadRoute
<1>4. CASE LoadNewRoute(a)
  BY <1>4, BeginCovers DEF LoadNewRoute
<1>5. CASE LoadDelete(a)
  BY <1>5, BeginCovers DEF LoadDelete
<1>6. CASE SaveService(a)
  <2> DEFINE t == [tx[a] EXCEPT !.pc = "saved"]
  <2>1. tx' = [tx EXCEPT ![a] = t] /\ tx[a].pc = "loaded"
    BY <1>6 DEF SaveService, Step
  <2>2. t.pc = "saved"
    BY <1>0 DEF Tx
  <2> HIDE DEF t
  <2>3. Covers(t) /\ Due(t) = {}
    BY <2>2, NothingDue
  <2>4. Due(tx[a]) = {}
    BY <2>1 DEF Due
  <2> QED
    BY <2>1, <2>3, <2>4
<1>7. CASE SaveNewService(a)
  <2>0. PICK s \in Services :
          /\ tx[a].pc = "loaded"
          /\ tx' = [tx EXCEPT ![a] = [@ EXCEPT !.pc = "saved", !.pk = s]]
    BY <1>7 DEF SaveNewService
  <2> DEFINE t == [tx[a] EXCEPT !.pc = "saved", !.pk = s]
  <2>1. tx' = [tx EXCEPT ![a] = t]
    BY <2>0
  <2>2. t.pc = "saved"
    BY <1>0 DEF Tx
  <2> HIDE DEF t
  <2>3. Covers(t) /\ Due(t) = {}
    BY <2>2, NothingDue
  <2>4. Due(tx[a]) = {}
    BY <2>0 DEF Due
  <2> QED
    BY <2>1, <2>3, <2>4
<1>8. CASE PostSaveService(a)
  <2> DEFINE keys == RouteKeysOfService(tx[a].pk)
             t == [tx[a] EXCEPT !.pc = "registered", !.pending = keys]
  <2>1. /\ tx' = [tx EXCEPT ![a] = t]
        /\ tx[a].pc = "saved" /\ tx[a].op \in ServiceOps
    BY <1>8 DEF PostSaveService
  <2>2. /\ t.pc = "registered" /\ t.op = tx[a].op /\ t.pk = tx[a].pk
        /\ t.pending = keys
    BY <1>0 DEF Tx
  <2> HIDE DEF t
  <2>3. Covers(t)
    BY <2>1, <2>2 DEF Covers, WritesRoute, ServiceOps, RouteOps
  <2>4. Due(t) = {} /\ Due(tx[a]) = {}
    BY <2>1, <2>2 DEF Due
  <2> QED
    BY <2>1, <2>3, <2>4
<1>9. CASE RememberPreviousRoute(a)
  <2> DEFINE prev == IF routes[tx[a].pk] = None THEN None
                     ELSE KeyOf(routes[tx[a].pk])
             t == [tx[a] EXCEPT !.pc = "remembered", !.prev = prev]
  <2>1. tx' = [tx EXCEPT ![a] = t] /\ tx[a].pc = "loaded"
    BY <1>9 DEF RememberPreviousRoute
  <2>2. t.pc = "remembered" /\ t.pk = tx[a].pk /\ t.prev = prev
    BY <1>0 DEF Tx
  <2> HIDE DEF t
  <2>3. Covers(t)
    BY <2>2 DEF Covers, WritesRoute
  <2>4. Due(t) = {} /\ Due(tx[a]) = {}
    BY <2>1, <2>2 DEF Due
  <2> QED
    BY <2>1, <2>3, <2>4
<1>10. CASE SaveRoute(a)
  <2> DEFINE keys == {KeyOf(tx[a].inst)} \cup ({tx[a].prev} \ {None})
             t == [tx[a] EXCEPT !.pc = "registered", !.pending = keys]
  <2>1. tx' = [tx EXCEPT ![a] = t] /\ tx[a].pc = "remembered"
    BY <1>10 DEF SaveRoute
  <2>2. /\ t.pc = "registered" /\ t.op = tx[a].op /\ t.pk = tx[a].pk
        /\ t.inst = tx[a].inst /\ t.pending = keys
    BY <1>0 DEF Tx
  <2>3. tx[a].op = "patchRoute" /\ tx[a].pk \in Routes
    BY <1>0, <2>1 DEF WellFormedTx
  <2>4. routes[tx[a].pk] # None => KeyOf(routes[tx[a].pk]) \in keys
    <3> SUFFICES ASSUME routes[tx[a].pk] # None
                 PROVE  KeyOf(routes[tx[a].pk]) \in keys
      OBVIOUS
    <3>1. tx[a].prev = KeyOf(routes[tx[a].pk])
      BY <2>1 DEF Covers
    <3>2. KeyOf(routes[tx[a].pk]) \in Keys
      BY <2>3, KeyOfType DEF StoreTypeOK
    <3> QED
      BY <3>1, <3>2, NoneAssumption
  <2>5. KeyOf(tx[a].inst) \in keys
    OBVIOUS
  <2> HIDE DEF t, keys
  <2>6. Covers(t)
    BY <2>2, <2>3, <2>4, <2>5 DEF Covers, WritesRoute, ServiceOps
  <2>7. Due(t) = {} /\ Due(tx[a]) = {}
    BY <2>1, <2>2 DEF Due
  <2> QED
    BY <2>1, <2>6, <2>7
<1>11. CASE SaveNewRoute(a)
  <2>0. PICK r \in Routes \ issued :
          /\ tx[a].pc = "loaded" /\ tx[a].op = "newRoute"
          /\ tx' = [tx EXCEPT ![a] = [@ EXCEPT !.pc = "registered", !.pk = r,
                                        !.pending = {KeyOf(tx[a].inst)}]]
    BY <1>11 DEF SaveNewRoute
  <2> DEFINE t == [tx[a] EXCEPT !.pc = "registered", !.pk = r,
                                !.pending = {KeyOf(tx[a].inst)}]
  <2>1. tx' = [tx EXCEPT ![a] = t]
    BY <2>0
  <2>2. /\ t.pc = "registered" /\ t.op = tx[a].op /\ t.pk = r
        /\ t.inst = tx[a].inst /\ t.pending = {KeyOf(tx[a].inst)}
    BY <1>0 DEF Tx
  <2> HIDE DEF t
  <2>3. routes[r] = None
    BY DEF TenantInv, RowsOwned
  <2>4. Covers(t)
    BY <2>0, <2>2, <2>3 DEF Covers, WritesRoute, ServiceOps
  <2>5. Due(t) = {} /\ Due(tx[a]) = {}
    BY <2>0, <2>2 DEF Due
  <2> QED
    BY <2>1, <2>4, <2>5
<1>12. CASE SaveDelete(a)
  <2> DEFINE t == [tx[a] EXCEPT !.pc = "registered",
                             !.pending = {KeyOf(tx[a].inst)}]
  <2>1. /\ tx' = [tx EXCEPT ![a] = t]
        /\ tx[a].pc = "loaded" /\ tx[a].op = "deleteRoute"
    BY <1>12 DEF SaveDelete
  <2>2. /\ t.pc = "registered" /\ t.op = tx[a].op /\ t.pk = tx[a].pk
        /\ t.pending = {KeyOf(tx[a].inst)}
    BY <1>0 DEF Tx
  <2> HIDE DEF t
  <2>3. routes[t.pk] # None => KeyOf(routes[t.pk]) = KeyOf(tx[a].inst)
    BY <2>1, <2>2 DEF Covers
  <2>4. Covers(t)
    BY <2>1, <2>2, <2>3 DEF Covers, WritesRoute, ServiceOps
  <2>5. Due(t) = {} /\ Due(tx[a]) = {}
    BY <2>1, <2>2 DEF Due
  <2> QED
    BY <2>1, <2>4, <2>5
<1>13. CASE Rollback(a) \/ Respond(a)
  <2>1. tx' = [tx EXCEPT ![a] = IdleTx] /\ Due(tx[a]) = {}
    BY <1>13 DEF Rollback, Respond, Due
  <2>2. IdleTx.pc = "idle"
    BY DEF IdleTx
  <2>3. Covers(IdleTx) /\ Due(IdleTx) = {}
    BY <2>2, NothingDue
  <2> QED
    BY <2>1, <2>3
<1>14. CASE InvalidateProjectRoutes(a)
  <2> DEFINE keys == RouteKeysOfProject(tx[a].pk)
             t == [tx[a] EXCEPT !.pc = "callbacks", !.pending = keys]
  <2>1. tx' = [tx EXCEPT ![a] = t] /\ tx[a].pc = "bulkSaved"
    BY <1>14 DEF InvalidateProjectRoutes
  <2>2. t.pc = "callbacks" /\ t.pending = keys
    BY <1>0 DEF Tx
  <2> HIDE DEF t
  <2>3. Covers(t)
    BY <2>2 DEF Covers, WritesRoute
  <2>4. Due(t) = keys /\ Due(tx[a]) = keys
    BY <2>1, <2>2 DEF Due
  <2> QED
    BY <2>1, <2>3, <2>4
<1> QED
  BY <1>1, <1>2, <1>3, <1>4, <1>5, <1>6, <1>7, <1>8, <1>9, <1>10, <1>11,
     <1>12, <1>13, <1>14 DEF PrepareStep

\* What is due, when there is one administrator.
LEMMA DirtyOne ==
  ASSUME OneAdministrator, NEW a \in Admins
  PROVE  \A k : Dirty(k) <=> k \in lost \/ k \in Due(tx[a])
<1>1. \A b \in Admins : b = a
  BY DEF OneAdministrator
<1>2. Outstanding(a) = Due(tx[a])
  BY DEF Outstanding, Due
<1> QED
  BY <1>1, <1>2 DEF Dirty

\* The same after a step that puts the transaction in state t.
LEMMA DirtyOneNext ==
  ASSUME OneAdministrator, TxOK, NEW a \in Admins, NEW t,
         tx' = [tx EXCEPT ![a] = t],
         routes' = routes \/ t.pc # "bulkSaved"
  PROVE  \A k : Dirty(k)' <=> k \in lost' \/ k \in Due(t)
<1>1. \A b \in Admins : b = a
  BY DEF OneAdministrator
<1>2. tx'[a] = t
  BY DEF TxOK
<1>3. Outstanding(a)' = Due(t)
  <2>1. CASE routes' = routes
    BY <1>2, <2>1 DEF Outstanding, Due, RouteKeysOfProject, KeyOf
  <2>2. CASE t.pc # "bulkSaved"
    BY <1>2, <2>2 DEF Outstanding, Due
  <2> QED
    BY <2>1, <2>2
<1> QED
  BY <1>1, <1>3 DEF Dirty

\* With one administrator, only the transaction that moved needs covering.
LEMMA CoversOneNext ==
  ASSUME OneAdministrator, TxOK, NEW a \in Admins, NEW t,
         tx' = [tx EXCEPT ![a] = t],
         \/ routes' = routes /\ Covers(t)
         \/ t.pc \in {"idle", "callbacks", "bulkSaved"}
  PROVE  (\A b \in Admins : Covers(tx[b]))'
<1>1. \A b \in Admins : b = a
  BY DEF OneAdministrator
<1>2. tx'[a] = t
  BY DEF TxOK
<1>3. CASE routes' = routes /\ Covers(t)
  BY <1>1, <1>2, <1>3 DEF Covers, RouteKeysOfService, KeyOf, WritesRoute
<1>4. CASE t.pc \in {"idle", "callbacks", "bulkSaved"}
  BY <1>1, <1>2, <1>4 DEF Covers, WritesRoute
<1> QED
  BY <1>3, <1>4

\* Steps that leave the lookups and what is due alone.
LEMMA SteadyAll ==
  ASSUME UNCHANGED <<services, routes, gen>>,
         UNCHANGED <<tx, lost>> \/ \A k \in Keys : Dirty(k) => Dirty(k)'
  PROVE  \A k \in Keys : Steady(k)
<1>1. \A k \in Keys : ReadRoute(k)' = ReadRoute(k)
  BY ReadRouteUnchanged
<1>2. UNCHANGED <<tx, lost>> => \A k \in Keys : Dirty(k)' <=> Dirty(k)
  BY DEF Dirty, Outstanding, RouteKeysOfProject, KeyOf
<1> QED
  BY <1>1, <1>2 DEF Steady

\* Administrators keep entries, publications and callbacks coherent.
LEMMA AdminCoherent ==
  ASSUME OneAdministrator, IndInv, TablesInv, TablesInv', TenantInv,
         late' \subseteq Script, CoherentInv, NEW a \in Admins, AdminNext(a)
  PROVE  CoherentInv'
<1>0. /\ StoreTypeOK /\ TxOK /\ Covers(tx[a]) /\ tx[a] \in Tx
      /\ gen \in [Keys -> Nat] /\ cache \in [Keys -> Found]
      /\ Coherent /\ PublicationsCoherent
  BY DEF IndInv, TypeOK, TxOK, CoherentInv
<1>a. \A k \in Keys : Dirty(k) <=> k \in lost \/ k \in Due(tx[a])
  BY DirtyOne
<1>b. ASSUME \A k \in Keys : Steady(k) \/ Renewed(k),
             \A k \in Keys : cache'[k] \in {None, cache[k]},
             UNCHANGED get,
             \A c \in late' \ late : c.type # "publish",
             (\A b \in Admins : Covers(tx[b]))'
      PROVE  CoherentInv'
  <2>1. Coherent' /\ PublicationsCoherent'
    BY <1>0, <1>b, CoherentMove
  <2> QED
    BY <1>b, <2>1 DEF CoherentInv
<1>1. CASE PrepareTx(a)
  <2>1. /\ PrepareStep(a) /\ UNCHANGED <<cache, gen, late, get, lost>>
    BY <1>1 DEF PrepareTx, cacheVars
  <2>2. UNCHANGED <<services, routes>>
    BY <1>0, <2>1, PrepareType
  <2>3. PICK t : /\ tx' = [tx EXCEPT ![a] = t]
                 /\ Covers(t) /\ Due(t) = Due(tx[a])
    BY <1>0, <2>1, PrepareCovers
  <2>4. \A k \in Keys : Dirty(k) => Dirty(k)'
    BY <1>0, <1>a, <2>1, <2>2, <2>3, DirtyOneNext
  <2>5. \A k \in Keys : Steady(k)
    BY <2>1, <2>2, <2>4, SteadyAll
  <2>6. (\A b \in Admins : Covers(tx[b]))'
    BY <1>0, <2>2, <2>3, CoversOneNext
  <2> QED
    BY <1>b, <2>1, <2>5, <2>6
<1>2. CASE CommitTx(a) /\ Commit(a)
  <2>1. UNCHANGED <<cache, gen, late, get, lost>>
    BY <1>2 DEF CommitTx, cacheVars
  <2> DEFINE t == [tx[a] EXCEPT !.pc = "callbacks"]
  <2>2. tx' = [tx EXCEPT ![a] = t] /\ tx[a].pc = "registered"
    BY <1>2 DEF Commit
  <2>3. t.pc = "callbacks" /\ t.pending = tx[a].pending
    BY <1>0 DEF Tx
  <2> HIDE DEF t
  <2>4. Due(tx[a]) = {} /\ Due(t) = tx[a].pending
    BY <2>2, <2>3 DEF Due
  <2>5. \A k \in Keys : Dirty(k)' <=> k \in lost \/ k \in tx[a].pending
    BY <1>0, <2>1, <2>2, <2>3, <2>4, DirtyOneNext
  <2>6. \A k \in Keys : k \notin tx[a].pending => ReadRoute(k)' = ReadRoute(k)
    BY <1>0, <1>2, CommitCovered
  <2>7. \A k \in Keys : Steady(k)
    BY <1>a, <2>1, <2>4, <2>5, <2>6 DEF Steady
  <2>8. (\A b \in Admins : Covers(tx[b]))'
    BY <1>0, <2>2, <2>3, CoversOneNext
  <2> QED
    BY <1>b, <2>1, <2>7, <2>8
<1>3. ASSUME CommitTx(a), NEW p \in Projects, BulkUpdate(a, p)
      PROVE  CoherentInv'
  <2>1. UNCHANGED <<cache, gen, late, get, lost>>
    BY <1>3 DEF CommitTx, cacheVars
  <2> DEFINE t == [pc |-> "bulkSaved", op |-> "bulk", pk |-> p,
                   inst |-> None, prev |-> None, pending |-> {}]
  <2>2. tx' = [tx EXCEPT ![a] = t] /\ tx[a].pc = "idle" /\ routes' = routes
    BY <1>3 DEF BulkUpdate
  <2>3. t.pc = "bulkSaved" /\ t.pk = p
    OBVIOUS
  <2> HIDE DEF t
  <2>4. Due(tx[a]) = {} /\ Due(t) = RouteKeysOfProject(p)
    BY <2>2, <2>3 DEF Due
  <2>5. \A k \in Keys : Dirty(k)' <=> k \in lost \/ k \in RouteKeysOfProject(p)
    BY <1>0, <2>1, <2>2, <2>4, DirtyOneNext
  <2>6. \A k \in Keys : k \notin RouteKeysOfProject(p) =>
          ReadRoute(k)' = ReadRoute(k)
    BY <1>0, <1>3, BulkCovered
  <2>7. \A k \in Keys : Steady(k)
    BY <1>a, <2>1, <2>4, <2>5, <2>6 DEF Steady
  <2>8. (\A b \in Admins : Covers(tx[b]))'
    BY <1>0, <2>2, <2>3, CoversOneNext
  <2> QED
    BY <1>b, <2>1, <2>7, <2>8
<1>4. CASE Crash(a)
  <2>1. /\ tx' = [tx EXCEPT ![a] = IdleTx] /\ UNCHANGED <<services, routes>>
        /\ UNCHANGED <<cache, gen, late, get>>
        /\ lost' = lost \cup Due(tx[a])
    BY <1>4 DEF Crash, CrashAfterCommit, storeVars, Outstanding, Due
  <2>2. IdleTx.pc = "idle"
    BY DEF IdleTx
  <2>3. \A k \in Keys : Dirty(k)' <=> k \in lost' \/ k \in Due(IdleTx)
    BY <1>0, <2>1, DirtyOneNext
  <2>4. \A k \in Keys : Steady(k)
    BY <1>a, <2>1, <2>3, SteadyAll
  <2>5. (\A b \in Admins : Covers(tx[b]))'
    BY <1>0, <2>1, <2>2, CoversOneNext
  <2> QED
    BY <1>b, <2>1, <2>4, <2>5
<1>5. ASSUME NEW k \in Keys, FinishCallback(a, k)
      PROVE  /\ \A q \in Keys : q \in lost' \/ (q \in Due(tx[a]) /\ q # k) =>
                  Dirty(q)'
             /\ UNCHANGED <<services, routes>>
             /\ (\A b \in Admins : Covers(tx[b]))'
  <2> DEFINE t == [tx[a] EXCEPT !.pending = @ \ {k}]
  <2>1. /\ tx' = [tx EXCEPT ![a] = t] /\ tx[a].pc = "callbacks"
        /\ UNCHANGED <<services, routes>>
    BY <1>5 DEF FinishCallback, storeVars
  <2>2. t.pc = "callbacks" /\ t.pending = tx[a].pending \ {k}
    BY <1>0, <2>1 DEF Tx
  <2> HIDE DEF t
  <2>3. Due(t) = Due(tx[a]) \ {k}
    BY <2>1, <2>2 DEF Due
  <2>4. \A q \in Keys : Dirty(q)' <=> q \in lost' \/ q \in Due(t)
    BY <1>0, <2>1, DirtyOneNext
  <2>5. (\A b \in Admins : Covers(tx[b]))'
    BY <1>0, <2>1, <2>2, CoversOneNext
  <2> QED
    BY <2>1, <2>3, <2>4, <2>5
<1>6. ASSUME NEW k \in Keys, InvalidateRoute(a, k) PROVE CoherentInv'
  <2>1. /\ FinishCallback(a, k) /\ Invalidate(k) /\ lost' = lost \ {k}
        /\ UNCHANGED <<late, get>>
    BY <1>6 DEF InvalidateRoute
  <2>2. /\ UNCHANGED <<services, routes>>
        /\ (\A b \in Admins : Covers(tx[b]))'
    BY <1>5, <2>1
  <2>3. Renewed(k)
    BY <1>0, <2>1 DEF Renewed, Invalidate
  <2>4. ASSUME NEW q \in Keys, q # k PROVE Steady(q)
    <3>1. gen'[q] = gen[q]
      BY <1>0, <2>1, <2>4 DEF Invalidate
    <3>2. Dirty(q) => Dirty(q)'
      BY <1>a, <1>5, <2>1, <2>4
    <3>3. ReadRoute(q)' = ReadRoute(q)
      BY <2>2, ReadRouteUnchanged
    <3> QED
      BY <3>1, <3>2, <3>3 DEF Steady
  <2>5. \A q \in Keys : cache'[q] \in {None, cache[q]}
    BY <1>0, <2>1 DEF Invalidate
  <2> QED
    BY <1>b, <2>1, <2>2, <2>3, <2>4, <2>5
<1>7. ASSUME NEW k \in Keys, InvalidateFault(a, k) PROVE CoherentInv'
  <2>1. /\ FinishCallback(a, k) /\ lost' = lost \cup {k}
        /\ UNCHANGED <<cache, gen, get>>
        /\ late' = late \/ late' = late \cup {InvalidateScript(k)}
    BY <1>7 DEF InvalidateFault
  <2>2. /\ UNCHANGED <<services, routes>>
        /\ (\A b \in Admins : Covers(tx[b]))'
    BY <1>5, <2>1
  <2>3. \A q \in Keys : Dirty(q) => Dirty(q)'
    BY <1>a, <1>5, <2>1
  <2>4. \A q \in Keys : Steady(q)
    BY <2>1, <2>2, <2>3, SteadyAll
  <2>5. \A c \in late' \ late : c.type # "publish"
    BY <2>1 DEF InvalidateScript
  <2> QED
    BY <1>b, <2>1, <2>2, <2>4, <2>5
<1>8. ASSUME NEW k \in Keys, InvalidateRetry(a, k) PROVE CoherentInv'
  <2>1. /\ UNCHANGED <<services, routes, tx, lost, cache, gen, get>>
        /\ late' = late \cup {InvalidateScript(k)}
    BY <1>8 DEF InvalidateRetry, storeVars, adminVars
  <2>2. \A q \in Keys : Steady(q)
    BY <2>1, SteadyAll
  <2>3. (\A b \in Admins : Covers(tx[b]))'
    BY <2>1 DEF CoherentInv, Covers, RouteKeysOfService, KeyOf, WritesRoute
  <2>4. \A c \in late' \ late : c.type # "publish"
    BY <2>1 DEF InvalidateScript
  <2> QED
    BY <1>b, <2>1, <2>2, <2>3, <2>4
<1> QED
  BY <1>1, <1>2, <1>3, <1>4, <1>6, <1>7, <1>8 DEF AdminNext, CommitTx

\* Callbacks do not depend on Redis or on readers.
LEMMA CoversKept ==
  ASSUME CoherentInv, UNCHANGED storeVars, UNCHANGED adminVars
  PROVE  (\A a \in Admins : Covers(tx[a]))'
  BY DEF CoherentInv, Covers, RouteKeysOfService, KeyOf, WritesRoute, storeVars, adminVars

\* A reader publishes what it read under the version it read before.
LEMMA ReaderCoherent ==
  ASSUME IndInv, CoherentInv, late' \subseteq Script, NEW r \in Readers,
         LookupNext(r)
  PROVE  CoherentInv'
<1>0. /\ cache \in [Keys -> Found] /\ get \in [Readers -> Call]
      /\ get[r].pc \in Active => get[r].key \in Keys
      /\ Coherent /\ PublicationsCoherent
  BY DEF IndInv, TypeOK, CallShape, WellFormedCall, CoherentInv
<1>1. /\ UNCHANGED storeVars /\ UNCHANGED adminVars
      /\ UNCHANGED <<services, routes, tx, lost, gen>>
  BY DEF LookupNext, ReaderNext, GetStep, GetRoute, GetData, GetVersion,
     ReadForPublish, EvalPublish, Fallback, ReadFault, PublishTimeout,
     Publish, storeVars, adminVars, cacheVars
<1>2. \A k \in Keys : Steady(k)
  BY <1>1, SteadyAll
<1>3. (\A a \in Admins : Covers(tx[a]))'
  BY <1>1, CoversKept
<1>4. ASSUME NEW k \in Keys, get[r].pc = "publish", get[r].key = k,
             get[r].gen = gen[k]
      PROVE  Clean(k, get[r].snap)
  BY <1>0, <1>4 DEF PublicationsCoherent
<1>5. \A k \in Keys : cache'[k] \in {None, cache[k]} \/ Clean(k, cache'[k])
  <2>1. CASE EvalPublish(r)
    <3>1. /\ get[r].pc = "publish" /\ get[r].key \in Keys
          /\ Publish(get[r].key, get[r].gen, get[r].snap)
      BY <1>0, <2>1 DEF EvalPublish, Active
    <3> QED
      BY <1>0, <1>4, <3>1 DEF Publish
  <2>2. CASE ~EvalPublish(r)
    BY <2>2 DEF LookupNext, ReaderNext, GetStep, GetRoute, GetData, GetVersion,
       ReadForPublish, Fallback, ReadFault, PublishTimeout, cacheVars
  <2> QED
    BY <2>1, <2>2
<1>6. ASSUME NEW q \in Readers, NEW k \in Keys, get'[q] # get[q],
             get'[q].pc = "publish", get'[q].key = k
      PROVE  Clean(k, get'[q].snap)
  <2>1. ASSUME NEW new, get' = [get EXCEPT ![r] = new], new.pc # "publish"
        PROVE  FALSE
    BY <1>0, <1>6, <2>1
  <2>2. ASSUME NEW pc, Goto(r, pc), pc # "publish" PROVE FALSE
    BY <1>0, <1>6, <2>2 DEF Goto, Call
  <2>3. ASSUME NEW answer, Return(r, answer) PROVE FALSE
    BY <1>0, <1>6, <2>3 DEF Return, NewCall
  <2>4. CASE ReadForPublish(r)
    <3>1. ReadRoute(get[r].key) # None
      BY <2>3, <2>4 DEF ReadForPublish
    <3> DEFINE new == [get[r] EXCEPT !.pc = "publish",
                                     !.snap = ReadRoute(get[r].key)]
    <3>2. get' = [get EXCEPT ![r] = new]
      BY <2>4, <3>1 DEF ReadForPublish
    <3>3. new.snap = ReadRoute(get[r].key) /\ new.key = get[r].key
      BY <1>0 DEF Call
    <3> HIDE DEF new
    <3>4. get'[q] = new
      BY <1>0, <1>6, <3>2
    <3>5. get'[q].snap = ReadRoute(k)
      BY <1>6, <3>3, <3>4
    <3> QED
      BY <3>5 DEF Clean
  <2>5. ASSUME NEW j \in Keys, GetRoute(r, j) PROVE FALSE
    <3> DEFINE new == NewCall("getData", j, None)
    <3>1. get' = [get EXCEPT ![r] = new]
      BY <2>5 DEF GetRoute
    <3>2. new.pc # "publish"
      BY DEF NewCall
    <3> HIDE DEF new
    <3> QED
      BY <2>1, <3>1, <3>2
  <2>6. CASE GetData(r)
    BY <2>2, <2>3, <2>6 DEF GetData
  <2>7. CASE GetVersion(r)
    BY <1>0, <1>6, <2>7 DEF GetVersion, Call
  <2>8. CASE EvalPublish(r)
    BY <1>0, <1>6, <2>3, <2>8 DEF EvalPublish, AfterRejection, Call
  <2>9. CASE Fallback(r)
    BY <2>3, <2>9 DEF Fallback
  <2>10. CASE ReadFault(r)
    BY <2>2, <2>10 DEF ReadFault
  <2>11. CASE PublishTimeout(r)
    BY <1>6, <2>2, <2>11 DEF PublishTimeout
  <2> QED
    BY <2>4, <2>5, <2>6, <2>7, <2>8, <2>9, <2>10, <2>11
    DEF LookupNext, ReaderNext, GetStep
<1>7. ASSUME NEW c \in late' \ late, c.type = "publish", c.gen = gen[c.key]
      PROVE  Clean(c.key, c.snap)
  <2>1. CASE PublishTimeout(r)
    <3>1. /\ get[r].pc = "publish" /\ get[r].key \in Keys
          /\ c.key = get[r].key /\ c.gen = get[r].gen /\ c.snap = get[r].snap
      BY <1>0, <1>7, <2>1 DEF PublishTimeout, Active
    <3> QED
      BY <1>4, <1>7, <3>1
  <2>2. CASE ~PublishTimeout(r)
    BY <1>7, <2>2
    DEF LookupNext, ReaderNext, GetStep, GetRoute, GetData, GetVersion,
        ReadForPublish, EvalPublish, Fallback, ReadFault, cacheVars
  <2> QED
    BY <2>1, <2>2
<1>8. Coherent' /\ PublicationsCoherent'
  BY <1>0, <1>2, <1>5, <1>6, <1>7, CoherentMove
<1> QED
  BY <1>3, <1>8 DEF CoherentInv

\* Redis by itself: entries are removed, or written by a guarded script.
LEMMA RedisCoherent ==
  ASSUME IndInv, CoherentInv, late' \subseteq Script,
         \/ \E k \in Keys : ExpireEntry(k)
         \/ \E c \in late : RunLate(c) \/ DropLate(c)
  PROVE  CoherentInv'
<1>0. /\ cache \in [Keys -> Found] /\ gen \in [Keys -> Nat]
      /\ late \subseteq Script /\ Coherent /\ PublicationsCoherent
  BY DEF IndInv, TypeOK, CoherentInv
<1>1. /\ UNCHANGED storeVars /\ UNCHANGED adminVars
      /\ UNCHANGED <<services, routes, tx, get>> /\ late' \subseteq late
  BY DEF ExpireEntry, Expire, RunLate, DropLate, LateScript, LoseScript,
     storeVars, adminVars
<1>2. (\A a \in Admins : Covers(tx[a]))'
  BY <1>1, CoversKept
<1>3. ASSUME \A k \in Keys : Steady(k) \/ Renewed(k),
             \A k \in Keys : cache'[k] \in {None, cache[k]} \/ Clean(k, cache'[k])
      PROVE  CoherentInv'
  <2>1. Coherent' /\ PublicationsCoherent'
    BY <1>0, <1>1, <1>3, CoherentMove
  <2> QED
    BY <1>2, <2>1 DEF CoherentInv
<1>4. ASSUME NEW k \in Keys, ExpireEntry(k) PROVE CoherentInv'
  <2>1. UNCHANGED <<gen, lost>>
    BY <1>4 DEF ExpireEntry, Expire
  <2>2. \A q \in Keys : cache'[q] \in {None, cache[q]}
    BY <1>0, <1>4 DEF ExpireEntry, Expire
  <2>3. \A q \in Keys : Steady(q)
    BY <1>1, <2>1, SteadyAll
  <2> QED
    BY <1>3, <2>2, <2>3
<1>5. ASSUME NEW c \in late, DropLate(c) PROVE CoherentInv'
  <2>1. UNCHANGED <<gen, lost, cache>>
    BY <1>5 DEF DropLate, LoseScript
  <2>2. \A q \in Keys : Steady(q)
    BY <1>1, <2>1, SteadyAll
  <2> QED
    BY <1>3, <2>1, <2>2
<1>6. ASSUME NEW c \in late, RunLate(c), c.type = "publish"
      PROVE  CoherentInv'
  <2>1. c.key \in Keys
    BY <1>0, <1>6 DEF Script
  <2>2. Publish(c.key, c.gen, c.snap) /\ UNCHANGED <<gen, lost>>
    BY <1>6 DEF RunLate, LateScript, Publish
  <2>3. c.gen = gen[c.key] => Clean(c.key, c.snap)
    BY <1>0, <1>6 DEF PublicationsCoherent
  <2>4. \A q \in Keys : cache'[q] \in {None, cache[q]} \/ Clean(q, cache'[q])
    BY <1>0, <2>1, <2>2, <2>3 DEF Publish
  <2>5. \A q \in Keys : Steady(q)
    BY <1>1, <2>2, SteadyAll
  <2> QED
    BY <1>3, <2>4, <2>5
<1>7. ASSUME NEW c \in late, RunLate(c), c.type = "invalidate"
      PROVE  CoherentInv'
  <2>1. c.key \in Keys
    BY <1>0, <1>7 DEF Script
  <2>2. Invalidate(c.key) /\ lost' = lost \ {c.key}
    BY <1>7 DEF RunLate, LateScript
  <2>3. Renewed(c.key)
    BY <1>0, <1>1, <2>1, <2>2 DEF Renewed, Invalidate
  <2>4. ASSUME NEW q \in Keys, q # c.key PROVE Steady(q)
    <3>1. gen'[q] = gen[q]
      BY <1>0, <2>2, <2>4 DEF Invalidate
    <3>2. Dirty(q) => Dirty(q)'
      BY <1>1, <2>2, <2>4
      DEF Dirty, Outstanding, RouteKeysOfProject, KeyOf
    <3>3. ReadRoute(q)' = ReadRoute(q)
      BY <1>1, ReadRouteUnchanged
    <3> QED
      BY <3>1, <3>2, <3>3 DEF Steady
  <2>5. \A q \in Keys : cache'[q] \in {None, cache[q]}
    BY <1>0, <2>2 DEF Invalidate
  <2> QED
    BY <1>3, <2>3, <2>4, <2>5
<1> QED
  BY <1>4, <1>5, <1>6, <1>7 DEF RunLate, LateScript

\* Nothing is cached and nothing is registered.
LEMMA CoherentInit == Init => CoherentInv
<1> SUFFICES ASSUME Init PROVE CoherentInv
  OBVIOUS
<1>1. Coherent
  BY DEF Init, CacheInit, Coherent
<1>2. PublicationsCoherent
  BY DEF Init, CacheInit, PublicationsCoherent, IdleCall, NewCall
<1>3. IdleTx.pc = "idle"
  BY DEF IdleTx
<1>4. \A a \in Admins : Covers(tx[a])
  BY <1>3, NothingDue DEF Init, AdminInit
<1> QED
  BY <1>1, <1>2, <1>4 DEF CoherentInv

\* When administrative requests do not overlap, entries, publications in
\* flight and registered callbacks stay coherent with MySQL.
THEOREM CoherentInvariance ==
  ASSUME OneAdministrator
  PROVE  Spec => []CoherentInv
<1>1. IndInv /\ IndInv' /\ TablesInv /\ TablesInv' /\ TenantInv /\ CoherentInv
        /\ [Next]_vars => CoherentInv'
  <2> SUFFICES ASSUME IndInv, IndInv', TablesInv, TablesInv', TenantInv,
                      CoherentInv, [Next]_vars
               PROVE  CoherentInv'
    OBVIOUS
  <2>0. late' \subseteq Script
    BY DEF IndInv, TypeOK
  <2>1. ASSUME NEW a \in Admins, AdminNext(a) PROVE CoherentInv'
    BY <2>0, <2>1, AdminCoherent
  <2>2. ASSUME NEW r \in Readers, LookupNext(r) PROVE CoherentInv'
    BY <2>0, <2>2, ReaderCoherent
  <2>3. ASSUME \/ \E k \in Keys : ExpireEntry(k)
               \/ \E c \in late : RunLate(c) \/ DropLate(c)
        PROVE  CoherentInv'
    BY <2>0, <2>3, RedisCoherent
  <2>4. CASE UNCHANGED vars
    <3>1. /\ UNCHANGED storeVars /\ UNCHANGED adminVars
          /\ UNCHANGED <<services, routes, tx, lost, cache, gen, late, get>>
      BY <2>4 DEF vars, storeVars, adminVars, cacheVars
    <3>2. \A k \in Keys : Steady(k)
      BY <3>1, SteadyAll
    <3>3. Coherent' /\ PublicationsCoherent'
      BY <2>0, <3>1, <3>2, CoherentMove DEF CoherentInv
    <3> QED
      BY <3>1, <3>3, CoversKept DEF CoherentInv
  <2> QED
    BY <2>1, <2>2, <2>3, <2>4 DEF Next
<1> QED
  BY <1>1, CoherentInit, Invariance, TablesInvariance, TenantInvariance, PTL
  DEF Spec

\* When administrative requests do not overlap, an entry that differs from
\* MySQL is one whose invalidation has yet to run, or failed: no signal is
\* missing, for any number of readers, routes, services and failures.
THEOREM Coherence ==
  ASSUME OneAdministrator
  PROVE  Spec => []Coherent
<1>1. CoherentInv => Coherent
  BY DEF CoherentInv
<1> QED
  BY <1>1, CoherentInvariance, PTL

=============================================================================
