------------------------ MODULE RouteFailoverProofs -------------------------
(***************************************************************************)
(* Proofs about RouteFailover: a failover can only resurrect what it       *)
(* rolled back.  The steps of RouteSystem keep its guard for any set of    *)
(* keys (InvForStep of RouteSystemProofs); here that set is the keys whose *)
(* version has never gone back, and the replica joins the argument.        *)
(***************************************************************************)
EXTENDS RouteFailover, RouteSystemProofs

\* The invariant is RouteSystem's, for the keys that never went back.
LEMMA FailoverParts ==
  FailoverInv <=> InvFor(Keys \ rolled) /\ ReplicaBehind
<1> DEFINE K == Keys \ rolled
<1>1. StaleOnlyByRollback <=> FreshIn(K)
  BY DEF StaleOnlyByRollback, FreshIn
<1>2. CallShape =>
        ((\A r \in Readers : get[r].key \notin rolled => GuardedCall(get[r]))
           <=> CallsGuarded(K))
  BY DEF CallShape, WellFormedCall, CallsGuarded, CallGuarded, GuardedCall,
     Active
<1>3. late \subseteq Script =>
        ((\A c \in late : c.type = "publish" /\ c.key \notin rolled =>
            /\ c.gen <= gen[c.key]
            /\ c.gen = gen[c.key] => c.snap \in fresh[c.key])
           <=> ScriptsGuarded(K))
  <2>1. ASSUME late \subseteq Script, NEW c \in late, c.type = "publish"
        PROVE  c.key \in Keys
    BY <2>1 DEF Script
  <2> QED
    BY <2>1 DEF ScriptsGuarded
<1> HIDE DEF K
<1>4. FailoverInv <=> InvFor(K) /\ ReplicaBehind
  BY <1>1, <1>2, <1>3 DEF FailoverInv, TypeOK, TxOK, InvFor, GuardInv
<1> QED
  BY <1>4 DEF K

\* The same after a step, for a set that the step makes of those keys.
LEMMA FailoverPartsNext ==
  ASSUME NEW K, K = Keys \ rolled', InvFor(K)', ReplicaBehind'
  PROVE  FailoverInv'
<1>1. (InvFor(Keys \ rolled) /\ ReplicaBehind)' => FailoverInv'
  BY FailoverParts, PTL
<1>2. InvFor(Keys \ rolled)'
  BY DEF InvFor, GuardInv, FreshIn, CallsGuarded, CallGuarded, ScriptsGuarded
<1> QED
  BY <1>1, <1>2

\* Without a failover versions only grow, and while one stays what it is,
\* nothing stops being fresh.
LEMMA VersionsGrow ==
  ASSUME TypeOK, [Next]_vars, NEW k \in Keys
  PROVE  gen[k] <= gen'[k] /\ (gen'[k] = gen[k] => fresh[k] \subseteq fresh'[k])
<1>0. /\ gen \in [Keys -> Nat] /\ gen[k] \in Nat
      /\ fresh \in [Keys -> SUBSET Found] /\ late \subseteq Script
  BY DEF TypeOK
<1>1. ASSUME UNCHANGED <<gen, fresh>> PROVE
        gen[k] <= gen'[k] /\ (gen'[k] = gen[k] => fresh[k] \subseteq fresh'[k])
  BY <1>0, <1>1
<1>2. ASSUME NEW q \in Keys, Invalidate(q) PROVE
        gen[k] <= gen'[k] /\ (gen'[k] = gen[k] => fresh[k] \subseteq fresh'[k])
  BY <1>0, <1>2 DEF Invalidate
<1>3. ASSUME UNCHANGED gen, Observe PROVE
        gen[k] <= gen'[k] /\ (gen'[k] = gen[k] => fresh[k] \subseteq fresh'[k])
  <2> DEFINE now == [q \in Keys |-> ReadRoute(q)']
  <2>1. fresh' = [q \in Keys |-> fresh[q] \cup {now[q]}]
    BY <1>3 DEF Observe
  <2> HIDE DEF now
  <2> QED
    BY <1>0, <1>3, <2>1
<1>4. ASSUME NEW a \in Admins, AdminNext(a) PROVE
        gen[k] <= gen'[k] /\ (gen'[k] = gen[k] => fresh[k] \subseteq fresh'[k])
  BY <1>1, <1>2, <1>3, <1>4
  DEF AdminNext, PrepareTx, CommitTx, Crash, InvalidateRoute, InvalidateFault,
      InvalidateRetry, cacheVars, historyVars
<1>5. ASSUME NEW r \in Readers, LookupNext(r) PROVE UNCHANGED <<gen, fresh>>
  BY <1>5
  DEF LookupNext, ReaderNext, GetStep, GetRoute, GetData, GetVersion,
      ReadForPublish, EvalPublish, Fallback, ReadFault, PublishTimeout,
      Return, Publish, AfterRejection, cacheVars, historyVars
<1>6. ASSUME NEW c \in late, RunLate(c) \/ DropLate(c) PROVE
        gen[k] <= gen'[k] /\ (gen'[k] = gen[k] => fresh[k] \subseteq fresh'[k])
  <2>1. c.key \in Keys
    BY <1>0 DEF Script
  <2> QED
    BY <1>1, <1>2, <1>6, <2>1
    DEF RunLate, DropLate, LateScript, LoseScript, Publish, historyVars
<1>7. ASSUME NEW q \in Keys, ExpireEntry(q) PROVE UNCHANGED <<gen, fresh>>
  BY <1>7 DEF ExpireEntry, Expire, historyVars
<1>8. CASE UNCHANGED vars
  BY <1>1, <1>8 DEF vars, cacheVars, historyVars
<1> QED
  BY <1>1, <1>4, <1>5, <1>6, <1>7, <1>8 DEF Next

\* A step of RouteSystem.
LEMMA NextFailover ==
  ASSUME FailoverInv, [Next]_vars, UNCHANGED failoverVars
  PROVE  FailoverInv'
<1> PICK K : K = Keys \ rolled
  OBVIOUS
<1>1. InvFor(K) /\ ReplicaBehind /\ TypeOK
  BY FailoverParts DEF FailoverInv
<1>2. InvFor(K)'
  BY <1>1, InvForStep
<1>3. ReplicaBehind'
  <2>1. UNCHANGED <<replica, rolled>>
    BY DEF failoverVars
  <2> SUFFICES ASSUME NEW k \in Keys \ rolled
               PROVE  /\ replica[k].gen <= gen'[k]
                      /\ replica[k].gen = gen'[k] /\ replica[k].data # None =>
                           replica[k].data \in fresh'[k]
    BY <1>1, <2>1 DEF ReplicaBehind
  <2>2. gen[k] <= gen'[k] /\ (gen'[k] = gen[k] => fresh[k] \subseteq fresh'[k])
    BY <1>1, VersionsGrow
  <2>3. replica[k].gen \in Nat /\ gen[k] \in Nat /\ gen'[k] \in Nat
    BY <1>1, <1>2 DEF ReplicaBehind, TypeOK, InvFor, GuardInv
  <2>4. /\ replica[k].gen <= gen[k]
        /\ replica[k].gen = gen[k] /\ replica[k].data # None =>
             replica[k].data \in fresh[k]
    BY <1>1 DEF ReplicaBehind
  <2>5. replica[k].gen <= gen'[k]
    BY <2>2, <2>3, <2>4
  <2>6. replica[k].gen = gen'[k] => gen'[k] = gen[k] /\ replica[k].gen = gen[k]
    BY <2>2, <2>3, <2>4
  <2> QED
    BY <2>2, <2>4, <2>5, <2>6
<1>4. K = Keys \ rolled'
  BY DEF failoverVars
<1> QED
  BY <1>2, <1>3, <1>4, FailoverPartsNext

\* The replica catches up with a primary that holds only fresh entries.
LEMMA ReplicateFailover ==
  ASSUME FailoverInv, NEW p \in Projects, Replicate(p)
  PROVE  FailoverInv'
<1> PICK K : K = Keys \ rolled
  OBVIOUS
<1>1. InvFor(K) /\ ReplicaBehind
  BY FailoverParts
<1>2. [Next]_vars /\ rolled' = rolled
  BY DEF Replicate
<1>3. InvFor(K)'
  BY <1>1, <1>2, InvForStep
<1>4. UNCHANGED <<cache, gen, fresh>>
  BY DEF Replicate, vars, cacheVars, historyVars
<1>5. /\ cache \in [Keys -> Found] /\ gen \in [Keys -> Nat]
      /\ \A k \in K : cache[k] # None => cache[k] \in fresh[k]
  BY <1>1 DEF InvFor, GuardInv, FreshIn
<1>6. ReplicaBehind'
  <2>1. replica' \in [Keys -> [data : Found, gen : Nat]]
    BY <1>1, <1>5 DEF Replicate, ReplicaBehind
  <2>2. \A k \in Keys :
          \/ replica'[k] = replica[k]
          \/ replica'[k].data = cache[k] /\ replica'[k].gen = gen[k]
    BY DEF Replicate
  <2> SUFFICES ASSUME NEW k \in Keys \ rolled
               PROVE  /\ replica'[k].gen <= gen[k]
                      /\ replica'[k].gen = gen[k] /\ replica'[k].data # None =>
                           replica'[k].data \in fresh[k]
    BY <1>2, <1>4, <2>1 DEF ReplicaBehind
  <2>3. gen[k] <= gen[k]
    BY <1>5
  <2> QED
    BY <1>1, <1>5, <2>2, <2>3 DEF ReplicaBehind
<1>7. K = Keys \ rolled'
  BY <1>2
<1> QED
  BY <1>3, <1>6, <1>7, FailoverPartsNext

\* A promotion marks every key whose version goes back; for the others the
\* entry it brings back was read under the current version.
LEMMA PromoteFailover ==
  ASSUME FailoverInv, NEW p \in Projects, Promote(p)
  PROVE  FailoverInv'
<1> PICK K, L : K = Keys \ rolled /\ L = Keys \ rolled'
  OBVIOUS
<1>1. InvFor(K) /\ ReplicaBehind
  BY FailoverParts
<1>2. /\ UNCHANGED <<services, routes, issued, tx, ops, late, get>>
      /\ UNCHANGED <<fresh, allowed, lost, replica>>
  BY DEF Promote, storeVars, adminVars, historyVars
<1>3. /\ cache \in [Keys -> Found] /\ gen \in [Keys -> Nat]
      /\ replica \in [Keys -> [data : Found, gen : Nat]]
  BY <1>1 DEF InvFor, GuardInv, ReplicaBehind
<1>4. cache' \in [Keys -> Found] /\ gen' \in [Keys -> Nat] /\ faults' \in Nat
  BY <1>1, <1>3 DEF Promote, InvFor
<1>5. ASSUME NEW k \in L
      PROVE  /\ k \in K /\ gen'[k] = gen[k]
             /\ cache'[k] # None => cache'[k] \in fresh[k]
  <2>1. k \in Keys /\ k \in K
    BY DEF Promote
  <2>2. CASE k \in Shard(p)
    <3>1. gen[k] = replica[k].gen
      BY <2>1, <2>2 DEF Promote
    <3>2. gen'[k] = replica[k].gen /\ cache'[k] = replica[k].data
      BY <2>1, <2>2 DEF Promote
    <3> QED
      BY <1>1, <2>1, <3>1, <3>2 DEF ReplicaBehind
  <2>3. CASE k \notin Shard(p)
    <3>1. gen'[k] = gen[k] /\ cache'[k] = cache[k]
      BY <2>1, <2>3 DEF Promote
    <3> QED
      BY <1>1, <2>1, <3>1 DEF InvFor, GuardInv, FreshIn
  <2> QED
    BY <2>2, <2>3
<1>6. FreshIn(L)'
  BY <1>2, <1>5 DEF FreshIn
<1>7. CallsGuarded(L)'
  <2> SUFFICES ASSUME NEW r \in Readers, get[r].key \in L
               PROVE  GuardedCall(get[r])'
    BY <1>2 DEF CallsGuarded, CallGuarded
  <2>1. GuardedCall(get[r])
    BY <1>1, <1>5 DEF InvFor, GuardInv, CallsGuarded, CallGuarded
  <2> QED
    BY <1>2, <1>5, <2>1 DEF GuardedCall
<1>8. ScriptsGuarded(L)'
  BY <1>1, <1>2, <1>5 DEF InvFor, GuardInv, ScriptsGuarded
<1>9. CurrentIsFresh' /\ CallShape' /\ AnswersAllowed'
  BY <1>1, <1>2, ReadRouteUnchanged
  DEF InvFor, GuardInv, CurrentIsFresh, CallShape, WellFormedCall,
      AnswersAllowed, MayAnswer
<1>10. StoreTypeOK' /\ TxOK'
  BY <1>1, <1>2 DEF InvFor, StoreTypeOK, TxOK, TxShape, WellFormedTx
<1>11. InvFor(L)'
  BY <1>1, <1>2, <1>4, <1>6, <1>7, <1>8, <1>9, <1>10 DEF InvFor, GuardInv
<1>12. ReplicaBehind'
  BY <1>1, <1>2, <1>5 DEF ReplicaBehind
<1> QED
  BY <1>11, <1>12, FailoverPartsNext

\* Nothing has been replicated yet, and nothing cached.
LEMMA FailoverStart == FailoverInit => FailoverInv
<1> SUFFICES ASSUME FailoverInit PROVE FailoverInv
  OBVIOUS
<1>1. InvFor(Keys) /\ rolled = {} /\ Keys \ rolled = Keys
  BY IndInvInit DEF FailoverInit
<1>2. ReplicaBehind
  BY DEF FailoverInit, ReplicaBehind, Init, CacheInit, Found
<1> QED
  BY <1>1, <1>2, FailoverParts

\* The guard survives failovers on every key whose version did not go back.
THEOREM FailoverInvariance == FailoverSpec => []FailoverInv
<1>1. FailoverInv /\ [FailoverNext]_<<vars, failoverVars>> => FailoverInv'
  <2> SUFFICES ASSUME FailoverInv, [FailoverNext]_<<vars, failoverVars>>
               PROVE  FailoverInv'
    OBVIOUS
  <2>1. CASE Next /\ UNCHANGED failoverVars
    BY <2>1, NextFailover
  <2>2. ASSUME NEW p \in Projects, Replicate(p) \/ Promote(p)
        PROVE  FailoverInv'
    BY <2>2, ReplicateFailover, PromoteFailover
  <2>3. CASE UNCHANGED <<vars, failoverVars>>
    BY <2>3, NextFailover
  <2> QED
    BY <2>1, <2>2, <2>3 DEF FailoverNext
<1> QED
  BY <1>1, FailoverStart, PTL DEF FailoverSpec

\* A failover that loses no invalidation of a key breaks no guard: an entry
\* replaced before the last invalidation appears only where the version key
\* went back.
THEOREM FailoverSafety == FailoverSpec => []StaleOnlyByRollback
<1>1. FailoverInv => StaleOnlyByRollback
  BY DEF FailoverInv
<1> QED
  BY <1>1, FailoverInvariance, PTL
=============================================================================
