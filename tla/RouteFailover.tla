---------------------------- MODULE RouteFailover ---------------------------
(***************************************************************************)
(* RouteSystem on a Redis Cluster whose primaries fail.  The keys of a     *)
(* project share a hash tag (route:{10}:doctors) and hence a shard.  Its   *)
(* replica follows asynchronously; when it is promoted, what the primary   *)
(* did since is gone: entries come back that were invalidated, and version *)
(* keys count again numbers they have counted before, so that the guard of *)
(* _PUBLISH_IF_CURRENT can take an old publication for a current one.      *)
(***************************************************************************)
EXTENDS RouteSystem

VARIABLES
  replica,       \* per key: data and version as the shard's replica has them
  rolled         \* keys whose shard has lost writes

failoverVars == <<replica, rolled>>

FailoverInit ==
  /\ Init
  /\ replica = [k \in Keys |-> [data |-> None, gen |-> 0]]
  /\ rolled = {}

\* _keys: the hash tag is the project's.
Shard(p) == {k \in Keys : k[1] = p}

\* The replica catches up.
Replicate(p) ==
  /\ replica' = [k \in Keys |->
       IF k \in Shard(p) THEN [data |-> cache[k], gen |-> gen[k]]
       ELSE replica[k]]
  /\ UNCHANGED <<vars, rolled>>

\* The replica becomes primary.
Promote(p) ==
  /\ faults < MaxFaults
  /\ faults' = faults + 1
  /\ cache' = [k \in Keys |-> IF k \in Shard(p) THEN replica[k].data ELSE cache[k]]
  /\ gen' = [k \in Keys |-> IF k \in Shard(p) THEN replica[k].gen ELSE gen[k]]
  /\ rolled' = rolled \cup {k \in Shard(p) : gen[k] # replica[k].gen}
  /\ UNCHANGED <<storeVars, adminVars, late, get, historyVars, lost, replica>>

FailoverNext ==
  \/ Next /\ UNCHANGED failoverVars
  \/ \E p \in Projects : Replicate(p) \/ Promote(p)

FailoverSpec ==
  /\ FailoverInit
  /\ [][FailoverNext]_<<vars, failoverVars>>
  /\ Fairness

-----------------------------------------------------------------------------
\* A failover that loses no invalidation breaks no guard: an entry that was
\* replaced before the last invalidation appears only where the version key
\* went back (_PUBLISH_IF_CURRENT compares versions, which then repeat).
StaleOnlyByRollback ==
  \A k \in Keys \ rolled : cache[k] # None => cache[k] \in fresh[k]

-----------------------------------------------------------------------------
(* Why, as an inductive invariant.                                         *)

\* The replica is behind; where it is not behind in the version, promoting it
\* brings back nothing that was invalidated.
ReplicaBehind ==
  /\ replica \in [Keys -> [data : Found, gen : Nat]]
  /\ \A k \in Keys \ rolled :
       /\ replica[k].gen <= gen[k]
       /\ replica[k].gen = gen[k] /\ replica[k].data # None =>
            replica[k].data \in fresh[k]

\* Off the keys that went back, the guard of RouteSystem; everywhere, what
\* does not speak of versions.
FailoverInv ==
  /\ TypeOK /\ TxShape /\ CallShape /\ CurrentIsFresh /\ AnswersAllowed
  /\ StaleOnlyByRollback
  /\ \A r \in Readers : get[r].key \notin rolled => GuardedCall(get[r])
  /\ \A c \in late : c.type = "publish" /\ c.key \notin rolled =>
       /\ c.gen <= gen[c.key]
       /\ c.gen = gen[c.key] => c.snap \in fresh[c.key]
  /\ ReplicaBehind
=============================================================================
