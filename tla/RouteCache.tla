----------------------------- MODULE RouteCache -----------------------------
(***************************************************************************)
(* The per-route Redis cache: get_route and invalidate_route of            *)
(* apps/gateway/route_cache.py.  Each gateway request is a reader that     *)
(* runs get_route one Redis command or SQL query at a time; the two Lua    *)
(* scripts are atomic in Redis.                                            *)
(*                                                                         *)
(* A command can fail: the client raises (a timeout after 0.5 s, a lost    *)
(* connection) while the server has executed it, will execute it later,    *)
(* or never does; redis-py's cluster client also sends it again.  A script *)
(* the client no longer waits for is in "late" until it runs or is lost.   *)
(*                                                                         *)
(* "fresh" and "allowed" are history variables: they record what the       *)
(* abstract specification RouteLookup speaks of and influence nothing.     *)
(***************************************************************************)
EXTENDS RouteStore

CONSTANTS
  Readers,       \* concurrent get_route calls
  MaxAttempts,   \* range(3) in get_route
  MaxFaults      \* bound: failed Redis commands and dead workers

VARIABLES
  cache,         \* the data key: a snapshot, or None
  gen,           \* the version key; 0 when the key does not exist
  late,          \* scripts in flight that no client waits for
  faults,        \* failures so far
  get,           \* each reader's get_route call
  fresh,         \* per key: what was current since the last invalidation
  allowed        \* per call: what its answer may be

cacheVars == <<cache, gen, late, faults>>
historyVars == <<fresh, allowed>>

ASSUME CacheAssumption == MaxAttempts \in Nat \ {0} /\ MaxFaults \in Nat

\* pc names the step get_route executes next; a finished call keeps its
\* answer in snap.
Active == {"getData", "getVersion", "readRoute", "publish", "fallback"}

Call == [pc : Active \cup {"idle", "done"},
         key : Keys \cup {None},
         gen : Nat,
         snap : Found,
         tries : 0 .. MaxAttempts]

NewCall(pc, k, snap) ==
  [pc |-> pc, key |-> k, gen |-> 0, snap |-> snap, tries |-> 0]

IdleCall == NewCall("idle", None, None)

Script ==
  [type : {"publish"}, key : Keys, gen : Nat, snap : Snapshots]
    \cup [type : {"invalidate"}, key : Keys]

CacheInit ==
  /\ cache = [k \in Keys |-> None]
  /\ gen = [k \in Keys |-> 0]
  /\ late = {}
  /\ faults = 0
  /\ get = [r \in Readers |-> IdleCall]
  /\ fresh = [k \in Keys |-> {ReadRoute(k)}]
  /\ allowed = [r \in Readers |-> {}]

-----------------------------------------------------------------------------
(* The Lua scripts.                                                        *)

\* Mutant of Publish: SET without the generation check.
PublishAlways(k, g, snap) ==
  /\ cache' = [cache EXCEPT ![k] = snap]
  /\ UNCHANGED gen

\* _PUBLISH_IF_CURRENT.
Publish(k, g, snap) ==
  /\ cache' = IF gen[k] = g THEN [cache EXCEPT ![k] = snap] ELSE cache
  /\ UNCHANGED gen

\* _INVALIDATE; from here on only what is current now, or becomes current
\* later, is fresh.
Invalidate(k) ==
  /\ gen' = [gen EXCEPT ![k] = @ + 1]
  /\ cache' = [cache EXCEPT ![k] = None]
  /\ fresh' = [fresh EXCEPT ![k] = {ReadRoute(k)}]

-----------------------------------------------------------------------------
(* get_route, reader r.                                                    *)

\* The call starts; its answer may be anything fresh from now on.
GetRoute(r, k) ==
  /\ get[r].pc \notin Active
  /\ get' = [get EXCEPT ![r] = NewCall("getData", k, None)]
  /\ allowed' = [allowed EXCEPT ![r] = fresh[k]]
  /\ UNCHANGED <<storeVars, cacheVars, fresh>>

Goto(r, pc) == get' = [get EXCEPT ![r].pc = pc]

Return(r, answer) ==
  /\ get' = [get EXCEPT ![r] = NewCall("done", get[r].key, answer)]
  /\ allowed' = [allowed EXCEPT ![r] = {}]
  /\ UNCHANGED fresh

\* client.get(data_key): a hit returns.
GetData(r) ==
  /\ get[r].pc = "getData"
  /\ IF cache[get[r].key] # None
     THEN Return(r, cache[get[r].key])
     ELSE Goto(r, "getVersion") /\ UNCHANGED historyVars
  /\ UNCHANGED <<storeVars, cacheVars>>

\* Mutant of GetVersion: without the "or '0'".
GetVersionUnset(r) ==
  /\ get[r].pc = "getVersion"
  /\ get' = [get EXCEPT ![r] = [@ EXCEPT !.pc = "readRoute",
       !.gen = IF gen[get[r].key] = 0 THEN None ELSE gen[get[r].key]]]
  /\ UNCHANGED <<storeVars, cacheVars, historyVars>>

\* client.get(version_key) or '0'.
GetVersion(r) ==
  /\ get[r].pc = "getVersion"
  /\ get' = [get EXCEPT ![r] = [@ EXCEPT !.pc = "readRoute",
                                         !.gen = gen[get[r].key]]]
  /\ UNCHANGED <<storeVars, cacheVars, historyVars>>

\* _read_route: a missing route is answered and not cached.
ReadForPublish(r) ==
  /\ get[r].pc = "readRoute"
  /\ IF ReadRoute(get[r].key) = None
     THEN Return(r, None)
     ELSE /\ get' = [get EXCEPT ![r] = [@ EXCEPT !.pc = "publish",
                                         !.snap = ReadRoute(get[r].key)]]
          /\ UNCHANGED historyVars
  /\ UNCHANGED <<storeVars, cacheVars>>

\* Mutant of AfterRejection: the same publication is tried again.
AfterRejectionAgain(r) == get' = get

\* Mutant of AfterRejection: while True instead of range(3).
AfterRejectionForever(r) ==
  get' = [get EXCEPT ![r] = [@ EXCEPT !.tries = get[r].tries + 1,
                                      !.pc = "getData"]]

\* Rejected by the guard: the next attempt, or a last plain read.
AfterRejection(r) ==
  get' = [get EXCEPT ![r] = [@ EXCEPT
            !.tries = get[r].tries + 1,
            !.pc = IF get[r].tries + 1 < MaxAttempts THEN "getData"
                   ELSE "fallback"]]

\* client.eval(_PUBLISH_IF_CURRENT, ...).
EvalPublish(r) ==
  /\ get[r].pc = "publish"
  /\ Publish(get[r].key, get[r].gen, get[r].snap)
  /\ IF gen[get[r].key] = get[r].gen
     THEN Return(r, get[r].snap)
     ELSE AfterRejection(r) /\ UNCHANGED historyVars
  /\ UNCHANGED <<storeVars, late, faults>>

\* The read without the cache: after a Redis error, or the last attempt.
Fallback(r) ==
  /\ get[r].pc = "fallback"
  /\ Return(r, ReadRoute(get[r].key))
  /\ UNCHANGED <<storeVars, cacheVars>>

\* RedisError or OSError from any command of the call.
ReadFault(r) ==
  /\ get[r].pc \in {"getData", "getVersion", "publish"}
  /\ faults < MaxFaults
  /\ faults' = faults + 1
  /\ Goto(r, "fallback")
  /\ UNCHANGED <<storeVars, cache, gen, late, historyVars>>

\* The publication was sent and its answer is not awaited: the call fails
\* over to MySQL, or the cluster client sends the script again.
PublishTimeout(r) ==
  /\ get[r].pc = "publish"
  /\ faults < MaxFaults
  /\ faults' = faults + 1
  /\ late' = late \cup {[type |-> "publish", key |-> get[r].key,
                         gen |-> get[r].gen, snap |-> get[r].snap]}
  /\ Goto(r, "fallback") \/ UNCHANGED get
  /\ UNCHANGED <<storeVars, cache, gen, historyVars>>

-----------------------------------------------------------------------------
(* Redis by itself.                                                        *)

\* Mutant of Expire: SET without EX.
NeverExpire(k) == FALSE /\ UNCHANGED <<cache, gen, late, faults>>

\* The 60-second TTL of the data key; the version key has none.
Expire(k) ==
  /\ cache[k] # None
  /\ cache' = [cache EXCEPT ![k] = None]
  /\ UNCHANGED <<gen, late, faults>>

\* A script nobody waits for runs after all.
LateScript(c) ==
  /\ c \in late
  /\ late' = late \ {c}
  /\ \/ /\ c.type = "publish"
        /\ Publish(c.key, c.gen, c.snap)
        /\ UNCHANGED fresh
     \/ c.type = "invalidate" /\ Invalidate(c.key)
  /\ UNCHANGED <<storeVars, faults, get, allowed>>

LoseScript(c) ==
  /\ c \in late
  /\ late' = late \ {c}
  /\ UNCHANGED <<storeVars, cache, gen, faults, get, historyVars>>

GetStep(r) ==
  \/ GetData(r) \/ GetVersion(r) \/ ReadForPublish(r)
  \/ EvalPublish(r) \/ Fallback(r)

ReaderNext(r) ==
  \/ \E k \in Keys : GetRoute(r, k)
  \/ GetStep(r) \/ ReadFault(r) \/ PublishTimeout(r)
=============================================================================
