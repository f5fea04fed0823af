---------------------------- MODULE ReplicaReads ----------------------------
(***************************************************************************)
(* PrimaryReplicaRouter (gateway_project/db_router.py) over the cluster    *)
(* that mysql/bootstrap.js sets up, and a route lookup on top of it.       *)
(*                                                                         *)
(* The cluster is external: Group Replication puts transactions in one     *)
(* order, which the members apply each at its own pace.  With BEFORE a     *)
(* read waits until its member has applied what was ordered before the     *)
(* read; with AFTER a commit returns once every online member has applied  *)
(* it.  MySQL Router sends the port of the alias 'default' to the primary  *)
(* and that of 'replica' to a secondary, if there is one.                  *)
(*                                                                         *)
(* One row stands for the tables; its version is the transaction that last *)
(* wrote it.  Requests are writers (an atomic block, then the on_commit    *)
(* callback that invalidates) and readers (get_route after a cache miss).  *)
(***************************************************************************)
EXTENDS Naturals, FiniteSets

CONSTANTS
  Members,       \* mysql-1, mysql-2, mysql-3
  Clients,       \* concurrent requests of all gateway processes
  Own,           \* the version an open transaction wrote
  None,          \* no cached entry, no member
  MaxCommits,    \* bound
  MaxFailures    \* bound on members that fail

VARIABLES
  log,           \* number of transactions the group has ordered
  applied,       \* per member: how many it has applied
  online,        \* the members of the group
  primary,
  failures,
  client,        \* each request
  gen, entry,    \* the route's version key and entry in Redis
  invalidated    \* history: the latest transaction whose callback has run

groupVars == <<log, applied, online, primary, failures>>
cacheVars == <<gen, entry, invalidated>>
vars == <<groupVars, client, cacheVars>>

Idle == [pc |-> "idle", tx |-> FALSE, wrote |-> FALSE, since |-> 0,
         value |-> 0, at |-> None, gen |-> 0]

\* bootstrap.js: the cluster of three, created or found.
Init ==
  /\ log = 0
  /\ applied = [m \in Members |-> 0]
  /\ online = Members
  /\ primary \in Members
  /\ failures = 0
  /\ client = [c \in Clients |-> Idle]
  /\ gen = 0 /\ entry = None /\ invalidated = 0

-----------------------------------------------------------------------------
\* Mutant of Consistency: the default of the server.
ConsistencyEventual == "EVENTUAL"

\* SET PERSIST group_replication_consistency, verified on every member.
Consistency == "BEFORE_AND_AFTER"

\* Mutant of DbForRead: in_atomic_block is not looked at.
DbForReadAlways(inAtomicBlock, forWrite) ==
  IF forWrite THEN "default" ELSE "replica"

\* PrimaryReplicaRouter with the cluster enabled; forWrite is a hint.
DbForRead(inAtomicBlock, forWrite) ==
  IF inAtomicBlock \/ forWrite THEN "default" ELSE "replica"
DbForWrite == "default"

\* Mutant of Connect: the secondaries by their host names.
ConnectHosts(alias) ==
  IF alias = "default" THEN {primary} ELSE Members \ {primary}

\* DATABASES: host and port of an alias, and who answers there.
Connect(alias) ==
  IF alias = "default" \/ online = {primary} THEN {primary}
  ELSE online \ {primary}

-----------------------------------------------------------------------------
(* Requests.                                                               *)

Set(c, s) == client' = [client EXCEPT ![c] = s]

Begin(c) ==
  /\ client[c].pc = "idle"
  /\ Set(c, [Idle EXCEPT !.pc = "open", !.tx = TRUE])
  /\ UNCHANGED <<groupVars, cacheVars>>

\* The row lock of an UPDATE: the primary drops it when it has committed,
\* which may be long before the callback runs.
Locks(d) ==
  /\ client[d].wrote
  /\ \/ client[d].pc \in {"open", "reading"}
     \/ client[d].pc = "committing" /\ applied[primary] < client[d].since

\* UPDATE.
Write(c) ==
  /\ client[c].pc = "open" /\ ~client[c].wrote
  /\ \A d \in Clients : ~Locks(d)
  /\ \E m \in Connect(DbForWrite) :
       Set(c, [client[c] EXCEPT !.wrote = TRUE, !.at = m])
  /\ UNCHANGED <<groupVars, cacheVars>>

\* get_route misses, notes the version and starts its SELECT; an atomic
\* block reads for itself.
Read(c) ==
  /\ \/ client[c].pc = "idle" /\ entry = None
     \/ client[c].pc = "open"
  /\ \E forWrite \in BOOLEAN :
     \E m \in Connect(DbForRead(client[c].tx, forWrite)) :
       Set(c, [client[c] EXCEPT !.pc = "reading", !.since = log, !.at = m,
                 !.gen = gen])
  /\ UNCHANGED <<groupVars, cacheVars>>

\* The member answers; only the primary knows what a transaction wrote.
Return(c) ==
  /\ client[c].pc = "reading"
  /\ Consistency = "BEFORE_AND_AFTER" => applied[client[c].at] >= client[c].since
  /\ Set(c, [client[c] EXCEPT
       !.pc = IF client[c].tx THEN "open" ELSE "read",
       !.value = IF client[c].wrote /\ client[c].at = primary THEN Own
                 ELSE applied[client[c].at]])
  /\ UNCHANGED <<groupVars, cacheVars>>

\* _PUBLISH_IF_CURRENT.
Publish(c) ==
  /\ client[c].pc = "read"
  /\ entry' = IF gen = client[c].gen THEN client[c].value ELSE entry
  /\ Set(c, Idle)
  /\ UNCHANGED <<groupVars, gen, invalidated>>

\* The group orders the transaction.
Commit(c) ==
  /\ client[c].pc = "open" /\ client[c].wrote
  /\ log < MaxCommits
  /\ log' = log + 1
  /\ Set(c, [client[c] EXCEPT !.pc = "committing", !.since = log'])
  /\ UNCHANGED <<applied, online, primary, failures, cacheVars>>

Acknowledge(c) ==
  /\ client[c].pc = "committing"
  /\ \A m \in IF Consistency = "BEFORE_AND_AFTER" THEN online ELSE {primary} :
       applied[m] >= client[c].since
  /\ Set(c, [client[c] EXCEPT !.pc = "acknowledged"])
  /\ UNCHANGED <<groupVars, cacheVars>>

\* on_commit: invalidate_route.  Callbacks of two requests run in any order.
OnCommit(c) ==
  /\ client[c].pc = "acknowledged"
  /\ gen' = gen + 1
  /\ entry' = None
  /\ invalidated' =
       IF client[c].since > invalidated THEN client[c].since ELSE invalidated
  /\ Set(c, Idle)
  /\ UNCHANGED groupVars

\* An exception in the block, or nothing to commit.
Rollback(c) ==
  /\ client[c].pc = "open"
  /\ Set(c, Idle)
  /\ UNCHANGED <<groupVars, cacheVars>>

-----------------------------------------------------------------------------
(* The group.                                                              *)

Apply(m) ==
  /\ m \in online /\ applied[m] < log
  /\ applied' = [applied EXCEPT ![m] = @ + 1]
  /\ UNCHANGED <<log, online, primary, failures, client, cacheVars>>

\* A member fails and a majority goes on.  Requests connected to it fail; a
\* commit without an answer may be in the log, and its callback never runs.
Fail(m) ==
  /\ failures < MaxFailures
  /\ m \in online /\ 2 * Cardinality(online \ {m}) > Cardinality(online)
  /\ failures' = failures + 1
  /\ online' = online \ {m}
  /\ primary' \in IF primary = m THEN online' ELSE {primary}
  /\ client' = [c \in Clients |->
       IF /\ client[c].at = m \/ (client[c].tx /\ primary = m)
          /\ client[c].pc \notin {"read", "acknowledged"}
       THEN Idle ELSE client[c]]
  /\ UNCHANGED <<log, applied, cacheVars>>

\* bootstrap.js run again: rejoinInstance; a member is ONLINE once it has
\* recovered what it missed.
Rejoin(m) ==
  /\ m \notin online
  /\ online' = online \cup {m}
  /\ applied' = [applied EXCEPT ![m] = log]
  /\ UNCHANGED <<log, primary, failures, client, cacheVars>>

Next ==
  \/ \E c \in Clients :
       \/ Begin(c) \/ Write(c) \/ Read(c) \/ Return(c) \/ Publish(c)
       \/ Commit(c) \/ Acknowledge(c) \/ OnCommit(c) \/ Rollback(c)
  \/ \E m \in Members : Apply(m) \/ Fail(m) \/ Rejoin(m)

\* Members go on applying, and the database and Redis answer.
Spec ==
  /\ Init /\ [][Next]_vars
  /\ \A m \in Members : WF_vars(Apply(m))
  /\ \A c \in Clients : WF_vars(Return(c)) /\ WF_vars(Acknowledge(c))

-----------------------------------------------------------------------------
(* Properties.                                                             *)

\* What a client of one database would know of a request.
View(x) == [pc |-> x.pc, tx |-> x.tx, wrote |-> x.wrote,
            since |-> x.since, value |-> x.value]

Views == [c \in Clients |-> View(client[c])]

One == INSTANCE OneDatabase WITH committed <- log, session <- Views

\* Two aliases, replicas that lag and failovers look like one database: no
\* read returns less than what was committed when it began, and reads in an
\* atomic block see its writes (PrimaryReplicaRouter).
ImplementsOneDatabase == One!Spec

\* What a route lookup read from a replica never refills the cache with a
\* version older than an invalidation that has run (get_route on db_for_read;
\* "This relies on the DB cluster's BEFORE_AND_AFTER consistency").
RefillFresh == entry # None => entry >= invalidated

\* Waiting for a member to catch up, and for all members to apply a commit,
\* ends: by an answer or by the loss of the connection.
RequestsReturn ==
  \A c \in Clients : client[c].pc \in {"reading", "committing"} ~>
                       client[c].pc \notin {"reading", "committing"}

-----------------------------------------------------------------------------
(* Why reads are fresh, as an inductive invariant.                         *)

Session == [pc : {"idle", "open", "reading", "read", "committing",
                  "acknowledged"},
            tx : BOOLEAN, wrote : BOOLEAN, since : Nat,
            value : Nat \cup {Own}, at : Members \cup {None}, gen : Nat]

\* Every variable keeps its type; the primary is one of the group.
TypeOK ==
  /\ log \in Nat
  /\ applied \in [Members -> Nat]
  /\ online \subseteq Members /\ primary \in online
  /\ failures \in Nat
  /\ client \in [Clients -> Session]
  /\ gen \in Nat /\ invalidated \in Nat

\* Nothing is applied, awaited or invalidated before the group ordered it.
WithinLog ==
  /\ \A m \in Members : applied[m] <= log
  /\ \A c \in Clients : client[c].since <= log
  /\ invalidated <= log

\* Only an atomic block writes, and it talks to the primary, until it is
\* over or the primary fails.
BlocksOnPrimary ==
  \A c \in Clients :
    /\ client[c].wrote \/ client[c].pc = "open" => client[c].tx
    /\ client[c].pc = "read" => ~client[c].tx
    /\ client[c].pc = "reading" => client[c].at \in online
    /\ client[c].pc = "reading" /\ client[c].tx => client[c].at = primary

\* A lookup that began under the present version key reads, or has read,
\* nothing older than the last invalidation.
LookupsGuarded ==
  \A c \in Clients :
    /\ client[c].pc \in {"reading", "read"} => client[c].gen <= gen
    /\ client[c].pc = "reading" /\ client[c].gen = gen =>
         client[c].since >= invalidated
    /\ client[c].pc = "read" => client[c].value \in Nat
    /\ client[c].pc = "read" /\ client[c].gen = gen =>
         client[c].value >= invalidated

\* Reads wait for what was ordered before them, and blocks stay on the
\* primary: together with the version key, no lookup refills stale rows.
ReplicaInv ==
  TypeOK /\ WithinLog /\ BlocksOnPrimary /\ LookupsGuarded /\ RefillFresh
=============================================================================
