------------------------- MODULE ReplicaReadsProofs -------------------------
(***************************************************************************)
(* Proofs about ReplicaReads, for every number of members and concurrent   *)
(* requests and whatever the bounds on commits and failures.               *)
(***************************************************************************)
EXTENDS ReplicaReads, TLAPS

\* The state between two requests.
LEMMA IdleTyped == Idle \in Session
  BY DEF Idle, Session

\* The invariant holds when the cluster has been set up.
LEMMA ReplicaInvInit == Init => ReplicaInv
  BY DEF Init, ReplicaInv, TypeOK, Session, Idle, WithinLog, BlocksOnPrimary,
         LookupsGuarded, RefillFresh

-----------------------------------------------------------------------------
(* Steps of requests.                                                      *)

\* A request moves on to a state that is as guarded as the one it leaves.
LEMMA ClientMoves ==
  ASSUME ReplicaInv, NEW c \in Clients, NEW s \in Session, Set(c, s),
         UNCHANGED <<applied, online, primary, failures, cacheVars>>,
         log' \in Nat, log <= log',
         s.since <= log',
         s.wrote \/ s.pc = "open" => s.tx,
         s.pc = "read" => ~s.tx,
         s.pc = "reading" => s.at \in online,
         s.pc = "reading" /\ s.tx => s.at = primary,
         s.pc \in {"reading", "read"} => s.gen <= gen,
         s.pc = "reading" /\ s.gen = gen => s.since >= invalidated,
         s.pc = "read" => s.value \in Nat,
         s.pc = "read" /\ s.gen = gen => s.value >= invalidated
  PROVE  ReplicaInv'
<1>1. /\ client' = [client EXCEPT ![c] = s]
      /\ client'[c] = s /\ \A d \in Clients \ {c} : client'[d] = client[d]
  BY DEF Set, ReplicaInv, TypeOK
<1>2. TypeOK'
  BY <1>1 DEF ReplicaInv, TypeOK, cacheVars
<1>3. WithinLog'
  BY <1>1 DEF ReplicaInv, TypeOK, WithinLog, cacheVars, Session
<1>4. BlocksOnPrimary'
  BY <1>1 DEF ReplicaInv, BlocksOnPrimary
<1>5. LookupsGuarded' /\ RefillFresh'
  BY <1>1 DEF ReplicaInv, LookupsGuarded, RefillFresh, cacheVars
<1> QED
  BY <1>2, <1>3, <1>4, <1>5 DEF ReplicaInv

\* Begin, Write, Commit, Acknowledge and Rollback read nothing.
LEMMA TransactionSteps ==
  ASSUME ReplicaInv, NEW c \in Clients,
         Begin(c) \/ Write(c) \/ Commit(c) \/ Acknowledge(c) \/ Rollback(c)
  PROVE  ReplicaInv'
<1>0. /\ TypeOK /\ client[c] \in Session /\ log \in Nat
      /\ client[c].since <= log
      /\ client[c].wrote \/ client[c].pc = "open" => client[c].tx
  BY DEF ReplicaInv, TypeOK, WithinLog, BlocksOnPrimary
<1>1. CASE Begin(c)
  <2> DEFINE s == [Idle EXCEPT !.pc = "open", !.tx = TRUE]
  <2>1. s \in Session /\ s.pc = "open" /\ s.tx /\ s.since = 0
    BY DEF Idle, Session
  <2>2. Set(c, s) /\ UNCHANGED <<groupVars, cacheVars>>
    BY <1>1 DEF Begin
  <2> HIDE DEF s
  <2> QED
    BY <1>0, <2>1, <2>2, ClientMoves DEF groupVars
<1>2. CASE Write(c)
  <2>1. PICK m \in Connect(DbForWrite) :
          Set(c, [client[c] EXCEPT !.wrote = TRUE, !.at = m])
    BY <1>2 DEF Write
  <2> DEFINE s == [client[c] EXCEPT !.wrote = TRUE, !.at = m]
  <2>2. client[c].pc = "open" /\ UNCHANGED <<groupVars, cacheVars>> /\ m \in Members
    BY <1>0, <1>2, <2>1 DEF Write, Connect, TypeOK
  <2>3. s \in Session /\ s.pc = "open" /\ s.tx /\ s.since = client[c].since
    BY <1>0, <2>2 DEF Session
  <2>4. Set(c, s)
    BY <2>1
  <2> HIDE DEF s
  <2> QED
    BY <1>0, <2>2, <2>3, <2>4, ClientMoves DEF groupVars
<1>3. CASE Commit(c)
  <2> DEFINE s == [client[c] EXCEPT !.pc = "committing", !.since = log']
  <2>1. /\ log' = log + 1 /\ Set(c, s) /\ client[c].wrote
        /\ UNCHANGED <<applied, online, primary, failures, cacheVars>>
    BY <1>3 DEF Commit
  <2>2. log' \in Nat /\ log <= log'
    BY <1>0, <2>1
  <2>3. /\ s \in Session /\ s.pc = "committing" /\ s.since = log'
        /\ s.tx = client[c].tx
    BY <1>0, <2>2 DEF Session
  <2>4. s.tx /\ s.since <= log'
    BY <1>0, <2>1, <2>2, <2>3
  <2> HIDE DEF s
  <2> QED
    BY <1>0, <2>1, <2>2, <2>3, <2>4, ClientMoves
<1>4. CASE Acknowledge(c)
  <2> DEFINE s == [client[c] EXCEPT !.pc = "acknowledged"]
  <2>1. Set(c, s) /\ UNCHANGED <<groupVars, cacheVars>>
    BY <1>4 DEF Acknowledge
  <2>2. /\ s \in Session /\ s.pc = "acknowledged" /\ s.since = client[c].since
        /\ s.wrote = client[c].wrote /\ s.tx = client[c].tx
    BY <1>0 DEF Session
  <2> HIDE DEF s
  <2> QED
    BY <1>0, <2>1, <2>2, ClientMoves DEF groupVars
<1>5. CASE Rollback(c)
  <2>1. Set(c, Idle) /\ UNCHANGED <<groupVars, cacheVars>>
    BY <1>5 DEF Rollback
  <2>2. Idle.pc = "idle" /\ ~Idle.wrote /\ Idle.since = 0
    BY DEF Idle
  <2> QED
    BY <1>0, <2>1, <2>2, IdleTyped, ClientMoves DEF groupVars
<1> QED
  BY <1>1, <1>2, <1>3, <1>4, <1>5

\* A read starts under the present version key, behind everything ordered.
LEMMA ReadStep ==
  ASSUME ReplicaInv, NEW c \in Clients, Read(c)
  PROVE  ReplicaInv'
<1>0. /\ TypeOK /\ client[c] \in Session /\ log \in Nat /\ gen \in Nat
      /\ invalidated <= log
      /\ client[c].wrote => client[c].tx
  BY DEF ReplicaInv, TypeOK, WithinLog, BlocksOnPrimary
<1>f. PICK forWrite \in BOOLEAN :
        \E m \in Connect(DbForRead(client[c].tx, forWrite)) :
          Set(c, [client[c] EXCEPT !.pc = "reading", !.since = log, !.at = m,
                    !.gen = gen])
  BY DEF Read
<1>1. PICK m \in Connect(DbForRead(client[c].tx, forWrite)) :
        Set(c, [client[c] EXCEPT !.pc = "reading", !.since = log, !.at = m,
                  !.gen = gen])
  BY <1>f
<1>2. m \in online /\ m \in Members /\ (client[c].tx => m = primary)
  BY <1>0, <1>1 DEF Connect, DbForRead, TypeOK
<1> DEFINE s == [client[c] EXCEPT !.pc = "reading", !.since = log, !.at = m,
                   !.gen = gen]
<1>3. /\ s \in Session /\ s.pc = "reading" /\ s.since = log /\ s.at = m
      /\ s.gen = gen /\ s.tx = client[c].tx /\ s.wrote = client[c].wrote
  BY <1>0, <1>2 DEF Session
<1>4. Set(c, s) /\ UNCHANGED <<groupVars, cacheVars>>
  BY <1>1 DEF Read
<1> HIDE DEF s
<1>5. gen <= gen /\ log <= log /\ log >= invalidated
  BY <1>0 DEF TypeOK
<1> QED
  BY <1>0, <1>2, <1>3, <1>4, <1>5, ClientMoves DEF groupVars

\* A member answers only once it has applied what the read waits for.
LEMMA ReturnStep ==
  ASSUME ReplicaInv, NEW c \in Clients, Return(c)
  PROVE  ReplicaInv'
<1>0. /\ TypeOK /\ client[c] \in Session /\ log \in Nat /\ gen \in Nat
      /\ invalidated \in Nat /\ client[c].since <= log
      /\ client[c].wrote => client[c].tx
      /\ client[c].pc = "reading" /\ client[c].at \in Members
      /\ client[c].gen <= gen
      /\ client[c].gen = gen => client[c].since >= invalidated
  BY DEF Return, ReplicaInv, TypeOK, WithinLog, BlocksOnPrimary, LookupsGuarded
<1> DEFINE v == IF client[c].wrote /\ client[c].at = primary THEN Own
                ELSE applied[client[c].at]
           pc == IF client[c].tx THEN "open" ELSE "read"
           s == [client[c] EXCEPT !.pc = pc, !.value = v]
<1>1. applied[client[c].at] \in Nat /\ applied[client[c].at] >= client[c].since
  BY <1>0 DEF Return, Consistency, TypeOK
<1>2. v \in Nat \cup {Own} /\ (~client[c].tx => v = applied[client[c].at])
  BY <1>0, <1>1
<1>3. /\ s \in Session /\ s.pc = pc /\ s.value = v /\ s.since = client[c].since
      /\ s.gen = client[c].gen /\ s.tx = client[c].tx
      /\ s.wrote = client[c].wrote
  BY <1>0, <1>2 DEF Session
<1>4. Set(c, s) /\ UNCHANGED <<groupVars, cacheVars>>
  BY DEF Return
<1>5. ~s.tx => s.value \in Nat /\ (s.gen = gen => s.value >= invalidated)
  BY <1>0, <1>1, <1>2, <1>3 DEF Session
<1>6. s.pc \in {"open", "read"} /\ (s.pc = "open" <=> s.tx)
  BY <1>0, <1>3 DEF Session
<1> HIDE DEF s
<1> QED
  BY <1>0, <1>3, <1>4, <1>5, <1>6, ClientMoves DEF groupVars

\* Publishing fills the cache only under the version the lookup began with.
LEMMA PublishStep ==
  ASSUME ReplicaInv, NEW c \in Clients, Publish(c)
  PROVE  ReplicaInv'
<1>1. /\ client' = [client EXCEPT ![c] = Idle]
      /\ client'[c] = Idle /\ \A d \in Clients \ {c} : client'[d] = client[d]
      /\ UNCHANGED <<groupVars, gen, invalidated>>
  BY DEF Publish, Set, ReplicaInv, TypeOK
<1>2. TypeOK'
  BY <1>1, IdleTyped DEF ReplicaInv, TypeOK, groupVars
<1>3. WithinLog' /\ BlocksOnPrimary' /\ LookupsGuarded'
  BY <1>1 DEF ReplicaInv, TypeOK, WithinLog, BlocksOnPrimary, LookupsGuarded,
              Idle, groupVars
<1>4. RefillFresh'
  BY <1>1 DEF Publish, ReplicaInv, LookupsGuarded, RefillFresh
<1> QED
  BY <1>2, <1>3, <1>4 DEF ReplicaInv

\* An invalidation leaves behind every lookup that is under way.
LEMMA OnCommitStep ==
  ASSUME ReplicaInv, NEW c \in Clients, OnCommit(c)
  PROVE  ReplicaInv'
<1>1. /\ client' = [client EXCEPT ![c] = Idle]
      /\ client'[c] = Idle /\ \A d \in Clients \ {c} : client'[d] = client[d]
      /\ gen' = gen + 1 /\ entry' = None
      /\ invalidated' \in {client[c].since, invalidated}
      /\ UNCHANGED groupVars
  BY DEF OnCommit, Set, ReplicaInv, TypeOK
<1>2. TypeOK'
  BY <1>1, IdleTyped DEF ReplicaInv, TypeOK, groupVars, Session
<1>3. WithinLog' /\ BlocksOnPrimary'
  BY <1>1 DEF ReplicaInv, TypeOK, WithinLog, BlocksOnPrimary, Idle, groupVars
<1>4. \A d \in Clients : client[d].gen \in Nat /\ gen \in Nat
  BY DEF ReplicaInv, TypeOK, Session
<1>5. \A d \in Clients \ {c} :
        client[d].pc \in {"reading", "read"} =>
          client[d].gen <= gen' /\ client[d].gen # gen'
  BY <1>1, <1>4 DEF ReplicaInv, LookupsGuarded
<1>6. LookupsGuarded' /\ RefillFresh'
  BY <1>1, <1>5 DEF ReplicaInv, LookupsGuarded, RefillFresh, Idle
<1> QED
  BY <1>2, <1>3, <1>6 DEF ReplicaInv

-----------------------------------------------------------------------------
(* Steps of the group.                                                     *)

\* A member applies the next transaction.
LEMMA ApplyStep ==
  ASSUME ReplicaInv, NEW m \in Members, Apply(m)
  PROVE  ReplicaInv'
<1>1. TypeOK'
  BY DEF Apply, ReplicaInv, TypeOK, cacheVars
<1>2. WithinLog'
  BY DEF Apply, ReplicaInv, TypeOK, WithinLog, cacheVars
<1>3. BlocksOnPrimary' /\ LookupsGuarded' /\ RefillFresh'
  BY DEF Apply, ReplicaInv, BlocksOnPrimary, LookupsGuarded, RefillFresh,
         cacheVars
<1> QED
  BY <1>1, <1>2, <1>3 DEF ReplicaInv

\* A member rejoins with everything ordered so far.
LEMMA RejoinStep ==
  ASSUME ReplicaInv, NEW m \in Members, Rejoin(m)
  PROVE  ReplicaInv'
<1>1. TypeOK'
  BY DEF Rejoin, ReplicaInv, TypeOK, cacheVars
<1>2. WithinLog'
  BY DEF Rejoin, ReplicaInv, TypeOK, WithinLog, cacheVars
<1>3. BlocksOnPrimary' /\ LookupsGuarded' /\ RefillFresh'
  BY DEF Rejoin, ReplicaInv, BlocksOnPrimary, LookupsGuarded, RefillFresh,
         cacheVars
<1> QED
  BY <1>1, <1>2, <1>3 DEF ReplicaInv

\* The requests that the failure of member m ends.
Cut(m) == {c \in Clients :
  /\ client[c].at = m \/ (client[c].tx /\ primary = m)
  /\ client[c].pc \notin {"read", "acknowledged"}}

\* A failure ends the reads of the member and the blocks of the primary.
LEMMA FailStep ==
  ASSUME ReplicaInv, NEW m \in Members, Fail(m)
  PROVE  ReplicaInv'
<1>1. /\ client' = [c \in Clients |-> IF c \in Cut(m) THEN Idle ELSE client[c]]
      /\ online' = online \ {m} /\ primary' \in online'
      /\ primary # m => primary' = primary
      /\ failures' \in Nat
      /\ UNCHANGED <<log, applied, gen, entry, invalidated>>
  BY DEF Fail, Cut, cacheVars, ReplicaInv, TypeOK
<1>2. TypeOK'
  BY <1>1, IdleTyped DEF ReplicaInv, TypeOK
<1>3. WithinLog'
  BY <1>1 DEF ReplicaInv, TypeOK, WithinLog, Idle
<1>4. BlocksOnPrimary'
  BY <1>1 DEF ReplicaInv, TypeOK, BlocksOnPrimary, Idle, Cut
<1>5. LookupsGuarded' /\ RefillFresh'
  BY <1>1 DEF ReplicaInv, LookupsGuarded, RefillFresh, Idle
<1> QED
  BY <1>2, <1>3, <1>4, <1>5 DEF ReplicaInv

\* Every step of a request or of the group preserves the invariant.
LEMMA ReplicaInvStep == ReplicaInv /\ [Next]_vars => ReplicaInv'
<1> SUFFICES ASSUME ReplicaInv, [Next]_vars PROVE ReplicaInv'
  OBVIOUS
<1>1. CASE UNCHANGED vars
  BY <1>1 DEF vars, groupVars, cacheVars, ReplicaInv, TypeOK, WithinLog,
              BlocksOnPrimary, LookupsGuarded, RefillFresh
<1> QED
  BY <1>1, TransactionSteps, ReadStep, ReturnStep, PublishStep, OnCommitStep,
     ApplyStep, RejoinStep, FailStep DEF Next

\* Every state the cluster and its requests reach satisfies the invariant.
THEOREM Invariance == Spec => []ReplicaInv
  BY ReplicaInvInit, ReplicaInvStep, PTL DEF Spec

\* get_route on a replica never refills the cache with rows older than an
\* invalidation that has run, whatever members lag, fail or rejoin.
THEOREM RefillsFresh == Spec => []RefillFresh
<1>1. ReplicaInv => RefillFresh
  BY DEF ReplicaInv
<1> QED
  BY <1>1, Invariance, PTL

-----------------------------------------------------------------------------
(* The refinement.                                                         *)

\* A request that moves on does so for a client of one database.
LEMMA ViewMoves ==
  ASSUME TypeOK, NEW c \in Clients, NEW s, Set(c, s)
  PROVE  /\ Views' = [Views EXCEPT ![c] = View(s)]
         /\ Views[c] = View(client[c])
  BY DEF TypeOK, Set, Views, View

\* What one database knows of a request.
Pcs == {"idle", "open", "reading", "read", "committing", "acknowledged"}

Known == [pc : Pcs, tx : BOOLEAN, wrote : BOOLEAN, since : Nat,
          value : Nat \cup {Own}]

\* The fields of a client as OneDatabase sees it.
LEMMA ViewFields ==
  ASSUME NEW x \in Session
  PROVE  /\ View(x) \in Known
         /\ View(x).pc = x.pc /\ View(x).tx = x.tx
         /\ View(x).wrote = x.wrote /\ View(x).since = x.since
         /\ View(x).value = x.value
  BY DEF View, Session, Known, Pcs

\* A view is its five fields.
LEMMA SameView ==
  ASSUME NEW y \in Known, NEW z \in Known,
         y.pc = z.pc, y.tx = z.tx, y.wrote = z.wrote, y.since = z.since,
         y.value = z.value
  PROVE  y = z
  BY DEF Known

\* The changes a request makes to itself, as one database makes them.
LEMMA ViewPc ==
  ASSUME NEW x \in Session, NEW p \in Pcs
  PROVE  View([x EXCEPT !.pc = p]) =
           [View(x) EXCEPT !.pc = p]
<1> DEFINE s == [x EXCEPT !.pc = p]
           y == [View(x) EXCEPT !.pc = p]
<1>1. /\ s \in Session
      /\ s.pc = p /\ s.tx = x.tx /\ s.wrote = x.wrote
      /\ s.since = x.since /\ s.value = x.value
  BY DEF Session, Pcs
<1>2. /\ y \in Known
      /\ y.pc = p /\ y.tx = x.tx /\ y.wrote = x.wrote
      /\ y.since = x.since /\ y.value = x.value
  BY ViewFields DEF Session, Known
<1> HIDE DEF s, y
<1>3. View(s) = y
  BY <1>1, <1>2, ViewFields, SameView
<1> QED
  BY <1>3 DEF s, y

\* A commit moves pc and the time it waits for.
LEMMA ViewCommit ==
  ASSUME NEW x \in Session, NEW p \in Pcs, NEW n \in Nat
  PROVE  View([x EXCEPT !.pc = p, !.since = n]) =
           [View(x) EXCEPT !.pc = p, !.since = n]
<1> DEFINE s == [x EXCEPT !.pc = p, !.since = n]
           y == [View(x) EXCEPT !.pc = p, !.since = n]
<1>1. /\ s \in Session
      /\ s.pc = p /\ s.tx = x.tx /\ s.wrote = x.wrote
      /\ s.since = n /\ s.value = x.value
  BY DEF Session, Pcs
<1>2. /\ y \in Known
      /\ y.pc = p /\ y.tx = x.tx /\ y.wrote = x.wrote
      /\ y.since = n /\ y.value = x.value
  BY ViewFields DEF Session, Known
<1> HIDE DEF s, y
<1>3. View(s) = y
  BY <1>1, <1>2, ViewFields, SameView
<1> QED
  BY <1>3 DEF s, y

\* A read returns a value and moves pc.
LEMMA ViewReturn ==
  ASSUME NEW x \in Session, NEW p \in Pcs, NEW v \in Nat \cup {Own}
  PROVE  View([x EXCEPT !.pc = p, !.value = v]) =
           [View(x) EXCEPT !.value = v, !.pc = p]
<1> DEFINE s == [x EXCEPT !.pc = p, !.value = v]
           y == [View(x) EXCEPT !.value = v, !.pc = p]
<1>1. /\ s \in Session
      /\ s.pc = p /\ s.tx = x.tx /\ s.wrote = x.wrote
      /\ s.since = x.since /\ s.value = v
  BY DEF Session, Pcs
<1>2. /\ y \in Known
      /\ y.pc = p /\ y.tx = x.tx /\ y.wrote = x.wrote
      /\ y.since = x.since /\ y.value = v
  BY ViewFields DEF Session, Known
<1> HIDE DEF s, y
<1>3. View(s) = y
  BY <1>1, <1>2, ViewFields, SameView
<1> QED
  BY <1>3 DEF s, y

\* A write is seen, the member it is made on is not.
LEMMA ViewWrite ==
  ASSUME NEW x \in Session, NEW m \in Members \cup {None}
  PROVE  View([x EXCEPT !.wrote = TRUE, !.at = m]) =
           [View(x) EXCEPT !.wrote = TRUE]
<1> DEFINE s == [x EXCEPT !.wrote = TRUE, !.at = m]
           y == [View(x) EXCEPT !.wrote = TRUE]
<1>1. /\ s \in Session
      /\ s.pc = x.pc /\ s.tx = x.tx /\ s.wrote
      /\ s.since = x.since /\ s.value = x.value
  BY DEF Session
<1>2. /\ View(x) \in Known
      /\ View(x).pc = x.pc /\ View(x).tx = x.tx
      /\ View(x).since = x.since /\ View(x).value = x.value
  BY ViewFields
<1>3. /\ y \in Known
      /\ y.pc = View(x).pc /\ y.tx = View(x).tx /\ y.wrote
      /\ y.since = View(x).since /\ y.value = View(x).value
  BY <1>2 DEF Known
<1> HIDE DEF s, y
<1>4. /\ View(s) \in Known /\ View(s).pc = y.pc /\ View(s).tx = y.tx
      /\ View(s).since = y.since /\ View(s).value = y.value
  BY <1>1, <1>2, <1>3, ViewFields
<1>5. View(s).wrote = y.wrote
  BY <1>1, <1>3, ViewFields DEF Known
<1>6. View(s) = y
  BY <1>3, <1>4, <1>5, SameView
<1> QED
  BY <1>6 DEF s, y

\* A client of one database knows of a request that is over what it knows
\* of one that never began.
LEMMA IdleView == View(Idle) = One!Idle
  BY DEF View, Idle, One!Idle

\* A request that ends, ends for a client of one database.
LEMMA EndMaps ==
  ASSUME TypeOK, NEW c \in Clients, Set(c, Idle), UNCHANGED log
  PROVE  One!Next
<1>1. Views' = [d \in Clients |-> IF d \in {c} THEN One!Idle ELSE Views[d]]
  BY ViewMoves, IdleView DEF Views
<1>2. One!End({c})
  BY <1>1 DEF One!End
<1> QED
  BY <1>2 DEF One!Next

\* The read of a member that has caught up is one of the single database:
\* its version was current at some time since the read began.
LEMMA ReturnMaps ==
  ASSUME ReplicaInv, NEW c \in Clients, Return(c)
  PROVE  One!Return(c)
<1>0. /\ TypeOK /\ client[c] \in Session /\ log \in Nat
      /\ client[c].pc = "reading"
      /\ client[c].at \in Members
      /\ client[c].wrote => client[c].at = primary
      /\ applied[client[c].at] <= log
  BY DEF Return, ReplicaInv, TypeOK, BlocksOnPrimary, WithinLog
<1> DEFINE v == IF client[c].wrote /\ client[c].at = primary THEN Own
                ELSE applied[client[c].at]
           pc == IF client[c].tx THEN "open" ELSE "read"
           s == [client[c] EXCEPT !.pc = pc, !.value = v]
<1>1. applied[client[c].at] \in Nat /\ applied[client[c].at] >= client[c].since
  BY <1>0 DEF Return, Consistency, TypeOK
<1>2. v \in IF client[c].wrote THEN {Own} ELSE client[c].since .. log
  BY <1>0, <1>1 DEF Session
<1>p. pc \in Pcs /\ v \in Nat \cup {Own}
  BY <1>1 DEF Pcs
<1>3. Views' = [Views EXCEPT ![c] = View(s)] /\ Views[c] = View(client[c])
  BY <1>0, ViewMoves DEF Return
<1>s. View(s) = [View(client[c]) EXCEPT !.value = v, !.pc = pc]
  <2> HIDE DEF v, pc
  <2> QED
    BY <1>0, <1>p, ViewReturn
<1>4. /\ View(client[c]).wrote = client[c].wrote
      /\ View(client[c]).since = client[c].since
      /\ View(client[c]).tx = client[c].tx
      /\ View(client[c]).pc = client[c].pc
  BY <1>0, ViewFields
<1>5. UNCHANGED log
  BY DEF Return, groupVars
<1> HIDE DEF s, v
<1> QED
  BY <1>0, <1>2, <1>3, <1>4, <1>5, <1>s DEF One!Return, One!Goes, One!Set

\* Every step of the cluster and its requests is a step of one database, or
\* none.
LEMMA StepMaps ==
  ASSUME ReplicaInv, [Next]_vars
  PROVE  [One!Next]_<<log, Views>>
<1>0. TypeOK
  BY DEF ReplicaInv
<1>t. \A c \in Clients : client[c] \in Session
  BY <1>0 DEF TypeOK
<1> USE DEF One!Next, One!Goes, One!Set
<1>1. ASSUME NEW c \in Clients, Begin(c) PROVE One!Begin(c)
  <2> DEFINE s == [Idle EXCEPT !.pc = "open", !.tx = TRUE]
  <2>1. Views' = [Views EXCEPT ![c] = View(s)] /\ Views[c] = View(client[c])
    BY <1>0, <1>1, ViewMoves DEF Begin
  <2>2. View(s) = [One!Idle EXCEPT !.pc = "open", !.tx = TRUE]
    <3>1. /\ s \in Session /\ s.pc = "open" /\ s.tx = TRUE
          /\ s.wrote = FALSE /\ s.since = 0 /\ s.value = 0
      BY DEF Session, Idle
    <3> DEFINE y == [One!Idle EXCEPT !.pc = "open", !.tx = TRUE]
    <3>2. /\ y \in Known /\ y.pc = "open" /\ y.tx = TRUE
          /\ y.wrote = FALSE /\ y.since = 0 /\ y.value = 0
      BY DEF Known, Pcs, One!Idle
    <3> HIDE DEF s, y
    <3>3. /\ View(s).pc = y.pc /\ View(s).tx = y.tx /\ View(s).wrote = y.wrote
          /\ View(s).since = y.since /\ View(s).value = y.value
      BY <3>1, <3>2, ViewFields
    <3>4. View(s) = y
      BY <3>1, <3>2, <3>3, ViewFields, SameView
    <3> QED
      BY <3>4 DEF y
  <2> HIDE DEF s
  <2> QED
    BY <1>t, ViewFields, <1>1, <2>1, <2>2 DEF Begin, One!Begin, groupVars
<1>2. ASSUME NEW c \in Clients, Write(c) PROVE One!Write(c)
  <2>1. PICK m \in Members : Set(c, [client[c] EXCEPT !.wrote = TRUE, !.at = m])
    BY <1>0, <1>2 DEF Write, Connect, TypeOK
  <2> DEFINE s == [client[c] EXCEPT !.wrote = TRUE, !.at = m]
  <2>2. Views' = [Views EXCEPT ![c] = View(s)] /\ Views[c] = View(client[c])
    BY <1>0, <2>1, ViewMoves
  <2>3. View(s) = [View(client[c]) EXCEPT !.wrote = TRUE]
    BY <1>0, <1>t, ViewWrite DEF Pcs, TypeOK
  <2> HIDE DEF s
  <2> QED
    BY <1>t, ViewFields, <1>2, <2>2, <2>3 DEF Write, One!Write, groupVars
<1>3. ASSUME NEW c \in Clients, Read(c) PROVE One!Read(c)
  <2>1. PICK m \in Members :
          Set(c, [client[c] EXCEPT !.pc = "reading", !.since = log,
                    !.at = m, !.gen = gen])
    BY <1>0, <1>3 DEF Read, Connect, TypeOK
  <2> DEFINE s == [client[c] EXCEPT !.pc = "reading", !.since = log,
                     !.at = m, !.gen = gen]
  <2>2. Views' = [Views EXCEPT ![c] = View(s)] /\ Views[c] = View(client[c])
    BY <1>0, <2>1, ViewMoves
  <2>3. View(s) = [View(client[c]) EXCEPT !.pc = "reading", !.since = log]
    <3> DEFINE y == [View(client[c]) EXCEPT !.pc = "reading", !.since = log]
    <3>1. /\ s \in Session /\ s.pc = "reading" /\ s.since = log
          /\ s.tx = client[c].tx /\ s.wrote = client[c].wrote
          /\ s.value = client[c].value
      BY <1>0, <1>t DEF Session, TypeOK
    <3>2. /\ y \in Known /\ y.pc = "reading" /\ y.since = log
          /\ y.tx = client[c].tx /\ y.wrote = client[c].wrote
          /\ y.value = client[c].value
      BY <1>0, <1>t, ViewFields DEF Known, Pcs, TypeOK
    <3> HIDE DEF s, y
    <3>3. View(s) = y
      BY <3>1, <3>2, ViewFields, SameView
    <3> QED
      BY <3>3 DEF y
  <2> HIDE DEF s
  <2> QED
    BY <1>t, ViewFields, <1>3, <2>2, <2>3 DEF Read, One!Read, groupVars
<1>4. ASSUME NEW c \in Clients, Commit(c) PROVE One!Commit(c)
  <2> DEFINE s == [client[c] EXCEPT !.pc = "committing", !.since = log']
  <2>0. log' \in Nat
    BY <1>0, <1>4 DEF Commit, TypeOK
  <2>1. Views' = [Views EXCEPT ![c] = View(s)] /\ Views[c] = View(client[c])
    BY <1>0, <1>4, ViewMoves DEF Commit
  <2>2. View(s) = [View(client[c]) EXCEPT !.pc = "committing", !.since = log']
    BY <1>0, <1>t, <2>0, ViewCommit DEF Pcs
  <2> HIDE DEF s
  <2> QED
    BY <1>t, ViewFields, <1>4, <2>1, <2>2 DEF Commit, One!Commit
<1>5. ASSUME NEW c \in Clients, Acknowledge(c) PROVE One!Acknowledge(c)
  <2> DEFINE s == [client[c] EXCEPT !.pc = "acknowledged"]
  <2>1. Views' = [Views EXCEPT ![c] = View(s)] /\ Views[c] = View(client[c])
    BY <1>0, <1>5, ViewMoves DEF Acknowledge
  <2>2. View(s) = [View(client[c]) EXCEPT !.pc = "acknowledged"]
    BY <1>0, <1>t, ViewPc DEF Pcs, TypeOK
  <2> HIDE DEF s
  <2> QED
    BY <1>t, ViewFields, <1>5, <2>1, <2>2 DEF Acknowledge, One!Acknowledge, groupVars
<1>6. ASSUME NEW c \in Clients, Publish(c) \/ OnCommit(c) \/ Rollback(c)
      PROVE  One!Next
  BY <1>0, <1>6, EndMaps DEF Publish, OnCommit, Rollback, groupVars
<1>7. ASSUME NEW m \in Members, Apply(m) \/ Rejoin(m)
      PROVE  UNCHANGED <<log, Views>>
  BY <1>7 DEF Apply, Rejoin, Views
<1>8. ASSUME NEW m \in Members, Fail(m) PROVE One!Next
  <2>1. client' = [c \in Clients |-> IF c \in Cut(m) THEN Idle ELSE client[c]]
    BY <1>8 DEF Fail, Cut
  <2>2. Views' = [c \in Clients |-> IF c \in Cut(m) THEN One!Idle ELSE Views[c]]
    BY <2>1, IdleView DEF Views
  <2>3. One!End(Cut(m)) /\ Cut(m) \in SUBSET Clients
    BY <1>8, <2>2 DEF One!End, Fail, Cut
  <2> QED
    BY <2>3
<1>9. CASE UNCHANGED vars
  BY <1>9 DEF vars, groupVars, Views
<1> QED
  BY <1>1, <1>2, <1>3, <1>4, <1>5, <1>6, <1>7, <1>8, <1>9, ReturnMaps DEF Next

\* The cluster starts as one database does.
LEMMA InitMaps == Init => One!Init
  BY IdleView DEF Init, One!Init, Views

\* The cluster behind PrimaryReplicaRouter's two aliases implements a single
\* database: reads wait for what was ordered before them, blocks read their
\* own writes, and failures look like requests that end.
THEOREM Refinement == Spec => ImplementsOneDatabase
<1>1. ReplicaInv /\ [Next]_vars => [One!Next]_(One!oneVars)
  BY StepMaps DEF One!oneVars
<1> QED
  BY <1>1, Invariance, InitMaps, PTL DEF Spec, ImplementsOneDatabase, One!Spec
=============================================================================
