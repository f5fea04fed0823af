---------------------------- MODULE ApiKeysProofs ---------------------------
(***************************************************************************)
(* Proofs about ApiKeys, for every number of applications, keys and        *)
(* concurrent staff requests.                                              *)
(***************************************************************************)
EXTENDS ApiKeys, TLAPS

\* What a staff request carries at each of its steps.
LEMMA RequestFields ==
  ASSUME TypeOK, NEW s \in Staff
  PROVE  /\ req[s].pc = "issue" => req[s].app \in Apps
         /\ req[s].pc = "insert" => req[s].app \in Apps /\ req[s].key \in RawKeys
         /\ req[s].pc = "revoke" => req[s].row \in Rows /\ req[s].seen \in RawKeys
  BY DEF TypeOK, Request

\* The state between two staff requests has the type of a request.
LEMMA IdleTyped == Idle \in Request
  BY DEF Idle, Request

\* What an INSERT writes (create_for_application).
LEMMA NewRowTyped ==
  ASSUME NEW a \in Apps, NEW k \in RawKeys
  PROVE  /\ NewRow(a, k) \in KeyRow
         /\ NewRow(a, k).app = a /\ NewRow(a, k).key = k
  BY DEF NewRow, KeyRow

\* What a rotation keeps of the row it overwrites.
LEMMA RotatedTyped ==
  ASSUME NEW row \in KeyRow, NEW k \in RawKeys
  PROVE  /\ Rotated(row, k) \in KeyRow
         /\ Rotated(row, k).app = row.app /\ Rotated(row, k).key = k
  BY DEF Rotated, KeyRow

\* What revoke() keeps of the row it marks.
LEMMA RevokedTyped ==
  ASSUME NEW row \in KeyRow
  PROVE  /\ Revoked(row) \in KeyRow
         /\ Revoked(row).app = row.app /\ Revoked(row).key = row.key
         /\ Revoked(row).expired = row.expired /\ Revoked(row).revoked
  BY DEF Revoked, KeyRow

\* The invariant holds before any application exists.
LEMMA KeyInvInit == Init => KeyInv
  BY IdleTyped DEF Init, KeyInv, TypeOK, AppsExist, OneKeyPerApp, KeysDistinct, Holds,
                   PendingFresh, SeenElsewhere, UsableLive, Idle

\* A row gets key k, which no row holds and no other request carries.
LEMMA PutKey ==
  ASSUME KeyInv, NEW a \in Apps, NEW k \in RawKeys, NEW r \in Rows,
         NEW row \in KeyRow, row.app = a, row.key = k,
         RowOf(a) \subseteq {r}, rows[r] # None => rows[r].app = a,
         \A q \in Rows : ~Holds(q, k),
         \A z \in Staff : req'[z].pc = "insert" =>
           req[z].pc = "insert" /\ req'[z] = req[z] /\ req[z].key # k,
         \A z \in Staff : req'[z].pc = "revoke" =>
           req[z].pc = "revoke" /\ req'[z] = req[z] /\ req[z].seen # k,
         rows' = [rows EXCEPT ![r] = row],
         generated' = generated \cup {k},
         \A q \in Rows \ {r} : rows[q] # None /\ rows[q].key \in live =>
           rows[q].key \in live',
         k \in live'
  PROVE  /\ OneKeyPerApp' /\ KeysDistinct' /\ PendingFresh'
         /\ SeenElsewhere' /\ UsableLive'
<1>1. /\ TypeOK /\ OneKeyPerApp /\ KeysDistinct /\ PendingFresh
      /\ SeenElsewhere /\ UsableLive
  BY DEF KeyInv
<1>2. /\ rows'[r] = row /\ row # None
      /\ \A q \in Rows \ {r} : rows'[q] = rows[q]
      /\ \A q \in Rows : rows[q] # None => rows[q].key \in RawKeys
  BY <1>1, NoneAssumption DEF TypeOK, KeyRow
<1>3. OneKeyPerApp'
  BY <1>1, <1>2 DEF OneKeyPerApp, RowOf
<1>4. KeysDistinct'
  BY <1>1, <1>2 DEF KeysDistinct, Holds
<1>5. PendingFresh'
  BY <1>1, <1>2, RequestFields DEF PendingFresh, Holds
<1>6. SeenElsewhere'
  BY <1>1, <1>2, RequestFields DEF SeenElsewhere, Holds
<1>7. UsableLive'
  BY <1>1, <1>2 DEF UsableLive
<1> QED
  BY <1>3, <1>4, <1>5, <1>6, <1>7

\* Every step of every staff request preserves the invariant.
LEMMA KeyInvStep == KeyInv /\ [Next]_vars => KeyInv'
<1> SUFFICES ASSUME KeyInv, [Next]_vars PROVE KeyInv'
  OBVIOUS
<1>0. /\ TypeOK /\ AppsExist /\ OneKeyPerApp /\ KeysDistinct
      /\ PendingFresh /\ SeenElsewhere /\ UsableLive
  BY DEF KeyInv
<1>a. ASSUME UNCHANGED <<rows, live>>
      PROVE  OneKeyPerApp' /\ UsableLive'
  BY <1>0, <1>a DEF OneKeyPerApp, UsableLive
<1>b. ASSUME NEW s \in Staff, UNCHANGED <<rows, generated>>,
             req' = [req EXCEPT ![s] = req'[s]],
             req'[s].pc \notin {"insert", "revoke"}
      PROVE  KeysDistinct' /\ PendingFresh' /\ SeenElsewhere'
  <2>1. \A z \in Staff \ {s} : req'[z] = req[z]
    BY <1>0, <1>b DEF TypeOK
  <2> QED
    BY <1>0, <1>b, <2>1 DEF KeysDistinct, PendingFresh, SeenElsewhere, Holds
<1>c. ASSUME NEW k \in RawKeys \ generated
      PROVE  /\ \A r \in Rows : ~Holds(r, k)
             /\ \A z \in Staff : req[z].pc = "insert" => req[z].key # k
             /\ \A z \in Staff : req[z].pc = "revoke" => req[z].seen # k
  BY <1>0, <1>c DEF KeysDistinct, PendingFresh, SeenElsewhere
<1>1. ASSUME NEW s \in Staff, CreateApplication(s) PROVE KeyInv'
  <2>1. PICK a \in Apps, active \in BOOLEAN, k \in RawKeys \ generated :
          /\ apps[a] = None
          /\ apps' = [apps EXCEPT ![a] = active]
          /\ generated' = generated \cup {k}
          /\ InsertKey(a, k)
          /\ UNCHANGED req
    BY <1>1 DEF CreateApplication
  <2>2. PICK r \in Rows :
          /\ rows[r] = None
          /\ rows' = [rows EXCEPT ![r] = NewRow(a, k)]
          /\ live' = live \cup {k}
    BY <2>1 DEF InsertKey
  <2>3. NewRow(a, k) \in KeyRow /\ NewRow(a, k).app = a /\ NewRow(a, k).key = k
    BY NewRowTyped
  <2>4. RowOf(a) = {}
    BY <1>0, <2>1 DEF AppsExist, RowOf
  <2>5. /\ OneKeyPerApp' /\ KeysDistinct' /\ PendingFresh'
        /\ SeenElsewhere' /\ UsableLive'
    BY <1>c, <2>1, <2>2, <2>3, <2>4, PutKey
  <2>6. TypeOK'
    BY <1>0, <2>1, <2>2, <2>3 DEF TypeOK
  <2>7. AppsExist'
    BY <1>0, <2>1, <2>2, <2>3, NoneAssumption DEF AppsExist, TypeOK, KeyRow
  <2> QED
    BY <2>5, <2>6, <2>7 DEF KeyInv
<1>2. ASSUME NEW s \in Staff, CreateDefaultApplication(s) PROVE KeyInv'
  <2>1. PICK a \in Apps :
          /\ apps' = [apps EXCEPT ![a] = TRUE]
          /\ req' = [req EXCEPT ![s] = [pc |-> "issue", app |-> a]]
          /\ UNCHANGED <<rows, generated, live>>
    BY <1>2 DEF CreateDefaultApplication
  <2>2. TypeOK'
    BY <1>0, <2>1 DEF TypeOK, Request
  <2>3. AppsExist'
    <3>1. \A b \in Apps : apps[b] # None \/ b = a => apps'[b] # None
      BY <1>0, <2>1, NoneAssumption DEF TypeOK
    <3>2. /\ req'[s] = [pc |-> "issue", app |-> a]
          /\ \A z \in Staff \ {s} : req'[z] = req[z]
      BY <1>0, <2>1 DEF TypeOK
    <3>3. \A r \in Rows : rows[r] # None => rows[r].app \in Apps
      BY <1>0 DEF TypeOK, KeyRow
    <3>4. \A z \in Staff : req[z].pc \in {"issue", "insert"} =>
            req[z].app \in Apps
      BY <1>0, RequestFields
    <3>5. \A r \in Rows : rows'[r] # None => apps'[rows'[r].app] # None
      BY <1>0, <2>1, <3>1, <3>3 DEF AppsExist
    <3>6. \A z \in Staff \ {s} :
            req'[z].pc \in {"issue", "insert"} => apps'[req'[z].app] # None
      BY <1>0, <3>1, <3>2, <3>4 DEF AppsExist
    <3>7. apps'[req'[s].app] # None
      BY <3>1, <3>2
    <3> QED
      BY <3>5, <3>6, <3>7 DEF AppsExist
  <2>4. KeysDistinct' /\ PendingFresh' /\ SeenElsewhere'
    BY <1>0, <1>b, <2>1 DEF TypeOK
  <2> QED
    BY <1>a, <2>1, <2>2, <2>3, <2>4 DEF KeyInv
<1>3. ASSUME NEW s \in Staff, RequestKey(s) PROVE KeyInv'
  <2>1. PICK a \in Apps :
          /\ apps[a] # None
          /\ req' = [req EXCEPT ![s] = [pc |-> "issue", app |-> a]]
          /\ UNCHANGED <<apps, rows, generated, live>>
    BY <1>3 DEF RequestKey
  <2>2. TypeOK'
    BY <1>0, <2>1 DEF TypeOK, Request
  <2>3. AppsExist'
    BY <1>0, <2>1 DEF AppsExist, TypeOK
  <2>4. KeysDistinct' /\ PendingFresh' /\ SeenElsewhere'
    BY <1>0, <1>b, <2>1 DEF TypeOK
  <2> QED
    BY <1>a, <2>1, <2>2, <2>3, <2>4 DEF KeyInv
<1>4. ASSUME NEW s \in Staff, req[s].pc = "issue", Rotate(s) PROVE KeyInv'
  <2>1. PICK r \in RowOf(req[s].app), k \in RawKeys \ generated :
          /\ generated' = generated \cup {k}
          /\ rows' = [rows EXCEPT ![r] = Rotated(rows[r], k)]
          /\ live' = (live \ {rows[r].key}) \cup {k}
          /\ req' = [req EXCEPT ![s] = Idle]
          /\ UNCHANGED apps
    BY <1>4 DEF Rotate
  <2>2. /\ r \in Rows /\ rows[r] \in KeyRow /\ rows[r] # None
        /\ rows[r].app = req[s].app /\ req[s].app \in Apps
    BY <1>0, <1>4, <2>1, RequestFields DEF RowOf, TypeOK
  <2>3. /\ Rotated(rows[r], k) \in KeyRow
        /\ Rotated(rows[r], k).app = req[s].app
        /\ Rotated(rows[r], k).key = k
    BY <2>2, RotatedTyped
  <2>4. RowOf(req[s].app) \subseteq {r}
    BY <1>0, <2>1, <2>2 DEF OneKeyPerApp, RowOf
  <2>5. \A q \in Rows \ {r} : rows[q] # None => rows[q].key # rows[r].key
    BY <1>0, <2>2 DEF KeysDistinct, Holds, TypeOK, KeyRow
  <2>6. \A z \in Staff : req'[z] = req[z] \/ req'[z].pc = "idle"
    BY <1>0, <2>1 DEF TypeOK, Idle
  <2>7. /\ OneKeyPerApp' /\ KeysDistinct' /\ PendingFresh'
        /\ SeenElsewhere' /\ UsableLive'
    <3>1. /\ \A z \in Staff : req'[z].pc = "insert" =>
               req[z].pc = "insert" /\ req'[z] = req[z] /\ req[z].key # k
          /\ \A z \in Staff : req'[z].pc = "revoke" =>
               req[z].pc = "revoke" /\ req'[z] = req[z] /\ req[z].seen # k
      BY <1>c, <2>6
    <3>2. /\ \A q \in Rows : ~Holds(q, k)
          /\ k \in live'
          /\ \A q \in Rows \ {r} : rows[q] # None /\ rows[q].key \in live =>
               rows[q].key \in live'
      BY <1>c, <2>1, <2>5
    <3> QED
      BY <2>1, <2>2, <2>3, <2>4, <3>1, <3>2, PutKey
  <2>8. TypeOK'
    BY <1>0, <2>1, <2>2, <2>3, IdleTyped DEF TypeOK
  <2>9. AppsExist'
    BY <1>0, <2>1, <2>2, <2>3, <2>6 DEF AppsExist, TypeOK
  <2> QED
    BY <2>7, <2>8, <2>9 DEF KeyInv
<1>5. ASSUME NEW s \in Staff, req[s].pc = "issue", FindNoKey(s) PROVE KeyInv'
  <2>1. PICK k \in RawKeys \ generated :
          /\ generated' = generated \cup {k}
          /\ req' = [req EXCEPT ![s] =
               [pc |-> "insert", app |-> req[s].app, key |-> k]]
          /\ UNCHANGED <<apps, rows, live>>
    BY <1>5 DEF FindNoKey
  <2>2. /\ req'[s] = [pc |-> "insert", app |-> req[s].app, key |-> k]
        /\ \A z \in Staff \ {s} : req'[z] = req[z]
    BY <1>0, <2>1 DEF TypeOK
  <2>3. TypeOK'
    BY <1>0, <1>5, <2>1, RequestFields DEF TypeOK, Request
  <2>4. AppsExist'
    BY <1>0, <1>5, <2>1, <2>2 DEF AppsExist
  <2>5. KeysDistinct' /\ SeenElsewhere'
    BY <1>0, <2>1, <2>2 DEF KeysDistinct, SeenElsewhere, Holds
  <2>6. PendingFresh'
    BY <1>0, <1>c, <2>1, <2>2 DEF PendingFresh, Holds
  <2> QED
    BY <1>a, <2>1, <2>3, <2>4, <2>5, <2>6 DEF KeyInv
<1>6. ASSUME NEW s \in Staff, IssueFirst(s) PROVE KeyInv'
  <2>1. /\ req[s].pc = "insert" /\ req[s].app \in Apps /\ req[s].key \in RawKeys
        /\ req' = [req EXCEPT ![s] = Idle] /\ req'[s].pc = "idle"
        /\ \A z \in Staff \ {s} : req'[z] = req[z]
        /\ UNCHANGED <<apps, generated>>
    BY <1>0, <1>6, RequestFields DEF IssueFirst, TypeOK, Idle
  <2>2. CASE UNCHANGED <<rows, live>>
    <3>1. TypeOK'
      BY <1>0, <2>1, <2>2, IdleTyped DEF TypeOK
    <3>2. AppsExist'
      BY <1>0, <2>1, <2>2 DEF AppsExist
    <3>3. KeysDistinct' /\ PendingFresh' /\ SeenElsewhere'
      BY <1>b, <2>1, <2>2
    <3> QED
      BY <1>a, <2>2, <3>1, <3>2, <3>3 DEF KeyInv
  <2>3. CASE RowOf(req[s].app) = {} /\ InsertKey(req[s].app, req[s].key)
    <3> DEFINE a == req[s].app
               k == req[s].key
    <3>1. PICK r \in Rows :
            /\ rows[r] = None
            /\ rows' = [rows EXCEPT ![r] = NewRow(a, k)]
            /\ live' = live \cup {k}
      BY <2>3 DEF InsertKey
    <3>2. NewRow(a, k) \in KeyRow /\ NewRow(a, k).app = a /\ NewRow(a, k).key = k
      BY <2>1, NewRowTyped
    <3>3. /\ k \in generated
          /\ \A q \in Rows : ~Holds(q, k)
          /\ \A z \in Staff \ {s} :
               /\ req[z].pc = "insert" => req[z].key # k
               /\ req[z].pc = "revoke" => req[z].seen # k
      BY <1>0, <2>1 DEF PendingFresh
    <3>4. generated' = generated \cup {k}
      BY <2>1, <3>3
    <3>5. /\ OneKeyPerApp' /\ KeysDistinct' /\ PendingFresh'
          /\ SeenElsewhere' /\ UsableLive'
      <4>1. /\ \A z \in Staff : req'[z].pc = "insert" =>
                 req[z].pc = "insert" /\ req'[z] = req[z] /\ req[z].key # k
            /\ \A z \in Staff : req'[z].pc = "revoke" =>
                 req[z].pc = "revoke" /\ req'[z] = req[z] /\ req[z].seen # k
        BY <2>1, <3>3
      <4> QED
        BY <2>1, <2>3, <3>1, <3>2, <3>3, <3>4, <4>1, PutKey
    <3>6. TypeOK'
      BY <1>0, <2>1, <3>1, <3>2, IdleTyped DEF TypeOK
    <3>7. AppsExist'
      BY <1>0, <2>1, <3>1, <3>2 DEF AppsExist, TypeOK
    <3> QED
      BY <3>5, <3>6, <3>7 DEF KeyInv
  <2> QED
    BY <1>6, <2>2, <2>3 DEF IssueFirst, InsertFirst
<1>7. ASSUME NEW s \in Staff, RevokeRead(s) PROVE KeyInv'
  <2>1. PICK r \in Rows :
          /\ rows[r] # None
          /\ req' = [req EXCEPT ![s] =
               [pc |-> "revoke", row |-> r, seen |-> rows[r].key]]
          /\ UNCHANGED <<apps, rows, generated, live>>
    BY <1>7 DEF RevokeRead
  <2>2. /\ req'[s] = [pc |-> "revoke", row |-> r, seen |-> rows[r].key]
        /\ \A z \in Staff \ {s} : req'[z] = req[z]
        /\ rows[r].key \in RawKeys /\ Holds(r, rows[r].key)
    BY <1>0, <2>1 DEF TypeOK, KeyRow, Holds
  <2>3. TypeOK'
    BY <1>0, <2>1, <2>2 DEF TypeOK, Request
  <2>4. AppsExist'
    BY <1>0, <2>1, <2>2 DEF AppsExist
  <2>5. KeysDistinct' /\ SeenElsewhere'
    BY <1>0, <2>1, <2>2 DEF KeysDistinct, SeenElsewhere, Holds
  <2>6. PendingFresh'
    BY <1>0, <2>1, <2>2 DEF PendingFresh, Holds
  <2> QED
    BY <1>a, <2>1, <2>3, <2>4, <2>5, <2>6 DEF KeyInv
<1>8. ASSUME NEW s \in Staff, RevokeSave(s) PROVE KeyInv'
  <2> DEFINE r == req[s].row
             seen == req[s].seen
  <2>1. /\ r \in Rows /\ seen \in RawKeys /\ rows[r] # None
        /\ rows[r] \in KeyRow
        /\ rows' = [rows EXCEPT ![r] = Revoked(rows[r])]
        /\ live' = live \ {seen}
        /\ req' = [req EXCEPT ![s] = Idle]
        /\ UNCHANGED <<apps, generated>>
    BY <1>0, <1>8, RequestFields DEF RevokeSave, SeenElsewhere, TypeOK
  <2>2. /\ rows'[r] \in KeyRow /\ rows'[r] # None
        /\ rows'[r].app = rows[r].app /\ rows'[r].key = rows[r].key
        /\ rows'[r].revoked
        /\ \A q \in Rows \ {r} : rows'[q] = rows[q]
    BY <1>0, <2>1, RevokedTyped, NoneAssumption DEF TypeOK
  <2>3. req'[s].pc = "idle" /\ \A z \in Staff \ {s} : req'[z] = req[z]
    BY <1>0, <2>1 DEF TypeOK, Idle
  <2>4. \A q \in Rows, k \in RawKeys : Holds(q, k)' <=> Holds(q, k)
    BY <2>1, <2>2 DEF Holds
  <2>5. TypeOK'
    BY <1>0, <2>1, <2>2, IdleTyped DEF TypeOK
  <2>6. AppsExist' /\ OneKeyPerApp'
    BY <1>0, <2>1, <2>2, <2>3 DEF AppsExist, OneKeyPerApp
  <2>7. KeysDistinct'
    BY <1>0, <2>1, <2>4 DEF KeysDistinct
  <2>8. PendingFresh' /\ SeenElsewhere'
    BY <1>0, <2>1, <2>2, <2>3, <2>4, RequestFields
      DEF PendingFresh, SeenElsewhere
  <2>9. UsableLive'
    BY <1>0, <1>8, <2>1, <2>2 DEF UsableLive, SeenElsewhere, Holds, RevokeSave
  <2> QED
    BY <2>5, <2>6, <2>7, <2>8, <2>9 DEF KeyInv
<1>9. ASSUME NEW s \in Staff, Abandon(s) PROVE KeyInv'
  <2>1. /\ req' = [req EXCEPT ![s] = Idle] /\ req'[s].pc = "idle"
        /\ \A z \in Staff \ {s} : req'[z] = req[z]
        /\ UNCHANGED <<apps, rows, generated, live>>
    BY <1>0, <1>9 DEF Abandon, TypeOK, Idle
  <2>2. TypeOK' /\ AppsExist'
    BY <1>0, <2>1, IdleTyped DEF TypeOK, AppsExist
  <2>3. KeysDistinct' /\ PendingFresh' /\ SeenElsewhere'
    BY <1>b, <2>1
  <2> QED
    BY <1>a, <2>1, <2>2, <2>3 DEF KeyInv
<1>10. ASSUME NEW r \in Rows, Expire(r) PROVE KeyInv'
  <2>1. /\ rows[r] # None /\ rows[r] \in KeyRow
        /\ rows' = [rows EXCEPT ![r].expired = TRUE]
        /\ live' = live \ {rows[r].key}
        /\ UNCHANGED <<apps, generated, req>>
    BY <1>0, <1>10 DEF Expire, TypeOK
  <2>2. /\ rows'[r] \in KeyRow /\ rows'[r] # None
        /\ rows'[r].app = rows[r].app /\ rows'[r].key = rows[r].key
        /\ rows'[r].expired
        /\ \A q \in Rows \ {r} : rows'[q] = rows[q]
    BY <1>0, <2>1, NoneAssumption DEF TypeOK, KeyRow
  <2>3. \A q \in Rows, k \in RawKeys : Holds(q, k)' <=> Holds(q, k)
    BY <2>1, <2>2 DEF Holds
  <2>4. TypeOK'
    BY <1>0, <2>1, <2>2 DEF TypeOK
  <2>5. AppsExist' /\ OneKeyPerApp'
    BY <1>0, <2>1, <2>2 DEF AppsExist, OneKeyPerApp
  <2>6. KeysDistinct' /\ PendingFresh' /\ SeenElsewhere'
    BY <1>0, <2>1, <2>2, <2>3, RequestFields
      DEF KeysDistinct, PendingFresh, SeenElsewhere
  <2>7. \A q \in Rows \ {r} : rows[q] # None => rows[q].key # rows[r].key
    BY <1>0, <2>1 DEF KeysDistinct, Holds, TypeOK, KeyRow
  <2>8. UsableLive'
    BY <1>0, <2>1, <2>2, <2>7 DEF UsableLive
  <2> QED
    BY <2>4, <2>5, <2>6, <2>8 DEF KeyInv
<1>11. CASE UNCHANGED vars
  BY <1>0, <1>11 DEF vars, KeyInv, TypeOK, AppsExist, OneKeyPerApp,
     KeysDistinct, Holds, PendingFresh, SeenElsewhere, UsableLive
<1> QED
  BY <1>1, <1>2, <1>3, <1>4, <1>5, <1>6, <1>7, <1>8, <1>9, <1>10, <1>11
    DEF Next, StaffNext, Issue

\* No key of apps/authentication is ever in two places, and one that still
\* works is live, however staff requests interleave.
THEOREM Invariance == Spec => []KeyInv
  BY KeyInvInit, KeyInvStep, PTL DEF Spec

\* validate_key never again accepts a key that was rotated away, revoked,
\* expired, or never handed out.
THEOREM DeadKeys == Spec => []RetiredKeysStayDead
<1>1. KeyInv => RetiredKeysStayDead
  BY DEF KeyInv, UsableLive, RetiredKeysStayDead, Validates
<1> QED
  BY <1>1, Invariance, PTL

\* Racing first issues, rotations and revocations leave an application with
\* at most one APIKey row.
THEOREM SingleKey == Spec => []OneKeyPerApp
<1>1. KeyInv => OneKeyPerApp
  BY DEF KeyInv
<1> QED
  BY <1>1, Invariance, PTL

-----------------------------------------------------------------------------
(* How keys die.                                                           *)

\* Whether a key works depends on the one row that holds it.
LEMMA HolderDecides ==
  ASSUME KeyInv, NEW r \in Rows, NEW k \in RawKeys, Holds(r, k)
  PROVE  Validates(k) <=> /\ ~rows[r].revoked
                          /\ apps[rows[r].app]
                          /\ ~rows[r].expired
  BY DEF KeyInv, KeysDistinct, Holds, Validates
\* A key goes on working while its row and its application stay as they are.
LEMMA RowKeepsKey ==
  ASSUME KeyInv, NEW r \in Rows, NEW k \in RawKeys, Holds(r, k), Validates(k),
         rows'[r] = rows[r], apps'[rows[r].app] = apps[rows[r].app]
  PROVE  Validates(k)'
<1>1. ~rows[r].revoked /\ apps[rows[r].app] /\ ~rows[r].expired
  BY HolderDecides
<1> QED
  BY <1>1 DEF Validates, Holds

\* The ways in which a key may stop working.
DiesForCause(r, k) ==
  Holds(r, k) /\ Validates(k) /\ ~Validates(k)' =>
    \/ k \notin live'
    \/ \E s \in Staff : req[s].pc = "revoke" /\ req[s].row = r
                         /\ req[s].seen # k /\ req'[s] = Idle

\* No step of staff, and no expiry, takes a working key away without cause.
LEMMA CauseStep ==
  ASSUME KeyInv, [Next]_vars, NEW r \in Rows, NEW k \in RawKeys
  PROVE  DiesForCause(r, k)
<1> SUFFICES ASSUME Holds(r, k), Validates(k), ~Validates(k)'
             PROVE  \/ k \notin live'
                    \/ \E s \in Staff :
                         /\ req[s].pc = "revoke" /\ req[s].row = r
                         /\ req[s].seen # k /\ req'[s] = Idle
  BY DEF DiesForCause
<1>0. /\ TypeOK /\ AppsExist /\ KeysDistinct
      /\ rows[r] # None /\ rows[r] \in KeyRow /\ rows[r].key = k
      /\ rows[r].app \in Apps /\ apps[rows[r].app] # None /\ k \in generated
  BY DEF KeyInv, TypeOK, KeyRow, AppsExist, KeysDistinct, Holds
<1>1. rows'[r] # rows[r] \/ apps'[rows[r].app] # apps[rows[r].app]
  BY RowKeepsKey
<1>2. ASSUME NEW a \in Apps, NEW j \in RawKeys, InsertKey(a, j)
      PROVE  rows'[r] = rows[r]
  BY <1>0, <1>2 DEF InsertKey, TypeOK
<1>3. ASSUME NEW s \in Staff, CreateApplication(s) PROVE FALSE
  BY <1>0, <1>1, <1>2, <1>3 DEF CreateApplication, TypeOK
<1>4. ASSUME NEW s \in Staff, CreateDefaultApplication(s) PROVE FALSE
  BY <1>0, <1>1, <1>4 DEF CreateDefaultApplication, TypeOK
<1>5. ASSUME NEW s \in Staff, Rotate(s), req[s].pc = "issue"
      PROVE  k \notin live'
  BY <1>0, <1>1, <1>5 DEF Rotate, RowOf, TypeOK
<1>6. ASSUME NEW s \in Staff, IssueFirst(s) PROVE FALSE
  <2>1. req[s].app \in Apps /\ req[s].key \in RawKeys
    BY <1>0, <1>6, RequestFields DEF IssueFirst
  <2> QED
    BY <1>1, <1>2, <1>6, <2>1 DEF IssueFirst, InsertFirst
<1>7. ASSUME NEW s \in Staff, RevokeSave(s)
      PROVE  \/ k \notin live'
             \/ /\ req[s].pc = "revoke" /\ req[s].row = r
                /\ req[s].seen # k /\ req'[s] = Idle
  BY <1>0, <1>1, <1>7, RequestFields DEF RevokeSave, TypeOK
<1>8. ASSUME NEW q \in Rows, Expire(q) PROVE k \notin live'
  BY <1>0, <1>1, <1>8 DEF Expire, TypeOK
<1>9. ASSUME UNCHANGED <<apps, rows>> PROVE FALSE
  BY <1>1, <1>9
<1> QED
  BY <1>3, <1>4, <1>5, <1>6, <1>7, <1>8, <1>9
    DEF Next, StaffNext, Issue, RequestKey, FindNoKey, RevokeRead, Abandon, vars

\* A key of apps/authentication that works stops working only when it is
\* rotated away, expires or is revoked, or through a revocation that read
\* its row before the rotation that issued it.
THEOREM CausesOfDeath == Spec => KeysDieForCause
<1>1. KeyInv /\ [Next]_vars => [\A r \in Rows, k \in RawKeys : DiesForCause(r, k)]_vars
  BY CauseStep
<1> QED
  BY <1>1, Invariance, PTL DEF Spec, KeysDieForCause, DiesForCause
=============================================================================
