------------------------------ MODULE ApiKeys -------------------------------
(***************************************************************************)
(* Applications and their API keys: APIKey of apps/authentication/models.py*)
(* and the views of apps/users/views.py that create an application, issue  *)
(* (rotate) its key and revoke it, run by concurrent staff requests.       *)
(*                                                                         *)
(* An application has at most one APIKey row, whose key_hash a rotation    *)
(* overwrites in place.  A rotation that finds the row locks it until its  *)
(* commit and is one step; one that finds none holds no lock (READ         *)
(* COMMITTED) and inserts later.  A revocation reads the row without a     *)
(* lock and later writes revoked_at alone, by primary key.                 *)
(*                                                                         *)
(* A key is told from another as SHA-256 tells them: perfectly.  Staff own *)
(* the applications they name; any other request is a 404 and no step.     *)
(***************************************************************************)
EXTENDS Naturals

CONSTANTS
  Apps,          \* primary keys of Application
  Rows,          \* primary keys of APIKey
  RawKeys,       \* what secrets.token_urlsafe returns, never twice the same
  Staff,         \* concurrent staff requests
  None           \* a missing row

KeyRow == [app : Apps, key : RawKeys, revoked : BOOLEAN, expired : BOOLEAN]

ASSUME NoneAssumption ==
  None \notin Apps /\ None \notin Rows /\ None \notin KeyRow
    /\ None \notin BOOLEAN

VARIABLES
  apps,          \* is_active of each application; None before it exists
  rows,          \* the committed APIKey rows
  generated,     \* raw keys generated so far
  req,           \* each staff member's request
  live           \* history: keys handed out and not retired since

vars == <<apps, rows, generated, req, live>>

Idle == [pc |-> "idle"]

Request == [pc : {"idle"}]
             \cup [pc : {"issue"}, app : Apps]
             \cup [pc : {"insert"}, app : Apps, key : RawKeys]
             \cup [pc : {"revoke"}, row : Rows, seen : RawKeys]

Init ==
  /\ apps = [a \in Apps |-> None]
  /\ rows = [r \in Rows |-> None]
  /\ generated = {}
  /\ req = [s \in Staff |-> Idle]
  /\ live = {}

-----------------------------------------------------------------------------
\* APIKey.validate_key: the row with this hash, unless revoked, expired or
\* of an inactive application.
Validates(k) ==
  \E r \in Rows :
    /\ rows[r] # None /\ rows[r].key = k
    /\ ~rows[r].revoked
    /\ apps[rows[r].app]
    /\ ~rows[r].expired

RowOf(a) == {r \in Rows : rows[r] # None /\ rows[r].app = a}

NewRow(a, k) == [app |-> a, key |-> k, revoked |-> FALSE, expired |-> FALSE]

\* INSERT of an APIKey; the key goes out in the answer.
InsertKey(a, k) ==
  \E r \in Rows :
    /\ rows[r] = None
    /\ rows' = [rows EXCEPT ![r] = NewRow(a, k)]
    /\ live' = live \cup {k}

-----------------------------------------------------------------------------
\* ApplicationListCreateView.create: the application, active or not, and
\* its first key in one transaction.
CreateApplication(s) ==
  \E a \in Apps, active \in BOOLEAN, k \in RawKeys \ generated :
    /\ req[s] = Idle
    /\ apps[a] = None
    /\ apps' = [apps EXCEPT ![a] = active]
    /\ generated' = generated \cup {k}
    /\ InsertKey(a, k)
    /\ UNCHANGED req

\* create_for_project without an application: it is created and committed
\* first, its key issued afterwards.
CreateDefaultApplication(s) ==
  \E a \in Apps :
    /\ req[s] = Idle
    /\ apps[a] = None
    /\ apps' = [apps EXCEPT ![a] = TRUE]
    /\ req' = [req EXCEPT ![s] = [pc |-> "issue", app |-> a]]
    /\ UNCHANGED <<rows, generated, live>>

\* APIKeyCreateView.post: the application exists and is the caller's.
RequestKey(s) ==
  \E a \in Apps :
    /\ req[s] = Idle
    /\ apps[a] # None
    /\ req' = [req EXCEPT ![s] = [pc |-> "issue", app |-> a]]
    /\ UNCHANGED <<apps, rows, generated, live>>

\* Mutant of Rotated: the new key does not replace the old one's hash.
RotatedNameOnly(row, k) == [row EXCEPT !.expired = FALSE, !.revoked = FALSE]

Rotated(row, k) ==
  [row EXCEPT !.key = k, !.expired = FALSE, !.revoked = FALSE]

\* create_for_application on an existing row, under select_for_update.
Rotate(s) ==
  \E r \in RowOf(req[s].app), k \in RawKeys \ generated :
    /\ generated' = generated \cup {k}
    /\ rows' = [rows EXCEPT ![r] = Rotated(rows[r], k)]
    /\ live' = (live \ {rows[r].key}) \cup {k}
    /\ req' = [req EXCEPT ![s] = Idle]
    /\ UNCHANGED apps

\* create_for_application that found no row...
FindNoKey(s) ==
  \E k \in RawKeys \ generated :
    /\ RowOf(req[s].app) = {}
    /\ generated' = generated \cup {k}
    /\ req' = [req EXCEPT ![s] =
         [pc |-> "insert", app |-> req[s].app, key |-> k]]
    /\ UNCHANGED <<apps, rows, live>>

Issue(s) == req[s].pc = "issue" /\ (Rotate(s) \/ FindNoKey(s))

\* Mutant of InsertFirst: APIKey.application as a plain foreign key.
InsertFirstUnchecked(s) == InsertKey(req[s].app, req[s].key)

\* Another mutant of InsertFirst: update_or_create, whoever was first.
InsertFirstOverwrites(s) ==
  \/ RowOf(req[s].app) = {} /\ InsertKey(req[s].app, req[s].key)
  \/ \E r \in RowOf(req[s].app) :
       /\ rows' = [rows EXCEPT ![r] = NewRow(req[s].app, req[s].key)]
       /\ live' = live \cup {req[s].key}

\* ...inserts one; IntegrityError if another request was first.
InsertFirst(s) ==
  \/ RowOf(req[s].app) = {} /\ InsertKey(req[s].app, req[s].key)
  \/ RowOf(req[s].app) # {} /\ UNCHANGED <<rows, live>>

IssueFirst(s) ==
  /\ req[s].pc = "insert"
  /\ InsertFirst(s)
  /\ req' = [req EXCEPT ![s] = Idle]
  /\ UNCHANGED <<apps, generated>>

\* APIKeyRevokeView.post reads the row...
RevokeRead(s) ==
  \E r \in Rows :
    /\ req[s] = Idle
    /\ rows[r] # None
    /\ req' = [req EXCEPT ![s] =
         [pc |-> "revoke", row |-> r, seen |-> rows[r].key]]
    /\ UNCHANGED <<apps, rows, generated, live>>

\* Mutant of Revoked: revoked_at is set and not saved.
RevokedUnsaved(row) == row

\* save(update_fields=['revoked_at']).
Revoked(row) == [row EXCEPT !.revoked = TRUE]

\* ...and revoke() writes it, whatever key it holds by now.
RevokeSave(s) ==
  /\ req[s].pc = "revoke"
  /\ rows' = [rows EXCEPT ![req[s].row] = Revoked(rows[req[s].row])]
  /\ live' = live \ {req[s].seen}
  /\ req' = [req EXCEPT ![s] = Idle]
  /\ UNCHANGED <<apps, generated>>

\* expires_at passes.
Expire(r) ==
  /\ rows[r] # None /\ ~rows[r].expired
  /\ rows' = [rows EXCEPT ![r].expired = TRUE]
  /\ live' = live \ {rows[r].key}
  /\ UNCHANGED <<apps, generated, req>>

\* A database error or a dead worker before the write.
Abandon(s) ==
  /\ req[s] # Idle
  /\ req' = [req EXCEPT ![s] = Idle]
  /\ UNCHANGED <<apps, rows, generated, live>>

StaffNext(s) ==
  \/ CreateApplication(s) \/ CreateDefaultApplication(s) \/ RequestKey(s)
  \/ Issue(s) \/ IssueFirst(s) \/ RevokeRead(s) \/ RevokeSave(s)
  \/ Abandon(s)

Next ==
  \/ \E s \in Staff : StaffNext(s)
  \/ \E r \in Rows : Expire(r)

Spec == Init /\ [][Next]_vars

-----------------------------------------------------------------------------
(* Properties.                                                             *)

\* Every variable keeps its type (APIKey rows and staff requests).
TypeOK ==
  /\ apps \in [Apps -> BOOLEAN \cup {None}]
  /\ rows \in [Rows -> KeyRow \cup {None}]
  /\ generated \subseteq RawKeys
  /\ req \in [Staff -> Request]
  /\ live \subseteq RawKeys

\* A key that was rotated away, revoked by someone who saw it, that expired
\* or never reached its owner is not accepted again (validate_key), though
\* rotations clear revoked_at and move expires_at on the same row.
RetiredKeysStayDead == \A k \in RawKeys : Validates(k) => k \in live

\* An application never has two keys that work (create_for_application),
\* however first issues, rotations and revocations interleave.
OneKeyPerApp ==
  \A r, q \in Rows :
    rows[r] # None /\ rows[q] # None /\ rows[r].app = rows[q].app => r = q

Holds(r, k) == rows[r] # None /\ rows[r].key = k

\* A key that works stops working only when it is retired, or through a
\* revocation that read its row before the rotation that issued the key
\* (APIKey.revoke writes by primary key).
KeysDieForCause ==
  [][\A r \in Rows, k \in RawKeys :
       Holds(r, k) /\ Validates(k) /\ ~Validates(k)' =>
         \/ k \notin live'
         \/ \E s \in Staff : req[s].pc = "revoke" /\ req[s].row = r
                              /\ req[s].seen # k /\ req'[s] = Idle]_vars

-----------------------------------------------------------------------------
(* Why retired keys stay dead, as an inductive invariant.                  *)

\* Keys belong to, and are issued for, applications that exist.
AppsExist ==
  /\ \A r \in Rows : rows[r] # None => apps[rows[r].app] # None
  /\ \A s \in Staff :
       req[s].pc \in {"issue", "insert"} => apps[req[s].app] # None

\* Two rows never hold the same key; every key held was generated.
KeysDistinct ==
  /\ \A r, q \in Rows : \A k \in RawKeys : Holds(r, k) /\ Holds(q, k) => r = q
  /\ \A r \in Rows : \A k \in RawKeys : Holds(r, k) => k \in generated

\* A key that waits to be inserted is nowhere else.
PendingFresh ==
  \A s \in Staff : req[s].pc = "insert" =>
    /\ req[s].key \in generated
    /\ \A r \in Rows : ~Holds(r, req[s].key)
    /\ \A z \in Staff \ {s} :
         /\ req[z].pc = "insert" => req[z].key # req[s].key
         /\ req[z].pc = "revoke" => req[z].seen # req[s].key

\* The key a revocation saw is held by the row it will write, or by none.
SeenElsewhere ==
  \A s \in Staff : req[s].pc = "revoke" =>
    /\ rows[req[s].row] # None
    /\ req[s].seen \in generated
    /\ \A r \in Rows \ {req[s].row} : ~Holds(r, req[s].seen)

UsableLive ==
  \A r \in Rows :
    rows[r] # None /\ ~rows[r].revoked /\ ~rows[r].expired =>
      rows[r].key \in live

\* A row that still works holds a key that is live, and no key is ever in
\* two places: the inductive invariant.
KeyInv ==
  /\ TypeOK
  /\ AppsExist
  /\ OneKeyPerApp
  /\ KeysDistinct
  /\ PendingFresh
  /\ SeenElsewhere
  /\ UsableLive
=============================================================================
