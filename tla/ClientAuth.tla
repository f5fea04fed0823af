----------------------------- MODULE ClientAuth -----------------------------
(***************************************************************************)
(* End-user accounts and their tokens (apps/client_auth): registration,    *)
(* login and refresh by the applications' clients, provisioning and        *)
(* disabling by staff through the administrator API, and the Django admin  *)
(* site, where ApplicationUser is registered (admin.py).                   *)
(*                                                                         *)
(* A request is several steps wherever the code looks at the table and     *)
(* acts on what it saw later: exists() before INSERT, the user row before  *)
(* the password hash and the token, get_object() before the site's save.   *)
(* The disable endpoint holds the row lock from its read to its commit and *)
(* is one step.  A request that is refused (429, 503, 401, 400 before any  *)
(* write) changes nothing and is not a step of its own.                    *)
(*                                                                         *)
(* Applications are active: the API-key middleware lets no other through   *)
(* and no endpoint changes Application.is_active.                          *)
(***************************************************************************)
EXTENDS Naturals

CONSTANTS
  Apps,          \* active applications
  Emails,        \* normalised addresses (serializers and save() lower them)
  Users,         \* primary keys of ApplicationUser
  None,          \* a missing row
  Clients,       \* concurrent client requests
  Staff,         \* concurrent staff requests
  Owns,          \* the applications of each staff member's projects
  SiteActive,    \* values of is_active posted through the admin site
  MaxStaffOps    \* bound: staff operations in a behaviour

ASSUME ConstantAssumption ==
  /\ Owns \in [Staff -> SUBSET Apps]
  /\ SiteActive \subseteq BOOLEAN
  /\ MaxStaffOps \in Nat

Row == [app : Apps, email : Emails, active : BOOLEAN, version : Nat]

ASSUME NoneAssumption == None \notin Row /\ None \notin Users

VARIABLES
  users,         \* the committed rows of ApplicationUser
  issued,        \* primary keys AUTO_INCREMENT has handed out
  tokens,        \* signed tokens that have not expired
  call,          \* each client's request
  form,          \* each staff member's request
  staffOps,      \* staff operations begun
  disables       \* history: acknowledged disables of each user

vars == <<users, issued, tokens, call, form, staffOps, disables>>

\* The claims of a token.  "by" and "epoch" are history: the application
\* whose API key it was issued under, and the user's disables when the row
\* it was made from was read.
Claims == [user : Users, app : Apps, version : Nat, by : Apps, epoch : Nat]
Types == {"access", "refresh"}
Token == [claims : Claims, type : Types]

Call == [pc : {"idle"}]
          \cup [pc : {"insert"}, app : Apps, email : Emails]
          \cup [pc : {"issue"}, claims : Claims, types : SUBSET Types]

Form == [pc : {"idle"}]
          \cup [pc : {"insert"}, app : Apps, email : Emails]
          \cup [pc : {"save"}, pk : Users, inst : Row]

Idle == [pc |-> "idle"]

Init ==
  /\ users = [u \in Users |-> None]
  /\ issued = {}
  /\ tokens = {}
  /\ call = [c \in Clients |-> Idle]
  /\ form = [s \in Staff |-> Idle]
  /\ staffOps = 0
  /\ disables = [u \in Users |-> 0]

-----------------------------------------------------------------------------
(* The table.                                                              *)

\* exists(), and the unique constraint on (application, email).
Registered(app, email, except) ==
  \E u \in Users \ {except} :
    /\ users[u] # None
    /\ users[u].app = app /\ users[u].email = email

\* Mutant of Insert: no unique constraint behind the exists() check.
InsertUnchecked(app, email) ==
  \E u \in Users \ issued :
    /\ users' = [users EXCEPT ![u] = [app |-> app, email |-> email,
                                      active |-> TRUE, version |-> 1]]
    /\ issued' = issued \cup {u}

\* user.save() of a new account; IntegrityError when the address is taken.
Insert(app, email) ==
  \/ /\ ~Registered(app, email, None)
     /\ \E u \in Users \ issued :
          /\ users' = [users EXCEPT ![u] = [app |-> app, email |-> email,
                                            active |-> TRUE, version |-> 1]]
          /\ issued' = issued \cup {u}
  \/ /\ Registered(app, email, None)
     /\ UNCHANGED <<users, issued>>

-----------------------------------------------------------------------------
(* verify_client_token, for a request made under application app's key.    *)

\* Mutant of Verify: the application_id claim is not compared.
VerifyColumnOnly(t, app, type) ==
  LET row == users[t.claims.user] IN
  /\ t.type = type
  /\ row # None
  /\ row.app = app
  /\ row.active
  /\ row.version = t.claims.version

Verify(t, app, type) ==
  LET row == users[t.claims.user] IN
  /\ t.type = type
  /\ t.claims.app = app
  /\ row # None
  /\ row.app = app
  /\ row.active
  /\ row.version = t.claims.version

\* What _make_token takes from the row it is given.
ClaimsOf(u, app) ==
  [user |-> u, app |-> users[u].app, version |-> users[u].version,
   by |-> app, epoch |-> disables[u]]

-----------------------------------------------------------------------------
(* Client requests.                                                        *)

Proceed(c, next) ==
  /\ call[c] = Idle
  /\ call' = [call EXCEPT ![c] = next]
  /\ UNCHANGED <<users, issued, tokens, form, staffOps, disables>>

\* ClientRegisterView up to the exists() check and the password hash.
RegisterCheck(c) ==
  \E app \in Apps, email \in Emails :
    /\ ~Registered(app, email, None)
    /\ Proceed(c, [pc |-> "insert", app |-> app, email |-> email])

\* user.save(): 201, or 400 on IntegrityError.
RegisterInsert(c) ==
  /\ call[c].pc = "insert"
  /\ Insert(call[c].app, call[c].email)
  /\ call' = [call EXCEPT ![c] = Idle]
  /\ UNCHANGED <<tokens, form, staffOps, disables>>

\* ClientLoginView reads the row of an active user...
LoginRead(c) ==
  \E u \in Users :
    /\ users[u] # None
    /\ users[u].active
    /\ Proceed(c, [pc |-> "issue", claims |-> ClaimsOf(u, users[u].app),
                   types |-> Types])

\* ...and ClientRefreshView the one verify_client_token returns.
RefreshVerify(c) ==
  \E t \in tokens, app \in Apps :
    /\ Verify(t, app, "refresh")
    /\ Proceed(c, [pc |-> "issue", claims |-> ClaimsOf(t.claims.user, app),
                   types |-> {"access"}])

\* Mutant of Signed: the token_version of the row as it is by now.
SignedNow(claims) ==
  IF users[claims.user] = None THEN claims
  ELSE [claims EXCEPT !.version = users[claims.user].version]

\* What _make_token signs: the row as it was read.
Signed(claims) == claims

\* issue_token_pair, _make_token: signed from the row read before.
Issue(c) ==
  /\ call[c].pc = "issue"
  /\ tokens' = tokens \cup
       {[claims |-> Signed(call[c].claims), type |-> type] :
          type \in call[c].types}
  /\ call' = [call EXCEPT ![c] = Idle]
  /\ UNCHANGED <<users, issued, form, staffOps, disables>>

\* A wrong password, or the worker dies.
Abandon(c) ==
  /\ call[c] # Idle
  /\ call' = [call EXCEPT ![c] = Idle]
  /\ UNCHANGED <<users, issued, tokens, form, staffOps, disables>>

\* The exp claim.
ExpireToken(t) ==
  /\ t \in tokens
  /\ tokens' = tokens \ {t}
  /\ UNCHANGED <<users, issued, call, form, staffOps, disables>>

-----------------------------------------------------------------------------
(* Staff requests.                                                         *)

BeginStaffOp(s) ==
  /\ form[s] = Idle
  /\ staffOps < MaxStaffOps
  /\ staffOps' = staffOps + 1

\* ApplicationUserListCreateView.perform_create: ownership and exists()...
CreateCheck(s) ==
  \E app \in Owns[s], email \in Emails :
    /\ ~Registered(app, email, None)
    /\ BeginStaffOp(s)
    /\ form' = [form EXCEPT ![s] =
         [pc |-> "insert", app |-> app, email |-> email]]
    /\ UNCHANGED <<users, issued, tokens, call, disables>>

\* ...then the INSERT, whose IntegrityError is a 500.
CreateInsert(s) ==
  /\ form[s].pc = "insert"
  /\ Insert(form[s].app, form[s].email)
  /\ form' = [form EXCEPT ![s] = Idle]
  /\ UNCHANGED <<tokens, call, staffOps, disables>>

\* Mutant of Disabled: is_active alone, the token version is not bumped.
DisabledOnly(row) == [row EXCEPT !.active = FALSE]

\* The row the disable endpoint leaves: an inactive one is not touched.
Disabled(row) ==
  IF row.active
  THEN [row EXCEPT !.active = FALSE, !.version = @ + 1]
  ELSE row

\* ApplicationUserDisableView.post, under select_for_update.
Disable(s) ==
  \E u \in Users :
    /\ users[u] # None
    /\ users[u].app \in Owns[s]
    /\ BeginStaffOp(s)
    /\ users' = [users EXCEPT ![u] = Disabled(users[u])]
    /\ disables' = [disables EXCEPT ![u] = @ + 1]
    /\ UNCHANGED <<issued, tokens, call, form>>

\* The admin site's change form: an unlocked get_object(), the posted
\* fields (application, email, is_active), validate_unique()...
SiteLoad(s) ==
  \E u \in Users, app \in Apps, email \in Emails, active \in SiteActive :
    /\ users[u] # None
    /\ ~Registered(app, email, u)
    /\ BeginStaffOp(s)
    /\ form' = [form EXCEPT ![s] =
         [pc |-> "save", pk |-> u,
          inst |-> [users[u] EXCEPT !.app = app, !.email = email,
                                    !.active = active]]]
    /\ UNCHANGED <<users, issued, tokens, call, disables>>

\* ...and save(): every column of the loaded row, the read-only
\* token_version too; an INSERT if the row has been deleted meanwhile.
SiteSave(s) ==
  /\ form[s].pc = "save"
  /\ IF Registered(form[s].inst.app, form[s].inst.email, form[s].pk)
     THEN UNCHANGED users
     ELSE users' = [users EXCEPT ![form[s].pk] = form[s].inst]
  /\ form' = [form EXCEPT ![s] = Idle]
  /\ UNCHANGED <<issued, tokens, call, staffOps, disables>>

\* The admin site's delete view.
SiteDelete(s) ==
  \E u \in Users :
    /\ users[u] # None
    /\ BeginStaffOp(s)
    /\ users' = [users EXCEPT ![u] = None]
    /\ UNCHANGED <<issued, tokens, call, form, disables>>

-----------------------------------------------------------------------------
ClientNext(c) ==
  \/ RegisterCheck(c) \/ RegisterInsert(c) \/ LoginRead(c)
  \/ RefreshVerify(c) \/ Issue(c) \/ Abandon(c)

StaffNext(s) ==
  \/ CreateCheck(s) \/ CreateInsert(s) \/ Disable(s)
  \/ SiteLoad(s) \/ SiteSave(s) \/ SiteDelete(s)

Next ==
  \/ \E c \in Clients : ClientNext(c)
  \/ \E s \in Staff : StaffNext(s)
  \/ \E t \in tokens : ExpireToken(t)

Spec == Init /\ [][Next]_vars

-----------------------------------------------------------------------------
(* Properties.                                                             *)

\* Every variable keeps its type (ApplicationUser rows, tokens, requests).
TypeOK ==
  /\ users \in [Users -> Row \cup {None}]
  /\ issued \subseteq Users
  /\ tokens \subseteq Token
  /\ call \in [Clients -> Call]
  /\ form \in [Staff -> Form]
  /\ staffOps \in Nat
  /\ disables \in [Users -> Nat]

\* Disabling a user revokes its tokens for good (ApplicationUserDisableView,
\* token_version): a token that verifies comes from a login or refresh that
\* read the user after the last acknowledged disable, whether it was issued
\* before the disable or was on its way, and whoever re-enabled the user.
RevocationFinal ==
  \A t \in tokens, app \in Apps :
    Verify(t, app, t.type) =>
      t.claims.epoch = disables[t.claims.user]

\* A token is good only under the application whose API key it was issued
\* under (verify_client_token), even after its user was moved to another.
TokenBoundToApp ==
  \A t \in tokens, app \in Apps :
    Verify(t, app, t.type) => t.claims.by = app

\* An address names one account of an application: check-then-insert
\* registrations and site edits that race leave one winner.
OneAccountPerEmail ==
  \A u \in Users :
    users[u] # None => ~Registered(users[u].app, users[u].email, u)

-----------------------------------------------------------------------------
(* Why these hold.                                                         *)

\* A token names the application its row was found under.
ClaimsBound ==
  /\ \A t \in tokens : t.claims.app = t.claims.by
  /\ \A c \in Clients :
       call[c].pc = "issue" => call[c].claims.app = call[c].claims.by

\* Inductive whatever staff do.
AccountsInv == TypeOK /\ OneAccountPerEmail /\ ClaimsBound

\* Claims are never ahead of their row, and while they carry its version
\* the user is active and has not been disabled since they were read.
Stamped(x) ==
  LET row == users[x.user] IN
  /\ x.user \in issued
  /\ row # None => x.version <= row.version
  /\ row # None /\ x.version = row.version =>
       row.active /\ x.epoch = disables[x.user]

ClaimsStamped ==
  /\ \A t \in tokens : Stamped(t.claims)
  /\ \A c \in Clients : call[c].pc = "issue" => Stamped(call[c].claims)

\* A row has a primary key that AUTO_INCREMENT has handed out.
RowsIssued == \A u \in Users : users[u] # None => u \in issued

\* An open change form holds the current version of an existing row.
FormCurrent ==
  \A s \in Staff : form[s].pc = "save" =>
    /\ users[form[s].pk] # None
    /\ form[s].inst.version = users[form[s].pk].version
    /\ form[s].inst.active

\* Inductive when staff take turns and the admin site switches nobody off.
RevocationInv == TypeOK /\ RowsIssued /\ FormCurrent /\ ClaimsStamped
=============================================================================
