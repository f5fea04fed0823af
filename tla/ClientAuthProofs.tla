-------------------------- MODULE ClientAuthProofs --------------------------
(***************************************************************************)
(* Proofs about ClientAuth, for every number of applications, users,       *)
(* clients and staff members.                                              *)
(***************************************************************************)
EXTENDS ClientAuth, TLAPS

\* The two things revocation depends on: staff requests do not overlap, and
\* is_active is only ever cleared by the disable endpoint.
StaffTakeTurns == \A s, z \in Staff : s = z

SiteNeverDisables == SiteActive \subseteq {TRUE}

-----------------------------------------------------------------------------
(* Types.                                                                  *)

\* What a request carries, by the step it is at.
LEMMA CallFields ==
  ASSUME TypeOK, NEW c \in Clients
  PROVE  /\ call[c].pc = "insert" =>
              call[c].app \in Apps /\ call[c].email \in Emails
         /\ call[c].pc = "issue" =>
              call[c].claims \in Claims /\ call[c].types \subseteq Types
  BY DEF TypeOK, Call

\* What a staff request carries at each of its steps.
LEMMA FormFields ==
  ASSUME TypeOK, NEW s \in Staff
  PROVE  /\ form[s].pc = "insert" =>
              form[s].app \in Apps /\ form[s].email \in Emails
         /\ form[s].pc = "save" =>
              form[s].pk \in Users /\ form[s].inst \in Row
  BY DEF TypeOK, Form

\* The state between two requests has the type of a request.
LEMMA IdleTyped == Idle \in Call /\ Idle \in Form
  BY DEF Idle, Call, Form

\* What the disable endpoint keeps of a row.
LEMMA DisabledTyped ==
  ASSUME NEW row \in Row
  PROVE  Disabled(row) \in Row
<1>1. row.version + 1 \in Nat
  BY DEF Row
<1>2. [row EXCEPT !.active = FALSE, !.version = row.version + 1] \in Row
  BY <1>1 DEF Row
<1> QED
  BY <1>2 DEF Disabled

\* Claims made from an existing row.
LEMMA ClaimsTyped ==
  ASSUME TypeOK, NEW u \in Users, NEW app \in Apps, users[u] # None
  PROVE  ClaimsOf(u, app) \in Claims
  BY DEF TypeOK, ClaimsOf, Claims, Row

\* An INSERT adds one row with a key never used before, or nothing.
LEMMA InsertTyped ==
  ASSUME TypeOK, NEW app \in Apps, NEW email \in Emails, Insert(app, email)
  PROVE  users' \in [Users -> Row \cup {None}] /\ issued' \subseteq Users
<1> DEFINE new == [app |-> app, email |-> email,
                   active |-> TRUE, version |-> 1]
<1>1. new \in Row
  BY DEF Row
<1> QED
  BY <1>1 DEF Insert, TypeOK

\* Every step preserves the types.
LEMMA TypeStep == TypeOK /\ [Next]_vars => TypeOK'
<1> SUFFICES ASSUME TypeOK, [Next]_vars PROVE TypeOK'
  OBVIOUS
<1> USE ConstantAssumption
<1>1. ASSUME NEW c \in Clients, RegisterCheck(c) PROVE TypeOK'
  BY <1>1 DEF RegisterCheck, Proceed, TypeOK, Call
<1>2. ASSUME NEW c \in Clients, RegisterInsert(c) PROVE TypeOK'
  BY <1>2, CallFields, InsertTyped, IdleTyped DEF RegisterInsert, TypeOK
<1>3. ASSUME NEW c \in Clients, LoginRead(c) PROVE TypeOK'
  <2>1. PICK u \in Users :
          /\ users[u] # None
          /\ Proceed(c, [pc |-> "issue", claims |-> ClaimsOf(u, users[u].app),
                         types |-> Types])
    BY <1>3 DEF LoginRead
  <2>2. ClaimsOf(u, users[u].app) \in Claims
    BY <2>1, ClaimsTyped DEF TypeOK, Row
  <2> QED
    BY <2>1, <2>2 DEF Proceed, TypeOK, Call
<1>4. ASSUME NEW c \in Clients, RefreshVerify(c) PROVE TypeOK'
  <2>1. PICK t \in tokens, app \in Apps :
          /\ Verify(t, app, "refresh")
          /\ Proceed(c, [pc |-> "issue",
                         claims |-> ClaimsOf(t.claims.user, app),
                         types |-> {"access"}])
    BY <1>4 DEF RefreshVerify
  <2>2. t.claims.user \in Users /\ users[t.claims.user] # None
    BY <2>1 DEF Verify, TypeOK, Token, Claims
  <2>3. ClaimsOf(t.claims.user, app) \in Claims
    BY <2>2, ClaimsTyped
  <2> QED
    BY <2>1, <2>3 DEF Proceed, TypeOK, Call, Types
<1>5. ASSUME NEW c \in Clients, Issue(c) PROVE TypeOK'
  <2>1. call[c].claims \in Claims /\ call[c].types \subseteq Types
    BY <1>5, CallFields DEF Issue
  <2>2. tokens' \subseteq Token
    BY <1>5, <2>1 DEF Issue, Signed, TypeOK, Token
  <2> QED
    BY <1>5, <2>2, IdleTyped DEF Issue, TypeOK
<1>6. ASSUME NEW c \in Clients, Abandon(c) PROVE TypeOK'
  BY <1>6, IdleTyped DEF Abandon, TypeOK
<1>7. ASSUME NEW t \in tokens, ExpireToken(t) PROVE TypeOK'
  BY <1>7 DEF ExpireToken, TypeOK
<1>8. ASSUME NEW s \in Staff, CreateCheck(s) PROVE TypeOK'
  BY <1>8 DEF CreateCheck, BeginStaffOp, TypeOK, Form
<1>9. ASSUME NEW s \in Staff, CreateInsert(s) PROVE TypeOK'
  BY <1>9, FormFields, InsertTyped, IdleTyped DEF CreateInsert, TypeOK
<1>10. ASSUME NEW s \in Staff, Disable(s) PROVE TypeOK'
  BY <1>10, DisabledTyped DEF Disable, BeginStaffOp, TypeOK
<1>11. ASSUME NEW s \in Staff, SiteLoad(s) PROVE TypeOK'
  <2>1. PICK u \in Users, app \in Apps, email \in Emails, active \in BOOLEAN :
          /\ users[u] # None
          /\ form' = [form EXCEPT ![s] =
               [pc |-> "save", pk |-> u,
                inst |-> [users[u] EXCEPT !.app = app, !.email = email,
                                          !.active = active]]]
    BY <1>11 DEF SiteLoad
  <2>2. [users[u] EXCEPT !.app = app, !.email = email, !.active = active]
          \in Row
    BY <2>1 DEF TypeOK, Row
  <2>3. form' \in [Staff -> Form]
    BY <2>1, <2>2 DEF TypeOK, Form
  <2> QED
    BY <1>11, <2>3 DEF SiteLoad, BeginStaffOp, TypeOK
<1>12. ASSUME NEW s \in Staff, SiteSave(s) PROVE TypeOK'
  BY <1>12, FormFields, IdleTyped DEF SiteSave, TypeOK
<1>13. ASSUME NEW s \in Staff, SiteDelete(s) PROVE TypeOK'
  BY <1>13 DEF SiteDelete, BeginStaffOp, TypeOK
<1>14. CASE UNCHANGED vars
  BY <1>14 DEF vars, TypeOK
<1> QED
  BY <1>1, <1>2, <1>3, <1>4, <1>5, <1>6, <1>7, <1>8, <1>9, <1>10, <1>11,
     <1>12, <1>13, <1>14 DEF Next, ClientNext, StaffNext

\* The initial state is well typed.
LEMMA TypeInit == Init => TypeOK
  BY IdleTyped DEF Init, TypeOK

-----------------------------------------------------------------------------
(* Accounts and the applications of their tokens, whatever staff do.       *)

\* An INSERT that the unique constraint accepts keeps addresses unique.
LEMMA UniqueInsert ==
  ASSUME TypeOK, OneAccountPerEmail,
         NEW app \in Apps, NEW email \in Emails, Insert(app, email)
  PROVE  OneAccountPerEmail'
<1>1. CASE UNCHANGED users
  BY <1>1 DEF OneAccountPerEmail, Registered
<1>2. CASE /\ ~Registered(app, email, None)
           /\ \E u \in Users \ issued :
                users' = [users EXCEPT ![u] =
                  [app |-> app, email |-> email,
                   active |-> TRUE, version |-> 1]]
  <2>1. PICK u \in Users :
          users' = [users EXCEPT ![u] = [app |-> app, email |-> email,
                                         active |-> TRUE, version |-> 1]]
    BY <1>2
  <2>2. \A v \in Users : users[v] # None =>
          users[v].app # app \/ users[v].email # email
    BY <1>2, NoneAssumption DEF Registered
  <2>3. users'[u].app = app /\ users'[u].email = email
          /\ \A v \in Users \ {u} : users'[v] = users[v]
    BY <2>1 DEF TypeOK
  <2> QED
    BY <2>2, <2>3 DEF OneAccountPerEmail, Registered
<1> QED
  BY <1>1, <1>2 DEF Insert

\* Every step preserves the invariant about accounts.
LEMMA AccountsStep == AccountsInv /\ [Next]_vars => AccountsInv'
<1> SUFFICES ASSUME AccountsInv, [Next]_vars PROVE AccountsInv'
  OBVIOUS
<1>0. TypeOK /\ OneAccountPerEmail /\ ClaimsBound /\ TypeOK'
  BY TypeStep DEF AccountsInv
<1>a. ASSUME UNCHANGED users PROVE OneAccountPerEmail'
  BY <1>0, <1>a DEF OneAccountPerEmail, Registered
<1>b. ASSUME UNCHANGED <<tokens, call>> PROVE ClaimsBound'
  BY <1>0, <1>b DEF ClaimsBound
<1> USE DEF AccountsInv
<1>1. ASSUME NEW c \in Clients, RegisterCheck(c) PROVE AccountsInv'
  BY <1>0, <1>1, <1>a
    DEF RegisterCheck, Proceed, ClaimsBound, TypeOK
<1>2. ASSUME NEW c \in Clients, RegisterInsert(c) PROVE AccountsInv'
  <2>1. OneAccountPerEmail'
    BY <1>0, <1>2, CallFields, UniqueInsert DEF RegisterInsert
  <2> QED
    BY <1>0, <1>2, <2>1 DEF RegisterInsert, ClaimsBound, TypeOK, Idle
<1>3. ASSUME NEW c \in Clients, LoginRead(c) PROVE AccountsInv'
  BY <1>0, <1>3, <1>a
    DEF LoginRead, Proceed, ClaimsBound, ClaimsOf, TypeOK
<1>4. ASSUME NEW c \in Clients, RefreshVerify(c) PROVE AccountsInv'
  <2>1. PICK t \in tokens, app \in Apps :
          /\ users[t.claims.user].app = app
          /\ Proceed(c, [pc |-> "issue",
                         claims |-> ClaimsOf(t.claims.user, app),
                         types |-> {"access"}])
    BY <1>4 DEF RefreshVerify, Verify
  <2>2. ClaimsBound'
    BY <1>0, <2>1 DEF Proceed, ClaimsBound, ClaimsOf, TypeOK
  <2> QED
    BY <1>0, <2>1, <2>2, <1>a DEF Proceed
<1>5. ASSUME NEW c \in Clients, Issue(c) PROVE AccountsInv'
  BY <1>0, <1>5, <1>a DEF Issue, Signed, ClaimsBound, TypeOK, Idle
<1>6. ASSUME NEW c \in Clients, Abandon(c) PROVE AccountsInv'
  BY <1>0, <1>6, <1>a DEF Abandon, ClaimsBound, TypeOK, Idle
<1>7. ASSUME NEW t \in tokens, ExpireToken(t) PROVE AccountsInv'
  BY <1>0, <1>7, <1>a DEF ExpireToken, ClaimsBound
<1>8. ASSUME NEW s \in Staff, CreateCheck(s) PROVE AccountsInv'
  BY <1>0, <1>8, <1>a, <1>b DEF CreateCheck
<1>9. ASSUME NEW s \in Staff, CreateInsert(s) PROVE AccountsInv'
  BY <1>0, <1>9, <1>b, FormFields, UniqueInsert DEF CreateInsert
<1>10. ASSUME NEW s \in Staff, Disable(s) PROVE AccountsInv'
  <2>1. PICK u \in Users :
          users[u] # None /\ users' = [users EXCEPT ![u] = Disabled(users[u])]
    BY <1>10 DEF Disable
  <2>2. users[u] \in Row
    BY <1>0, <2>1 DEF TypeOK
  <2>3. /\ Disabled(users[u]).app = users[u].app
        /\ Disabled(users[u]).email = users[u].email
    BY <2>2 DEF Disabled, Row
  <2>4. OneAccountPerEmail'
    BY <1>0, <2>1, <2>3 DEF OneAccountPerEmail, Registered, TypeOK
  <2> QED
    BY <1>0, <1>10, <1>b, <2>4 DEF Disable
<1>11. ASSUME NEW s \in Staff, SiteLoad(s) PROVE AccountsInv'
  BY <1>0, <1>11, <1>a, <1>b DEF SiteLoad
<1>12. ASSUME NEW s \in Staff, SiteSave(s) PROVE AccountsInv'
  <2>1. form[s].pk \in Users /\ form[s].inst \in Row
    BY <1>0, <1>12, FormFields DEF SiteSave
  <2>2. OneAccountPerEmail'
    BY <1>0, <1>12, <1>a, <2>1
      DEF SiteSave, OneAccountPerEmail, Registered, TypeOK
  <2> QED
    BY <1>0, <1>12, <1>b, <2>2 DEF SiteSave
<1>13. ASSUME NEW s \in Staff, SiteDelete(s) PROVE AccountsInv'
  <2>1. OneAccountPerEmail'
    BY <1>0, <1>13 DEF SiteDelete, OneAccountPerEmail, Registered, TypeOK
  <2> QED
    BY <1>0, <1>13, <1>b, <2>1 DEF SiteDelete
<1>14. CASE UNCHANGED vars
  BY <1>0, <1>14, <1>a, <1>b DEF vars
<1> QED
  BY <1>1, <1>2, <1>3, <1>4, <1>5, <1>6, <1>7, <1>8, <1>9, <1>10, <1>11,
     <1>12, <1>13, <1>14 DEF Next, ClientNext, StaffNext

\* The invariant about accounts holds initially.
LEMMA AccountsInit == Init => AccountsInv
  BY TypeInit DEF Init, AccountsInv, OneAccountPerEmail, ClaimsBound, Idle

\* Addresses stay unique and tokens bound to their application, whatever
\* clients and staff do.
THEOREM AccountsInvariance == Spec => []AccountsInv
  BY AccountsInit, AccountsStep, PTL DEF Spec

\* Registrations, staff creations and site edits that race never leave two
\* accounts with one address in an application.
THEOREM AccountsUnique == Spec => []OneAccountPerEmail
<1>1. AccountsInv => OneAccountPerEmail
  BY DEF AccountsInv
<1> QED
  BY <1>1, AccountsInvariance, PTL

\* verify_client_token accepts a token only under the application it was
\* issued under, wherever its user has been moved since.
THEOREM TokensBound == Spec => []TokenBoundToApp
<1>1. AccountsInv => TokenBoundToApp
  BY DEF AccountsInv, ClaimsBound, TokenBoundToApp, Verify
<1> QED
  BY <1>1, AccountsInvariance, PTL

-----------------------------------------------------------------------------
(* Revocation, when staff take turns and the site disables nobody.         *)

\* Claims made from an active row are stamped.
LEMMA FreshClaims ==
  ASSUME TypeOK, RowsIssued, NEW u \in Users, NEW app \in Apps,
         users[u] # None, users[u].active
  PROVE  Stamped(ClaimsOf(u, app))
  BY DEF TypeOK, RowsIssued, Row, Stamped, ClaimsOf

\* A new account disturbs no claims: its primary key was never used.
LEMMA InsertKeeps ==
  ASSUME TypeOK, RowsIssued, NEW app \in Apps, NEW email \in Emails,
         Insert(app, email)
  PROVE  /\ issued \subseteq issued'
         /\ RowsIssued'
         /\ \A u \in issued : users'[u] = users[u]
  BY DEF Insert, TypeOK, RowsIssued

\* The disable endpoint leaves behind every claim it finds: either the
\* version moves on, or the user was inactive and no claim carried it.
LEMMA StampDisabled ==
  ASSUME TypeOK, NEW x \in Claims, Stamped(x), NEW u \in Users,
         users[u] # None, issued' = issued,
         users' = [users EXCEPT ![u] = Disabled(users[u])],
         disables' = [disables EXCEPT ![u] = @ + 1]
  PROVE  Stamped(x)'
<1>1. x.user \in Users /\ x.version \in Nat /\ users[u] \in Row
  BY DEF Claims, TypeOK
<1>2. CASE x.user # u
  BY <1>1, <1>2 DEF Stamped, TypeOK
<1>3. CASE x.user = u
  <2>1. users'[u] = Disabled(users[u]) /\ Disabled(users[u]) \in Row
    BY <1>1, DisabledTyped DEF TypeOK
  <2>2. CASE users[u].active
    <3>1. Disabled(users[u]).version = users[u].version + 1
      BY <1>1, <2>2 DEF Disabled, Row
    <3>2. x.version <= users[u].version /\ users[u].version \in Nat
      BY <1>1, <1>3 DEF Stamped, Row
    <3>3. x.version < users'[u].version
      BY <1>1, <2>1, <3>1, <3>2
    <3> QED
      BY <1>1, <1>3, <2>1, <3>2, <3>3 DEF Stamped, Row
  <2>3. CASE ~users[u].active
    <3>1. users'[u] = users[u]
      BY <2>1, <2>3 DEF Disabled
    <3> QED
      BY <1>3, <2>3, <3>1 DEF Stamped
  <2> QED
    BY <2>2, <2>3
<1> QED
  BY <1>2, <1>3

\* The claims in circulation have the type of claims.
LEMMA ClaimsInUse ==
  ASSUME TypeOK
  PROVE  /\ \A t \in tokens : t.claims \in Claims
         /\ \A c \in Clients : call[c].pc = "issue" => call[c].claims \in Claims
  BY CallFields DEF TypeOK, Token

\* Every step preserves the invariant about revocation, under the two
\* assumptions on staff.
LEMMA RevocationStep ==
  ASSUME StaffTakeTurns, SiteNeverDisables
  PROVE  RevocationInv /\ [Next]_vars => RevocationInv'
<1> SUFFICES ASSUME RevocationInv, [Next]_vars PROVE RevocationInv'
  OBVIOUS
<1>0. TypeOK /\ RowsIssued /\ FormCurrent /\ ClaimsStamped /\ TypeOK'
  BY TypeStep DEF RevocationInv
<1>a. ASSUME UNCHANGED <<users, form>> PROVE FormCurrent'
  BY <1>0, <1>a DEF FormCurrent
<1>b. ASSUME UNCHANGED <<users, issued>> PROVE RowsIssued'
  BY <1>0, <1>b DEF RowsIssued
<1>c. ASSUME UNCHANGED <<tokens, call>>,
             \A x \in Claims : Stamped(x) => Stamped(x)'
      PROVE  ClaimsStamped'
  BY <1>0, <1>c, ClaimsInUse DEF ClaimsStamped
<1>d. ASSUME UNCHANGED <<users, issued, disables>>
      PROVE  \A x : Stamped(x) => Stamped(x)'
  BY <1>d DEF Stamped
<1> USE DEF RevocationInv
<1>1. ASSUME NEW c \in Clients, RegisterCheck(c) PROVE RevocationInv'
  <2>1. ClaimsStamped'
    BY <1>0, <1>1, <1>d DEF RegisterCheck, Proceed, ClaimsStamped, TypeOK
  <2> QED
    BY <1>0, <1>1, <1>a, <1>b, <2>1 DEF RegisterCheck, Proceed
<1>2. ASSUME NEW c \in Clients, RegisterInsert(c) PROVE RevocationInv'
  <2>1. /\ issued \subseteq issued' /\ RowsIssued'
        /\ \A u \in issued : users'[u] = users[u]
    BY <1>0, <1>2, CallFields, InsertKeeps DEF RegisterInsert
  <2>2. FormCurrent'
    BY <1>0, <1>2, <2>1, FormFields
      DEF RegisterInsert, FormCurrent, RowsIssued
  <2>3. \A x \in Claims : Stamped(x) => Stamped(x)'
    BY <1>2, <2>1 DEF RegisterInsert, Stamped
  <2>4. ClaimsStamped'
    BY <1>0, <1>2, <2>3, ClaimsInUse
      DEF RegisterInsert, ClaimsStamped, TypeOK, Idle
  <2> QED
    BY <1>0, <2>1, <2>2, <2>4
<1>3. ASSUME NEW c \in Clients, LoginRead(c) PROVE RevocationInv'
  <2>1. PICK u \in Users :
          /\ users[u] # None /\ users[u].active
          /\ Proceed(c, [pc |-> "issue", claims |-> ClaimsOf(u, users[u].app),
                         types |-> Types])
    BY <1>3 DEF LoginRead
  <2>2. Stamped(ClaimsOf(u, users[u].app))
    BY <1>0, <2>1, FreshClaims DEF TypeOK, Row
  <2>3. ClaimsStamped'
    BY <1>0, <1>d, <2>1, <2>2 DEF Proceed, ClaimsStamped, TypeOK
  <2> QED
    BY <1>0, <1>a, <1>b, <2>1, <2>3 DEF Proceed
<1>4. ASSUME NEW c \in Clients, RefreshVerify(c) PROVE RevocationInv'
  <2>1. PICK t \in tokens, app \in Apps :
          /\ Verify(t, app, "refresh")
          /\ Proceed(c, [pc |-> "issue",
                         claims |-> ClaimsOf(t.claims.user, app),
                         types |-> {"access"}])
    BY <1>4 DEF RefreshVerify
  <2>2. /\ t.claims.user \in Users
        /\ users[t.claims.user] # None /\ users[t.claims.user].active
    BY <1>0, <2>1, ClaimsInUse DEF Verify, Claims
  <2>3. Stamped(ClaimsOf(t.claims.user, app))
    BY <1>0, <2>2, FreshClaims
  <2>4. ClaimsStamped'
    BY <1>0, <1>d, <2>1, <2>3 DEF Proceed, ClaimsStamped, TypeOK
  <2> QED
    BY <1>0, <1>a, <1>b, <2>1, <2>4 DEF Proceed
<1>5. ASSUME NEW c \in Clients, Issue(c) PROVE RevocationInv'
  <2>1. ClaimsStamped'
    BY <1>0, <1>5, <1>d DEF Issue, Signed, ClaimsStamped, TypeOK, Idle
  <2> QED
    BY <1>0, <1>5, <1>a, <1>b, <2>1 DEF Issue
<1>6. ASSUME NEW c \in Clients, Abandon(c) PROVE RevocationInv'
  <2>1. ClaimsStamped'
    BY <1>0, <1>6, <1>d DEF Abandon, ClaimsStamped, TypeOK, Idle
  <2> QED
    BY <1>0, <1>6, <1>a, <1>b, <2>1 DEF Abandon
<1>7. ASSUME NEW t \in tokens, ExpireToken(t) PROVE RevocationInv'
  <2>1. ClaimsStamped'
    BY <1>0, <1>7, <1>d DEF ExpireToken, ClaimsStamped
  <2> QED
    BY <1>0, <1>7, <1>a, <1>b, <2>1 DEF ExpireToken
<1>8. ASSUME NEW s \in Staff, CreateCheck(s) PROVE RevocationInv'
  <2>1. form'[s].pc = "insert"
    BY <1>0, <1>8 DEF CreateCheck, TypeOK
  <2>2. FormCurrent'
    BY <2>1 DEF FormCurrent, StaffTakeTurns
  <2> QED
    BY <1>0, <1>8, <1>b, <1>c, <1>d, <2>2 DEF CreateCheck
<1>9. ASSUME NEW s \in Staff, CreateInsert(s) PROVE RevocationInv'
  <2>1. /\ issued \subseteq issued' /\ RowsIssued'
        /\ \A u \in issued : users'[u] = users[u]
    BY <1>0, <1>9, FormFields, InsertKeeps DEF CreateInsert
  <2>2. form'[s].pc = "idle"
    BY <1>0, <1>9 DEF CreateInsert, TypeOK, Idle
  <2>3. FormCurrent'
    BY <2>2 DEF FormCurrent, StaffTakeTurns
  <2>4. \A x \in Claims : Stamped(x) => Stamped(x)'
    BY <1>9, <2>1 DEF CreateInsert, Stamped
  <2> QED
    BY <1>0, <1>9, <1>c, <2>1, <2>3, <2>4 DEF CreateInsert
<1>10. ASSUME NEW s \in Staff, Disable(s) PROVE RevocationInv'
  <2>1. PICK u \in Users :
          /\ users[u] # None
          /\ users' = [users EXCEPT ![u] = Disabled(users[u])]
          /\ disables' = [disables EXCEPT ![u] = @ + 1]
    BY <1>10 DEF Disable
  <2>2. \A x \in Claims : Stamped(x) => Stamped(x)'
    BY <1>0, <1>10, <2>1, StampDisabled DEF Disable
  <2>3. FormCurrent'
    BY <1>10 DEF Disable, BeginStaffOp, FormCurrent, StaffTakeTurns, Idle
  <2>4. RowsIssued'
    BY <1>0, <1>10, <2>1 DEF Disable, RowsIssued, TypeOK
  <2> QED
    BY <1>0, <1>10, <1>c, <2>2, <2>3, <2>4 DEF Disable
<1>11. ASSUME NEW s \in Staff, SiteLoad(s) PROVE RevocationInv'
  <2>1. PICK u \in Users, app \in Apps, email \in Emails,
             active \in SiteActive :
          /\ users[u] # None
          /\ form' = [form EXCEPT ![s] =
               [pc |-> "save", pk |-> u,
                inst |-> [users[u] EXCEPT !.app = app, !.email = email,
                                          !.active = active]]]
    BY <1>11 DEF SiteLoad
  <2>2. /\ form'[s].pk = u
        /\ form'[s].inst.version = users[u].version
        /\ form'[s].inst.active
    BY <1>0, <2>1 DEF SiteNeverDisables, TypeOK, Row
  <2>3. FormCurrent'
    BY <1>11, <2>1, <2>2 DEF SiteLoad, FormCurrent, StaffTakeTurns
  <2> QED
    BY <1>0, <1>11, <1>b, <1>c, <1>d, <2>3 DEF SiteLoad
<1>12. ASSUME NEW s \in Staff, SiteSave(s) PROVE RevocationInv'
  <2>1. /\ form[s].pk \in Users /\ form[s].inst \in Row
        /\ users[form[s].pk] # None
        /\ form[s].inst.version = users[form[s].pk].version
        /\ form[s].inst.active
    BY <1>0, <1>12, FormFields DEF SiteSave, FormCurrent
  <2>2. ASSUME NEW x \in Claims, Stamped(x) PROVE Stamped(x)'
    BY <1>0, <1>12, <2>1, <2>2 DEF SiteSave, Stamped, TypeOK
  <2>3. form'[s].pc = "idle"
    BY <1>0, <1>12 DEF SiteSave, TypeOK, Idle
  <2>4. FormCurrent'
    BY <2>3 DEF FormCurrent, StaffTakeTurns
  <2>5. RowsIssued'
    BY <1>0, <1>12, <2>1 DEF SiteSave, RowsIssued, TypeOK
  <2> QED
    BY <1>0, <1>12, <1>c, <2>2, <2>4, <2>5 DEF SiteSave
<1>13. ASSUME NEW s \in Staff, SiteDelete(s) PROVE RevocationInv'
  <2>1. \A x \in Claims : Stamped(x) => Stamped(x)'
    BY <1>0, <1>13 DEF SiteDelete, Stamped, TypeOK
  <2>2. FormCurrent'
    BY <1>13 DEF SiteDelete, BeginStaffOp, FormCurrent, StaffTakeTurns, Idle
  <2>3. RowsIssued'
    BY <1>0, <1>13 DEF SiteDelete, RowsIssued, TypeOK
  <2> QED
    BY <1>0, <1>13, <1>c, <2>1, <2>2, <2>3 DEF SiteDelete
<1>14. CASE UNCHANGED vars
  BY <1>0, <1>14, <1>a, <1>b, <1>c, <1>d DEF vars
<1> QED
  BY <1>1, <1>2, <1>3, <1>4, <1>5, <1>6, <1>7, <1>8, <1>9, <1>10, <1>11,
     <1>12, <1>13, <1>14 DEF Next, ClientNext, StaffNext

\* The invariant about revocation holds initially.
LEMMA RevocationInit == Init => RevocationInv
  BY TypeInit DEF Init, RevocationInv, RowsIssued, FormCurrent,
                  ClaimsStamped, Idle

\* The invariant about revocation, under the two assumptions on staff: rows
\* and forms agree, and claims in circulation carry a version no newer than
\* their user's.
THEOREM RevocationInvariance ==
  ASSUME StaffTakeTurns, SiteNeverDisables
  PROVE  Spec => []RevocationInv
<1>1. RevocationInv /\ [Next]_vars => RevocationInv'
  BY RevocationStep
<1> QED
  BY <1>1, RevocationInit, PTL DEF Spec

\* Disabling a user through the API revokes every token issued from what was
\* read before, for good, if staff requests do not overlap and the admin
\* site never clears is_active.
THEOREM RevocationHolds ==
  ASSUME StaffTakeTurns, SiteNeverDisables
  PROVE  Spec => []RevocationFinal
<1>1. RevocationInv => RevocationFinal
  BY ClaimsInUse
    DEF RevocationInv, ClaimsStamped, Stamped, RevocationFinal, Verify
<1>2. Spec => []RevocationInv
  BY RevocationInvariance
<1> QED
  BY <1>1, <1>2, PTL
=============================================================================
