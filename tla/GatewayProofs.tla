---------------------------- MODULE GatewayProofs ---------------------------
(***************************************************************************)
(* Proofs about Gateway, for every number of applications, routes, rows,   *)
(* concurrent gateway requests and concurrent staff requests.              *)
(***************************************************************************)
EXTENDS Gateway, TLAPS

\* What a gateway request carries once it has begun.
LEMMA RequestFields ==
  ASSUME TypeOK, NEW w \in Requests, req[w].pc # "idle"
  PROVE  /\ req[w].app \in Apps /\ req[w].route \in Routes
         /\ req[w].method \in Methods
         /\ req[w].policy \in Policies \cup {None}
         /\ req[w] = [pc |-> req[w].pc, app |-> req[w].app,
                      route |-> req[w].route, method |-> req[w].method,
                      policy |-> req[w].policy, status |-> req[w].status,
                      at |-> req[w].at]
  BY DEF TypeOK, Request

\* What a change that waits to be saved carries.
LEMMA EditFields ==
  ASSUME TypeOK, NEW s \in Staff
  PROVE  /\ edit[s].pc = "methods" =>
              /\ edit[s].row \in MethodRow /\ edit[s].old \in MethodRow \cup {None}
              /\ edit[s].pk \in MethodRows \cup {None}
         /\ edit[s].pc = "grants" =>
              /\ edit[s].row \in GrantRow /\ edit[s].old \in GrantRow \cup {None}
              /\ edit[s].pk \in GrantRows \cup {None}
  BY DEF TypeOK, Edit

\* The invariant holds initially.
LEMMA GatewayInvInit == Init => GatewayInv
<1> SUFFICES ASSUME Init PROVE GatewayInv
  OBVIOUS
<1>1. TypeOK
  BY DEF Init, TypeOK, Conf, Edit, Request, Idle
<1>2. EditsWithinProject /\ GrantsWithinProject /\ PoliciesConsistent
  BY DEF Init, EditsWithinProject, GrantsWithinProject, PoliciesConsistent, Idle
<1>3. ChecksSeen /\ CheckedWhileRunning
  BY DEF Init, ChecksSeen, CheckedWhileRunning, Running, Steps, Idle
<1> QED
  BY <1>1, <1>2, <1>3 DEF GatewayInv

-----------------------------------------------------------------------------
(* Steps of a gateway request.                                             *)

\* A request moves on with the checks it claims behind it.
LEMMA RequestMoves ==
  ASSUME GatewayInv, NEW w \in Requests, NEW next \in Request,
         Continue(w, next),
         next.pc \in Steps => conf \in seen[w] /\ CheckedSoFar(next, seen[w]),
         next.pc = "done" /\ next.status = 200 => AllChecked(next, seen[w])
  PROVE  GatewayInv'
<1>1. /\ req' = [req EXCEPT ![w] = next]
      /\ req'[w] = next /\ \A v \in Requests \ {w} : req'[v] = req[v]
      /\ UNCHANGED <<routes, stale, conf, edit, changes, seen>>
  BY DEF Continue, GatewayInv, TypeOK
<1>2. TypeOK'
  BY <1>1 DEF GatewayInv, TypeOK
<1>3. EditsWithinProject' /\ GrantsWithinProject' /\ PoliciesConsistent'
  BY <1>1 DEF GatewayInv, EditsWithinProject, GrantsWithinProject,
              PoliciesConsistent, MethodTaken, GrantTaken
<1>4. ChecksSeen'
  BY <1>1 DEF GatewayInv, ChecksSeen, Running
<1>5. CheckedWhileRunning'
  BY <1>1 DEF GatewayInv, CheckedWhileRunning
<1> QED
  BY <1>2, <1>3, <1>4, <1>5 DEF GatewayInv

\* A request is answered; a 200 needs all its checks behind it.
LEMMA RespondKeeps ==
  ASSUME GatewayInv, NEW w \in Requests, req[w].pc \in Steps,
         NEW status \in Statuses, Respond(w, status),
         status = 200 => AllChecked(req[w], seen[w])
  PROVE  GatewayInv'
<1> DEFINE next == [req[w] EXCEPT !.pc = "done", !.status = status,
                                  !.at = req[w].pc]
<1>1. TypeOK /\ req[w].pc # "idle"
  BY DEF GatewayInv, Steps
<1>2. /\ next \in Request /\ next.pc = "done" /\ next.status = status
      /\ next.app = req[w].app /\ next.route = req[w].route
      /\ next.method = req[w].method /\ next.policy = req[w].policy
  BY <1>1 DEF TypeOK, Request
<1>3. status = 200 => AllChecked(next, seen[w])
  BY <1>2 DEF AllChecked
<1>4. Continue(w, next)
  BY DEF Respond
<1>5. "done" \notin Steps
  BY DEF Steps
<1> HIDE DEF next
<1> QED
  BY <1>2, <1>3, <1>4, <1>5, RequestMoves

\* A request moves on to its next check.
LEMMA GotoKeeps ==
  ASSUME GatewayInv, NEW w \in Requests, req[w].pc \in Steps,
         NEW pc \in Steps, Goto(w, pc),
         CheckedSoFar([req[w] EXCEPT !.pc = pc], seen[w])
  PROVE  GatewayInv'
<1> DEFINE next == [req[w] EXCEPT !.pc = pc]
<1>1. TypeOK /\ req[w].pc # "idle"
  BY DEF GatewayInv, Steps
<1>2. next \in Request /\ next.pc = pc
  BY <1>1 DEF TypeOK, Request
<1>3. Continue(w, next)
  BY DEF Goto
<1>4. conf \in seen[w]
  BY DEF GatewayInv, ChecksSeen, Running
<1>5. pc # "done"
  BY DEF Steps
<1> HIDE DEF next
<1>6. CheckedSoFar(next, seen[w])
  BY DEF next
<1> QED
  BY <1>2, <1>3, <1>4, <1>5, <1>6, RequestMoves

\* Every step of a gateway request preserves the invariant.
LEMMA RequestStep ==
  ASSUME GatewayInv, NEW w \in Requests, RequestNext(w)
  PROVE  GatewayInv'
<1>1. TypeOK /\ ChecksSeen
  BY DEF GatewayInv
<1>2. ASSUME req[w].pc \in Steps
      PROVE  /\ req[w].pc # "idle" /\ conf \in seen[w]
             /\ CheckedSoFar(req[w], seen[w])
  BY <1>1, <1>2 DEF ChecksSeen, Running, Steps
<1>3. \A status \in {401, 403, 404, 405, 429, 503} :
        status \in Statuses /\ status # 200
  BY DEF Statuses
<1>4. ASSUME req[w].pc \in Steps, NEW pc \in Steps
      PROVE  LET next == [req[w] EXCEPT !.pc = pc] IN
             /\ next.pc = pc
             /\ next.app = req[w].app /\ next.route = req[w].route
             /\ next.method = req[w].method /\ next.policy = req[w].policy
  BY <1>1, <1>2, <1>4, RequestFields DEF TypeOK, Request
<1>5. CASE Authenticate(w)
  <2>1. PICK a \in conf.keys, r \in Routes, method \in Methods :
          /\ req' = [req EXCEPT ![w] =
               [pc |-> "resolve", app |-> a, route |-> r, method |-> method,
                policy |-> None, status |-> None, at |-> None]]
          /\ seen' = [seen EXCEPT ![w] = {conf}]
          /\ UNCHANGED <<routes, stale, conf, edit, changes>>
    BY <1>5 DEF Authenticate
  <2>2. a \in Apps
    BY <1>1 DEF TypeOK, Conf
  <2>3. TypeOK'
    BY <1>1, <2>1, <2>2 DEF TypeOK, Request, Steps
  <2>4. EditsWithinProject' /\ GrantsWithinProject' /\ PoliciesConsistent'
    BY <2>1 DEF GatewayInv, EditsWithinProject, GrantsWithinProject,
                PoliciesConsistent, MethodTaken, GrantTaken
  <2>5. ChecksSeen'
    BY <1>1, <2>1 DEF ChecksSeen, CheckedSoFar, Running, TypeOK
  <2>6. CheckedWhileRunning'
    BY <1>1, <2>1 DEF GatewayInv, CheckedWhileRunning, TypeOK
  <2> QED
    BY <2>3, <2>4, <2>5, <2>6 DEF GatewayInv
<1>6. CASE ResolveRoute(w)
  <2>1. req[w].pc = "resolve" /\ (Goto(w, "policy") \/ Respond(w, 404))
    BY <1>6 DEF ResolveRoute
  <2>2. req[w].pc \in Steps /\ "policy" \in Steps
    BY <2>1 DEF Steps
  <2>3. CheckedSoFar([req[w] EXCEPT !.pc = "policy"], seen[w])
    BY <1>2, <1>4, <2>1, <2>2 DEF CheckedSoFar
  <2> QED
    BY <1>3, <2>1, <2>2, <2>3, GotoKeeps, RespondKeeps
<1>7. CASE ReadPolicy(w)
  <2>1. req[w].pc = "policy" /\ req[w].pc \in Steps
    BY <1>7 DEF ReadPolicy, Steps
  <2>2. CASE Respond(w, 405)
    BY <1>3, <2>1, <2>2, RespondKeeps
  <2>3. CASE ~Respond(w, 405)
    <3>1. PICK m \in MethodRows :
            /\ conf.methods[m] # None
            /\ conf.methods[m].route = req[w].route
            /\ conf.methods[m].method = req[w].method
            /\ Continue(w, [req[w] EXCEPT !.pc = "countGrants",
                                          !.policy = conf.methods[m].policy])
      BY <1>7, <2>3 DEF ReadPolicy
    <3> DEFINE next == [req[w] EXCEPT !.pc = "countGrants",
                                      !.policy = conf.methods[m].policy]
    <3>2. conf.methods[m] \in MethodRow
      BY <1>1, <3>1 DEF TypeOK, Conf
    <3>3. /\ next \in Request /\ next.pc = "countGrants"
          /\ next.app = req[w].app /\ next.route = req[w].route
          /\ next.method = req[w].method
          /\ next.policy = conf.methods[m].policy
      BY <1>1, <1>2, <2>1, <3>2 DEF TypeOK, Request, MethodRow, Steps
    <3> HIDE DEF next
    <3>4. HasPolicy(conf, next.route, next.method, next.policy)
      BY <3>1, <3>2, <3>3 DEF HasPolicy, MethodRow
    <3>5. CheckedSoFar(next, seen[w]) /\ conf \in seen[w]
      BY <1>2, <2>1, <3>3, <3>4 DEF CheckedSoFar
    <3>6. Continue(w, next)
      BY <3>1 DEF next
    <3> QED
      BY <3>3, <3>5, <3>6, RequestMoves
  <2> QED
    BY <2>2, <2>3
<1>8. ASSUME req[w].pc \in {"countGrants", "findGrant"}, AfterAccess(w),
             HasPermission(conf, req[w].app, req[w].route)
      PROVE  GatewayInv'
  <2>1. req[w].pc \in Steps /\ "token" \in Steps /\ "limit" \in Steps
    BY <1>8 DEF Steps
  <2>2. CASE req[w].policy = "api_key_and_jwt"
    <3>1. CheckedSoFar([req[w] EXCEPT !.pc = "token"], seen[w])
      BY <1>2, <1>4, <1>8, <2>1 DEF CheckedSoFar
    <3>2. Goto(w, "token")
      BY <1>8, <2>2 DEF AfterAccess
    <3> QED
      BY <2>1, <3>1, <3>2, GotoKeeps
  <2>3. CASE req[w].policy # "api_key_and_jwt"
    <3>1. CheckedSoFar([req[w] EXCEPT !.pc = "limit"], seen[w])
      BY <1>2, <1>4, <1>8, <2>1, <2>3 DEF CheckedSoFar
    <3>2. Goto(w, "limit")
      BY <1>8, <2>3 DEF AfterAccess
    <3> QED
      BY <2>1, <3>1, <3>2, GotoKeeps
  <2> QED
    BY <2>2, <2>3
<1>9. CASE CountGrants(w)
  <2>1. /\ req[w].pc = "countGrants"
        /\ \/ Respond(w, 403)
           \/ GrantsOf(conf, req[w].app) = {} /\ AfterAccess(w)
           \/ Goto(w, "findGrant")
    BY <1>9 DEF CountGrants
  <2>2. req[w].pc \in Steps /\ "findGrant" \in Steps
    BY <2>1 DEF Steps
  <2>3. CheckedSoFar([req[w] EXCEPT !.pc = "findGrant"], seen[w])
    BY <1>2, <1>4, <2>1, <2>2 DEF CheckedSoFar
  <2>4. CASE GrantsOf(conf, req[w].app) = {} /\ AfterAccess(w)
    BY <1>8, <2>1, <2>4 DEF HasPermission
  <2> QED
    BY <1>3, <2>1, <2>2, <2>3, <2>4, GotoKeeps, RespondKeeps
<1>10. CASE FindGrant(w)
  <2>1. req[w].pc = "findGrant" /\ req[w].pc \in Steps
    BY <1>10 DEF FindGrant, Steps
  <2>2. CASE Respond(w, 403)
    BY <1>3, <2>1, <2>2, RespondKeeps
  <2>3. CASE ~Respond(w, 403)
    <3>1. /\ AfterAccess(w)
          /\ HasPermission(conf, req[w].app, req[w].route)
      BY <1>10, <2>3 DEF FindGrant, HasPermission, Permits
    <3> QED
      BY <1>8, <2>1, <3>1
  <2> QED
    BY <2>2, <2>3
<1>11. CASE CheckToken(w)
  <2>1. req[w].pc = "token" /\ req[w].pc \in Steps /\ "limit" \in Steps
    BY <1>11 DEF CheckToken, Steps
  <2>2. CASE req[w].app \in conf.tokens
    <3>1. Goto(w, "limit")
      BY <1>11, <2>2 DEF CheckToken
    <3>2. CheckedSoFar([req[w] EXCEPT !.pc = "limit"], seen[w])
      BY <1>2, <1>4, <2>1, <2>2 DEF CheckedSoFar
    <3> QED
      BY <2>1, <3>1, <3>2, GotoKeeps
  <2>3. CASE req[w].app \notin conf.tokens
    <3>1. Respond(w, 401)
      BY <1>11, <2>3 DEF CheckToken
    <3> QED
      BY <1>3, <2>1, <3>1, RespondKeeps
  <2> QED
    BY <2>2, <2>3
<1>12. CASE CheckLimit(w)
  <2>1. /\ req[w].pc = "limit"
        /\ Goto(w, "destination") \/ Respond(w, 429) \/ Respond(w, 503)
    BY <1>12 DEF CheckLimit
  <2>2. req[w].pc \in Steps /\ "destination" \in Steps
    BY <2>1 DEF Steps
  <2>3. CheckedSoFar([req[w] EXCEPT !.pc = "destination"], seen[w])
    BY <1>2, <1>4, <2>1, <2>2 DEF CheckedSoFar
  <2> QED
    BY <1>3, <2>1, <2>2, <2>3, GotoKeeps, RespondKeeps
<1>13. CASE Answer(w)
  <2>1. /\ req[w].pc = "destination"
        /\ Respond(w, 503) \/ Respond(w, 403) \/ Respond(w, 200)
    BY <1>13 DEF Answer
  <2>2. req[w].pc \in Steps
    BY <2>1 DEF Steps
  <2>3. AllChecked(req[w], seen[w])
    BY <1>2, <2>1, <2>2 DEF CheckedSoFar, AllChecked
  <2>4. 200 \in Statuses
    BY DEF Statuses
  <2> QED
    BY <1>3, <2>1, <2>2, <2>3, <2>4, RespondKeeps
<1> QED
  BY <1>5, <1>6, <1>7, <1>9, <1>10, <1>11, <1>12, <1>13 DEF RequestNext

-----------------------------------------------------------------------------
(* Changes by staff.                                                       *)

\* Requests in progress survive a commit: what they have seen only grows.
LEMMA CommitKeepsRequests ==
  ASSUME GatewayInv, NEW new \in Conf, Commit(new)
  PROVE  /\ conf' \in Conf
         /\ req' \in [Requests -> Request]
         /\ seen' \in [Requests -> SUBSET Conf]
         /\ ChecksSeen' /\ CheckedWhileRunning'
<1>1. TypeOK /\ ChecksSeen /\ CheckedWhileRunning
  BY DEF GatewayInv
<1>2. /\ conf' = new /\ req' = req
      /\ seen' \in [Requests -> SUBSET Conf]
      /\ \A w \in Requests : seen[w] \subseteq seen'[w]
      /\ \A w \in Requests : Running(w) => new \in seen'[w]
  BY <1>1 DEF Commit, TypeOK
<1>3. ChecksSeen'
  <2> SUFFICES ASSUME NEW w \in Requests, Running(w)
               PROVE  conf' \in seen'[w] /\ CheckedSoFar(req[w], seen'[w])
    BY <1>2 DEF ChecksSeen, Running
  <2>1. CheckedSoFar(req[w], seen[w])
    BY <1>1 DEF ChecksSeen
  <2> QED
    BY <1>2, <2>1 DEF CheckedSoFar
<1>4. CheckedWhileRunning'
  <2> SUFFICES ASSUME NEW w \in Requests, req[w].pc = "done",
                      req[w].status = 200
               PROVE  AllChecked(req[w], seen'[w])
    BY <1>2 DEF CheckedWhileRunning
  <2>1. AllChecked(req[w], seen[w])
    BY <1>1 DEF CheckedWhileRunning
  <2> QED
    BY <1>2, <2>1 DEF AllChecked
<1> QED
  BY <1>1, <1>2, <1>3, <1>4 DEF TypeOK

\* A change that was validated waits to be saved.
LEMMA LoadKeeps ==
  ASSUME GatewayInv, NEW s \in Staff, NEW next \in Edit,
         next.pc = "grants" => SameProject(next.row),
         edit' = [edit EXCEPT ![s] = next], changes' = changes + 1,
         UNCHANGED <<routes, stale, conf, req, seen>>
  PROVE  GatewayInv'
<1>1. TypeOK'
  BY DEF GatewayInv, TypeOK
<1>2. EditsWithinProject'
  BY DEF GatewayInv, TypeOK, EditsWithinProject
<1>3. GrantsWithinProject' /\ PoliciesConsistent'
  BY DEF GatewayInv, GrantsWithinProject, PoliciesConsistent, MethodTaken,
         GrantTaken
<1>4. ChecksSeen' /\ CheckedWhileRunning'
  BY DEF GatewayInv, ChecksSeen, CheckedWhileRunning, Running
<1> QED
  BY <1>1, <1>2, <1>3, <1>4 DEF GatewayInv

\* A save of a method policy that the index and the foreign key accept.
LEMMA PutMethod ==
  ASSUME GatewayInv, NEW m \in MethodRows, NEW row \in MethodRow,
         row.route \in routes, ~MethodTaken(row, m),
         conf' = [conf EXCEPT !.methods[m] = row], routes' = routes
  PROVE  conf' \in Conf /\ GrantsWithinProject' /\ PoliciesConsistent'
<1>1. conf \in Conf /\ GrantsWithinProject /\ PoliciesConsistent
  BY DEF GatewayInv, TypeOK
<1>2. /\ conf' \in Conf /\ conf'.grants = conf.grants
      /\ conf'.methods = [conf.methods EXCEPT ![m] = row]
  BY <1>1 DEF Conf
<1>3. /\ conf'.methods[m] = row
      /\ \A n \in MethodRows \ {m} : conf'.methods[n] = conf.methods[n]
  BY <1>1, <1>2 DEF Conf
<1>4. \A n \in MethodRows : conf'.methods[n] # None =>
        /\ conf'.methods[n].route \in routes
        /\ \A z \in MethodRows \ {n} : conf'.methods[z] # None =>
             ~(/\ conf'.methods[z].route = conf'.methods[n].route
               /\ conf'.methods[z].method = conf'.methods[n].method)
  BY <1>1, <1>3 DEF PoliciesConsistent, MethodTaken
<1>5. PoliciesConsistent'
  BY <1>1, <1>2, <1>4 DEF PoliciesConsistent, MethodTaken, GrantTaken
<1>6. GrantsWithinProject'
  BY <1>1, <1>2 DEF GrantsWithinProject
<1> QED
  BY <1>2, <1>5, <1>6

\* The same of a grant, which was validated within its project.
LEMMA PutGrant ==
  ASSUME GatewayInv, NEW g \in GrantRows, NEW row \in GrantRow,
         row.route \in routes, ~GrantTaken(row, g), SameProject(row),
         conf' = [conf EXCEPT !.grants[g] = row], routes' = routes
  PROVE  conf' \in Conf /\ GrantsWithinProject' /\ PoliciesConsistent'
<1>1. conf \in Conf /\ GrantsWithinProject /\ PoliciesConsistent
  BY DEF GatewayInv, TypeOK
<1>2. /\ conf' \in Conf /\ conf'.methods = conf.methods
      /\ conf'.grants = [conf.grants EXCEPT ![g] = row]
  BY <1>1 DEF Conf
<1>3. /\ conf'.grants[g] = row
      /\ \A h \in GrantRows \ {g} : conf'.grants[h] = conf.grants[h]
  BY <1>1, <1>2 DEF Conf
<1>4. \A h \in GrantRows : conf'.grants[h] # None =>
        /\ conf'.grants[h].route \in routes
        /\ \A z \in GrantRows \ {h} : conf'.grants[z] # None =>
             ~(/\ conf'.grants[z].app = conf'.grants[h].app
               /\ conf'.grants[z].route = conf'.grants[h].route)
  BY <1>1, <1>3 DEF PoliciesConsistent, GrantTaken
<1>5. PoliciesConsistent'
  BY <1>1, <1>2, <1>4 DEF PoliciesConsistent, MethodTaken, GrantTaken
<1>6. GrantsWithinProject'
  BY <1>1, <1>3 DEF GrantsWithinProject
<1> QED
  BY <1>2, <1>5, <1>6

\* A save, accepted or refused by the database, preserves the invariant.
LEMMA SaveKeeps ==
  ASSUME GatewayInv, NEW s \in Staff, Save(s)
  PROVE  GatewayInv'
<1>1. TypeOK /\ EditsWithinProject
  BY DEF GatewayInv
<1>2. /\ edit' = [edit EXCEPT ![s] = Idle]
      /\ UNCHANGED <<routes, stale, changes>>
  BY DEF Save
<1>3. /\ edit' \in [Staff -> Edit]
      /\ routes' \subseteq Routes /\ stale' \subseteq Routes /\ changes' \in Nat
      /\ EditsWithinProject'
  BY <1>1, <1>2 DEF TypeOK, Edit, Idle, EditsWithinProject
<1>4. CASE UNCHANGED <<conf, req, seen>>
  <2>1. TypeOK'
    BY <1>1, <1>3, <1>4 DEF TypeOK
  <2>2. GrantsWithinProject' /\ PoliciesConsistent'
    BY <1>2, <1>4 DEF GatewayInv, GrantsWithinProject, PoliciesConsistent,
                      MethodTaken, GrantTaken
  <2>3. ChecksSeen' /\ CheckedWhileRunning'
    BY <1>4 DEF GatewayInv, ChecksSeen, CheckedWhileRunning, Running
  <2> QED
    BY <1>3, <2>1, <2>2, <2>3 DEF GatewayInv
<1>5. CASE ~UNCHANGED <<conf, req, seen>>
  <2>1. PICK table \in {"methods", "grants"} :
          /\ edit[s].pc = table
          /\ \E k \in Targets(s, table) :
               /\ edit[s].row.route \in routes
               /\ ~Taken(table, edit[s].row, k)
               /\ Commit([conf EXCEPT ![table][k] = edit[s].row])
    BY <1>5 DEF Save, Written
  <2>2. PICK k \in Targets(s, table) :
               /\ edit[s].row.route \in routes
               /\ ~Taken(table, edit[s].row, k)
               /\ Commit([conf EXCEPT ![table][k] = edit[s].row])
    BY <2>1
  <2>3. conf' \in Conf /\ GrantsWithinProject' /\ PoliciesConsistent'
    <3>1. CASE table = "methods"
      <4>1. edit[s].row \in MethodRow /\ k \in MethodRows
        BY <1>1, <2>1, <2>2, <3>1, EditFields DEF Targets, TypeOK, Conf
      <4>2. conf' = [conf EXCEPT !.methods[k] = edit[s].row]
        BY <2>2, <3>1 DEF Commit
      <4>3. ~MethodTaken(edit[s].row, k)
        BY <2>2, <3>1 DEF Taken
      <4> QED
        BY <1>2, <2>2, <4>1, <4>2, <4>3, PutMethod
    <3>2. CASE table = "grants"
      <4>1. edit[s].row \in GrantRow /\ k \in GrantRows
        BY <1>1, <2>1, <2>2, <3>2, EditFields DEF Targets, TypeOK, Conf
      <4>2. conf' = [conf EXCEPT !.grants[k] = edit[s].row]
        BY <2>2, <3>2 DEF Commit
      <4>3. ~GrantTaken(edit[s].row, k) /\ SameProject(edit[s].row)
        BY <1>1, <2>1, <2>2, <3>2 DEF Taken, EditsWithinProject
      <4> QED
        BY <1>2, <2>2, <4>1, <4>2, <4>3, PutGrant
    <3> QED
      BY <3>1, <3>2
  <2>4. Commit(conf')
    BY <2>2 DEF Commit
  <2>5. /\ req' \in [Requests -> Request]
        /\ seen' \in [Requests -> SUBSET Conf]
        /\ ChecksSeen' /\ CheckedWhileRunning'
    BY <2>3, <2>4, CommitKeepsRequests
  <2> QED
    BY <1>3, <2>3, <2>5 DEF GatewayInv, TypeOK
<1> QED
  BY <1>4, <1>5

\* Deleting a route takes its policies and grants along.
LEMMA DeleteKeeps ==
  ASSUME GatewayInv, NEW s \in Staff, DeleteRoute(s)
  PROVE  GatewayInv'
<1>1. TypeOK /\ EditsWithinProject /\ GrantsWithinProject /\ PoliciesConsistent
  BY DEF GatewayInv
<1>2. PICK r \in routes :
        /\ changes' = changes + 1 /\ edit' = edit
        /\ routes' = routes \ {r} /\ stale' = stale \cup {r}
        /\ Commit([conf EXCEPT
             !.methods = [m \in MethodRows |->
               IF @[m] # None /\ @[m].route = r THEN None ELSE @[m]],
             !.grants = [g \in GrantRows |->
               IF @[g] # None /\ @[g].route = r THEN None ELSE @[g]]])
  BY DEF DeleteRoute, BeginChange
<1>3. /\ conf'.methods = [m \in MethodRows |->
           IF conf.methods[m] # None /\ conf.methods[m].route = r
           THEN None ELSE conf.methods[m]]
      /\ conf'.grants = [g \in GrantRows |->
           IF conf.grants[g] # None /\ conf.grants[g].route = r
           THEN None ELSE conf.grants[g]]
      /\ conf' \in Conf
      /\ Commit(conf')
  BY <1>1, <1>2 DEF Commit, TypeOK, Conf
<1>4. /\ \A m \in MethodRows : conf'.methods[m] # None =>
           conf'.methods[m] = conf.methods[m] /\ conf.methods[m].route # r
      /\ \A g \in GrantRows : conf'.grants[g] # None =>
           conf'.grants[g] = conf.grants[g] /\ conf.grants[g].route # r
  BY <1>3
<1>5. GrantsWithinProject'
  BY <1>1, <1>4 DEF GrantsWithinProject
<1>6. PoliciesConsistent'
  BY <1>1, <1>2, <1>4 DEF PoliciesConsistent, MethodTaken, GrantTaken
<1>7. /\ req' \in [Requests -> Request]
      /\ seen' \in [Requests -> SUBSET Conf]
      /\ ChecksSeen' /\ CheckedWhileRunning'
  BY <1>3, CommitKeepsRequests
<1>8. TypeOK' /\ EditsWithinProject'
  BY <1>1, <1>2, <1>3, <1>7 DEF TypeOK, EditsWithinProject
<1> QED
  BY <1>5, <1>6, <1>7, <1>8 DEF GatewayInv

\* Keys and tokens may change at any time.
LEMMA CredentialsKeep ==
  ASSUME GatewayInv, NEW s \in Staff, ChangeCredentials(s)
  PROVE  GatewayInv'
<1>1. TypeOK /\ EditsWithinProject /\ GrantsWithinProject /\ PoliciesConsistent
  BY DEF GatewayInv
<1>2. PICK f \in {"keys", "tokens"}, a \in Apps :
        /\ changes' = changes + 1
        /\ Commit([conf EXCEPT ![f] = IF a \in @ THEN @ \ {a} ELSE @ \cup {a}])
        /\ UNCHANGED <<routes, stale, edit>>
  BY DEF ChangeCredentials, BeginChange
<1>3. /\ conf' \in Conf /\ Commit(conf')
      /\ conf'.methods = conf.methods /\ conf'.grants = conf.grants
  <2>1. CASE f = "keys"
    BY <1>1, <1>2, <2>1 DEF Commit, TypeOK, Conf
  <2>2. CASE f = "tokens"
    BY <1>1, <1>2, <2>2 DEF Commit, TypeOK, Conf
  <2> QED
    BY <2>1, <2>2
<1>4. GrantsWithinProject' /\ PoliciesConsistent'
  BY <1>1, <1>2, <1>3 DEF GrantsWithinProject, PoliciesConsistent,
                          MethodTaken, GrantTaken
<1>5. /\ req' \in [Requests -> Request]
      /\ seen' \in [Requests -> SUBSET Conf]
      /\ ChecksSeen' /\ CheckedWhileRunning'
  BY <1>3, CommitKeepsRequests
<1>6. TypeOK' /\ EditsWithinProject'
  BY <1>1, <1>2, <1>3, <1>5 DEF TypeOK, EditsWithinProject
<1> QED
  BY <1>4, <1>5, <1>6 DEF GatewayInv

\* Every step of a staff request preserves the invariant.
LEMMA StaffStep ==
  ASSUME GatewayInv, NEW s \in Staff, StaffNext(s)
  PROVE  GatewayInv'
<1>1. TypeOK
  BY DEF GatewayInv
<1>2. CASE CreateMethod(s)
  <2>1. PICK row \in MethodRow : Load(s, "methods", None, row, None)
    BY <1>2 DEF CreateMethod
  <2>2. [pc |-> "methods", pk |-> None, row |-> row, old |-> None] \in Edit
    BY DEF Edit
  <2> QED
    BY <2>1, <2>2, LoadKeeps DEF Load, BeginChange
<1>3. CASE UpdateMethod(s)
  <2>1. PICK m \in MethodRows, method \in Methods, policy \in Policies :
          /\ conf.methods[m] # None
          /\ Load(s, "methods", m,
                  [conf.methods[m] EXCEPT !.method = method,
                                          !.policy = policy],
                  conf.methods[m])
    BY <1>3 DEF UpdateMethod
  <2> DEFINE row == [conf.methods[m] EXCEPT !.method = method,
                                            !.policy = policy]
             next == [pc |-> "methods", pk |-> m, row |-> row,
                      old |-> conf.methods[m]]
  <2>2. conf.methods[m] \in MethodRow
    BY <1>1, <2>1 DEF TypeOK, Conf
  <2>3. row \in MethodRow
    BY <2>2 DEF MethodRow
  <2> HIDE DEF row
  <2>4. next \in Edit /\ next.pc = "methods"
    BY <2>2, <2>3 DEF Edit
  <2>5. /\ edit' = [edit EXCEPT ![s] = next] /\ changes' = changes + 1
        /\ UNCHANGED <<routes, stale, conf, req, seen>>
    BY <2>1 DEF Load, BeginChange, row
  <2> HIDE DEF next
  <2> QED
    BY <2>4, <2>5, LoadKeeps
<1>4. CASE CreateGrant(s)
  <2>1. PICK row \in GrantRow :
          SameProject(row) /\ Load(s, "grants", None, row, None)
    BY <1>4 DEF CreateGrant
  <2>2. [pc |-> "grants", pk |-> None, row |-> row, old |-> None] \in Edit
    BY DEF Edit
  <2> QED
    BY <2>1, <2>2, LoadKeeps DEF Load, BeginChange
<1>5. CASE UpdateGrant(s)
  <2>1. PICK g \in GrantRows, row \in GrantRow :
          SameProject(row) /\ Load(s, "grants", g, row, conf.grants[g])
    BY <1>5 DEF UpdateGrant
  <2>2. conf.grants[g] \in GrantRow \cup {None}
    BY <1>1 DEF TypeOK, Conf
  <2>3. [pc |-> "grants", pk |-> g, row |-> row, old |-> conf.grants[g]] \in Edit
    BY <2>2 DEF Edit
  <2> QED
    BY <2>1, <2>3, LoadKeeps DEF Load, BeginChange
<1> QED
  BY <1>2, <1>3, <1>4, <1>5, SaveKeeps, DeleteKeeps, CredentialsKeep
     DEF StaffNext

-----------------------------------------------------------------------------
\* Every step of the system preserves the invariant.
LEMMA GatewayInvStep == GatewayInv /\ [Next]_vars => GatewayInv'
<1> SUFFICES ASSUME GatewayInv, [Next]_vars PROVE GatewayInv'
  OBVIOUS
<1>1. ASSUME NEW r \in stale, ForgetRoute(r) PROVE GatewayInv'
  <2>1. UNCHANGED <<routes, conf, edit, changes, req, seen>> /\ stale' \subseteq stale
    BY <1>1 DEF ForgetRoute
  <2>2. TypeOK'
    BY <2>1 DEF GatewayInv, TypeOK
  <2> QED
    BY <2>1, <2>2 DEF GatewayInv, EditsWithinProject, GrantsWithinProject,
       PoliciesConsistent, MethodTaken, GrantTaken, ChecksSeen, Running,
       CheckedWhileRunning
<1>2. CASE UNCHANGED vars
  BY <1>2 DEF vars, GatewayInv, TypeOK, EditsWithinProject,
     GrantsWithinProject, PoliciesConsistent, MethodTaken, GrantTaken,
     ChecksSeen, Running, CheckedWhileRunning
<1> QED
  BY <1>1, <1>2, RequestStep, StaffStep DEF Next

\* The invariant that carries the three properties below.
THEOREM Invariance == Spec => []GatewayInv
  BY GatewayInvInit, GatewayInvStep, PTL DEF Spec

\* A request is answered 200 only if each check of
\* GatewayProxyView.forward held at some time while the request ran.
THEOREM AnswersChecked == Spec => []CheckedWhileRunning
<1>1. GatewayInv => CheckedWhileRunning
  BY DEF GatewayInv
<1> QED
  BY <1>1, Invariance, PTL

\* No grant joins an application to another project's route
\* (RoutePermissionDetailView.update), whatever updates race.
THEOREM GrantsContained == Spec => []GrantsWithinProject
<1>1. GatewayInv => GrantsWithinProject
  BY DEF GatewayInv
<1> QED
  BY <1>1, Invariance, PTL

\* One policy per method and route, one grant per application and route,
\* and none of a route that is gone.
THEOREM PoliciesStayConsistent == Spec => []PoliciesConsistent
<1>1. GatewayInv => PoliciesConsistent
  BY DEF GatewayInv
<1> QED
  BY <1>1, Invariance, PTL

-----------------------------------------------------------------------------
(* Refusals.                                                               *)

\* A request that moves leaves the others as grounded as they were.
LEMMA GroundedMove ==
  ASSUME RefusalInv, NEW w \in Requests, NEW next, Continue(w, next),
         GatewayInv', Grounded(next, seen[w]), ~Refused(next)
  PROVE  RefusalInv'
<1>1. /\ req'[w] = next /\ \A v \in Requests \ {w} : req'[v] = req[v]
      /\ UNCHANGED <<conf, seen>>
  BY DEF Continue, RefusalInv, GatewayInv, TypeOK
<1>2. \A v \in Requests : Grounded(req[v], seen[v])'
  BY <1>1 DEF RefusalInv, Grounded
<1>3. RefusalJustified'
  BY <1>1 DEF RefusalInv, RefusalJustified, Refused, Turned, HasPermission
<1> QED
  BY <1>2, <1>3 DEF RefusalInv

\* A request that is refused for want of a grant either has none that permits
\* it, among those it has now, or has lost its last one since it was counted.
LEMMA RefusedForCause ==
  ASSUME RefusalInv, NEW w \in Requests, req[w].pc = "findGrant",
         ~\E g \in GrantsOf(conf, req[w].app) :
            Permits(conf.grants[g], req[w].route),
         ~Turned(seen[w], req[w].app)
  PROVE  \E c \in seen[w] : ~HasPermission(c, req[w].app, req[w].route)
<1>1. conf \in seen[w]
  BY DEF RefusalInv, GatewayInv, ChecksSeen, Running, Steps
<1>2. PICK d \in seen[w] : GrantsOf(d, req[w].app) # {}
  BY DEF RefusalInv, Grounded
<1>3. GrantsOf(conf, req[w].app) # {}
  BY <1>1, <1>2 DEF Turned
<1>4. ~HasPermission(conf, req[w].app, req[w].route)
  BY <1>3 DEF HasPermission, Permits
<1> QED
  BY <1>1, <1>4

\* The request's state after it goes on or is answered.
LEMMA NextFields ==
  ASSUME GatewayInv, NEW w \in Requests, req[w].pc \in Steps, NEW pc, NEW status
  PROVE  LET on == [req[w] EXCEPT !.pc = pc]
             out == [req[w] EXCEPT !.pc = "done", !.status = status,
                                   !.at = req[w].pc]
         IN  /\ on.pc = pc /\ on.app = req[w].app /\ on.route = req[w].route
             /\ out.pc = "done" /\ out.status = status /\ out.at = req[w].pc
             /\ out.app = req[w].app /\ out.route = req[w].route
<1>1. req[w] = [pc |-> req[w].pc, app |-> req[w].app,
                route |-> req[w].route, method |-> req[w].method,
                policy |-> req[w].policy, status |-> req[w].status,
                at |-> req[w].at]
  BY RequestFields DEF GatewayInv, Steps
<1> QED
  BY <1>1

\* A request goes on; before it looks for a grant it has seen that there are
\* some.
LEMMA GroundedGoto ==
  ASSUME RefusalInv, GatewayInv', NEW w \in Requests, req[w].pc \in Steps,
         NEW pc \in Steps, Goto(w, pc),
         pc = "findGrant" => \E c \in seen[w] : GrantsOf(c, req[w].app) # {}
  PROVE  RefusalInv'
<1> DEFINE next == [req[w] EXCEPT !.pc = pc]
<1>1. next.pc = pc /\ next.app = req[w].app /\ next.route = req[w].route
  BY NextFields DEF RefusalInv
<1>2. Grounded(next, seen[w])
  BY <1>1 DEF RefusalInv, Grounded
<1>3. ~Refused(next)
  BY <1>1 DEF Refused, Steps
<1>4. Continue(w, next)
  BY DEF Goto
<1> HIDE DEF next
<1> QED
  BY <1>2, <1>3, <1>4, GroundedMove

\* A request is answered by another step than has_permission.
LEMMA GroundedRespond ==
  ASSUME RefusalInv, GatewayInv', NEW w \in Requests, req[w].pc \in Steps,
         NEW status, Respond(w, status),
         status # 403 \/ req[w].pc \notin {"countGrants", "findGrant"}
  PROVE  RefusalInv'
<1> DEFINE next == [req[w] EXCEPT !.pc = "done", !.status = status,
                                  !.at = req[w].pc]
<1>1. next.pc = "done" /\ next.status = status /\ next.at = req[w].pc
  BY NextFields DEF RefusalInv
<1>2. Grounded(next, seen[w]) /\ ~Refused(next)
  BY <1>1 DEF Grounded, Refused, Steps
<1>3. Continue(w, next)
  BY DEF Respond
<1> HIDE DEF next
<1> QED
  BY <1>2, <1>3, GroundedMove

\* The refusal of has_permission's second query.
LEMMA RefusalRecorded ==
  ASSUME RefusalInv, GatewayInv', NEW w \in Requests, req[w].pc = "findGrant",
         ~\E g \in GrantsOf(conf, req[w].app) :
            Permits(conf.grants[g], req[w].route),
         Respond(w, 403)
  PROVE  RefusalInv'
<1> DEFINE next == [req[w] EXCEPT !.pc = "done", !.status = 403,
                                  !.at = req[w].pc]
<1>1. next.pc = "done" /\ next.app = req[w].app /\ next.route = req[w].route
  BY NextFields DEF RefusalInv, Steps
<1>2. /\ req'[w] = next /\ \A v \in Requests \ {w} : req'[v] = req[v]
      /\ UNCHANGED <<conf, seen>>
  BY DEF Respond, Continue, RefusalInv, GatewayInv, TypeOK
<1> HIDE DEF next
<1>3. \A v \in Requests : Grounded(req[v], seen[v])'
  BY <1>1, <1>2 DEF RefusalInv, Grounded, Steps
<1>4. ~Turned(seen[w], req[w].app) =>
        \E c \in seen[w] : ~HasPermission(c, req[w].app, req[w].route)
  BY RefusedForCause
<1>5. RefusalJustified'
  BY <1>1, <1>2, <1>4 DEF RefusalInv, RefusalJustified, Refused, Turned,
                          HasPermission
<1> QED
  BY <1>3, <1>5 DEF RefusalInv

\* A commit adds to what running requests have seen, and to nothing else.
LEMMA CommitKeepsRefusals ==
  ASSUME RefusalInv, GatewayInv', UNCHANGED req,
         \A w \in Requests : /\ seen[w] \subseteq seen'[w]
                             /\ ~Running(w) => seen'[w] = seen[w]
  PROVE  RefusalInv'
<1>1. \A w \in Requests : Grounded(req[w], seen[w])'
  BY DEF RefusalInv, Grounded
<1>2. \A w \in Requests : Refused(req[w]) => ~Running(w)
  BY DEF Refused, Running, Steps
<1>3. RefusalJustified'
  BY <1>2 DEF RefusalInv, RefusalJustified, Refused, Turned, HasPermission
<1> QED
  BY <1>1, <1>3 DEF RefusalInv

\* Every step of a gateway request keeps refusals justified.
LEMMA RefusalRequestStep ==
  ASSUME RefusalInv, GatewayInv', NEW w \in Requests, RequestNext(w)
  PROVE  RefusalInv'
<1>0. /\ GatewayInv /\ TypeOK
      /\ req[w].pc \in Steps =>
           conf \in seen[w] /\ ProjectOf[req[w].route] = ProjectOf[req[w].app]
  BY DEF RefusalInv, GatewayInv, ChecksSeen, Running, Grounded
<1>a. {"resolve", "policy", "countGrants", "findGrant", "token", "limit",
       "destination"} = Steps
  BY DEF Steps
<1>b. ASSUME req[w].pc \in Steps, AfterAccess(w) PROVE RefusalInv'
  BY <1>a, <1>b, GroundedGoto DEF AfterAccess
<1>1. CASE Authenticate(w)
  <2>1. /\ req'[w].pc = "resolve"
        /\ ProjectOf[req'[w].route] = ProjectOf[req'[w].app]
        /\ \A v \in Requests \ {w} : req'[v] = req[v] /\ seen'[v] = seen[v]
    BY <1>0, <1>1 DEF Authenticate, TypeOK
  <2>2. \A v \in Requests : Grounded(req[v], seen[v])'
    BY <2>1 DEF RefusalInv, Grounded
  <2>3. RefusalJustified'
    BY <2>1 DEF RefusalInv, RefusalJustified, Refused, Turned, HasPermission
  <2> QED
    BY <2>2, <2>3 DEF RefusalInv
<1>2. CASE ResolveRoute(w)
  BY <1>2, <1>a, GroundedGoto, GroundedRespond DEF ResolveRoute
<1>3. CASE ReadPolicy(w)
  <2>1. CASE Respond(w, 405)
    BY <1>3, <1>a, <2>1, GroundedRespond DEF ReadPolicy
  <2>2. ASSUME NEW policy \in Policies,
               Continue(w, [req[w] EXCEPT !.pc = "countGrants",
                                          !.policy = policy])
        PROVE  RefusalInv'
    <3> DEFINE next == [req[w] EXCEPT !.pc = "countGrants", !.policy = policy]
    <3>1. req[w].pc \in Steps /\ req[w].pc # "idle"
      BY <1>3, <1>a DEF ReadPolicy
    <3>2. /\ next.pc = "countGrants" /\ next.app = req[w].app
          /\ next.route = req[w].route
      BY <1>0, <3>1, RequestFields
    <3>3. Grounded(next, seen[w]) /\ ~Refused(next)
      BY <1>0, <3>1, <3>2 DEF Grounded, Refused
    <3>4. Continue(w, next)
      BY <2>2
    <3> HIDE DEF next
    <3> QED
      BY <3>3, <3>4, GroundedMove
  <2>3. \A m \in MethodRows : conf.methods[m] # None =>
          conf.methods[m].policy \in Policies
    BY <1>0 DEF TypeOK, Conf, MethodRow
  <2> QED
    BY <1>3, <2>1, <2>2, <2>3 DEF ReadPolicy
<1>4. CASE CountGrants(w)
  <2>1. req[w].pc = "countGrants" /\ req[w].pc \in Steps
    BY <1>4, <1>a DEF CountGrants
  <2>2. CASE GrantsOf(conf, req[w].app) = {}
    BY <1>0, <1>4, <1>b, <2>1, <2>2 DEF CountGrants
  <2>3. CASE GrantsOf(conf, req[w].app) # {}
    BY <1>0, <1>4, <1>a, <2>1, <2>3, GroundedGoto DEF CountGrants
  <2> QED
    BY <2>2, <2>3
<1>5. CASE FindGrant(w)
  <2>1. req[w].pc = "findGrant" /\ req[w].pc \in Steps
    BY <1>5, <1>a DEF FindGrant
  <2> QED
    BY <1>5, <1>b, <2>1, RefusalRecorded DEF FindGrant
<1>6. CASE CheckToken(w)
  BY <1>6, <1>a, GroundedGoto, GroundedRespond DEF CheckToken
<1>7. CASE CheckLimit(w)
  BY <1>7, <1>a, GroundedGoto, GroundedRespond DEF CheckLimit
<1>8. CASE Answer(w)
  BY <1>8, <1>a, GroundedRespond DEF Answer
<1> QED
  BY <1>1, <1>2, <1>3, <1>4, <1>5, <1>6, <1>7, <1>8 DEF RequestNext

\* Every step keeps refusals justified.
LEMMA RefusalInvStep == RefusalInv /\ [Next]_vars => RefusalInv'
<1> SUFFICES ASSUME RefusalInv, [Next]_vars PROVE RefusalInv'
  OBVIOUS
<1>0. GatewayInv /\ GatewayInv' /\ TypeOK
  BY GatewayInvStep DEF RefusalInv, GatewayInv
<1>1. ASSUME NEW w \in Requests, RequestNext(w) PROVE RefusalInv'
  BY <1>0, <1>1, RefusalRequestStep
<1>2. ASSUME UNCHANGED <<req, seen>> PROVE RefusalInv'
  BY <1>0, <1>2, CommitKeepsRefusals
<1>3. ASSUME NEW new, Commit(new) PROVE RefusalInv'
  BY <1>0, <1>3, CommitKeepsRefusals DEF Commit, TypeOK
<1>4. ASSUME NEW s \in Staff, StaffNext(s) PROVE RefusalInv'
  BY <1>2, <1>3, <1>4
    DEF StaffNext, CreateMethod, UpdateMethod, CreateGrant, UpdateGrant, Load,
        Save, DeleteRoute, ChangeCredentials
<1>5. ASSUME NEW r \in stale, ForgetRoute(r) PROVE RefusalInv'
  BY <1>2, <1>5 DEF ForgetRoute
<1>6. CASE UNCHANGED vars
  BY <1>2, <1>6 DEF vars
<1> QED
  BY <1>1, <1>4, <1>5, <1>6 DEF Next

\* An application is refused by has_permission only if it was not permitted
\* at some time while its request ran, unless its first grant came or its
\* last one went between the two queries.
THEOREM AccessRefusals == Spec => []RefusalJustified
<1>1. Init => RefusalInv
  BY GatewayInvInit DEF Init, RefusalInv, Grounded, RefusalJustified, Refused,
     Idle, Steps
<1>2. RefusalInv => RefusalJustified
  BY DEF RefusalInv
<1> QED
  BY <1>1, <1>2, RefusalInvStep, PTL DEF Spec
=============================================================================
