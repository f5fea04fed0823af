------------------------ MODULE RouteMigrationsProofs -----------------------
(***************************************************************************)
(* What the data migrations keep, for every database that the two old      *)
(* releases may have left, whatever fails and whatever the operator does.  *)
(*                                                                         *)
(* The invariant relates the tables to `legacy`, operation by operation:   *)
(* Past(m, h, i, j) says that operation j of migration i has been done when*)
(* migration m is at its h-th committed operation.                         *)
(***************************************************************************)
EXTENDS RouteMigrations, FiniteSetTheorems, SequenceTheorems,
        WellFoundedInduction, TLAPS

Past(m, h, i, j) == m > i \/ (m = i /\ h >= j)

Copied(m, h)   == Past(m, h, 2, 3)    \* copy_first_target_url
Assigned(m, h) == Past(m, h, 3, 1)    \* backfill_application
Joined(m, h)   == Past(m, h, 4, 3)    \* consolidate_routes
Moved(m, h)    == Past(m, h, 5, 2)    \* migrate_service_origins
Single(m, h)   == Past(m, h, 6, 1)    \* validate_single_key_per_application
Valid(m, h)    == Past(m, h, 8, 1)    \* validate_paths

\* Routes, grants and logs are those of the old release...
Same(L, d) ==
  /\ DOMAIN d.routes = DOMAIN L.routes
  /\ \A r \in DOMAIN L.routes :
       /\ d.routes[r].project = L.routes[r].project
       /\ d.routes[r].path = L.routes[r].path
       /\ d.routes[r].method = L.routes[r].method
       /\ d.routes[r].active = L.routes[r].active
       /\ d.routes[r].policy = L.routes[r].policy
  /\ d.grants = L.grants
  /\ d.logs = L.logs

\* ...or what consolidate_routes makes of them, having refused nothing.
Merged(L, d) ==
  /\ DOMAIN d.routes = {Survivor(L, q) : q \in DOMAIN L.routes}
  /\ \A r \in DOMAIN d.routes :
       /\ d.routes[r].project = L.routes[r].project
       /\ d.routes[r].path = L.routes[r].path
       /\ d.routes[r].active = (ActiveMethods(L, Group(L, r)) # {})
  /\ d.methods = {[route |-> Survivor(L, r), method |-> L.routes[r].method,
                   policy |-> L.routes[r].policy] :
                  r \in {q \in DOMAIN L.routes : L.routes[q].active}}
  /\ d.grants = {MergedGrant(L, g) : g \in L.grants}
  /\ \A l \in DOMAIN d.logs :
       l \in DOMAIN L.logs /\ d.logs[l] = MovedLog(L, L.logs[l])
  /\ \A r \in DOMAIN L.routes : ~MethodSpecific(L, Group(L, r))

RoutesFollow(L, d, m, h) == IF Joined(m, h) THEN Merged(L, d) ELSE Same(L, d)

AppOf(L, k, m, h) ==
  IF Assigned(m, h) /\ L.keys[k].app = None
  THEN DefaultApplication(L.keys[k].project) ELSE L.keys[k].app

KeysFollow(L, d, m, h) ==
  /\ DOMAIN d.keys = DOMAIN L.keys
  /\ \A k \in DOMAIN d.keys : d.keys[k].project = L.keys[k].project
                               /\ d.keys[k].app = AppOf(L, k, m, h)
  /\ Single(m, h) =>
       \A k, j \in DOMAIN d.keys : d.keys[k].app = d.keys[j].app => k = j

\* The row that stands for row q of the old release.
Heir(L, q, m, h) == IF Joined(m, h) THEN Survivor(L, q) ELSE q

TargetsFollow(L, d, m, h) ==
  \A q \in DOMAIN L.routes :
    IF Copied(m, h)
    THEN d.routes[Heir(L, q, m, h)].target \in LegacyDestinations(L.routes[q])
    ELSE d.routes[q].targets = L.routes[q].targets /\ L.routes[q].target = None

\* The service's origin leads where the route's own target did.
Settled(d, r) ==
  LET url == d.routes[r].target
  IN  Destination(d, r) =
        IF url = None THEN None
        ELSE [origin |-> url.origin, path |-> NormalizePath(url.path)]

OriginsFollow(d, m, h) ==
  IF Moved(m, h) THEN \A r \in DOMAIN d.routes : Settled(d, r)
  ELSE \A s \in DOMAIN d.services : d.services[s].url = None

PathsFollow(d, m, h) ==
  Valid(m, h) => \A r \in DOMAIN d.routes : OneSegment(d.routes[r].path)

Follows(L, d, m, h) ==
  /\ WellFormed(d)
  /\ RoutesFollow(L, d, m, h)
  /\ KeysFollow(L, d, m, h)
  /\ TargetsFollow(L, d, m, h)
  /\ OriginsFollow(d, m, h)
  /\ PathsFollow(d, m, h)

\* An attempt goes on where the committed operations end, or starts anew;
\* routes.0008 and routes.0009 cannot get past their first operation twice.
Progress ==
  /\ backend \in {"sqlite", "mysql"}
  /\ mig \in 1..9 /\ pos \in Nat /\ high \in Nat
  /\ 1 <= pos /\ pos <= high + 1
  /\ pos = high + 1 \/ pos = 1 \/ mig \in {3, 6, 8}
  /\ backend = "sqlite" => pos = high + 1
  /\ status \in {"running", "exited", "done"}
  /\ status = "done" <=> mig = 9
  /\ status = "exited" => pos = 1

\* A route that an error named is still there, and while it is there
\* consolidate_routes refuses again.
BlameKept ==
  \A row \in blame : row[1] = "route" =>
    /\ mig >= 4 /\ row[2] \in DOMAIN db.routes
    /\ mig = 4 => high < 3 /\ ConsolidateConflicts(db) # {}

\* The inductive invariant.
MigrationInv ==
  /\ Progress
  /\ WellFormed(legacy) /\ Referential(legacy)
  /\ Follows(legacy, db, mig, high)
  /\ backend = "sqlite" => Follows(legacy, saved, mig, 0)
  /\ backend = "sqlite" /\ mig = 4 /\ high < 3 => db = saved
  /\ BlameKept

-----------------------------------------------------------------------------
(* Minima, and the groups of routes.0008.                                  *)

\* Min, which CHOOSE defines, is what its name says.
LEMMA MinFact ==
  ASSUME NEW S, S \subseteq Nat, S # {}
  PROVE  Min(S) \in S /\ \A y \in S : Min(S) <= y
<1>1. \E x \in S : \A y \in S : ~(<<y, x>> \in OpToRel(<, Nat))
  BY NatLessThanWellFounded, WFMin
<1>2. OpToRel(<, Nat) = {ss \in Nat \X Nat : ss[1] < ss[2]}
  BY DEF OpToRel
<1>3. PICK x \in S : \A y \in S : ~(<<y, x>> \in OpToRel(<, Nat))
  BY <1>1
<1>4. ASSUME NEW y \in S PROVE x <= y
  <2>1. x \in Nat /\ y \in Nat /\ <<y, x>> \in Nat \X Nat
    OBVIOUS
  <2>2. ~(y < x)
    BY <1>2, <1>3, <2>1
  <2> QED
    BY <2>1, <2>2
<1> QED
  BY <1>4 DEF Min

\* A group is a class of an equivalence, and its survivor stands for it.
LEMMA GroupFact ==
  ASSUME NEW d, DOMAIN d.routes \subseteq Nat, NEW r \in DOMAIN d.routes
  PROVE  /\ r \in Group(d, r) /\ Group(d, r) \subseteq DOMAIN d.routes
         /\ \A q \in Group(d, r) : Group(d, q) = Group(d, r)
         /\ Survivor(d, r) \in Group(d, r)
         /\ Group(d, Survivor(d, r)) = Group(d, r)
         /\ \A q \in Group(d, r) : Survivor(d, q) = Survivor(d, r)
         /\ \A q \in DOMAIN d.routes :
              Survivor(d, q) = Survivor(d, r) => q \in Group(d, r)
<1>1. r \in Group(d, r) /\ Group(d, r) \subseteq DOMAIN d.routes
  BY DEF Group
<1>2. \A q \in Group(d, r) : Group(d, q) = Group(d, r)
  BY DEF Group
<1>3. Survivor(d, r) \in Group(d, r)
  BY <1>1, MinFact DEF Survivor
<1>4. ASSUME NEW q \in DOMAIN d.routes, Survivor(d, q) = Survivor(d, r)
      PROVE  q \in Group(d, r)
  <2>1. q \in Group(d, q) /\ Group(d, q) \subseteq DOMAIN d.routes
    BY DEF Group
  <2>2. Survivor(d, q) \in Group(d, q)
    BY <2>1, MinFact DEF Survivor
  <2> QED
    BY <1>3, <1>4, <2>2 DEF Group
<1> QED
  BY <1>1, <1>2, <1>3, <1>4 DEF Survivor

\* Groups depend on projects and paths alone.
LEMMA GroupSame ==
  ASSUME NEW L, NEW d, DOMAIN d.routes = DOMAIN L.routes,
         \A r \in DOMAIN L.routes : /\ d.routes[r].project = L.routes[r].project
                                    /\ d.routes[r].path = L.routes[r].path
  PROVE  \A r \in DOMAIN L.routes : /\ Group(d, r) = Group(L, r)
                                    /\ Survivor(d, r) = Survivor(L, r)
  BY DEF Group, Survivor

-----------------------------------------------------------------------------
(* The plan.                                                               *)

\* How many operations each migration has.
LEMMA PlanShape ==
  /\ Len(Plan) = 8
  /\ Len(Plan[1].ops) = 9 /\ Len(Plan[2].ops) = 4 /\ Len(Plan[3].ops) = 4
  /\ Len(Plan[4].ops) = 12 /\ Len(Plan[5].ops) = 3 /\ Len(Plan[6].ops) = 2
  /\ Len(Plan[7].ops) = 1 /\ Len(Plan[8].ops) = 1
  BY DEF Plan, Routes0004, Routes0005, Authentication0008, Routes0008,
         Routes0009, Authentication0009, Analytics0006, Routes0010

\* Where the operations that matter are.
LEMMA PlanPlaces ==
  ASSUME NEW m \in 1..8, NEW p \in 1..Len(Plan[m].ops)
  PROVE  LET op == Plan[m].ops[p] IN
         /\ op = "copy_downstream_services" <=> (m = 1 /\ p = 4)
         /\ op = "copy_first_target_url" <=> (m = 2 /\ p = 3)
         /\ op = "backfill_application" <=> (m = 3 /\ p = 1)
         /\ op = "NotNull.apikey.application" <=> (m = 3 /\ p = 3)
         /\ op = "consolidate_routes" <=> (m = 4 /\ p = 3)
         /\ op = "Unique.route.project.base_path" <=> (m = 4 /\ p = 11)
         /\ op = "migrate_service_origins" <=> (m = 5 /\ p = 2)
         /\ op = "validate_single_key_per_application" <=> (m = 6 /\ p = 1)
         /\ op = "Unique.apikey.application" <=> (m = 6 /\ p = 2)
         /\ op = "DeleteModel.RequestLog" <=> (m = 7 /\ p = 1)
         /\ op = "validate_paths" <=> (m = 8 /\ p = 1)
<1>1. CASE m = 1
  BY <1>1, PlanShape DEF Plan, Routes0004
<1>2. CASE m = 2
  <2>1. Plan[m].ops = Routes0005.ops /\ p \in 1..4
    BY <1>2, PlanShape DEF Plan
  <2> QED
    BY <1>2, <2>1 DEF Routes0005
<1>3. CASE m = 3
  BY <1>3, PlanShape DEF Plan, Authentication0008
<1>4. CASE m = 4
  <2>1. Plan[m].ops = Routes0008.ops /\ p \in 1..12
    BY <1>4, PlanShape DEF Plan
  <2> QED
    BY <1>4, <2>1 DEF Routes0008
<1>5. CASE m = 5
  BY <1>5, PlanShape DEF Plan, Routes0009
<1>6. CASE m = 6
  BY <1>6, PlanShape DEF Plan, Authentication0009
<1>7. CASE m = 7
  BY <1>7, PlanShape DEF Plan, Analytics0006
<1>8. CASE m = 8
  BY <1>8, PlanShape DEF Plan, Routes0010
<1> QED
  BY <1>1, <1>2, <1>3, <1>4, <1>5, <1>6, <1>7, <1>8

\* Every migration but three begins with a schema operation.
LEMMA PlanStarts ==
  \A m \in 1..8 \ {3, 6, 8} : Plan[m].ops[1] \notin PythonOps
  BY DEF PythonOps, Plan, Routes0004, Routes0005, Routes0008, Routes0009,
         Analytics0006

-----------------------------------------------------------------------------
(* The stages.                                                             *)

\* high' is the larger of two numbers.
LEMMA MaxTwo ==
  ASSUME NEW a \in Nat, NEW b \in Nat
  PROVE  Max({a, b}) = IF a >= b THEN a ELSE b
<1> DEFINE c == IF a >= b THEN a ELSE b
<1>1. c \in {a, b} /\ \A y \in {a, b} : c >= y
  OBVIOUS
<1>2. \A x \in {a, b} : (\A y \in {a, b} : x >= y) => x = c
  OBVIOUS
<1> HIDE DEF c
<1>3. Max({a, b}) = c
  BY <1>1, <1>2 DEF Max
<1> QED
  BY <1>3 DEF c

SameStage(m, h, n, i) ==
  /\ Copied(m, h) <=> Copied(n, i)
  /\ Assigned(m, h) <=> Assigned(n, i)
  /\ Joined(m, h) <=> Joined(n, i)
  /\ Moved(m, h) <=> Moved(n, i)
  /\ Single(m, h) <=> Single(n, i)
  /\ Valid(m, h) <=> Valid(n, i)

\* Follows depends on the stages passed, not on the position itself.
LEMMA StageFollows ==
  ASSUME NEW L, NEW d, NEW m, NEW h, NEW n, NEW i, SameStage(m, h, n, i),
         Follows(L, d, m, h)
  PROVE  Follows(L, d, n, i)
<1>1. RoutesFollow(L, d, n, i)
  BY DEF SameStage, Follows, RoutesFollow
<1>2. KeysFollow(L, d, n, i)
  BY DEF SameStage, Follows, KeysFollow, AppOf
<1>3. TargetsFollow(L, d, n, i)
  BY DEF SameStage, Follows, TargetsFollow, Heir
<1>4. OriginsFollow(d, n, i) /\ PathsFollow(d, n, i)
  BY DEF SameStage, Follows, OriginsFollow, PathsFollow
<1> QED
  BY <1>1, <1>2, <1>3, <1>4 DEF Follows

StageOps == {"copy_first_target_url", "backfill_application",
  "consolidate_routes", "migrate_service_origins",
  "validate_single_key_per_application", "validate_paths"}

\* Only six operations begin a stage.
LEMMA OtherOps ==
  ASSUME NEW m \in 1..8, NEW h \in Nat, NEW p \in 1..Len(Plan[m].ops),
         p <= h + 1, Plan[m].ops[p] \notin StageOps, NEW i, i = Max({h, p})
  PROVE  SameStage(m, h, m, i)
<1>1. p \in Nat
  BY PlanShape
<1>2. i = IF h >= p THEN h ELSE p
  BY <1>1, MaxTwo
<1>3. ~(m = 2 /\ p = 3) /\ ~(m = 3 /\ p = 1) /\ ~(m = 4 /\ p = 3)
      /\ ~(m = 5 /\ p = 2) /\ ~(m = 6 /\ p = 1) /\ ~(m = 8 /\ p = 1)
  BY PlanPlaces DEF StageOps
<1> QED
  BY <1>1, <1>2, <1>3 DEF SameStage, Past, Copied, Assigned, Joined, Moved,
                          Single, Valid

\* A finished migration is past all its stages.
LEMMA RecordedStage ==
  ASSUME NEW m \in 1..8, NEW h \in Nat, h >= Len(Plan[m].ops)
  PROVE  SameStage(m, h, m + 1, 0)
<1>1. /\ m = 2 => h >= 3
      /\ m = 3 => h >= 1
      /\ m = 4 => h >= 3
      /\ m = 5 => h >= 2
      /\ m = 6 => h >= 1
      /\ m = 8 => h >= 1
  <2>1. CASE m = 2  BY <2>1, PlanShape
  <2>2. CASE m = 3  BY <2>2, PlanShape
  <2>3. CASE m = 4  BY <2>3, PlanShape
  <2>4. CASE m = 5  BY <2>4, PlanShape
  <2>5. CASE m = 6  BY <2>5, PlanShape
  <2>6. CASE m = 8  BY <2>6, PlanShape
  <2> QED
    BY <2>1, <2>2, <2>3, <2>4, <2>5, <2>6
<1> QED
  BY <1>1 DEF SameStage, Past, Copied, Assigned, Joined, Moved, Single, Valid

-----------------------------------------------------------------------------
(* routes.0004 and routes.0005.                                            *)

RowFields == {"project", "method", "path", "active", "policy", "downstream",
              "targets", "service", "target"}

\* copy_downstream_services adds services without an origin and points the
\* routes at them.
LEMMA CopyServicesFollow ==
  ASSUME NEW L, NEW d, NEW h, Follows(L, d, 1, h), NEW e,
         e = CopyDownstreamServices(d)
  PROVE  Follows(L, e, 1, h)
<1> DEFINE made == {ServiceOf(d.routes[r]) : r \in DOMAIN d.routes}
           stored == [s \in DOMAIN d.services \cup made |->
                       IF s \in DOMAIN d.services THEN d.services[s]
                       ELSE [name |-> s.slug, url |-> None]]
<1>0. WellFormed(d)
  BY DEF Follows
<1>1. /\ IsRecord(e, {"routes", "grants", "keys", "methods", "services", "logs"})
      /\ e.grants = d.grants /\ e.keys = d.keys /\ e.logs = d.logs
      /\ DOMAIN e.routes = DOMAIN d.routes
      /\ \A r \in DOMAIN d.routes :
           e.routes[r] = [d.routes[r] EXCEPT !.service = ServiceOf(d.routes[r])]
      /\ e.services = stored
  <2> DEFINE rows == [r \in DOMAIN d.routes |->
               [d.routes[r] EXCEPT !.service = ServiceOf(d.routes[r])]]
  <2>1. e = [d EXCEPT !.services = stored, !.routes = rows]
    BY DEF CopyDownstreamServices
  <2>2. DOMAIN rows = DOMAIN d.routes /\ \A r \in DOMAIN d.routes :
          rows[r] = [d.routes[r] EXCEPT !.service = ServiceOf(d.routes[r])]
    OBVIOUS
  <2> HIDE DEF rows, stored
  <2> QED
    BY <1>0, <2>1, <2>2 DEF WellFormed, IsRecord
<1>2. ASSUME NEW r \in DOMAIN d.routes
      PROVE  /\ IsRecord(e.routes[r], RowFields)
             /\ e.routes[r].service = ServiceOf(d.routes[r])
             /\ e.routes[r].project = d.routes[r].project
             /\ e.routes[r].path = d.routes[r].path
             /\ e.routes[r].method = d.routes[r].method
             /\ e.routes[r].active = d.routes[r].active
             /\ e.routes[r].policy = d.routes[r].policy
             /\ e.routes[r].targets = d.routes[r].targets
  BY <1>0, <1>1 DEF WellFormed, IsRecord, RowFields
<1>3. /\ DOMAIN e.services = DOMAIN d.services \cup made
      /\ e.services = [s \in DOMAIN e.services |-> e.services[s]]
      /\ \A s \in DOMAIN e.services :
           \/ s \in DOMAIN d.services /\ e.services[s] = d.services[s]
           \/ e.services[s] = [name |-> s.slug, url |-> None]
  <2> HIDE DEF made
  <2> QED
    BY <1>1
<1>4. \A r \in DOMAIN d.routes : ServiceOf(d.routes[r]) \in DOMAIN e.services
  BY <1>3
<1>5. \A s \in DOMAIN e.services :
        /\ IsRecord(e.services[s], {"name", "url"})
        /\ (\A v \in DOMAIN d.services : d.services[v].url = None) =>
             e.services[s].url = None
  <2> TAKE s \in DOMAIN e.services
  <2>1. CASE s \in DOMAIN d.services /\ e.services[s] = d.services[s]
    BY <1>0, <2>1 DEF WellFormed
  <2>2. CASE e.services[s] = [name |-> s.slug, url |-> None]
    BY <2>2 DEF IsRecord
  <2> QED
    BY <1>3, <2>1, <2>2
<1> HIDE DEF made, stored
<1>6. WellFormed(e)
  <2>1. \A r \in DOMAIN e.routes :
          /\ e.routes[r].path \in Seq(Range(e.routes[r].path))
          /\ e.routes[r].targets \in Seq(Range(e.routes[r].targets))
    BY <1>0, <1>1, <1>2 DEF WellFormed
  <2>2. IsRecord(e.services, DOMAIN e.services)
    BY <1>3 DEF IsRecord
  <2> QED
    <3>1. \A r \in DOMAIN e.routes :
            e.routes[r].service \in DOMAIN e.services \cup {None}
      BY <1>1, <1>2, <1>4
    <3>2. \A r \in DOMAIN e.routes : IsRecord(e.routes[r], RowFields)
      BY <1>1, <1>2
    <3> QED
      BY <1>0, <1>1, <1>5, <2>1, <2>2, <3>1, <3>2 DEF WellFormed, RowFields
<1>7. ~Copied(1, h) /\ ~Joined(1, h) /\ ~Moved(1, h) /\ ~Valid(1, h)
  BY DEF Copied, Joined, Moved, Valid, Past
<1>8. RoutesFollow(L, e, 1, h)
  BY <1>1, <1>2, <1>7 DEF Follows, RoutesFollow, Same
<1>9. KeysFollow(L, e, 1, h)
  BY <1>1 DEF Follows, KeysFollow
<1>10. TargetsFollow(L, e, 1, h)
  BY <1>1, <1>2, <1>7 DEF Follows, TargetsFollow, RoutesFollow, Same
<1>11. OriginsFollow(e, 1, h) /\ PathsFollow(e, 1, h)
  BY <1>5, <1>7 DEF Follows, OriginsFollow, PathsFollow
<1> QED
  BY <1>6, <1>8, <1>9, <1>10, <1>11 DEF Follows

\* The first target is one that requests went to.
LEMMA FirstTargetLegacy ==
  ASSUME NEW row, row.targets \in Seq(Range(row.targets)), row.target = None
  PROVE  FirstTarget(row.targets) \in LegacyDestinations(row)
<1> DEFINE t == row.targets
           active == {i \in DOMAIN t : t[i].active}
           choice == IF active = {} THEN DOMAIN t ELSE active
<1>1. CASE t = <<>>
  BY <1>1 DEF FirstTarget, LegacyDestinations
<1>2. CASE t # <<>>
  <2>1. DOMAIN t = 1..Len(t) /\ Len(t) \in Nat /\ Len(t) # 0
    BY <1>2
  <2>2. choice \subseteq Nat /\ choice # {}
    BY <2>1
  <2>3. Min(choice) \in choice
    BY <2>2, MinFact
  <2>4. FirstTarget(t) = t[Min(choice)].url
    BY <1>2 DEF FirstTarget
  <2>5. CASE active = {}
    BY <1>2, <2>3, <2>4, <2>5 DEF LegacyDestinations, Range
  <2>6. CASE active # {}
    BY <1>2, <2>3, <2>4, <2>6 DEF LegacyDestinations, Range
  <2> QED
    BY <2>5, <2>6
<1> QED
  BY <1>1, <1>2

\* copy_first_target_url gives every route a target of its own.
LEMMA CopyTargetsFollow ==
  ASSUME NEW L, WellFormed(L), NEW d, NEW h \in Nat, Follows(L, d, 2, h), NEW e,
         e = CopyFirstTargetUrl(d), NEW i \in Nat, i >= 3, h < 3
  PROVE  Follows(L, e, 2, i)
<1>0. WellFormed(d)
  BY DEF Follows
<1>1. /\ IsRecord(e, {"routes", "grants", "keys", "methods", "services", "logs"})
      /\ e.grants = d.grants /\ e.keys = d.keys /\ e.logs = d.logs
      /\ e.services = d.services
      /\ DOMAIN e.routes = DOMAIN d.routes
      /\ \A r \in DOMAIN d.routes : e.routes[r] =
           [d.routes[r] EXCEPT !.target = FirstTarget(d.routes[r].targets)]
  BY <1>0 DEF CopyFirstTargetUrl, WellFormed, IsRecord
<1>2. ASSUME NEW r \in DOMAIN d.routes
      PROVE  /\ IsRecord(e.routes[r], RowFields)
             /\ e.routes[r].target = FirstTarget(d.routes[r].targets)
             /\ e.routes[r].project = d.routes[r].project
             /\ e.routes[r].path = d.routes[r].path
             /\ e.routes[r].method = d.routes[r].method
             /\ e.routes[r].active = d.routes[r].active
             /\ e.routes[r].policy = d.routes[r].policy
             /\ e.routes[r].targets = d.routes[r].targets
             /\ e.routes[r].service = d.routes[r].service
  BY <1>0, <1>1 DEF WellFormed, IsRecord, RowFields
<1>3. WellFormed(e)
  <2>1. \A r \in DOMAIN e.routes :
          /\ e.routes[r].path \in Seq(Range(e.routes[r].path))
          /\ e.routes[r].targets \in Seq(Range(e.routes[r].targets))
    BY <1>0, <1>1, <1>2 DEF WellFormed
  <2> QED
    BY <1>0, <1>1, <1>2, <2>1 DEF WellFormed, RowFields
<1>4. /\ ~Copied(2, h) /\ ~Joined(2, h) /\ ~Moved(2, h) /\ ~Valid(2, h)
      /\ ~Assigned(2, h) /\ ~Single(2, h)
      /\ Copied(2, i) /\ ~Joined(2, i) /\ ~Moved(2, i) /\ ~Valid(2, i)
      /\ ~Assigned(2, i) /\ ~Single(2, i)
  BY DEF Copied, Joined, Moved, Valid, Assigned, Single, Past
<1>5. Same(L, d)
  BY <1>4 DEF Follows, RoutesFollow
<1>6. RoutesFollow(L, e, 2, i)
  BY <1>1, <1>2, <1>4, <1>5 DEF RoutesFollow, Same
<1>7. KeysFollow(L, e, 2, i)
  BY <1>1, <1>4 DEF Follows, KeysFollow, AppOf
<1>8. TargetsFollow(L, e, 2, i)
  <2> SUFFICES ASSUME NEW q \in DOMAIN L.routes
               PROVE  e.routes[q].target \in LegacyDestinations(L.routes[q])
    BY <1>4 DEF TargetsFollow, Heir
  <2>1. d.routes[q].targets = L.routes[q].targets /\ L.routes[q].target = None
    BY <1>4 DEF Follows, TargetsFollow
  <2>2. e.routes[q].target = FirstTarget(L.routes[q].targets)
    BY <1>2, <1>5, <2>1 DEF Same
  <2>3. L.routes[q].targets \in Seq(Range(L.routes[q].targets))
    BY DEF WellFormed
  <2> QED
    BY <2>1, <2>2, <2>3, FirstTargetLegacy
<1>9. OriginsFollow(e, 2, i) /\ PathsFollow(e, 2, i)
  BY <1>1, <1>4 DEF Follows, OriginsFollow, PathsFollow
<1> QED
  BY <1>3, <1>6, <1>7, <1>8, <1>9 DEF Follows

-----------------------------------------------------------------------------
(* authentication.0008 and authentication.0009.                            *)

KeyTables(d) ==
  /\ IsFiniteSet(DOMAIN d.keys)
  /\ \A k \in DOMAIN d.keys : IsRecord(d.keys[k], {"project", "app"})

Tables == {"routes", "grants", "keys", "methods", "services", "logs"}

\* A step that leaves everything but keys alone.
LEMMA KeysOnly ==
  ASSUME NEW L, NEW d, NEW e, NEW m, NEW h, NEW n, NEW i, Follows(L, d, m, h),
         IsRecord(e, Tables), e.routes = d.routes, e.grants = d.grants,
         e.methods = d.methods, e.services = d.services, e.logs = d.logs,
         KeyTables(e), KeysFollow(L, e, n, i),
         Copied(m, h) <=> Copied(n, i), Joined(m, h) <=> Joined(n, i),
         Moved(m, h) <=> Moved(n, i), Valid(m, h) <=> Valid(n, i)
  PROVE  Follows(L, e, n, i)
<1>1. WellFormed(e)
  BY DEF Follows, WellFormed, KeyTables, Tables
<1>2. RoutesFollow(L, e, n, i)
  BY DEF Follows, RoutesFollow, Same, Merged
<1>3. TargetsFollow(L, e, n, i)
  BY DEF Follows, TargetsFollow, Heir
<1>4. OriginsFollow(e, n, i) /\ PathsFollow(e, n, i)
  BY DEF Follows, OriginsFollow, PathsFollow, Settled, Destination
<1> QED
  BY <1>1, <1>2, <1>3, <1>4 DEF Follows

\* backfill_application may run again: a key that has an application keeps it.
LEMMA BackfillFollow ==
  ASSUME NEW L, Referential(L), NEW d, NEW h \in Nat, Follows(L, d, 3, h), NEW e,
         e = BackfillApplication(d), NEW i \in Nat, i >= 1
  PROVE  Follows(L, e, 3, i)
<1>0. WellFormed(d) /\ KeysFollow(L, d, 3, h)
  BY DEF Follows
<1>1. /\ IsRecord(e, Tables)
      /\ e.routes = d.routes /\ e.grants = d.grants /\ e.methods = d.methods
      /\ e.services = d.services /\ e.logs = d.logs
      /\ DOMAIN e.keys = DOMAIN d.keys
      /\ \A k \in DOMAIN d.keys : e.keys[k] =
           IF d.keys[k].app # None THEN d.keys[k]
           ELSE [d.keys[k] EXCEPT !.app = DefaultApplication(d.keys[k].project)]
  BY <1>0 DEF BackfillApplication, WellFormed, IsRecord, Tables
<1>2. ASSUME NEW k \in DOMAIN d.keys
      PROVE  /\ IsRecord(e.keys[k], {"project", "app"})
             /\ e.keys[k].project = d.keys[k].project
             /\ e.keys[k].app = IF d.keys[k].app # None THEN d.keys[k].app
                                ELSE DefaultApplication(d.keys[k].project)
  <2>1. IsRecord(d.keys[k], {"project", "app"})
    BY <1>0 DEF WellFormed
  <2>2. CASE d.keys[k].app # None
    BY <1>1, <2>1, <2>2
  <2>3. CASE d.keys[k].app = None
    BY <1>1, <2>1, <2>3 DEF IsRecord
  <2> QED
    BY <2>2, <2>3
<1>3. /\ Assigned(3, i) /\ ~Single(3, i) /\ ~Single(3, h)
      /\ Copied(3, h) /\ Copied(3, i) /\ ~Joined(3, h) /\ ~Joined(3, i)
      /\ ~Moved(3, h) /\ ~Moved(3, i) /\ ~Valid(3, h) /\ ~Valid(3, i)
  BY DEF Assigned, Copied, Joined, Moved, Single, Valid, Past
<1>4. KeysFollow(L, e, 3, i)
  <2>1. ASSUME NEW k \in DOMAIN d.keys PROVE e.keys[k].app = AppOf(L, k, 3, i)
    <3>1. k \in DOMAIN L.keys /\ d.keys[k].project = L.keys[k].project
          /\ d.keys[k].app = AppOf(L, k, 3, h)
      BY <1>0 DEF KeysFollow
    <3>2. DefaultApplication(L.keys[k].project) # None
      BY <3>1 DEF Referential
    <3> QED
      BY <1>2, <1>3, <3>1, <3>2 DEF AppOf
  <2> QED
    BY <1>0, <1>1, <1>2, <1>3, <2>1 DEF KeysFollow
<1>5. KeyTables(e)
  BY <1>0, <1>1, <1>2 DEF KeyTables, WellFormed
<1> QED
  BY <1>1, <1>3, <1>4, <1>5, KeysOnly

\* Counting the keys of an application finds those that share it.
LEMMA SharingFact ==
  ASSUME NEW d, IsFiniteSet(DOMAIN d.keys), KeysSharing(d) = {}
  PROVE  \A k, j \in DOMAIN d.keys : d.keys[k].app = d.keys[j].app => k = j
<1> SUFFICES ASSUME NEW k \in DOMAIN d.keys, NEW j \in DOMAIN d.keys,
                    d.keys[k].app = d.keys[j].app, k # j
             PROVE  FALSE
  OBVIOUS
<1> DEFINE S == {x \in DOMAIN d.keys : d.keys[x].app = d.keys[k].app}
<1>1. IsFiniteSet(S)
  BY FS_Subset
<1>2. {k, j} \subseteq S
  OBVIOUS
<1>3. Cardinality({k, j}) = 2
  <2>1. IsFiniteSet({k}) /\ Cardinality({k}) = 1
    BY FS_Singleton
  <2>2. Cardinality({k} \cup {j}) = Cardinality({k}) + 1
    BY <2>1, FS_AddElement
  <2>3. {k} \cup {j} = {k, j}
    OBVIOUS
  <2> QED
    BY <2>1, <2>2, <2>3
<1>4. Cardinality(S) \in Nat /\ Cardinality({k, j}) <= Cardinality(S)
  BY <1>1, <1>2, FS_Subset, FS_CardinalityType
<1>5. ~(Cardinality(S) > 1)
  BY DEF KeysSharing
<1> QED
  BY <1>3, <1>4, <1>5

\* validate_single_key_per_application changes nothing, but what it found holds.
LEMMA SingleFollow ==
  ASSUME NEW L, NEW d, NEW h \in Nat, Follows(L, d, 6, h), KeysSharing(d) = {},
         NEW i \in Nat, i >= 1
  PROVE  Follows(L, d, 6, i)
<1>0. WellFormed(d) /\ KeysFollow(L, d, 6, h)
  BY DEF Follows
<1>1. /\ Assigned(6, h) /\ Assigned(6, i)
      /\ Copied(6, h) /\ Copied(6, i) /\ Joined(6, h) /\ Joined(6, i)
      /\ Moved(6, h) /\ Moved(6, i) /\ ~Valid(6, h) /\ ~Valid(6, i)
  BY DEF Assigned, Copied, Joined, Moved, Single, Valid, Past
<1>2. \A k, j \in DOMAIN d.keys : d.keys[k].app = d.keys[j].app => k = j
  BY <1>0, SharingFact DEF WellFormed
<1>3. KeysFollow(L, d, 6, i)
  BY <1>0, <1>1, <1>2 DEF KeysFollow, AppOf
<1>4. IsRecord(d, Tables) /\ KeyTables(d)
  BY <1>0 DEF WellFormed, Tables, KeyTables
<1> QED
  BY <1>1, <1>3, <1>4, KeysOnly

-----------------------------------------------------------------------------
(* analytics.0006 and routes.0010.                                         *)

\* DeleteModel.RequestLog touches logs only.
LEMMA DropLogsFollow ==
  ASSUME NEW L, NEW d, NEW h \in Nat, Follows(L, d, 7, h), NEW e,
         e = [d EXCEPT !.logs = <<>>]
  PROVE  Follows(L, e, 7, h)
<1>1. /\ IsRecord(e, Tables) /\ e.routes = d.routes /\ e.grants = d.grants
      /\ e.keys = d.keys /\ e.methods = d.methods /\ e.services = d.services
      /\ DOMAIN e.logs = {}
  BY DEF Follows, WellFormed, IsRecord, Tables
<1>2. WellFormed(e)
  BY <1>1 DEF Follows, WellFormed, Tables
<1>3. Joined(7, h)
  BY DEF Joined, Past
<1>4. RoutesFollow(L, e, 7, h)
  BY <1>1, <1>3 DEF Follows, RoutesFollow, Merged
<1>5. KeysFollow(L, e, 7, h)
  BY <1>1 DEF Follows, KeysFollow
<1>6. TargetsFollow(L, e, 7, h)
  BY <1>1 DEF Follows, TargetsFollow
<1>7. OriginsFollow(e, 7, h) /\ PathsFollow(e, 7, h)
  BY <1>1 DEF Follows, OriginsFollow, PathsFollow, Settled, Destination
<1> QED
  BY <1>2, <1>4, <1>5, <1>6, <1>7 DEF Follows

\* validate_paths changes nothing, but what it found holds.
LEMMA PathsCheckedFollow ==
  ASSUME NEW L, NEW d, NEW h \in Nat, Follows(L, d, 8, h), InvalidPaths(d) = {},
         NEW i \in Nat
  PROVE  Follows(L, d, 8, i)
<1>1. /\ Assigned(8, h) /\ Assigned(8, i) /\ Single(8, h) /\ Single(8, i)
      /\ Copied(8, h) /\ Copied(8, i) /\ Joined(8, h) /\ Joined(8, i)
      /\ Moved(8, h) /\ Moved(8, i)
  BY DEF Assigned, Copied, Joined, Moved, Single, Valid, Past
<1>2. PathsFollow(d, 8, i)
  BY DEF PathsFollow, InvalidPaths
<1>3. RoutesFollow(L, d, 8, i) /\ OriginsFollow(d, 8, i)
  BY <1>1 DEF Follows, RoutesFollow, OriginsFollow
<1>4. KeysFollow(L, d, 8, i)
  BY <1>1 DEF Follows, KeysFollow, AppOf
<1>5. TargetsFollow(L, d, 8, i)
  BY <1>1 DEF Follows, TargetsFollow, Heir
<1> QED
  BY <1>2, <1>3, <1>4, <1>5 DEF Follows

-----------------------------------------------------------------------------
(* routes.0008.                                                            *)

\* Before it runs, rows mean in the tables what they meant in the old release.
LEMMA SameMeaning ==
  ASSUME NEW L, NEW d, Same(L, d), Referential(L)
  PROVE  /\ \A r \in DOMAIN L.routes : /\ Group(d, r) = Group(L, r)
                                       /\ Survivor(d, r) = Survivor(L, r)
         /\ \A G \in SUBSET DOMAIN L.routes :
              /\ ActiveMethods(d, G) = ActiveMethods(L, G)
              /\ MethodSpecific(d, G) = MethodSpecific(L, G)
         /\ \A g \in L.grants : MergedGrant(d, g) = MergedGrant(L, g)
         /\ \A l \in DOMAIN L.logs : MovedLog(d, L.logs[l]) = MovedLog(L, L.logs[l])
<1>1. \A r \in DOMAIN L.routes : /\ Group(d, r) = Group(L, r)
                                 /\ Survivor(d, r) = Survivor(L, r)
  BY GroupSame DEF Same
<1>2. ASSUME NEW G \in SUBSET DOMAIN L.routes
      PROVE  ActiveMethods(d, G) = ActiveMethods(L, G)
  BY <1>2 DEF ActiveMethods, Same
<1>3. ASSUME NEW G \in SUBSET DOMAIN L.routes, NEW app
      PROVE  GrantedMethods(d, app, G) = GrantedMethods(L, app, G)
  <2> DEFINE on(x) == {h \in x.grants : /\ h.app = app /\ h.route \in G
                                        /\ h.active /\ x.routes[h.route].active}
  <2>1. on(d) = on(L) /\ \A g \in on(L) : g.route \in DOMAIN L.routes
    BY DEF Same
  <2>2. \A g \in on(L) : d.routes[g.route].method = L.routes[g.route].method
    BY <2>1 DEF Same
  <2>3. GrantedMethods(d, app, G) = {d.routes[g.route].method : g \in on(d)}
        /\ GrantedMethods(L, app, G) = {L.routes[g.route].method : g \in on(L)}
    BY DEF GrantedMethods
  <2> HIDE DEF on
  <2> QED
    BY <2>1, <2>2, <2>3
<1>4. ASSUME NEW G \in SUBSET DOMAIN L.routes
      PROVE  MethodSpecific(d, G) = MethodSpecific(L, G)
  BY <1>2, <1>3 DEF MethodSpecific, Same
<1>5. ASSUME NEW g \in L.grants PROVE MergedGrant(d, g) = MergedGrant(L, g)
  BY <1>1 DEF MergedGrant, Same, Referential
<1>6. ASSUME NEW l \in DOMAIN L.logs
      PROVE  MovedLog(d, L.logs[l]) = MovedLog(L, L.logs[l])
  BY <1>1 DEF MovedLog, Referential
<1> QED
  BY <1>1, <1>2, <1>4, <1>5, <1>6

\* consolidate_routes, once nothing was refused.
LEMMA ConsolidateFollow ==
  ASSUME NEW L, WellFormed(L), Referential(L), NEW d, NEW h \in Nat,
         Follows(L, d, 4, h), h < 3, ConsolidateConflicts(d) = {}, NEW e,
         e = ConsolidateRoutes(d), NEW i \in Nat, i >= 3
  PROVE  Follows(L, e, 4, i)
<1> DEFINE left == {Survivor(L, q) : q \in DOMAIN L.routes}
<1>0. /\ Copied(4, h) /\ Assigned(4, h) /\ ~Joined(4, h) /\ ~Moved(4, h)
      /\ ~Single(4, h) /\ ~Valid(4, h)
      /\ Copied(4, i) /\ Assigned(4, i) /\ Joined(4, i) /\ ~Moved(4, i)
      /\ ~Single(4, i) /\ ~Valid(4, i)
  BY DEF Assigned, Copied, Joined, Moved, Single, Valid, Past
<1>1. WellFormed(d) /\ Same(L, d)
  BY <1>0 DEF Follows, RoutesFollow
<1>2. /\ \A r \in DOMAIN L.routes : /\ Group(d, r) = Group(L, r)
                                    /\ Survivor(d, r) = Survivor(L, r)
      /\ \A G \in SUBSET DOMAIN L.routes :
           /\ ActiveMethods(d, G) = ActiveMethods(L, G)
           /\ MethodSpecific(d, G) = MethodSpecific(L, G)
      /\ \A g \in L.grants : MergedGrant(d, g) = MergedGrant(L, g)
      /\ \A l \in DOMAIN L.logs : MovedLog(d, L.logs[l]) = MovedLog(L, L.logs[l])
  BY <1>1, SameMeaning
<1>3. \A r \in DOMAIN L.routes :
        /\ Group(L, r) \in SUBSET DOMAIN L.routes /\ r \in Group(L, r)
        /\ Survivor(L, r) \in Group(L, r)
  BY GroupFact DEF WellFormed
<1>4. left \subseteq DOMAIN L.routes
  BY <1>3
<1>5. /\ IsRecord(e, Tables) /\ e.keys = d.keys /\ e.services = d.services
      /\ e.methods = {[route |-> Survivor(d, r), method |-> d.routes[r].method,
                       policy |-> d.routes[r].policy] :
                      r \in {q \in DOMAIN d.routes : d.routes[q].active}}
      /\ e.routes = [r \in {Survivor(d, q) : q \in DOMAIN d.routes} |->
           [d.routes[r] EXCEPT !.active = ActiveMethods(d, Group(d, r)) # {}]]
      /\ e.grants = {MergedGrant(d, g) : g \in d.grants}
      /\ e.logs = [l \in DOMAIN d.logs |-> MovedLog(d, d.logs[l])]
  BY <1>1 DEF ConsolidateRoutes, WellFormed, IsRecord, Tables
<1>6. {Survivor(d, q) : q \in DOMAIN d.routes} = left
  BY <1>1, <1>2 DEF Same
<1>7. DOMAIN e.routes = left
  BY <1>5, <1>6
<1>8. ASSUME NEW r \in left
      PROVE  /\ r \in DOMAIN d.routes
             /\ IsRecord(e.routes[r], RowFields)
             /\ e.routes[r].active = (ActiveMethods(L, Group(L, r)) # {})
             /\ e.routes[r].project = d.routes[r].project
             /\ e.routes[r].path = d.routes[r].path
             /\ e.routes[r].targets = d.routes[r].targets
             /\ e.routes[r].target = d.routes[r].target
             /\ e.routes[r].service = d.routes[r].service
  <2>1. r \in DOMAIN d.routes /\ r \in DOMAIN L.routes
    BY <1>1, <1>4 DEF Same
  <2>2. e.routes[r] =
          [d.routes[r] EXCEPT !.active = ActiveMethods(d, Group(d, r)) # {}]
    BY <1>5, <1>6
  <2>3. ActiveMethods(d, Group(d, r)) = ActiveMethods(L, Group(L, r))
    BY <1>2, <1>3, <2>1
  <2>4. IsRecord(d.routes[r], RowFields)
    BY <1>1, <2>1 DEF WellFormed, RowFields
  <2> QED
    BY <2>1, <2>2, <2>3, <2>4 DEF IsRecord, RowFields
<1> HIDE DEF left
<1>9. WellFormed(e)
  <2>1. \A r \in DOMAIN e.routes :
          /\ e.routes[r].path \in Seq(Range(e.routes[r].path))
          /\ e.routes[r].targets \in Seq(Range(e.routes[r].targets))
          /\ e.routes[r].service \in DOMAIN e.services \cup {None}
          /\ IsRecord(e.routes[r], RowFields)
          /\ r \in Nat
    BY <1>1, <1>5, <1>7, <1>8 DEF WellFormed
  <2> QED
    BY <1>1, <1>5, <2>1 DEF WellFormed, RowFields, Tables
<1>10. RoutesFollow(L, e, 4, i)
  <2>1. \A r \in DOMAIN e.routes :
          /\ e.routes[r].project = L.routes[r].project
          /\ e.routes[r].path = L.routes[r].path
          /\ e.routes[r].active = (ActiveMethods(L, Group(L, r)) # {})
    BY <1>1, <1>7, <1>8 DEF Same
  <2>2. e.methods = {[route |-> Survivor(L, r), method |-> L.routes[r].method,
                      policy |-> L.routes[r].policy] :
                     r \in {q \in DOMAIN L.routes : L.routes[q].active}}
    <3>1. {q \in DOMAIN d.routes : d.routes[q].active}
            = {q \in DOMAIN L.routes : L.routes[q].active}
      BY <1>1 DEF Same
    <3>2. \A r \in {q \in DOMAIN L.routes : L.routes[q].active} :
            /\ Survivor(d, r) = Survivor(L, r)
            /\ d.routes[r].method = L.routes[r].method
            /\ d.routes[r].policy = L.routes[r].policy
      BY <1>1, <1>2 DEF Same
    <3> QED
      BY <1>5, <3>1, <3>2
  <2>3. e.grants = {MergedGrant(L, g) : g \in L.grants}
    <3>1. d.grants = L.grants
      BY <1>1 DEF Same
    <3> QED
      BY <1>2, <1>5, <3>1
  <2>4. \A l \in DOMAIN e.logs :
          l \in DOMAIN L.logs /\ e.logs[l] = MovedLog(L, L.logs[l])
    <3>1. d.logs = L.logs
      BY <1>1 DEF Same
    <3> QED
      BY <1>2, <1>5, <3>1
  <2>5. \A r \in DOMAIN L.routes : ~MethodSpecific(L, Group(L, r))
    <3> TAKE r \in DOMAIN L.routes
    <3>1. ~MethodSpecific(d, Group(d, r))
      BY <1>1 DEF ConsolidateConflicts, Same
    <3> QED
      BY <1>2, <1>3, <3>1
  <2> QED
    BY <1>0, <1>7, <2>1, <2>2, <2>3, <2>4, <2>5 DEF RoutesFollow, Merged, left
<1>11. KeysFollow(L, e, 4, i)
  BY <1>0, <1>5 DEF Follows, KeysFollow, AppOf
<1>12. TargetsFollow(L, e, 4, i)
  <2> SUFFICES ASSUME NEW q \in DOMAIN L.routes
               PROVE  e.routes[Survivor(L, q)].target
                        \in LegacyDestinations(L.routes[q])
    BY <1>0 DEF TargetsFollow, Heir
  <2>1. d.routes[q].target \in LegacyDestinations(L.routes[q])
    BY <1>0 DEF Follows, TargetsFollow, Heir
  <2>2. Survivor(L, q) \in Group(d, q) /\ q \in DOMAIN d.routes
    BY <1>1, <1>2, <1>3 DEF Same
  <2>3. d.routes[Survivor(L, q)].target = d.routes[q].target
    BY <2>2 DEF ConsolidateConflicts
  <2>4. Survivor(L, q) \in left
    BY DEF left
  <2> QED
    BY <1>8, <2>1, <2>3, <2>4
<1>13. OriginsFollow(e, 4, i) /\ PathsFollow(e, 4, i)
  BY <1>0, <1>5 DEF Follows, OriginsFollow, PathsFollow
<1> QED
  BY <1>9, <1>10, <1>11, <1>12, <1>13 DEF Follows

\* Afterwards every row is the survivor of its group.
LEMMA MergedRows ==
  ASSUME NEW L, WellFormed(L), NEW d, Merged(L, d), NEW r \in DOMAIN d.routes
  PROVE  r \in DOMAIN L.routes /\ r = Survivor(L, r)
<1>1. PICK q \in DOMAIN L.routes : r = Survivor(L, q)
  BY DEF Merged
<1>2. DOMAIN L.routes \subseteq Nat
  BY DEF WellFormed
<1>3. /\ r \in Group(L, q) /\ Group(L, q) \subseteq DOMAIN L.routes
      /\ \A w \in Group(L, q) : Survivor(L, w) = Survivor(L, q)
  BY <1>1, <1>2, GroupFact
<1> QED
  BY <1>1, <1>3

-----------------------------------------------------------------------------
(* Paths.                                                                  *)

\* And so is Max, of a bounded set.
LEMMA MaxFact ==
  ASSUME NEW n \in Nat, NEW S, S \subseteq 1..n, S # {}
  PROVE  Max(S) \in S /\ \A y \in S : y <= Max(S)
<1> DEFINE T == {n - x : x \in S}
<1>1. T \subseteq Nat /\ T # {}
  <2>1. ASSUME NEW x \in S PROVE n - x \in Nat
    <3>1. x \in 1..n
      OBVIOUS
    <3> QED
      BY <3>1
  <2>2. PICK x \in S : TRUE
    OBVIOUS
  <2>3. n - x \in T
    OBVIOUS
  <2> QED
    BY <2>1, <2>3
<1>2. Min(T) \in T /\ \A y \in T : Min(T) <= y
  BY <1>1, MinFact
<1>3. PICK x \in S : Min(T) = n - x
  BY <1>2
<1>4. ASSUME NEW y \in S PROVE x >= y
  <2>1. n - y \in T
    OBVIOUS
  <2>2. n - x <= n - y
    BY <1>2, <1>3, <2>1
  <2> QED
    BY <2>2
<1>5. \E z \in S : \A y \in S : z >= y
  BY <1>4
<1>6. Max(S) \in S /\ \A y \in S : Max(S) >= y
  BY <1>5 DEF Max
<1> QED
  BY <1>6

\* What lies between the first and the last letter.
LEMMA LettersFact ==
  ASSUME NEW A, NEW p \in Seq(A), Letters(p) # {}
  PROVE  LET lo == Min(Letters(p)) hi == Max(Letters(p)) IN
         /\ lo \in 1..Len(p) /\ hi \in 1..Len(p) /\ lo <= hi
         /\ p[lo] # "/" /\ p[hi] # "/"
         /\ \A i \in 1..Len(p) : p[i] # "/" => lo <= i /\ i <= hi
         /\ Strip(p) \in Seq(A) /\ Len(Strip(p)) = hi - lo + 1
         /\ \A i \in 1..(hi - lo + 1) : Strip(p)[i] = p[lo + i - 1]
         /\ RStrip(p) \in Seq(A) /\ Len(RStrip(p)) = hi
         /\ \A i \in 1..hi : RStrip(p)[i] = p[i]
<1> DEFINE lo == Min(Letters(p))
           hi == Max(Letters(p))
<1>1. Len(p) \in Nat /\ DOMAIN p = 1..Len(p) /\ Letters(p) \subseteq 1..Len(p)
  BY LenProperties DEF Letters
<1>2. Letters(p) \subseteq Nat
  BY <1>1
<1>3. lo \in Letters(p) /\ \A y \in Letters(p) : lo <= y
  BY <1>2, MinFact
<1>4. hi \in Letters(p) /\ \A y \in Letters(p) : y <= hi
  BY <1>1, MaxFact
<1>5. /\ lo \in 1..Len(p) /\ hi \in 1..Len(p) /\ lo <= hi
      /\ p[lo] # "/" /\ p[hi] # "/"
  BY <1>1, <1>3, <1>4 DEF Letters
<1>6. \A i \in 1..Len(p) : p[i] # "/" => lo <= i /\ i <= hi
  BY <1>1, <1>3, <1>4 DEF Letters
<1>7. Strip(p) = SubSeq(p, lo, hi) /\ RStrip(p) = SubSeq(p, 1, hi)
  BY DEF Strip, RStrip
<1> HIDE DEF lo, hi
<1>8. \A i \in 1..Len(p) : p[i] \in A
  BY ElementOfSeq
<1>9. lo \in Int /\ hi \in Int /\ (\A i \in lo..hi : p[i] \in A)
      /\ \A i \in 1..hi : p[i] \in A
  BY <1>1, <1>5, <1>8
<1>10. /\ SubSeq(p, lo, hi) \in Seq(A)
       /\ Len(SubSeq(p, lo, hi)) = hi - lo + 1
       /\ \A i \in 1..(hi - lo + 1) : SubSeq(p, lo, hi)[i] = p[lo + i - 1]
  BY <1>5, <1>9, SubSeqProperties
<1>11. /\ SubSeq(p, 1, hi) \in Seq(A)
       /\ Len(SubSeq(p, 1, hi)) = hi
       /\ \A i \in 1..hi : SubSeq(p, 1, hi)[i] = p[i]
  BY <1>5, <1>9, SubSeqProperties
<1> QED
  BY <1>5, <1>6, <1>7, <1>10, <1>11 DEF lo, hi

\* A slash in front.
LEMMA SlashFirst ==
  ASSUME NEW A, "/" \in A, NEW s \in Seq(A)
  PROVE  /\ <<"/">> \o s \in Seq(A) /\ Len(<<"/">> \o s) = Len(s) + 1
         /\ (<<"/">> \o s)[1] = "/"
         /\ \A i \in 1..Len(s) : (<<"/">> \o s)[i + 1] = s[i]
<1>1. <<"/">> \in Seq(A) /\ Len(<<"/">>) = 1 /\ <<"/">>[1] = "/"
  OBVIOUS
<1>2. Len(s) \in Nat
  BY LenProperties
<1>3. /\ <<"/">> \o s \in Seq(A)
      /\ Len(<<"/">> \o s) = Len(<<"/">>) + Len(s)
      /\ \A i \in 1..(Len(<<"/">>) + Len(s)) : (<<"/">> \o s)[i] =
           IF i <= Len(<<"/">>) THEN <<"/">>[i] ELSE s[i - Len(<<"/">>)]
  BY <1>1, ConcatProperties
<1> DEFINE c == <<"/">> \o s
<1>4. \A i \in 1..(1 + Len(s)) : c[i] = IF i <= 1 THEN "/" ELSE s[i - 1]
  BY <1>1, <1>3
<1>5. c \in Seq(A) /\ Len(c) = Len(s) + 1
  BY <1>1, <1>2, <1>3
<1> HIDE DEF c
<1>6. c[1] = "/" /\ \A i \in 1..Len(s) : c[i + 1] = s[i]
  BY <1>2, <1>4
<1> QED
  BY <1>5, <1>6 DEF c

\* A backend path that migrate_service_origins accepts is the public one up
\* to slashes at its ends.
LEMMA PathKept ==
  ASSUME NEW A, "/" \in A, NEW t \in Seq(A), NEW p \in Seq(A),
         (IF RStrip(t) = <<>> THEN <<"/">> ELSE RStrip(t)) = NormalizePath(p)
  PROVE  NormalizePath(t) = NormalizePath(p)
<1>0. Strip(p) \in Seq(A) /\ Len(Strip(p)) \in Nat
  <2>1. CASE Letters(p) = {}
    BY <2>1 DEF Strip
  <2>2. CASE Letters(p) # {}
    BY <2>2, LettersFact, LenProperties
  <2> QED
    BY <2>1, <2>2
<1>1. /\ NormalizePath(p) \in Seq(A) /\ Len(NormalizePath(p)) = Len(Strip(p)) + 1
      /\ NormalizePath(p)[1] = "/"
      /\ \A i \in 1..Len(Strip(p)) : NormalizePath(p)[i + 1] = Strip(p)[i]
  BY <1>0, SlashFirst DEF NormalizePath
<1>2. CASE Letters(t) = {}
  <2>1. RStrip(t) = <<>> /\ Strip(t) = <<>>
    BY <1>2 DEF RStrip, Strip
  <2>2. Len(Strip(p)) = 0
    <3>1. NormalizePath(p) = <<"/">>
      BY <2>1
    <3>2. Len(<<"/">>) = 1
      OBVIOUS
    <3>3. Len(Strip(p)) + 1 = 1
      BY <1>1, <3>1, <3>2
    <3> QED
      BY <1>0, <3>3
  <2>3. Strip(p) = <<>>
    BY <1>0, <2>2, EmptySeq
  <2> QED
    BY <2>1, <2>3 DEF NormalizePath
<1>3. CASE Letters(t) # {}
  <2> DEFINE lo == Min(Letters(t))
             hi == Max(Letters(t))
             s == Strip(p)
  <2>1. /\ lo \in 1..Len(t) /\ hi \in 1..Len(t) /\ lo <= hi
        /\ t[lo] # "/" /\ t[hi] # "/"
        /\ \A i \in 1..Len(t) : t[i] # "/" => lo <= i /\ i <= hi
        /\ Strip(t) \in Seq(A) /\ Len(Strip(t)) = hi - lo + 1
        /\ \A i \in 1..(hi - lo + 1) : Strip(t)[i] = t[lo + i - 1]
        /\ RStrip(t) \in Seq(A) /\ Len(RStrip(t)) = hi
        /\ \A i \in 1..hi : RStrip(t)[i] = t[i]
    BY <1>3, LettersFact
  <2>2. Len(t) \in Nat
    BY LenProperties
  <2> HIDE DEF lo, hi
  <2>3. RStrip(t) # <<>>
    BY <2>1, <2>2
  <2>4. RStrip(t) = NormalizePath(p)
    BY <2>3
  <2>5. Len(s) = hi - 1 /\ t[1] = "/" /\ \A i \in 1..Len(s) : t[i + 1] = s[i]
    <3>1. Len(s) \in Nat /\ hi = Len(s) + 1 /\ hi \in Nat
      BY <1>0, <1>1, <2>1, <2>2, <2>4
    <3>2. t[1] = "/"
      BY <1>1, <2>1, <2>4, <3>1
    <3>3. ASSUME NEW i \in 1..Len(s) PROVE t[i + 1] = s[i]
      <4>1. i + 1 \in 1..hi
        BY <3>1
      <4> QED
        BY <1>1, <2>1, <2>4, <4>1
    <3> QED
      BY <3>1, <3>2, <3>3
  <2>6. hi >= 2
    BY <2>1, <2>2, <2>5
  <2>7. Letters(p) # {}
    <3>1. SUFFICES ASSUME Letters(p) = {} PROVE FALSE
      OBVIOUS
    <3>2. s = <<>>
      BY <3>1 DEF Strip
    <3> QED
      BY <2>1, <2>2, <2>5, <2>6, <3>2
  <2>8. s[1] # "/"
    <3> DEFINE a == Min(Letters(p))
               b == Max(Letters(p))
    <3>1. /\ a \in 1..Len(p) /\ b \in 1..Len(p) /\ a <= b /\ p[a] # "/"
          /\ \A i \in 1..(b - a + 1) : Strip(p)[i] = p[a + i - 1]
      BY <2>7, LettersFact
    <3>2. Len(p) \in Nat
      BY LenProperties
    <3> HIDE DEF a, b
    <3>3. 1 \in 1..(b - a + 1) /\ a + 1 - 1 = a
      BY <3>1, <3>2
    <3> QED
      BY <3>1, <3>3
  <2>9. lo = 2
    <3>1. t[2] # "/"
      BY <2>1, <2>2, <2>5, <2>6, <2>8
    <3> QED
      BY <2>1, <2>2, <2>5, <2>6, <3>1
  <2>10. Len(Strip(t)) = Len(s) /\ \A i \in 1..Len(s) : Strip(t)[i] = s[i]
    <3>1. Len(Strip(t)) = hi - 1 /\ \A i \in 1..(hi - 1) : Strip(t)[i] = t[i + 1]
      <4>1. hi \in Nat /\ hi - lo + 1 = hi - 1
        BY <2>1, <2>2, <2>9
      <4>2. ASSUME NEW i \in 1..(hi - 1) PROVE Strip(t)[i] = t[i + 1]
        <5>1. lo + i - 1 = i + 1
          BY <2>9, <4>1
        <5> QED
          BY <2>1, <4>1, <5>1
      <4> QED
        BY <2>1, <4>1, <4>2
    <3> QED
      BY <2>5, <3>1
  <2>11. Strip(t) = s
    BY <1>0, <2>1, <2>10, SeqEqual
  <2> QED
    BY <2>11 DEF NormalizePath
<1> QED
  BY <1>2, <1>3

-----------------------------------------------------------------------------
(* routes.0009.                                                            *)

\* A request for a route's own path belongs to it.
LEMMA OwnPath ==
  ASSUME NEW origin, NEW path
  PROVE  BuildTargetUrl(origin, path, path, None)
           = [origin |-> origin, path |-> NormalizePath(path)]
  BY DEF BuildTargetUrl, BelongsTo

\* Where requests went is a URL with a path, if anywhere.
LEMMA LegacyPath ==
  ASSUME NEW L, Referential(L), NEW q \in DOMAIN L.routes,
         NEW url \in LegacyDestinations(L.routes[q]), url # None
  PROVE  url.path \in Seq(Range(url.path))
<1>1. url \in {L.routes[q].target} \cup {t.url : t \in Range(L.routes[q].targets)}
  BY DEF LegacyDestinations
<1> QED
  BY <1>1 DEF Referential

\* One alphabet for two paths.
LEMMA TwoPaths ==
  ASSUME NEW s, NEW t, s \in Seq(Range(s)), t \in Seq(Range(t))
  PROVE  \E A : "/" \in A /\ s \in Seq(A) /\ t \in Seq(A)
<1> DEFINE A == Range(s) \cup Range(t) \cup {"/"}
<1>1. Range(s) \subseteq A /\ Range(t) \subseteq A /\ "/" \in A
  OBVIOUS
<1> HIDE DEF A
<1>2. s \in Seq(A) /\ t \in Seq(A)
  BY <1>1, SeqMonotonic
<1> QED
  BY <1>1, <1>2

\* migrate_service_origins, once nothing was refused: the routes of a service
\* agree on its origin, and their targets on the path.
LEMMA MigrateOriginsFollow ==
  ASSUME NEW L, WellFormed(L), Referential(L), NEW d, NEW h \in Nat, h < 2,
         Follows(L, d, 5, h), OriginConflicts(d) = {}, NEW e,
         e = MigrateServiceOrigins(d), NEW i \in Nat, i >= 2
  PROVE  Follows(L, e, 5, i)
<1> DEFINE users(s) == {q \in DOMAIN d.routes :
                          d.routes[q].service = s /\ d.routes[q].target # None}
           origins(s) == {d.routes[r].target.origin : r \in users(s)}
<1>0. /\ Copied(5, h) /\ Assigned(5, h) /\ Joined(5, h) /\ ~Moved(5, h)
      /\ ~Single(5, h) /\ ~Valid(5, h)
      /\ Copied(5, i) /\ Assigned(5, i) /\ Joined(5, i) /\ Moved(5, i)
      /\ ~Single(5, i) /\ ~Valid(5, i)
  BY DEF Assigned, Copied, Joined, Moved, Single, Valid, Past
<1>1. /\ WellFormed(d) /\ Merged(L, d)
      /\ \A s \in DOMAIN d.services : d.services[s].url = None
  BY <1>0 DEF Follows, RoutesFollow, OriginsFollow
<1>2. /\ IsRecord(e, Tables) /\ e.routes = d.routes /\ e.grants = d.grants
      /\ e.keys = d.keys /\ e.methods = d.methods /\ e.logs = d.logs
      /\ DOMAIN e.services = DOMAIN d.services
      /\ IsRecord(e.services, DOMAIN e.services)
      /\ \A s \in DOMAIN d.services : e.services[s] =
           IF origins(s) = {} THEN d.services[s]
           ELSE [d.services[s] EXCEPT !.url = CHOOSE o \in origins(s) : TRUE]
  <2> DEFINE new == [s \in DOMAIN d.services |->
               IF origins(s) = {} THEN d.services[s]
               ELSE [d.services[s] EXCEPT !.url = CHOOSE o \in origins(s) : TRUE]]
  <2>1. e = [d EXCEPT !.services = new]
    BY DEF MigrateServiceOrigins
  <2>2. DOMAIN new = DOMAIN d.services /\ IsRecord(new, DOMAIN new)
        /\ \A s \in DOMAIN d.services : new[s] =
             IF origins(s) = {} THEN d.services[s]
             ELSE [d.services[s] EXCEPT !.url = CHOOSE o \in origins(s) : TRUE]
    BY DEF IsRecord
  <2> HIDE DEF new, origins
  <2> QED
    BY <1>1, <2>1, <2>2 DEF WellFormed, IsRecord, Tables
<1>3. ASSUME NEW s \in DOMAIN d.services
      PROVE  /\ IsRecord(e.services[s], {"name", "url"})
             /\ origins(s) = {} => e.services[s].url = None
             /\ origins(s) # {} => e.services[s].url \in origins(s)
  <2>1. IsRecord(d.services[s], {"name", "url"})
    BY <1>1 DEF WellFormed
  <2>2. CASE origins(s) = {}
    BY <1>1, <1>2, <2>1, <2>2
  <2>3. CASE origins(s) # {}
    <3> DEFINE o == CHOOSE x \in origins(s) : TRUE
    <3>1. o \in origins(s)
      BY <2>3
    <3>2. e.services[s] = [d.services[s] EXCEPT !.url = o]
      BY <1>2, <2>3
    <3> HIDE DEF o, origins
    <3>3. e.services[s].url = o /\ IsRecord(e.services[s], {"name", "url"})
      BY <2>1, <3>2 DEF IsRecord
    <3> QED
      BY <2>3, <3>1, <3>3
  <2> QED
    BY <2>2, <2>3
<1>4. WellFormed(e)
  <2> HIDE DEF origins, users
  <2>1. \A s \in DOMAIN e.services : IsRecord(e.services[s], {"name", "url"})
    BY <1>2, <1>3
  <2> QED
    BY <1>1, <1>2, <2>1 DEF WellFormed, Tables
<1>5. RoutesFollow(L, e, 5, i)
  BY <1>0, <1>1, <1>2 DEF RoutesFollow, Merged
<1>6. KeysFollow(L, e, 5, i)
  BY <1>0, <1>2 DEF Follows, KeysFollow, AppOf
<1>7. TargetsFollow(L, e, 5, i)
  BY <1>0, <1>2 DEF Follows, TargetsFollow, Heir
<1>8. ASSUME NEW r \in DOMAIN d.routes PROVE Settled(e, r)
  <2> DEFINE row == d.routes[r]
             s == row.service
  <2>0. e.routes[r] = row
    BY <1>2
  <2>1. CASE s = None
    <3>1. row.target = None
      BY <2>1 DEF OriginConflicts
    <3> QED
      BY <2>0, <2>1, <3>1 DEF Settled, Destination
  <2>2. CASE s # None /\ row.target = None
    <3>1. s \in DOMAIN d.services
      BY <1>1, <2>2 DEF WellFormed
    <3>2. \A q \in DOMAIN d.routes : d.routes[q].service = s =>
            d.routes[q].target = None
      BY <2>2 DEF OriginConflicts
    <3>3. e.services[s].url = None
      BY <1>3, <3>1, <3>2
    <3> QED
      BY <2>0, <2>2, <3>3 DEF Settled, Destination
  <2>3. CASE s # None /\ row.target # None
    <3>1. s \in DOMAIN d.services
      BY <1>1, <2>3 DEF WellFormed
    <3>2. ~TargetRefused(row)
          /\ \A q \in DOMAIN d.routes :
               d.routes[q].service = s /\ d.routes[q].target # None =>
                 d.routes[q].target.origin = row.target.origin
      BY <2>3 DEF OriginConflicts
    <3>3. e.services[s].url = row.target.origin
      <4>1. r \in users(s)
        BY <2>3
      <4>2. origins(s) # {} /\ \A o \in origins(s) : o = row.target.origin
        BY <3>2, <4>1
      <4> HIDE DEF origins, users
      <4> QED
        BY <1>3, <3>1, <4>2
    <3>4. row.target.origin # None
      BY <3>2, NoneAssumption DEF TargetRefused
    <3>5. NormalizePath(row.target.path) = NormalizePath(row.path)
      <4>1. PICK q \in DOMAIN L.routes : r = Survivor(L, q)
        BY <1>1 DEF Merged
      <4>2. row.target \in LegacyDestinations(L.routes[q])
        BY <1>0, <4>1 DEF Follows, TargetsFollow, Heir
      <4>3. row.target.path \in Seq(Range(row.target.path))
        BY <2>3, <4>2, LegacyPath
      <4>4. row.path \in Seq(Range(row.path))
        BY <1>1 DEF WellFormed
      <4>5. PICK A : "/" \in A /\ row.target.path \in Seq(A) /\ row.path \in Seq(A)
        BY <4>3, <4>4, TwoPaths
      <4>6. (IF RStrip(row.target.path) = <<>> THEN <<"/">>
             ELSE RStrip(row.target.path)) = NormalizePath(row.path)
        BY <3>2 DEF TargetRefused
      <4> HIDE DEF row
      <4> QED
        BY <4>5, <4>6, PathKept
    <3>6. Destination(e, r)
            = [origin |-> row.target.origin, path |-> NormalizePath(row.path)]
      BY <2>0, <2>3, <3>3, <3>4, OwnPath DEF Destination
    <3> QED
      BY <2>0, <2>3, <3>5, <3>6 DEF Settled
  <2> QED
    BY <2>1, <2>2, <2>3
<1>9. OriginsFollow(e, 5, i) /\ PathsFollow(e, 5, i)
  BY <1>0, <1>2, <1>8 DEF OriginsFollow, PathsFollow
<1> QED
  BY <1>4, <1>5, <1>6, <1>7, <1>9 DEF Follows

-----------------------------------------------------------------------------
(* An operation that is not refused.                                       *)

WithoutLogs(d) == [d EXCEPT !.logs = <<>>]

\* What each operation does to the tables.
LEMMA OpRewrites ==
  ASSUME NEW m \in 1..8, NEW p \in 1..Len(Plan[m].ops), NEW d
  PROVE  LET e == Rewritten(Plan[m].ops[p], d) IN
         /\ m = 1 /\ p = 4 => e = CopyDownstreamServices(d)
         /\ m = 2 /\ p = 3 => e = CopyFirstTargetUrl(d)
         /\ m = 3 /\ p = 1 => e = BackfillApplication(d)
         /\ m = 4 /\ p = 3 => e = ConsolidateRoutes(d)
         /\ m = 5 /\ p = 2 => e = MigrateServiceOrigins(d)
         /\ m = 7 /\ p = 1 => e = WithoutLogs(d)
         /\ \/ m = 1 /\ p = 4
            \/ m = 2 /\ p = 3
            \/ m = 3 /\ p = 1
            \/ m = 4 /\ p = 3
            \/ m = 5 /\ p = 2
            \/ m = 7 /\ p = 1
            \/ e = d
<1> DEFINE op == Plan[m].ops[p]
<1>1. /\ op = "copy_downstream_services" <=> (m = 1 /\ p = 4)
      /\ op = "copy_first_target_url" <=> (m = 2 /\ p = 3)
      /\ op = "backfill_application" <=> (m = 3 /\ p = 1)
      /\ op = "consolidate_routes" <=> (m = 4 /\ p = 3)
      /\ op = "migrate_service_origins" <=> (m = 5 /\ p = 2)
      /\ op = "DeleteModel.RequestLog" <=> (m = 7 /\ p = 1)
  BY PlanPlaces
<1> HIDE DEF op
<1>2. Rewritten(op, d) =
        IF op = "copy_downstream_services" THEN CopyDownstreamServices(d)
        ELSE IF op = "copy_first_target_url" THEN CopyFirstTargetUrl(d)
        ELSE IF op = "backfill_application" THEN BackfillApplication(d)
        ELSE IF op = "consolidate_routes" THEN ConsolidateRoutes(d)
        ELSE IF op = "migrate_service_origins" THEN MigrateServiceOrigins(d)
        ELSE IF op = "DeleteModel.RequestLog" THEN WithoutLogs(d)
        ELSE d
  BY DEF Rewritten, WithoutLogs
<1> QED
  BY <1>1, <1>2 DEF op

\* No tagged rows, no rows.
LEMMA NoRows ==
  ASSUME NEW tag, NEW S, {tag} \X S = {}
  PROVE  S = {}
<1> SUFFICES ASSUME NEW s \in S PROVE FALSE
  OBVIOUS
<1>1. <<tag, s>> \in {tag} \X S
  OBVIOUS
<1> QED
  BY <1>1

\* The rows of routes.0008, 0009 and 0010 that are refused, and those that
\* a constraint on routes meets.
LEMMA OpRefuses ==
  ASSUME NEW m \in 1..8, NEW p \in 1..Len(Plan[m].ops), NEW d
  PROVE  LET op == Plan[m].ops[p] IN
         /\ m = 4 /\ p = 3 => Refused(op, d) = {"route"} \X ConsolidateConflicts(d)
         /\ m = 5 /\ p = 2 => Refused(op, d) = {"route"} \X OriginConflicts(d)
         /\ m = 6 /\ p = 1 => Refused(op, d) = {"key"} \X KeysSharing(d)
         /\ m = 8 /\ p = 1 => Refused(op, d) = {"route"} \X InvalidPaths(d)
         /\ \A row \in Refused(op, d) : row[1] = "route" =>
              /\ row[2] \in DOMAIN d.routes
              /\ \/ m = 4 /\ p = 3 /\ ConsolidateConflicts(d) # {}
                 \/ m = 5
                 \/ m = 8
<1> DEFINE op == Plan[m].ops[p]
<1>1. /\ op = "consolidate_routes" <=> (m = 4 /\ p = 3)
      /\ op = "migrate_service_origins" <=> (m = 5 /\ p = 2)
      /\ op = "validate_single_key_per_application" <=> (m = 6 /\ p = 1)
      /\ op = "validate_paths" <=> (m = 8 /\ p = 1)
  BY PlanPlaces
<1> HIDE DEF op
<1>2. Refused(op, d) =
        IF op = "consolidate_routes" THEN {"route"} \X ConsolidateConflicts(d)
        ELSE IF op = "migrate_service_origins"
             THEN {"route"} \X OriginConflicts(d)
        ELSE IF op = "validate_paths" THEN {"route"} \X InvalidPaths(d)
        ELSE IF op = "validate_single_key_per_application"
             THEN {"key"} \X KeysSharing(d)
        ELSE {}
  BY DEF Refused
<1>3. /\ ConsolidateConflicts(d) \subseteq DOMAIN d.routes
      /\ OriginConflicts(d) \subseteq DOMAIN d.routes
      /\ InvalidPaths(d) \subseteq DOMAIN d.routes
  BY DEF ConsolidateConflicts, OriginConflicts, InvalidPaths
<1>4. /\ m = 4 /\ p = 3 => Refused(op, d) = {"route"} \X ConsolidateConflicts(d)
      /\ m = 5 /\ p = 2 => Refused(op, d) = {"route"} \X OriginConflicts(d)
      /\ m = 6 /\ p = 1 => Refused(op, d) = {"key"} \X KeysSharing(d)
      /\ m = 8 /\ p = 1 => Refused(op, d) = {"route"} \X InvalidPaths(d)
      /\ ~(m = 4 /\ p = 3) /\ ~(m = 5 /\ p = 2) /\ ~(m = 6 /\ p = 1)
           /\ ~(m = 8 /\ p = 1) => Refused(op, d) = {}
  BY <1>1, <1>2
<1>5. ASSUME NEW row \in Refused(op, d), row[1] = "route"
      PROVE  /\ row[2] \in DOMAIN d.routes
             /\ \/ m = 4 /\ p = 3 /\ ConsolidateConflicts(d) # {}
                \/ m = 5
                \/ m = 8
  <2>1. CASE m = 4 /\ p = 3
    BY <1>3, <1>4, <1>5, <2>1
  <2>2. CASE m = 5 /\ p = 2
    BY <1>3, <1>4, <1>5, <2>2
  <2>3. CASE m = 8 /\ p = 1
    BY <1>3, <1>4, <1>5, <2>3
  <2>4. CASE m = 6 /\ p = 1
    BY <1>4, <1>5, <2>4
  <2> QED
    BY <1>4, <1>5, <2>1, <2>2, <2>3, <2>4
<1> QED
  BY <1>4, <1>5 DEF op

\* What the data migrations before it leave for a constraint to refuse.
LEMMA ConstraintsHold ==
  ASSUME NEW L, WellFormed(L), Referential(L), NEW d, NEW m \in 1..8,
         NEW p \in 1..Len(Plan[m].ops), NEW h \in Nat, Follows(L, d, m, h),
         m = 3 /\ p = 3 => h >= 1, m = 6 /\ p = 2 => h >= 1,
         m = 4 /\ p = 11 => h >= 3,
         NEW row \in Violating(Plan[m].ops[p], d)
  PROVE  row[1] = "service"
<1> DEFINE op == Plan[m].ops[p]
<1>1. /\ op = "NotNull.apikey.application" <=> (m = 3 /\ p = 3)
      /\ op = "Unique.route.project.base_path" <=> (m = 4 /\ p = 11)
      /\ op = "Unique.apikey.application" <=> (m = 6 /\ p = 2)
  BY PlanPlaces
<1> HIDE DEF op
<1>0. row \in Violating(op, d)
  BY DEF op
<1>2. CASE op = "NotNull.apikey.application"
  <2>1. Assigned(m, h)
    BY <1>1, <1>2 DEF Assigned, Past
  <2>2. ASSUME NEW k \in DOMAIN d.keys PROVE d.keys[k].app # None
    BY <2>1 DEF Follows, KeysFollow, AppOf, Referential
  <2>3. Violating(op, d) = {"key"} \X {k \in DOMAIN d.keys : d.keys[k].app = None}
    BY <1>2 DEF Violating
  <2> QED
    BY <1>0, <2>2, <2>3
<1>3. CASE op = "Unique.apikey.application"
  <2>1. Single(m, h)
    BY <1>1, <1>3 DEF Single, Past
  <2>2. \A k, j \in DOMAIN d.keys : d.keys[k].app = d.keys[j].app => k = j
    BY <2>1 DEF Follows, KeysFollow
  <2>3. Violating(op, d) = {"key"} \X {k \in DOMAIN d.keys :
          \E j \in DOMAIN d.keys \ {k} : d.keys[j].app = d.keys[k].app}
    BY <1>3 DEF Violating
  <2> QED
    BY <1>0, <2>2, <2>3
<1>4. CASE op = "Unique.route.project.base_path"
  <2>1. Joined(m, h)
    BY <1>1, <1>4 DEF Joined, Past
  <2>2. Merged(L, d)
    BY <2>1 DEF Follows, RoutesFollow
  <2>3. ASSUME NEW r \in DOMAIN d.routes PROVE Group(d, r) = {r}
    <3>1. \A q \in DOMAIN d.routes : q \in DOMAIN L.routes /\ q = Survivor(L, q)
      BY <2>2, MergedRows
    <3>2. ASSUME NEW q \in Group(d, r) PROVE q = r
      <4>1. q \in DOMAIN d.routes /\ q \in DOMAIN L.routes /\ r \in DOMAIN L.routes
        BY <3>1 DEF Group
      <4>2. q \in Group(L, r)
        BY <2>2, <4>1 DEF Merged, Group
      <4>3. Survivor(L, q) = Survivor(L, r)
        BY <4>1, <4>2, GroupFact DEF WellFormed
      <4> QED
        BY <3>1, <4>1, <4>3
    <3>3. r \in Group(d, r)
      BY DEF Group
    <3> QED
      BY <3>2, <3>3
  <2>4. Violating(op, d)
          = {"route"} \X {r \in DOMAIN d.routes : Group(d, r) # {r}}
    BY <1>4 DEF Violating
  <2> QED
    BY <1>0, <2>3, <2>4
<1>5. CASE /\ op # "NotNull.apikey.application"
           /\ op # "Unique.apikey.application"
           /\ op # "Unique.route.project.base_path"
  <2> DEFINE S == {s \in DOMAIN d.services : \E z \in DOMAIN d.services :
                     s # z /\ s.project = z.project
                       /\ d.services[s].name = d.services[z].name}
  <2>1. Violating(op, d) = {"service"} \X S \/ Violating(op, d) = {}
    BY <1>5 DEF Violating
  <2> HIDE DEF S
  <2> QED
    BY <1>0, <2>1
<1> QED
  BY <1>2, <1>3, <1>4, <1>5

\* An operation that succeeds leads to the next stage.
LEMMA OperationFollows ==
  ASSUME NEW L, WellFormed(L), Referential(L), NEW d, NEW m \in 1..8,
         NEW p \in 1..Len(Plan[m].ops), NEW h \in Nat, Follows(L, d, m, h),
         p = h + 1 \/ (m \in {3, 6, 8} /\ p <= h),
         Refused(Plan[m].ops[p], d) = {}, NEW e,
         e = Rewritten(Plan[m].ops[p], d), NEW i, i = Max({h, p})
  PROVE  Follows(L, e, m, i)
<1>1. p \in Nat /\ p >= 1
  BY PlanShape
<1>2. i = (IF h >= p THEN h ELSE p) /\ i \in Nat /\ i >= p
  BY <1>1, MaxTwo
<1>13. /\ m = 1 /\ p = 4 => e = CopyDownstreamServices(d)
       /\ m = 2 /\ p = 3 => e = CopyFirstTargetUrl(d)
       /\ m = 3 /\ p = 1 => e = BackfillApplication(d)
       /\ m = 4 /\ p = 3 => e = ConsolidateRoutes(d)
       /\ m = 5 /\ p = 2 => e = MigrateServiceOrigins(d)
       /\ m = 7 /\ p = 1 => e = WithoutLogs(d)
       /\ \/ m = 1 /\ p = 4
          \/ m = 2 /\ p = 3
          \/ m = 3 /\ p = 1
          \/ m = 4 /\ p = 3
          \/ m = 5 /\ p = 2
          \/ m = 7 /\ p = 1
          \/ e = d
  <2>1. m = 1 /\ p = 4 => e = CopyDownstreamServices(d)
    BY OpRewrites
  <2>2. m = 2 /\ p = 3 => e = CopyFirstTargetUrl(d)
    BY OpRewrites
  <2>3. m = 3 /\ p = 1 => e = BackfillApplication(d)
    BY OpRewrites
  <2>4. m = 4 /\ p = 3 => e = ConsolidateRoutes(d)
    BY OpRewrites
  <2>5. m = 5 /\ p = 2 => e = MigrateServiceOrigins(d)
    BY OpRewrites
  <2>6. m = 7 /\ p = 1 => e = WithoutLogs(d)
    BY OpRewrites
  <2>7. \/ m = 1 /\ p = 4
        \/ m = 2 /\ p = 3
        \/ m = 3 /\ p = 1
        \/ m = 4 /\ p = 3
        \/ m = 5 /\ p = 2
        \/ m = 7 /\ p = 1
        \/ e = d
    <3>1. SUFFICES ASSUME ~(m = 1 /\ p = 4), ~(m = 2 /\ p = 3), ~(m = 3 /\ p = 1),
                          ~(m = 4 /\ p = 3), ~(m = 5 /\ p = 2), ~(m = 7 /\ p = 1)
                   PROVE  e = d
      OBVIOUS
    <3> QED
      BY <3>1, OpRewrites
  <2> QED
    BY <2>1, <2>2, <2>3, <2>4, <2>5, <2>6, <2>7
<1>12. p <= h + 1
  BY <1>1
<1>3. CASE m = 1 /\ p = 4
  <2>1. e = CopyDownstreamServices(d)
    BY <1>3, <1>13
  <2>2. Follows(L, e, m, h)
    BY <1>3, <2>1, CopyServicesFollow
  <2>3. Plan[m].ops[p] \notin StageOps
    BY <1>3, PlanPlaces DEF StageOps
  <2>4. SameStage(m, h, m, i)
    BY <1>12, <2>3, OtherOps
  <2> QED
    BY <2>2, <2>4, StageFollows
<1>4. CASE m = 2 /\ p = 3
  BY <1>1, <1>2, <1>4, <1>13, CopyTargetsFollow
<1>5. CASE m = 3 /\ p = 1
  <2>1. e = BackfillApplication(d)
    BY <1>5, <1>13
  <2>2. i >= 1
    BY <1>2, <1>5
  <2> QED
    BY <1>2, <1>5, <2>1, <2>2, BackfillFollow
<1>6. CASE m = 4 /\ p = 3
  <2>1. ConsolidateConflicts(d) = {}
    <3>1. {"route"} \X ConsolidateConflicts(d) = {}
      BY <1>6, OpRefuses
    <3> QED
      BY <3>1, NoRows
  <2>2. e = ConsolidateRoutes(d)
    BY <1>6, <1>13
  <2>3. h < 3 /\ i >= 3
    BY <1>1, <1>2, <1>6
  <2> QED
    BY <1>2, <1>6, <2>1, <2>2, <2>3, ConsolidateFollow
<1>7. CASE m = 5 /\ p = 2
  <2>1. OriginConflicts(d) = {}
    <3>1. {"route"} \X OriginConflicts(d) = {}
      BY <1>7, OpRefuses
    <3> QED
      BY <3>1, NoRows
  <2>2. e = MigrateServiceOrigins(d)
    BY <1>7, <1>13
  <2>3. h < 2 /\ i >= 2
    BY <1>1, <1>2, <1>7
  <2> QED
    BY <1>2, <1>7, <2>1, <2>2, <2>3, MigrateOriginsFollow
<1>8. CASE m = 6 /\ p = 1
  <2>1. KeysSharing(d) = {}
    <3>1. {"key"} \X KeysSharing(d) = {}
      BY <1>8, OpRefuses
    <3> QED
      BY <3>1, NoRows
  <2>2. e = d
    BY <1>8, <1>13
  <2> QED
    BY <1>2, <1>8, <2>1, <2>2, SingleFollow
<1>9. CASE m = 7 /\ p = 1
  <2>1. e = WithoutLogs(d)
    BY <1>9, <1>13
  <2>2. Follows(L, e, m, h)
    BY <1>9, <2>1, DropLogsFollow DEF WithoutLogs
  <2>3. Plan[m].ops[p] \notin StageOps
    BY <1>9, PlanPlaces DEF StageOps
  <2>4. SameStage(m, h, m, i)
    BY <1>12, <2>3, OtherOps
  <2> QED
    BY <2>2, <2>4, StageFollows
<1>10. CASE m = 8 /\ p = 1
  <2>1. InvalidPaths(d) = {}
    <3>1. {"route"} \X InvalidPaths(d) = {}
      BY <1>10, OpRefuses
    <3> QED
      BY <3>1, NoRows
  <2>2. e = d
    BY <1>10, <1>13
  <2> QED
    BY <1>2, <1>10, <2>1, <2>2, PathsCheckedFollow
<1>11. CASE /\ ~(m = 1 /\ p = 4) /\ ~(m = 2 /\ p = 3) /\ ~(m = 3 /\ p = 1)
            /\ ~(m = 4 /\ p = 3) /\ ~(m = 5 /\ p = 2) /\ ~(m = 6 /\ p = 1)
            /\ ~(m = 7 /\ p = 1) /\ ~(m = 8 /\ p = 1)
  <2>1. e = d
    BY <1>11, <1>13
  <2>2. Plan[m].ops[p] \notin StageOps
    BY <1>11, PlanPlaces DEF StageOps
  <2>3. SameStage(m, h, m, i)
    BY <1>12, <2>2, OtherOps
  <2> QED
    BY <2>1, <2>3, StageFollows
<1> QED
  BY <1>3, <1>4, <1>5, <1>6, <1>7, <1>8, <1>9, <1>10, <1>11

-----------------------------------------------------------------------------
(* What the operator does.                                                 *)

\* The tables without some routes.
LEMMA WithoutRoutesFact ==
  ASSUME NEW d, WellFormed(d), NEW R, NEW e, e = WithoutRoutes(d, R)
  PROVE  /\ IsRecord(e, Tables) /\ e.keys = d.keys /\ e.services = d.services
         /\ DOMAIN e.routes = DOMAIN d.routes \ R
         /\ \A r \in DOMAIN d.routes \ R : e.routes[r] = d.routes[r]
         /\ e.grants = {g \in d.grants : g.route \notin R}
         /\ e.methods = {m \in d.methods : m.route \notin R}
         /\ e.logs = [l \in DOMAIN d.logs |->
                        IF d.logs[l] \in R THEN None ELSE d.logs[l]]
         /\ WellFormed(e)
<1> DEFINE rows == [r \in DOMAIN d.routes \ R |-> d.routes[r]]
           grants == {g \in d.grants : g.route \notin R}
           methods == {m \in d.methods : m.route \notin R}
           logs == [l \in DOMAIN d.logs |->
                     IF d.logs[l] \in R THEN None ELSE d.logs[l]]
<1>1. e = [d EXCEPT !.routes = rows, !.grants = grants, !.methods = methods,
                    !.logs = logs]
  BY DEF WithoutRoutes
<1>2. DOMAIN rows = DOMAIN d.routes \ R
      /\ \A r \in DOMAIN d.routes \ R : rows[r] = d.routes[r]
  OBVIOUS
<1> HIDE DEF rows, grants, methods, logs
<1>4. /\ IsRecord(e, Tables) /\ e.keys = d.keys /\ e.services = d.services
      /\ e.routes = rows /\ e.grants = grants /\ e.methods = methods
      /\ e.logs = logs
  BY <1>1 DEF WellFormed, IsRecord, Tables
<1>5. WellFormed(e)
  BY <1>2, <1>4 DEF WellFormed, Tables
<1> QED
  BY <1>2, <1>4, <1>5 DEF grants, methods, logs

\* Grants cascade and logs keep NULL, so that references stay good.
LEMMA WithoutRoutesReferential ==
  ASSUME NEW L, WellFormed(L), Referential(L), NEW R
  PROVE  Referential(WithoutRoutes(L, R))
<1> DEFINE M == WithoutRoutes(L, R)
<1>1. /\ M.keys = L.keys
      /\ DOMAIN M.routes = DOMAIN L.routes \ R
      /\ \A r \in DOMAIN L.routes \ R : M.routes[r] = L.routes[r]
      /\ M.grants = {g \in L.grants : g.route \notin R}
      /\ M.logs = [l \in DOMAIN L.logs |->
                     IF L.logs[l] \in R THEN None ELSE L.logs[l]]
  BY WithoutRoutesFact
<1> HIDE DEF M
<1>2. \A r, q \in DOMAIN M.routes :
        (/\ M.routes[r].project = M.routes[q].project
         /\ M.routes[r].path = M.routes[q].path
         /\ M.routes[r].method = M.routes[q].method) => r = q
  BY <1>1 DEF Referential
<1>3. \A r \in DOMAIN M.routes : \A url \in {M.routes[r].target}
          \cup {t.url : t \in Range(M.routes[r].targets)} :
        url # None => url.path \in Seq(Range(url.path))
  BY <1>1 DEF Referential
<1>4. \A g \in M.grants : g.route \in DOMAIN M.routes
  BY <1>1 DEF Referential
<1>5. \A l \in DOMAIN M.logs : M.logs[l] \in DOMAIN M.routes \cup {None}
  BY <1>1 DEF Referential
<1>6. \A k \in DOMAIN M.keys :
        /\ M.keys[k].app # None => M.keys[k].app.project = M.keys[k].project
        /\ DefaultApplication(M.keys[k].project) # None
  BY <1>1 DEF Referential
<1>7. Referential(M)
  BY <1>2, <1>3, <1>4, <1>5, <1>6 DEF Referential
<1> QED
  BY <1>7 DEF M

\* Before routes.0008, a route goes from both alike.
LEMMA RemoveRouteFollow ==
  ASSUME NEW L, WellFormed(L), NEW d, NEW m, NEW h, Follows(L, d, m, h),
         Copied(m, h), ~Joined(m, h), ~Moved(m, h), NEW r
  PROVE  Follows(WithoutRoutes(L, {r}), WithoutRoutes(d, {r}), m, h)
<1> DEFINE M == WithoutRoutes(L, {r})
           e == WithoutRoutes(d, {r})
<1>0. WellFormed(d) /\ Same(L, d)
  BY DEF Follows, RoutesFollow
<1>1. /\ M.keys = L.keys
      /\ DOMAIN M.routes = DOMAIN L.routes \ {r}
      /\ \A q \in DOMAIN L.routes \ {r} : M.routes[q] = L.routes[q]
      /\ M.grants = {g \in L.grants : g.route \notin {r}}
      /\ M.logs = [l \in DOMAIN L.logs |->
                     IF L.logs[l] \in {r} THEN None ELSE L.logs[l]]
  BY WithoutRoutesFact
<1>2. /\ e.keys = d.keys /\ e.services = d.services
      /\ DOMAIN e.routes = DOMAIN d.routes \ {r}
      /\ \A q \in DOMAIN d.routes \ {r} : e.routes[q] = d.routes[q]
      /\ e.grants = {g \in d.grants : g.route \notin {r}}
      /\ e.logs = [l \in DOMAIN d.logs |->
                     IF d.logs[l] \in {r} THEN None ELSE d.logs[l]]
      /\ WellFormed(e)
  BY <1>0, WithoutRoutesFact
<1> HIDE DEF M, e
<1>3. RoutesFollow(M, e, m, h)
  BY <1>0, <1>1, <1>2 DEF RoutesFollow, Same
<1>4. KeysFollow(M, e, m, h)
  BY <1>1, <1>2 DEF Follows, KeysFollow, AppOf
<1>5. TargetsFollow(M, e, m, h)
  BY <1>0, <1>1, <1>2 DEF Follows, TargetsFollow, Heir, Same
<1>6. OriginsFollow(e, m, h) /\ PathsFollow(e, m, h)
  BY <1>2 DEF Follows, OriginsFollow, PathsFollow
<1>7. Follows(M, e, m, h)
  BY <1>2, <1>3, <1>4, <1>5, <1>6 DEF Follows
<1> QED
  BY <1>7 DEF M, e

\* The operator renames a service.
LEMMA RenameFollow ==
  ASSUME NEW L, NEW d, NEW m, NEW h, Follows(L, d, m, h), NEW s, NEW e,
         e = [d EXCEPT !.services[s].name = @ \o s.slug]
  PROVE  /\ Follows(L, e, m, h)
         /\ e.routes = d.routes
<1> DEFINE new == [d.services EXCEPT ![s].name = @ \o s.slug]
<1>0. WellFormed(d)
  BY DEF Follows
<1>1. e = [d EXCEPT !.services = new]
  OBVIOUS
<1>2. /\ DOMAIN new = DOMAIN d.services /\ IsRecord(new, DOMAIN new)
      /\ \A v \in DOMAIN d.services :
           IsRecord(new[v], {"name", "url"}) /\ new[v].url = d.services[v].url
  <2>1. DOMAIN new = DOMAIN d.services /\ IsRecord(new, DOMAIN new)
    BY DEF IsRecord
  <2>2. ASSUME NEW v \in DOMAIN d.services
        PROVE  IsRecord(new[v], {"name", "url"}) /\ new[v].url = d.services[v].url
    <3>1. IsRecord(d.services[v], {"name", "url"})
      BY <1>0 DEF WellFormed
    <3>2. CASE v = s
      <4> DEFINE n == d.services[v].name \o s.slug
      <4>1. new[v] = [d.services[v] EXCEPT !.name = n]
        BY <3>2
      <4> HIDE DEF n, new
      <4> QED
        BY <3>1, <4>1 DEF IsRecord
    <3>3. CASE v # s
      BY <3>1, <3>3
    <3> QED
      BY <3>2, <3>3
  <2> QED
    BY <2>1, <2>2
<1> HIDE DEF new
<1>3. /\ IsRecord(e, Tables) /\ e.routes = d.routes /\ e.grants = d.grants
      /\ e.keys = d.keys /\ e.methods = d.methods /\ e.logs = d.logs
      /\ e.services = new
  BY <1>0, <1>1 DEF WellFormed, IsRecord, Tables
<1>4. WellFormed(e)
  BY <1>0, <1>2, <1>3 DEF WellFormed, Tables
<1>5. RoutesFollow(L, e, m, h)
  BY <1>3 DEF Follows, RoutesFollow, Same, Merged
<1>6. KeysFollow(L, e, m, h)
  BY <1>3 DEF Follows, KeysFollow
<1>7. TargetsFollow(L, e, m, h)
  BY <1>3 DEF Follows, TargetsFollow
<1>8. PathsFollow(e, m, h)
  BY <1>3 DEF Follows, PathsFollow
<1>9. OriginsFollow(e, m, h)
  <2>1. CASE Moved(m, h)
    <3>1. ASSUME NEW r \in DOMAIN d.routes PROVE Destination(e, r) = Destination(d, r)
      BY <1>0, <1>2, <1>3 DEF WellFormed, Destination
    <3> QED
      BY <1>3, <2>1, <3>1 DEF Follows, OriginsFollow, Settled
  <2>2. CASE ~Moved(m, h)
    BY <1>2, <1>3, <2>2 DEF Follows, OriginsFollow
  <2> QED
    BY <2>1, <2>2
<1> QED
  BY <1>3, <1>4, <1>5, <1>6, <1>7, <1>8, <1>9 DEF Follows

\* After it, the row of a path goes, and with it all that it was made of.
LEMMA RemoveGroupFollow ==
  ASSUME NEW L, WellFormed(L), Referential(L), NEW d, NEW m, NEW h,
         Follows(L, d, m, h), Copied(m, h), Joined(m, h),
         NEW r \in DOMAIN d.routes
  PROVE  Follows(WithoutRoutes(L, Group(L, r)), WithoutRoutes(d, {r}), m, h)
<1> DEFINE G == Group(L, r)
           M == WithoutRoutes(L, G)
           e == WithoutRoutes(d, {r})
<1>0. WellFormed(d) /\ Merged(L, d) /\ DOMAIN L.routes \subseteq Nat
  BY DEF Follows, RoutesFollow, WellFormed
<1>1. /\ M.keys = L.keys
      /\ DOMAIN M.routes = DOMAIN L.routes \ G
      /\ \A q \in DOMAIN L.routes \ G : M.routes[q] = L.routes[q]
      /\ M.grants = {g \in L.grants : g.route \notin G}
      /\ M.logs = [l \in DOMAIN L.logs |->
                     IF L.logs[l] \in G THEN None ELSE L.logs[l]]
  <2> HIDE DEF G
  <2> QED
    BY WithoutRoutesFact
<1>2. /\ e.keys = d.keys /\ e.services = d.services
      /\ DOMAIN e.routes = DOMAIN d.routes \ {r}
      /\ \A q \in DOMAIN d.routes \ {r} : e.routes[q] = d.routes[q]
      /\ e.grants = {g \in d.grants : g.route \notin {r}}
      /\ e.methods = {n \in d.methods : n.route \notin {r}}
      /\ e.logs = [l \in DOMAIN d.logs |->
                     IF d.logs[l] \in {r} THEN None ELSE d.logs[l]]
      /\ WellFormed(e)
  BY <1>0, WithoutRoutesFact
<1>3. r \in DOMAIN L.routes /\ r = Survivor(L, r)
  BY <1>0, MergedRows
<1>4. ASSUME NEW q \in DOMAIN L.routes PROVE q \in G <=> Survivor(L, q) = r
  BY <1>0, <1>3, GroupFact
<1>5. ASSUME NEW q \in DOMAIN L.routes, q \notin G
      PROVE  /\ Group(L, q) \cap G = {}
             /\ Group(L, q) \in SUBSET DOMAIN M.routes
  <2>1. Group(L, q) \subseteq DOMAIN L.routes
    BY DEF Group
  <2>2. \A w \in Group(L, q) : w \notin G
    BY <1>5 DEF Group
  <2> QED
    BY <1>1, <2>1, <2>2
<1> HIDE DEF M, e
<1>6. ASSUME NEW q \in DOMAIN M.routes
      PROVE  Group(M, q) = Group(L, q) /\ Survivor(M, q) = Survivor(L, q)
  <2>0. q \in DOMAIN L.routes /\ q \notin G /\ M.routes[q] = L.routes[q]
    BY <1>1
  <2>1. Group(L, q) \subseteq DOMAIN M.routes
    BY <1>5, <2>0
  <2>2. \A w \in DOMAIN M.routes : M.routes[w] = L.routes[w] /\ w \in DOMAIN L.routes
    BY <1>1
  <2> HIDE DEF G
  <2>3. Group(M, q) = Group(L, q)
    BY <2>0, <2>1, <2>2 DEF Group
  <2> QED
    BY <2>3 DEF Survivor
<1> HIDE DEF G
<1>7. ASSUME NEW H \in SUBSET DOMAIN M.routes
      PROVE  ActiveMethods(M, H) = ActiveMethods(L, H)
  BY <1>1 DEF ActiveMethods
<1>8. ASSUME NEW H \in SUBSET DOMAIN M.routes, ~MethodSpecific(L, H)
      PROVE  ~MethodSpecific(M, H)
  <2>1. ASSUME NEW app PROVE GrantedMethods(M, app, H) = GrantedMethods(L, app, H)
    <3> DEFINE on(x) == {g \in x.grants : /\ g.app = app /\ g.route \in H
                                          /\ g.active /\ x.routes[g.route].active}
    <3>1. on(M) = on(L) /\ \A g \in on(L) : g.route \in DOMAIN M.routes
      BY <1>1
    <3>2. \A g \in on(L) : M.routes[g.route].method = L.routes[g.route].method
      BY <1>1, <3>1
    <3>3. GrantedMethods(M, app, H) = {M.routes[g.route].method : g \in on(M)}
          /\ GrantedMethods(L, app, H) = {L.routes[g.route].method : g \in on(L)}
      BY DEF GrantedMethods
    <3> HIDE DEF on
    <3> QED
      BY <3>1, <3>2, <3>3
  <2> QED
    BY <1>1, <1>7, <1>8, <2>1 DEF MethodSpecific
<1>9. ASSUME NEW g \in M.grants
      PROVE  g.route \in DOMAIN M.routes /\ MergedGrant(M, g) = MergedGrant(L, g)
  <2>1. g.route \in DOMAIN M.routes /\ g.route \in DOMAIN L.routes /\ g.route \notin G
    BY <1>1 DEF Referential
  <2>2. Group(M, g.route) = Group(L, g.route) /\ Survivor(M, g.route) = Survivor(L, g.route)
    BY <1>6, <2>1
  <2>3. Group(L, g.route) \cap G = {}
    BY <1>5, <2>1
  <2>4. (\E k \in M.grants : k.app = g.app /\ k.active /\ k.route \in Group(M, g.route))
        <=> (\E k \in L.grants : k.app = g.app /\ k.active /\ k.route \in Group(L, g.route))
    BY <1>1, <2>2, <2>3
  <2> QED
    BY <2>1, <2>2, <2>4 DEF MergedGrant
<1>10. Merged(M, e)
  <2>1. DOMAIN e.routes = {Survivor(M, q) : q \in DOMAIN M.routes}
    <3>1. {Survivor(M, q) : q \in DOMAIN M.routes}
            = {Survivor(L, q) : q \in DOMAIN L.routes \ G}
      BY <1>1, <1>6
    <3>2. DOMAIN d.routes = {Survivor(L, q) : q \in DOMAIN L.routes}
      BY <1>0 DEF Merged
    <3> QED
      BY <1>2, <1>4, <3>1, <3>2
  <2>2. ASSUME NEW q \in DOMAIN e.routes
        PROVE  /\ e.routes[q].project = M.routes[q].project
               /\ e.routes[q].path = M.routes[q].path
               /\ e.routes[q].active = (ActiveMethods(M, Group(M, q)) # {})
    <3>1. q \in DOMAIN d.routes /\ q # r /\ e.routes[q] = d.routes[q]
      BY <1>2
    <3>2. q \in DOMAIN L.routes /\ q = Survivor(L, q)
      BY <1>0, <3>1, MergedRows
    <3>3. q \notin G /\ q \in DOMAIN M.routes /\ M.routes[q] = L.routes[q]
      BY <1>1, <1>4, <3>1, <3>2
    <3>4. ActiveMethods(M, Group(M, q)) = ActiveMethods(L, Group(L, q))
      BY <1>5, <1>6, <1>7, <3>2, <3>3
    <3> QED
      BY <1>0, <3>1, <3>3, <3>4 DEF Merged
  <2>3. e.methods = {[route |-> Survivor(M, q), method |-> M.routes[q].method,
                      policy |-> M.routes[q].policy] :
                     q \in {w \in DOMAIN M.routes : M.routes[w].active}}
    <3> DEFINE entry(q) == [route |-> Survivor(L, q), method |-> L.routes[q].method,
                            policy |-> L.routes[q].policy]
               on == {w \in DOMAIN L.routes : L.routes[w].active}
    <3>1. d.methods = {entry(q) : q \in on}
      BY <1>0 DEF Merged
    <3>2. \A q \in on : entry(q).route = Survivor(L, q)
      OBVIOUS
    <3>3. {w \in DOMAIN M.routes : M.routes[w].active} = on \ G
      BY <1>1
    <3>4. \A q \in on \ G : entry(q) =
            [route |-> Survivor(M, q), method |-> M.routes[q].method,
             policy |-> M.routes[q].policy]
      BY <1>1, <1>6
    <3>5. \A q \in on : q \in G <=> Survivor(L, q) = r
      BY <1>4
    <3> HIDE DEF entry, on
    <3>6. e.methods = {entry(q) : q \in on \ G}
      BY <1>2, <3>1, <3>2, <3>5
    <3> QED
      BY <3>3, <3>4, <3>6
  <2>4. e.grants = {MergedGrant(M, g) : g \in M.grants}
    <3>1. d.grants = {MergedGrant(L, g) : g \in L.grants}
      BY <1>0 DEF Merged
    <3>2. \A g \in L.grants : /\ MergedGrant(L, g).route = Survivor(L, g.route)
                              /\ g.route \in G <=> Survivor(L, g.route) = r
      BY <1>4 DEF MergedGrant, Referential
    <3>3. e.grants = {MergedGrant(L, g) : g \in M.grants}
      BY <1>1, <1>2, <3>1, <3>2
    <3> QED
      BY <1>9, <3>3
  <2>5. ASSUME NEW l \in DOMAIN e.logs
        PROVE  l \in DOMAIN M.logs /\ e.logs[l] = MovedLog(M, M.logs[l])
    <3>1. l \in DOMAIN d.logs /\ l \in DOMAIN L.logs
          /\ d.logs[l] = MovedLog(L, L.logs[l])
      BY <1>0, <1>2 DEF Merged
    <3>2. /\ M.logs[l] = IF L.logs[l] \in G THEN None ELSE L.logs[l]
          /\ e.logs[l] = IF d.logs[l] = r THEN None ELSE d.logs[l]
          /\ l \in DOMAIN M.logs
      BY <1>1, <1>2, <3>1
    <3>3. CASE L.logs[l] = None
      BY <3>1, <3>2, <3>3 DEF MovedLog
    <3>4. CASE L.logs[l] # None
      <4>1. L.logs[l] \in DOMAIN L.routes
        BY <3>1, <3>4 DEF Referential
      <4>2. L.logs[l] \in G <=> Survivor(L, L.logs[l]) = r
        BY <1>4, <4>1
      <4>3. L.logs[l] \notin G =>
              Survivor(M, L.logs[l]) = Survivor(L, L.logs[l])
        BY <1>1, <1>6, <4>1
      <4> QED
        BY <3>1, <3>2, <3>4, <4>2, <4>3 DEF MovedLog
    <3> QED
      BY <3>2, <3>3, <3>4
  <2>6. \A q \in DOMAIN M.routes : ~MethodSpecific(M, Group(M, q))
    <3> TAKE q \in DOMAIN M.routes
    <3>1. q \in DOMAIN L.routes /\ q \notin G
      BY <1>1
    <3>2. ~MethodSpecific(L, Group(L, q))
      BY <1>0, <3>1 DEF Merged
    <3> QED
      BY <1>5, <1>6, <1>8, <3>1, <3>2
  <2> QED
    BY <2>1, <2>2, <2>3, <2>4, <2>5, <2>6 DEF Merged
<1>11. RoutesFollow(M, e, m, h)
  BY <1>10 DEF RoutesFollow
<1>12. KeysFollow(M, e, m, h)
  BY <1>1, <1>2 DEF Follows, KeysFollow, AppOf
<1>13. TargetsFollow(M, e, m, h)
  <2> SUFFICES ASSUME NEW q \in DOMAIN M.routes
               PROVE  e.routes[Survivor(M, q)].target
                        \in LegacyDestinations(M.routes[q])
    BY DEF TargetsFollow, Heir
  <2>1. q \in DOMAIN L.routes /\ q \notin G /\ M.routes[q] = L.routes[q]
    BY <1>1
  <2>2. Survivor(M, q) = Survivor(L, q) /\ Survivor(L, q) # r
    BY <1>4, <1>6, <2>1
  <2>3. Survivor(L, q) \in DOMAIN d.routes
    BY <1>0, <2>1 DEF Merged
  <2>4. d.routes[Survivor(L, q)].target \in LegacyDestinations(L.routes[q])
    BY <2>1 DEF Follows, TargetsFollow, Heir
  <2> QED
    BY <1>2, <2>1, <2>2, <2>3, <2>4
<1>14. OriginsFollow(e, m, h) /\ PathsFollow(e, m, h)
  BY <1>2 DEF Follows, OriginsFollow, PathsFollow, Settled, Destination
<1>15. Follows(M, e, m, h)
  BY <1>2, <1>11, <1>12, <1>13, <1>14 DEF Follows
<1> QED
  BY <1>15 DEF M, e, G

\* A key goes from both alike.
LEMMA RemoveKeyFollow ==
  ASSUME NEW L, WellFormed(L), Referential(L), NEW d, NEW m, NEW h,
         Follows(L, d, m, h), NEW k
  PROVE  /\ Follows(WithoutKey(L, k), WithoutKey(d, k), m, h)
         /\ WellFormed(WithoutKey(L, k)) /\ Referential(WithoutKey(L, k))
         /\ WithoutKey(d, k).routes = d.routes
<1> DEFINE M == WithoutKey(L, k)
           e == WithoutKey(d, k)
<1>1. ASSUME NEW x, WellFormed(x), NEW y, y = WithoutKey(x, k)
      PROVE  /\ IsRecord(y, Tables) /\ y.routes = x.routes /\ y.grants = x.grants
             /\ y.methods = x.methods /\ y.services = x.services
             /\ y.logs = x.logs
             /\ DOMAIN y.keys = DOMAIN x.keys \ {k}
             /\ \A j \in DOMAIN x.keys \ {k} : y.keys[j] = x.keys[j]
             /\ KeyTables(y) /\ WellFormed(y)
  <2> DEFINE keys == [j \in DOMAIN x.keys \ {k} |-> x.keys[j]]
  <2>1. y = [x EXCEPT !.keys = keys]
    BY <1>1 DEF WithoutKey
  <2>2. DOMAIN keys = DOMAIN x.keys \ {k}
        /\ \A j \in DOMAIN x.keys \ {k} : keys[j] = x.keys[j]
    OBVIOUS
  <2> HIDE DEF keys
  <2>3. /\ IsRecord(y, Tables) /\ y.routes = x.routes /\ y.grants = x.grants
        /\ y.methods = x.methods /\ y.services = x.services
        /\ y.logs = x.logs /\ y.keys = keys
    BY <1>1, <2>1 DEF WellFormed, IsRecord, Tables
  <2>4. IsFiniteSet(DOMAIN x.keys \ {k})
    BY <1>1, FS_Subset DEF WellFormed
  <2>5. KeyTables(y)
    BY <1>1, <2>2, <2>3, <2>4 DEF KeyTables, WellFormed
  <2>6. WellFormed(y)
    BY <1>1, <2>3, <2>5 DEF KeyTables, WellFormed, Tables
  <2> QED
    BY <2>2, <2>3, <2>5, <2>6
<1>2. /\ IsRecord(M, Tables) /\ M.routes = L.routes /\ M.grants = L.grants
      /\ M.logs = L.logs /\ DOMAIN M.keys = DOMAIN L.keys \ {k}
      /\ \A j \in DOMAIN L.keys \ {k} : M.keys[j] = L.keys[j]
      /\ WellFormed(M)
  BY <1>1
<1>3. /\ IsRecord(e, Tables) /\ e.routes = d.routes /\ e.grants = d.grants
      /\ e.methods = d.methods /\ e.services = d.services
      /\ e.logs = d.logs /\ DOMAIN e.keys = DOMAIN d.keys \ {k}
      /\ \A j \in DOMAIN d.keys \ {k} : e.keys[j] = d.keys[j]
      /\ KeyTables(e) /\ WellFormed(e)
  BY <1>1 DEF Follows
<1> HIDE DEF M, e
<1>4. Referential(M)
  BY <1>2 DEF Referential
<1>5. \A r : Group(M, r) = Group(L, r) /\ Survivor(M, r) = Survivor(L, r)
  BY <1>2 DEF Group, Survivor
<1>6. RoutesFollow(M, d, m, h)
  <2>1. CASE Joined(m, h)
    <3>1. Merged(L, d)
      BY <2>1 DEF Follows, RoutesFollow
    <3>2. \A G : ActiveMethods(M, G) = ActiveMethods(L, G)
      BY <1>2 DEF ActiveMethods
    <3>3. \A G, app : GrantedMethods(M, app, G) = GrantedMethods(L, app, G)
      BY <1>2 DEF GrantedMethods
    <3>4. \A G : MethodSpecific(M, G) <=> MethodSpecific(L, G)
      BY <1>2, <3>2, <3>3 DEF MethodSpecific
    <3>5. ASSUME NEW g PROVE MergedGrant(M, g) = MergedGrant(L, g)
      <4>1. /\ Group(M, g.route) = Group(L, g.route)
            /\ Survivor(M, g.route) = Survivor(L, g.route)
        BY <1>5
      <4> QED
        BY <1>2, <4>1, Zenon DEF MergedGrant
    <3>6. \A r : MovedLog(M, r) = MovedLog(L, r)
      BY <1>5 DEF MovedLog
    <3>7. DOMAIN d.routes = {Survivor(M, q) : q \in DOMAIN M.routes}
      BY <1>2, <1>5, <3>1 DEF Merged
    <3>8. \A r \in DOMAIN d.routes :
            /\ d.routes[r].project = M.routes[r].project
            /\ d.routes[r].path = M.routes[r].path
            /\ d.routes[r].active = (ActiveMethods(M, Group(M, r)) # {})
      BY <1>2, <1>5, <3>1, <3>2 DEF Merged
    <3>9. d.methods = {[route |-> Survivor(M, r), method |-> M.routes[r].method,
                        policy |-> M.routes[r].policy] :
                       r \in {q \in DOMAIN M.routes : M.routes[q].active}}
      BY <1>2, <1>5, <3>1 DEF Merged
    <3>10. d.grants = {MergedGrant(M, g) : g \in M.grants}
      BY <1>2, <3>1, <3>5 DEF Merged
    <3>11. \A l \in DOMAIN d.logs :
             l \in DOMAIN M.logs /\ d.logs[l] = MovedLog(M, M.logs[l])
      BY <1>2, <3>1, <3>6 DEF Merged
    <3>12. \A r \in DOMAIN M.routes : ~MethodSpecific(M, Group(M, r))
      BY <1>2, <1>5, <3>1, <3>4 DEF Merged
    <3> QED
      BY <2>1, <3>7, <3>8, <3>9, <3>10, <3>11, <3>12 DEF RoutesFollow, Merged
  <2>2. CASE ~Joined(m, h)
    BY <1>2, <2>2 DEF Follows, RoutesFollow, Same
  <2> QED
    BY <2>1, <2>2
<1>7. KeysFollow(M, e, m, h)
  BY <1>2, <1>3 DEF Follows, KeysFollow, AppOf
<1>8. TargetsFollow(M, d, m, h)
  BY <1>2, <1>5 DEF Follows, TargetsFollow, Heir
<1>9. RoutesFollow(M, e, m, h)
  BY <1>3, <1>6 DEF RoutesFollow, Same, Merged
<1>10. TargetsFollow(M, e, m, h)
  BY <1>3, <1>8 DEF TargetsFollow
<1>11. OriginsFollow(e, m, h) /\ PathsFollow(e, m, h)
  BY <1>3 DEF Follows, OriginsFollow, PathsFollow, Settled, Destination
<1> QED
  BY <1>2, <1>3, <1>4, <1>7, <1>9, <1>10, <1>11 DEF Follows, M, e

-----------------------------------------------------------------------------
(* The invariant.                                                          *)

\* django_migrations, in terms of the position in the plan.
LEMMA AppliedFact ==
  ASSUME mig \in 1..9
  PROVE  /\ Applied("routes.0008") <=> mig > 4
         /\ Applied("routes.0009") <=> mig > 5
<1>1. /\ Plan[4].name = "routes.0008"
      /\ \A i \in 1..8 : Plan[i].name = "routes.0008" => i = 4
  BY DEF Plan, Routes0004, Routes0005, Authentication0008, Routes0008,
         Routes0009, Authentication0009, Analytics0006, Routes0010
<1>2. /\ Plan[5].name = "routes.0009"
      /\ \A i \in 1..8 : Plan[i].name = "routes.0009" => i = 5
  BY DEF Plan, Routes0004, Routes0005, Authentication0008, Routes0008,
         Routes0009, Authentication0009, Analytics0006, Routes0010
<1>3. \A i \in 1..(mig - 1) : i \in 1..8
  OBVIOUS
<1>4. mig > 4 => 4 \in 1..(mig - 1)
  OBVIOUS
<1>5. mig > 5 => 5 \in 1..(mig - 1)
  OBVIOUS
<1>6. Applied("routes.0008") <=> mig > 4
  BY <1>1, <1>3, <1>4 DEF Applied
<1>7. Applied("routes.0009") <=> mig > 5
  BY <1>2, <1>3, <1>5 DEF Applied
<1> QED
  BY <1>6, <1>7

\* The old release's tables are what they are.
LEMMA InitMigration == Init => MigrationInv
<1> SUFFICES ASSUME Init PROVE MigrationInv
  OBVIOUS
<1>1. PICK s \in Databases :
        /\ backend = s.backend
        /\ db = s.db /\ saved = s.db /\ legacy = s.db
        /\ mig = s.applied + 1 /\ pos = 1 /\ high = 0
        /\ status = "running" /\ blame = {}
  BY DEF Init
<1>2. /\ s.backend \in {"sqlite", "mysql"} /\ s.applied \in {0, 2}
      /\ WellFormed(s.db) /\ Referential(s.db)
      /\ s.applied = 0 => \A r \in DOMAIN s.db.routes : s.db.routes[r].target = None
      /\ s.applied = 2 => \A r \in DOMAIN s.db.routes : s.db.routes[r].targets = <<>>
      /\ \A v \in DOMAIN s.db.services : s.db.services[v].url = None
  BY DatabasesAssumption
<1>3. mig \in {1, 3}
  BY <1>1, <1>2
<1>4. /\ Copied(mig, high) <=> mig = 3
      /\ ~Assigned(mig, high) /\ ~Joined(mig, high) /\ ~Moved(mig, high)
      /\ ~Single(mig, high) /\ ~Valid(mig, high)
  BY <1>1, <1>3 DEF Assigned, Copied, Joined, Moved, Single, Valid, Past
<1>5. Follows(s.db, s.db, mig, high)
  <2>1. RoutesFollow(s.db, s.db, mig, high)
    BY <1>4 DEF RoutesFollow, Same
  <2>2. KeysFollow(s.db, s.db, mig, high)
    BY <1>4 DEF KeysFollow, AppOf
  <2>3. TargetsFollow(s.db, s.db, mig, high)
    <3>1. CASE mig = 3
      <4>1. s.applied = 2
        BY <1>1, <1>2, <3>1
      <4>2. ASSUME NEW q \in DOMAIN s.db.routes
            PROVE  s.db.routes[q].target \in LegacyDestinations(s.db.routes[q])
        BY <1>2, <4>1 DEF LegacyDestinations
      <4> QED
        BY <1>4, <3>1, <4>2 DEF TargetsFollow, Heir
    <3>2. CASE mig = 1
      <4>1. s.applied = 0
        BY <1>1, <1>2, <3>2
      <4> QED
        BY <1>2, <1>4, <3>2, <4>1 DEF TargetsFollow
    <3> QED
      BY <1>3, <3>1, <3>2
  <2>4. OriginsFollow(s.db, mig, high) /\ PathsFollow(s.db, mig, high)
    BY <1>2, <1>4 DEF OriginsFollow, PathsFollow
  <2> QED
    BY <1>2, <2>1, <2>2, <2>3, <2>4 DEF Follows
<1>6. Progress
  BY <1>1, <1>2, <1>3 DEF Progress
<1>7. BlameKept
  BY <1>1 DEF BlameKept
<1> QED
  BY <1>1, <1>2, <1>5, <1>6, <1>7 DEF MigrationInv

\* manage.py migrate fails, with what the error is about.
LEMMA FailKeeps ==
  ASSUME MigrationInv, NEW rows, Fail(rows), status = "running",
         \A row \in rows : row[1] = "route" =>
           /\ mig >= 4 /\ row[2] \in DOMAIN db.routes
           /\ mig = 4 => high < 3 /\ ConsolidateConflicts(db) # {}
  PROVE  MigrationInv'
<1>0. /\ Progress /\ BlameKept /\ WellFormed(legacy) /\ Referential(legacy)
      /\ Follows(legacy, db, mig, high)
      /\ backend = "sqlite" => Follows(legacy, saved, mig, 0)
      /\ backend = "sqlite" /\ mig = 4 /\ high < 3 => db = saved
  BY DEF MigrationInv
<1>1. /\ pos' = 1 /\ blame' = blame \cup rows
      /\ backend' = backend /\ saved' = saved /\ mig' = mig /\ legacy' = legacy
      /\ backend = "sqlite" => db' = saved /\ high' = 0
      /\ backend # "sqlite" => db' = db /\ high' = high
      /\ status' \in {"exited", "running"}
  BY DEF Fail, CountAttempt
<1>2. Progress'
  BY <1>0, <1>1 DEF Progress
<1>3. Follows(legacy', db', mig', high')
  BY <1>0, <1>1
<1>4. backend' = "sqlite" => Follows(legacy', saved', mig', 0)
  BY <1>0, <1>1
<1>5. backend' = "sqlite" /\ mig' = 4 /\ high' < 3 => db' = saved'
  BY <1>1
<1>6. BlameKept'
  <2> SUFFICES ASSUME NEW row \in blame', row[1] = "route"
               PROVE  /\ mig' >= 4 /\ row[2] \in DOMAIN db'.routes
                      /\ mig' = 4 => high' < 3 /\ ConsolidateConflicts(db') # {}
    BY DEF BlameKept
  <2>1. /\ mig >= 4 /\ row[2] \in DOMAIN db.routes
        /\ mig = 4 => high < 3 /\ ConsolidateConflicts(db) # {}
    BY <1>0, <1>1 DEF BlameKept
  <2>2. CASE backend # "sqlite"
    BY <1>1, <2>1, <2>2
  <2>3. CASE backend = "sqlite" /\ mig = 4
    BY <1>0, <1>1, <2>1, <2>3
  <2>4. CASE backend = "sqlite" /\ mig # 4
    <3>1. mig \in Nat /\ mig > 4
      BY <1>0, <2>1, <2>4 DEF Progress
    <3>2. Joined(mig, high) /\ Joined(mig, 0)
      BY <3>1 DEF Joined, Past
    <3>3. DOMAIN saved.routes = DOMAIN db.routes
      BY <1>0, <2>4, <3>2 DEF Follows, RoutesFollow, Merged
    <3> QED
      BY <1>1, <2>1, <2>4, <3>1, <3>3
  <2> QED
    BY <2>2, <2>3, <2>4
<1> QED
  BY <1>0, <1>1, <1>2, <1>3, <1>4, <1>5, <1>6 DEF MigrationInv

\* An operation succeeds or fails; what it refuses is there to be resolved.
LEMMA OperationKeeps ==
  ASSUME MigrationInv, Operation
  PROVE  MigrationInv'
<1> DEFINE stopping == IF Repeated THEN {} ELSE Refused(Op, db) \cup Violating(Op, db)
<1>0. /\ Progress /\ BlameKept /\ WellFormed(legacy) /\ Referential(legacy)
      /\ Follows(legacy, db, mig, high)
      /\ backend = "sqlite" => Follows(legacy, saved, mig, 0)
      /\ backend = "sqlite" /\ mig = 4 /\ high < 3 => db = saved
  BY DEF MigrationInv
<1>1. status = "running" /\ pos <= Len(Plan[mig].ops)
  BY DEF Operation
<1>2. /\ mig \in 1..8 /\ pos \in Nat /\ high \in Nat /\ 1 <= pos /\ pos <= high + 1
      /\ pos = high + 1 \/ pos = 1 \/ mig \in {3, 6, 8}
  BY <1>0, <1>1 DEF Progress
<1>3. Len(Plan[mig].ops) \in Nat
  BY <1>2, PlanShape
<1>4. pos \in 1..Len(Plan[mig].ops)
  BY <1>1, <1>2, <1>3
<1>5. ~Repeated => pos = high + 1 \/ (mig \in {3, 6, 8} /\ pos <= high)
  <2>1. CASE mig \in {3, 6, 8}
    BY <1>2, <2>1
  <2>2. CASE mig \notin {3, 6, 8}
    <3>1. pos = 1 => Op \notin PythonOps
      BY <1>2, <2>2, PlanStarts DEF Op
    <3> QED
      BY <1>2, <2>2, <3>1 DEF Repeated
  <2> QED
    BY <2>1, <2>2
<1>6. ASSUME ~Repeated, NEW row \in Violating(Op, db) PROVE row[1] = "service"
  <2>1. /\ mig = 3 /\ pos = 3 => high >= 1
        /\ mig = 6 /\ pos = 2 => high >= 1
        /\ mig = 4 /\ pos = 11 => high >= 3
    BY <1>2
  <2> QED
    BY <1>0, <1>2, <1>4, <1>6, <2>1, ConstraintsHold DEF Op
<1>7. CASE Repeated \/ stopping # {}
  <2>1. Fail(stopping)
    BY <1>7 DEF Operation
  <2>2. ASSUME NEW row \in stopping, row[1] = "route"
        PROVE  /\ mig >= 4 /\ row[2] \in DOMAIN db.routes
               /\ mig = 4 => high < 3 /\ ConsolidateConflicts(db) # {}
    <3>1. ~Repeated /\ row \in Refused(Op, db)
      BY <1>6, <2>2
    <3>2. /\ row[2] \in DOMAIN db.routes
          /\ \/ mig = 4 /\ pos = 3 /\ ConsolidateConflicts(db) # {}
             \/ mig = 5
             \/ mig = 8
      BY <1>2, <1>4, <2>2, <3>1, OpRefuses DEF Op
    <3>3. mig = 4 /\ pos = 3 => high = 2
      BY <1>2, <1>5, <3>1
    <3> QED
      BY <3>2, <3>3
  <2> HIDE DEF stopping
  <2> QED
    BY <1>1, <2>1, <2>2, FailKeeps
<1>8. CASE ~(Repeated \/ stopping # {})
  <2>1. /\ db' = Rewritten(Op, db) /\ pos' = pos + 1 /\ high' = Max({high, pos})
        /\ backend' = backend /\ saved' = saved /\ mig' = mig
        /\ status' = status /\ blame' = blame /\ legacy' = legacy
    BY <1>8 DEF Operation
  <2>2. ~Repeated /\ Refused(Op, db) = {}
    BY <1>8
  <2>3. Follows(legacy', db', mig', high')
    BY <1>0, <1>2, <1>4, <1>5, <2>1, <2>2, OperationFollows DEF Op
  <2>4. high' = (IF high >= pos THEN high ELSE pos)
    BY <1>2, <2>1, MaxTwo
  <2>5. Progress'
    BY <1>0, <1>1, <1>2, <1>5, <2>1, <2>2, <2>4 DEF Progress
  <2>6. mig = 4 /\ high < 3 /\ ~(pos = 3) => db' = db /\ high' < 3
    <3>1. SUFFICES ASSUME mig = 4, high < 3, ~(pos = 3) PROVE db' = db /\ high' < 3
      OBVIOUS
    <3>2. db' = db
      <4>1. \/ mig = 1 /\ pos = 4
            \/ mig = 2 /\ pos = 3
            \/ mig = 3 /\ pos = 1
            \/ mig = 4 /\ pos = 3
            \/ mig = 5 /\ pos = 2
            \/ mig = 7 /\ pos = 1
            \/ Rewritten(Plan[mig].ops[pos], db) = db
        BY <1>2, <1>4, OpRewrites
      <4> QED
        BY <2>1, <3>1, <4>1 DEF Op
    <3> QED
      BY <1>2, <2>4, <3>1, <3>2
  <2>7. backend' = "sqlite" /\ mig' = 4 /\ high' < 3 => db' = saved'
    <3>1. SUFFICES ASSUME backend = "sqlite", mig = 4, high' < 3 PROVE db' = saved'
      BY <2>1
    <3>2. high < 3 /\ pos # 3
      BY <1>2, <2>4, <3>1
    <3> QED
      BY <1>0, <2>1, <2>6, <3>1, <3>2
  <2>8. BlameKept'
    <3> SUFFICES ASSUME NEW row \in blame', row[1] = "route"
                 PROVE  /\ mig' >= 4 /\ row[2] \in DOMAIN db'.routes
                        /\ mig' = 4 => high' < 3 /\ ConsolidateConflicts(db') # {}
      BY DEF BlameKept
    <3>1. /\ mig >= 4 /\ row[2] \in DOMAIN db.routes
          /\ mig = 4 => high < 3 /\ ConsolidateConflicts(db) # {}
      BY <1>0, <2>1 DEF BlameKept
    <3>2. CASE mig = 4
      <4>1. pos # 3
        <5>1. SUFFICES ASSUME pos = 3 PROVE FALSE
          OBVIOUS
        <5>2. {"route"} \X ConsolidateConflicts(db) = {}
          BY <1>4, <2>2, <3>2, <5>1, OpRefuses DEF Op
        <5> QED
          BY <3>1, <3>2, <5>2, NoRows
      <4> QED
        BY <2>1, <2>6, <3>1, <3>2, <4>1
    <3>3. CASE mig # 4
      <4>1. Joined(mig, high) /\ Joined(mig, high')
        BY <1>2, <3>1, <3>3 DEF Joined, Past
      <4>2. Merged(legacy, db) /\ Merged(legacy, db')
        BY <1>0, <2>1, <2>3, <4>1 DEF Follows, RoutesFollow
      <4> QED
        BY <2>1, <3>1, <3>3, <4>2 DEF Merged
    <3> QED
      BY <3>2, <3>3
  <2> QED
    BY <1>0, <2>1, <2>3, <2>5, <2>7, <2>8 DEF MigrationInv
<1> QED
  BY <1>7, <1>8

\* Recording a migration commits it.
LEMMA RecordKeeps ==
  ASSUME MigrationInv, Record
  PROVE  MigrationInv'
<1>0. /\ Progress /\ BlameKept /\ WellFormed(legacy) /\ Referential(legacy)
      /\ Follows(legacy, db, mig, high)
  BY DEF MigrationInv
<1>1. /\ status = "running" /\ pos > Len(Plan[mig].ops)
      /\ mig' = mig + 1 /\ pos' = 1 /\ high' = 0 /\ saved' = db
      /\ status' = (IF mig = Len(Plan) THEN "done" ELSE "running")
      /\ backend' = backend /\ db' = db /\ blame' = blame /\ legacy' = legacy
  BY DEF Record
<1>2. mig \in 1..8 /\ pos \in Nat /\ high \in Nat /\ pos <= high + 1
  BY <1>0, <1>1 DEF Progress
<1>3. Len(Plan[mig].ops) \in Nat
  BY <1>2, PlanShape
<1>4. high >= Len(Plan[mig].ops)
  BY <1>1, <1>2, <1>3
<1>5. Follows(legacy', db', mig', 0)
  <2>1. SameStage(mig, high, mig + 1, 0)
    BY <1>2, <1>4, RecordedStage
  <2> QED
    BY <1>0, <1>1, <2>1, StageFollows
<1>6. Progress'
  BY <1>0, <1>1, <1>2, PlanShape DEF Progress
<1>7. BlameKept'
  <2> SUFFICES ASSUME NEW row \in blame', row[1] = "route"
               PROVE  /\ mig' >= 4 /\ row[2] \in DOMAIN db'.routes
                      /\ mig' = 4 => high' < 3 /\ ConsolidateConflicts(db') # {}
    BY DEF BlameKept
  <2>1. mig >= 4 /\ row[2] \in DOMAIN db.routes
    BY <1>0, <1>1 DEF BlameKept
  <2> QED
    BY <1>1, <1>2, <2>1
<1> QED
  BY <1>0, <1>1, <1>5, <1>6, <1>7 DEF MigrationInv

\* The operator takes from the tables what the history loses.
LEMMA OperatorKeeps ==
  ASSUME MigrationInv, Operator
  PROVE  MigrationInv'
<1>0. /\ Progress /\ BlameKept /\ WellFormed(legacy) /\ Referential(legacy)
      /\ Follows(legacy, db, mig, high)
  BY DEF MigrationInv
<1>1. /\ status = "exited" /\ status' = "running" /\ blame' = {} /\ saved' = db'
      /\ backend' = backend /\ mig' = mig /\ pos' = pos /\ high' = high
  BY DEF Operator
<1>2. /\ mig \in 1..8 /\ high \in Nat /\ pos = 1
      /\ backend = "sqlite" => high = 0
  BY <1>0, <1>1 DEF Progress
<1>3. /\ WellFormed(legacy') /\ Referential(legacy')
      /\ Follows(legacy', db', mig, high)
  <2>1. CASE blame = {} /\ UNCHANGED <<db, legacy>>
    BY <1>0, <2>1
  <2>2. ASSUME NEW row \in blame, Resolve(row)
        PROVE  /\ WellFormed(legacy') /\ Referential(legacy')
               /\ Follows(legacy', db', mig, high)
    <3>1. CASE /\ row[1] = "route"
               /\ db' = WithoutRoutes(db, {row[2]})
               /\ legacy' = WithoutRoutes(legacy, Originals(row[2]))
      <4>1. /\ mig >= 4 /\ row[2] \in DOMAIN db.routes
            /\ mig = 4 => high < 3
        BY <1>0, <3>1 DEF BlameKept
      <4>2. WellFormed(legacy') /\ Referential(legacy')
        BY <1>0, <3>1, WithoutRoutesFact, WithoutRoutesReferential
      <4>3. CASE mig = 4
        <5>1. Originals(row[2]) = {row[2]}
          BY <1>2, <4>3, AppliedFact DEF Originals
        <5>2. Copied(mig, high) /\ ~Joined(mig, high) /\ ~Moved(mig, high)
          BY <1>2, <4>1, <4>3 DEF Copied, Joined, Moved, Past
        <5> QED
          BY <1>0, <3>1, <4>2, <5>1, <5>2, RemoveRouteFollow
      <4>4. CASE mig # 4
        <5>1. mig > 4
          BY <1>2, <4>1, <4>4
        <5>2. Originals(row[2]) = Group(legacy, row[2])
          BY <1>2, <5>1, AppliedFact DEF Originals
        <5>3. Copied(mig, high) /\ Joined(mig, high)
          BY <1>2, <5>1 DEF Copied, Joined, Past
        <5> QED
          BY <1>0, <3>1, <4>1, <4>2, <5>2, <5>3, RemoveGroupFollow
      <4> QED
        BY <4>3, <4>4
    <3>2. CASE /\ row[1] = "key"
               /\ db' = WithoutKey(db, row[2])
               /\ legacy' = WithoutKey(legacy, row[2])
      BY <1>0, <3>2, RemoveKeyFollow
    <3>3. CASE /\ row[1] = "service"
               /\ db' = [db EXCEPT !.services[row[2]].name = @ \o row[2].slug]
               /\ UNCHANGED legacy
      BY <1>0, <3>3, RenameFollow
    <3> QED
      BY <2>2, <3>1, <3>2, <3>3 DEF Resolve
  <2> QED
    BY <2>1, <2>2 DEF Operator
<1>4. Progress'
  BY <1>0, <1>1, <1>2 DEF Progress
<1>5. BlameKept'
  BY <1>1 DEF BlameKept
<1>6. backend' = "sqlite" => Follows(legacy', saved', mig', 0)
  BY <1>1, <1>2, <1>3
<1>7. backend' = "sqlite" /\ mig' = 4 /\ high' < 3 => db' = saved'
  BY <1>1
<1> QED
  BY <1>1, <1>3, <1>4, <1>5, <1>6, <1>7 DEF MigrationInv

\* The invariant is inductive.
LEMMA NextMigration == MigrationInv /\ [Next]_vars => MigrationInv'
<1> SUFFICES ASSUME MigrationInv, [Next]_vars PROVE MigrationInv'
  OBVIOUS
<1>1. CASE Operation
  BY <1>1, OperationKeeps
<1>2. CASE Record
  BY <1>2, RecordKeeps
<1>3. CASE Interrupt
  BY <1>3, FailKeeps DEF Interrupt
<1>4. CASE Operator
  BY <1>4, OperatorKeeps
<1>5. CASE Finished \/ UNCHANGED vars
  <2>1. UNCHANGED vars
    BY <1>5 DEF Finished
  <2> QED
    BY <2>1 DEF vars, MigrationInv, Progress, BlameKept
<1> QED
  BY <1>1, <1>2, <1>3, <1>4, <1>5 DEF Next

\* Whatever fails, and whatever the operator resolves, the tables are what
\* the operations committed so far make of the old release's, and on SQLite
\* the tables rolled back to are those of the migrations before.
THEOREM Invariance == Spec => []MigrationInv
<1> QED
  BY InitMigration, NextMigration, PTL DEF Spec

-----------------------------------------------------------------------------
(* What follows: constraints, logs, destinations.                          *)

\* ValidationSuffices: the data migrations leave only service names for a
\* constraint to refuse.
THEOREM ConstraintSafety == Spec => []ValidationSuffices
<1>1. MigrationInv => ValidationSuffices
  <2> SUFFICES ASSUME MigrationInv, status = "running", pos <= Len(Plan[mig].ops),
                      NEW row \in Violating(Op, db)
               PROVE  row[1] = "service"
    BY DEF ValidationSuffices
  <2>1. /\ mig \in 1..8 /\ pos \in Nat /\ high \in Nat /\ 1 <= pos
        /\ pos <= high + 1
    BY DEF MigrationInv, Progress
  <2>2. Len(Plan[mig].ops) \in Nat
    BY <2>1, PlanShape
  <2>3. pos \in 1..Len(Plan[mig].ops)
    BY <2>1, <2>2
  <2>4. /\ mig = 3 /\ pos = 3 => high >= 1
        /\ mig = 6 /\ pos = 2 => high >= 1
        /\ mig = 4 /\ pos = 11 => high >= 3
    BY <2>1
  <2>5. WellFormed(legacy) /\ Referential(legacy) /\ Follows(legacy, db, mig, high)
    BY DEF MigrationInv
  <2> QED
    BY <2>1, <2>3, <2>4, <2>5, ConstraintsHold DEF Op
<1> QED
  BY <1>1, Invariance, PTL

\* LogsFollow: until they are dropped, logs keep project and path.
THEOREM LogSafety == Spec => []LogsFollow
<1>1. MigrationInv => LogsFollow
  <2> SUFFICES ASSUME MigrationInv, NEW l \in DOMAIN db.logs, legacy.logs[l] # None
               PROVE  /\ db.logs[l] # None
                      /\ db.routes[db.logs[l]].project
                           = legacy.routes[legacy.logs[l]].project
                      /\ db.routes[db.logs[l]].path
                           = legacy.routes[legacy.logs[l]].path
    BY DEF LogsFollow
  <2> DEFINE was == legacy.logs[l]
  <2>0. WellFormed(legacy) /\ Referential(legacy) /\ Follows(legacy, db, mig, high)
    BY DEF MigrationInv
  <2>1. CASE Joined(mig, high)
    <3>1. Merged(legacy, db)
      BY <2>0, <2>1 DEF Follows, RoutesFollow
    <3>2. l \in DOMAIN legacy.logs /\ db.logs[l] = Survivor(legacy, was)
      BY <3>1 DEF Merged, MovedLog
    <3>3. was \in DOMAIN legacy.routes /\ DOMAIN legacy.routes \subseteq Nat
      BY <2>0, <3>2 DEF Referential, WellFormed
    <3>4. Survivor(legacy, was) \in Group(legacy, was)
      BY <3>3, GroupFact
    <3>5. Survivor(legacy, was) \in DOMAIN db.routes
      BY <3>1, <3>3 DEF Merged
    <3>6. db.logs[l] # None
      BY <3>2, <3>3, <3>4, NoneAssumption DEF Group
    <3> QED
      BY <3>1, <3>2, <3>4, <3>5, <3>6 DEF Merged, Group
  <2>2. CASE ~Joined(mig, high)
    <3>1. Same(legacy, db)
      BY <2>0, <2>2 DEF Follows, RoutesFollow
    <3>2. was \in DOMAIN legacy.routes
      BY <2>0, <3>1 DEF Referential, Same
    <3> QED
      BY <3>1, <3>2 DEF Same
  <2> QED
    BY <2>1, <2>2
<1> QED
  BY <1>1, Invariance, PTL

\* DestinationKept: once origins belong to services, a route leads where one
\* of its targets did.
THEOREM DestinationSafety == Spec => []DestinationKept
<1>1. MigrationInv => DestinationKept
  <2> SUFFICES ASSUME MigrationInv, Applied("routes.0009"),
                      NEW q \in DOMAIN legacy.routes
               PROVE  \E r \in DOMAIN db.routes :
                        /\ db.routes[r].project = legacy.routes[q].project
                        /\ db.routes[r].path = legacy.routes[q].path
                        /\ \E url \in LegacyDestinations(legacy.routes[q]) :
                             Destination(db, r) =
                               IF url = None THEN None
                               ELSE [origin |-> url.origin,
                                     path |-> NormalizePath(url.path)]
    BY DEF DestinationKept
  <2> DEFINE r == Survivor(legacy, q)
  <2>0. WellFormed(legacy) /\ Follows(legacy, db, mig, high)
    BY DEF MigrationInv
  <2>1. mig \in 1..9 /\ mig > 5 /\ high \in Nat
    BY AppliedFact DEF MigrationInv, Progress
  <2>2. Copied(mig, high) /\ Joined(mig, high) /\ Moved(mig, high)
    BY <2>1 DEF Copied, Joined, Moved, Past
  <2>3. Merged(legacy, db) /\ DOMAIN legacy.routes \subseteq Nat
    BY <2>0, <2>2 DEF Follows, RoutesFollow, WellFormed
  <2>4. r \in DOMAIN db.routes /\ r \in Group(legacy, q)
    BY <2>3, GroupFact DEF Merged
  <2>5. /\ db.routes[r].project = legacy.routes[q].project
        /\ db.routes[r].path = legacy.routes[q].path
    BY <2>3, <2>4 DEF Merged, Group
  <2>6. db.routes[r].target \in LegacyDestinations(legacy.routes[q])
    BY <2>0, <2>2 DEF Follows, TargetsFollow, Heir
  <2>7. Settled(db, r)
    BY <2>0, <2>2, <2>4 DEF Follows, OriginsFollow
  <2> HIDE DEF r
  <2> QED
    BY <2>4, <2>5, <2>6, <2>7 DEF Settled
<1> QED
  BY <1>1, Invariance, PTL

-----------------------------------------------------------------------------
(* Who may call what.                                                      *)

\* The application a key ends up with is one of its project.
LEMMA KeyProject ==
  ASSUME MigrationInv, mig > 4, NEW k \in DOMAIN db.keys
  PROVE  /\ k \in DOMAIN legacy.keys
         /\ db.keys[k].app = IF legacy.keys[k].app = None
                             THEN DefaultApplication(legacy.keys[k].project)
                             ELSE legacy.keys[k].app
         /\ db.keys[k].app.project = legacy.keys[k].project
<1>1. Assigned(mig, high)
  BY DEF MigrationInv, Progress, Assigned, Past
<1>2. /\ k \in DOMAIN legacy.keys
      /\ db.keys[k].app = IF legacy.keys[k].app = None
                          THEN DefaultApplication(legacy.keys[k].project)
                          ELSE legacy.keys[k].app
  BY <1>1 DEF MigrationInv, Follows, KeysFollow, AppOf
<1>3. legacy.keys[k].app # None =>
        legacy.keys[k].app.project = legacy.keys[k].project
  BY <1>2 DEF MigrationInv, Referential
<1> QED
  BY <1>2, <1>3 DEF DefaultApplication

\* NothingLost: consolidate_routes and backfill_application take no call from
\* the holder of a key.
THEOREM AccessKept == Spec => []NothingLost
<1>1. MigrationInv => NothingLost
  <2> SUFFICES ASSUME MigrationInv, Applied("routes.0008"), NEW k \in DOMAIN db.keys,
                      ~Adopted(k), NEW x \in LegacyAccess(legacy, k)
               PROVE  x \in Access(db, k)
    BY DEF NothingLost
  <2> DEFINE app == db.keys[k].app
  <2>0. WellFormed(legacy) /\ Referential(legacy) /\ Follows(legacy, db, mig, high)
    BY DEF MigrationInv
  <2>1. mig \in 1..9 /\ mig > 4 /\ high \in Nat
    BY AppliedFact DEF MigrationInv, Progress
  <2>2. Merged(legacy, db) /\ DOMAIN legacy.routes \subseteq Nat
    BY <2>0, <2>1 DEF Follows, RoutesFollow, WellFormed, Joined, Past
  <2>3. /\ k \in DOMAIN legacy.keys
        /\ app = IF legacy.keys[k].app = None
                 THEN DefaultApplication(legacy.keys[k].project)
                 ELSE legacy.keys[k].app
        /\ app.project = legacy.keys[k].project
    BY <2>1, KeyProject
  <2>4. PICK q \in DOMAIN legacy.routes :
          /\ legacy.routes[q].active
          /\ legacy.routes[q].project = legacy.keys[k].project
          /\ \/ legacy.keys[k].app = None
             \/ HasPermission(legacy, legacy.keys[k].app, q)
          /\ x = [method |-> legacy.routes[q].method, path |-> legacy.routes[q].path,
                  policy |-> legacy.routes[q].policy]
    BY DEF LegacyAccess
  <2> DEFINE s == Survivor(legacy, q)
             n == [route |-> s, method |-> legacy.routes[q].method,
                   policy |-> legacy.routes[q].policy]
  <2>5. /\ s \in Group(legacy, q) /\ q \in Group(legacy, q)
        /\ Group(legacy, s) = Group(legacy, q) /\ s \in DOMAIN db.routes
    BY <2>2, GroupFact DEF Merged
  <2>6. /\ db.routes[s].project = legacy.routes[q].project
        /\ db.routes[s].path = legacy.routes[q].path
    BY <2>2, <2>5 DEF Merged, Group
  <2>7. db.routes[s].active
    <3>1. legacy.routes[q].method \in ActiveMethods(legacy, Group(legacy, s))
      BY <2>4, <2>5 DEF ActiveMethods
    <3>2. db.routes[s].active = (ActiveMethods(legacy, Group(legacy, s)) # {})
      BY <2>2, <2>5 DEF Merged
    <3> QED
      BY <3>1, <3>2
  <2>8. n \in db.methods
    BY <2>2, <2>4 DEF Merged
  <2>9. db.grants = {MergedGrant(legacy, g) : g \in legacy.grants}
    BY <2>2 DEF Merged
  <2>10. HasPermission(db, app, s)
    <3>1. (\A g \in legacy.grants : g.app # app) => HasPermission(db, app, s)
      <4>1. SUFFICES ASSUME \A g \in legacy.grants : g.app # app
                     PROVE  \A g \in db.grants : g.app # app
        BY DEF HasPermission
      <4>2. \A g \in legacy.grants : MergedGrant(legacy, g).app = g.app
        BY DEF MergedGrant
      <4> QED
        BY <2>9, <4>1, <4>2
    <3>2. CASE legacy.keys[k].app = None
      BY <2>3, <3>1, <3>2 DEF Adopted
    <3>3. CASE legacy.keys[k].app # None
      <4>1. app = legacy.keys[k].app /\ HasPermission(legacy, app, q)
        BY <2>3, <2>4, <3>3
      <4>2. ASSUME NEW g \in legacy.grants, g.app = app, g.route = q, g.active
            PROVE  HasPermission(db, app, s)
        <5> DEFINE w == MergedGrant(legacy, g)
        <5>1. w.app = app /\ w.route = s
          BY <4>2 DEF MergedGrant
        <5>2. w.active
          <6>1. g.app = g.app /\ g.active /\ g.route \in Group(legacy, g.route)
            BY <2>5, <4>2
          <6>2. w.active = \E h \in legacy.grants :
                  h.app = g.app /\ h.active /\ h.route \in Group(legacy, g.route)
            BY DEF MergedGrant
          <6> HIDE DEF w
          <6> QED
            BY <6>1, <6>2
        <5>3. w \in db.grants
          BY <2>9
        <5> HIDE DEF w, app, s
        <5> QED
          BY <5>1, <5>2, <5>3 DEF HasPermission
      <4> HIDE DEF app, s
      <4> QED
        BY <3>1, <4>1, <4>2 DEF HasPermission
    <3> QED
      BY <3>2, <3>3
  <2>11. n.route = s /\ n.method = legacy.routes[q].method
         /\ n.policy = legacy.routes[q].policy
    OBVIOUS
  <2> HIDE DEF n, s, app
  <2>12. x = [method |-> n.method, path |-> db.routes[n.route].path,
              policy |-> n.policy]
    BY <2>4, <2>6, <2>11
  <2>13. /\ db.routes[n.route].active
         /\ db.routes[n.route].project = db.keys[k].app.project
         /\ HasPermission(db, db.keys[k].app, n.route)
    BY <2>3, <2>4, <2>6, <2>7, <2>10, <2>11 DEF app
  <2> QED
    BY <2>8, <2>12, <2>13 DEF Access
<1> QED
  BY <1>1, Invariance, PTL

\* NothingGained: nor do they give one, dormant grants apart.
THEOREM AccessNotWidened == Spec => []NothingGained
<1>1. MigrationInv => NothingGained
  <2> SUFFICES ASSUME MigrationInv, Applied("routes.0008"), NEW k \in DOMAIN db.keys,
                      ~DormantGrant(legacy, db.keys[k].app), NEW x \in Access(db, k)
               PROVE  x \in LegacyAccess(legacy, k)
    BY DEF NothingGained
  <2> DEFINE app == db.keys[k].app
             L == legacy
  <2>0. WellFormed(L) /\ Referential(L) /\ Follows(L, db, mig, high)
    BY DEF MigrationInv
  <2>1. mig \in 1..9 /\ mig > 4 /\ high \in Nat
    BY AppliedFact DEF MigrationInv, Progress
  <2>2. Merged(L, db) /\ DOMAIN L.routes \subseteq Nat
    BY <2>0, <2>1 DEF Follows, RoutesFollow, WellFormed, Joined, Past
  <2>3. /\ k \in DOMAIN L.keys
        /\ app = IF L.keys[k].app = None
                 THEN DefaultApplication(L.keys[k].project) ELSE L.keys[k].app
        /\ app.project = L.keys[k].project
    BY <2>1, KeyProject
  <2>4. PICK n \in db.methods :
          /\ db.routes[n.route].active
          /\ db.routes[n.route].project = app.project
          /\ HasPermission(db, app, n.route)
          /\ x = [method |-> n.method, path |-> db.routes[n.route].path,
                  policy |-> n.policy]
    BY DEF Access
  <2>5. PICK q \in DOMAIN L.routes :
          /\ L.routes[q].active
          /\ n = [route |-> Survivor(L, q), method |-> L.routes[q].method,
                  policy |-> L.routes[q].policy]
    BY <2>2 DEF Merged
  <2> DEFINE s == Survivor(L, q)
             G == Group(L, q)
  <2>6. n.route = s /\ n.method = L.routes[q].method /\ n.policy = L.routes[q].policy
    BY <2>5
  <2>7. /\ s \in G /\ q \in G /\ s \in DOMAIN db.routes
        /\ \A w \in G : Group(L, w) = G
        /\ \A w \in DOMAIN L.routes : Survivor(L, w) = s => w \in G
    BY <2>2, GroupFact DEF Merged
  <2>8. /\ db.routes[s].project = L.routes[q].project
        /\ db.routes[s].path = L.routes[q].path
    BY <2>2, <2>7 DEF Merged, Group
  <2>9. x = [method |-> L.routes[q].method, path |-> L.routes[q].path,
             policy |-> L.routes[q].policy]
    <3> HIDE DEF s, L
    <3> QED
      BY <2>4, <2>6, <2>8
  <2>10. L.routes[q].project = L.keys[k].project
    <3> HIDE DEF s, L, app
    <3> QED
      BY <2>3, <2>4, <2>6, <2>8
  <2>11. L.keys[k].app = None \/ HasPermission(L, L.keys[k].app, q)
    <3>0. SUFFICES ASSUME L.keys[k].app # None PROVE HasPermission(L, app, q)
      BY <2>3
    <3>1. db.grants = {MergedGrant(L, g) : g \in L.grants}
      BY <2>2 DEF Merged
    <3>2. \A g \in L.grants : /\ MergedGrant(L, g).app = g.app
                              /\ MergedGrant(L, g).route = Survivor(L, g.route)
      BY DEF MergedGrant
    <3>3. CASE \A g \in db.grants : g.app # app
      BY <3>1, <3>2, <3>3 DEF HasPermission
    <3>4. ASSUME NEW w \in db.grants, w.app = app, w.route = s, w.active
          PROVE  HasPermission(L, app, q)
      <4>1. PICK g \in L.grants : w = MergedGrant(L, g)
        BY <3>1
      <4>2. g.app = app /\ Survivor(L, g.route) = s /\ g.route \in DOMAIN L.routes
        BY <2>0, <3>2, <3>4, <4>1 DEF Referential
      <4>3. g.route \in G /\ Group(L, g.route) = G
        BY <2>7, <4>2
      <4>4. \E h \in L.grants : h.app = g.app /\ h.active /\ h.route \in Group(L, g.route)
        <5>1. w.active = \E h \in L.grants :
                h.app = g.app /\ h.active /\ h.route \in Group(L, g.route)
          BY <4>1 DEF MergedGrant
        <5> QED
          BY <3>4, <5>1
      <4>5. PICK h \in L.grants : h.app = app /\ h.active /\ h.route \in G
        BY <4>2, <4>3, <4>4
      <4>6. L.routes[q].method \in ActiveMethods(L, G)
        BY <2>5, <2>7 DEF ActiveMethods
      <4>7. L.routes[h.route].active
        <5>1. ActiveMethods(L, Group(L, h.route)) # {}
          BY <2>7, <4>5, <4>6
        <5> QED
          BY <4>5, <5>1 DEF DormantGrant
      <4>8. L.routes[h.route].method \in GrantedMethods(L, app, G)
        BY <4>5, <4>7 DEF GrantedMethods
      <4>9. GrantedMethods(L, app, G) = ActiveMethods(L, G)
        <5>1. ~MethodSpecific(L, G)
          BY <2>2 DEF Merged
        <5> QED
          BY <4>5, <4>8, <5>1 DEF MethodSpecific
      <4>10. PICK g2 \in L.grants :
               /\ g2.app = app /\ g2.route \in G /\ g2.active
               /\ L.routes[g2.route].method = L.routes[q].method
        BY <4>6, <4>9 DEF GrantedMethods
      <4>11. g2.route = q
        BY <2>0, <4>10 DEF Referential, Group
      <4> QED
        BY <4>10, <4>11 DEF HasPermission
    <3>5. HasPermission(db, app, s)
      BY <2>4, <2>6
    <3> HIDE DEF app, s, L
    <3> QED
      BY <3>3, <3>4, <3>5 DEF HasPermission
  <2> QED
    BY <2>5, <2>9, <2>10, <2>11 DEF LegacyAccess
<1> QED
  BY <1>1, Invariance, PTL

-----------------------------------------------------------------------------
(* Requests after routes.0010.                                             *)

\* A slash, letters up to n, and nothing or another slash: stripping keeps
\* everything but the slashes at the ends.
LEMMA NormalForm ==
  ASSUME NEW A, "/" \in A, NEW p \in Seq(A), NEW n \in Nat, n >= 2, n <= Len(p),
         p[1] = "/", \A i \in 2..n : p[i] # "/"
  PROVE  LET hi == Max(Letters(p)) IN
         /\ hi \in n..Len(p)
         /\ Strip(p) \in Seq(A) /\ Len(Strip(p)) = hi - 1
         /\ \A i \in 1..(hi - 1) : Strip(p)[i] = p[i + 1]
         /\ NormalizePath(p) \in Seq(A) /\ Len(NormalizePath(p)) = hi
         /\ \A i \in 1..hi : NormalizePath(p)[i] = p[i]
<1> DEFINE lo == Min(Letters(p))
           hi == Max(Letters(p))
           t == Strip(p)
<1>1. Len(p) \in Nat /\ DOMAIN p = 1..Len(p)
  BY LenProperties
<1>2. n \in 2..n /\ n \in DOMAIN p /\ p[n] # "/"
  BY <1>1
<1>3. Letters(p) # {}
  BY <1>2 DEF Letters
<1>4. /\ lo \in 1..Len(p) /\ hi \in 1..Len(p) /\ lo <= hi
      /\ p[lo] # "/"
      /\ \A i \in 1..Len(p) : p[i] # "/" => lo <= i /\ i <= hi
      /\ t \in Seq(A) /\ Len(t) = hi - lo + 1
      /\ \A i \in 1..(hi - lo + 1) : t[i] = p[lo + i - 1]
  BY <1>3, LettersFact
<1> HIDE DEF lo, hi, t
<1>5. lo = 2
  <2>1. 2 \in 2..n /\ 2 \in 1..Len(p)
    BY <1>1
  <2>2. lo <= 2
    BY <1>4, <2>1
  <2>3. lo # 1
    BY <1>4
  <2> QED
    BY <1>1, <1>4, <2>2, <2>3
<1>6. hi \in n..Len(p) /\ hi \in Nat
  <2>1. n \in 1..Len(p) /\ n <= hi
    BY <1>1, <1>2, <1>4
  <2> QED
    BY <1>1, <1>4, <2>1
<1>7. Len(t) = hi - 1 /\ \A i \in 1..(hi - 1) : t[i] = p[i + 1]
  <2>1. hi - lo + 1 = hi - 1
    BY <1>5, <1>6
  <2>2. ASSUME NEW i \in 1..(hi - 1) PROVE t[i] = p[i + 1]
    <3>1. lo + i - 1 = i + 1
      BY <1>5, <1>6
    <3> QED
      BY <1>4, <2>1, <3>1
  <2> QED
    BY <1>4, <2>1, <2>2
<1>8. /\ <<"/">> \o t \in Seq(A) /\ Len(<<"/">> \o t) = Len(t) + 1
      /\ (<<"/">> \o t)[1] = "/"
      /\ \A i \in 1..Len(t) : (<<"/">> \o t)[i + 1] = t[i]
  BY <1>4, SlashFirst
<1> DEFINE c == <<"/">> \o t
<1>9. NormalizePath(p) = c
  BY DEF NormalizePath, t
<1> HIDE DEF c
<1>10. c \in Seq(A) /\ Len(c) = hi
  BY <1>6, <1>7, <1>8 DEF c
<1>11. ASSUME NEW i \in 1..hi PROVE c[i] = p[i]
  <2>1. CASE i = 1
    BY <1>8, <2>1 DEF c
  <2>2. CASE i # 1
    <3>1. i - 1 \in 1..(hi - 1) /\ (i - 1) + 1 = i
      BY <1>6, <2>2
    <3>2. c[(i - 1) + 1] = t[i - 1]
      BY <1>7, <1>8, <3>1 DEF c
    <3>3. t[i - 1] = p[(i - 1) + 1]
      BY <1>7, <3>1
    <3> QED
      BY <3>1, <3>2, <3>3
  <2> QED
    BY <2>1, <2>2
<1> QED
  BY <1>4, <1>6, <1>7, <1>9, <1>10, <1>11 DEF hi, t

\* A path of one segment.
LEMMA OneSegmentFact ==
  ASSUME NEW A, NEW base \in Seq(A), OneSegment(base)
  PROVE  /\ Len(base) \in Nat /\ Len(base) >= 2
         /\ base[1] = "/" /\ \A i \in 2..Len(base) : base[i] # "/"
<1>1. Len(base) \in Nat /\ DOMAIN base = 1..Len(base)
  BY LenProperties
<1>2. Len(base) >= 1 /\ base[1] = "/"
  <2>1. base # <<>> /\ Head(base) = "/"
    BY DEF OneSegment
  <2>2. Len(base) # 0
    BY <2>1, EmptySeq
  <2> QED
    BY <1>1, <2>1, <2>2
<1>3. PICK x : Slashes(base) = {x}
  <2>1. IsFiniteSet(1..Len(base))
    BY <1>1, FS_Interval
  <2>2. IsFiniteSet(Slashes(base))
    BY <1>1, <2>1, FS_Subset DEF Slashes
  <2> QED
    BY <2>2, FS_Singleton DEF OneSegment
<1>4. 1 \in Slashes(base)
  BY <1>1, <1>2 DEF Slashes, Letters
<1>5. ASSUME NEW i \in 2..Len(base) PROVE base[i] # "/"
  <2>1. i \in DOMAIN base /\ i # 1
    BY <1>1
  <2>2. i \notin Slashes(base)
    BY <1>3, <1>4, <2>1
  <2> QED
    BY <2>1, <2>2 DEF Slashes, Letters
<1>6. Len(base) # 1
  <2>1. SUFFICES ASSUME Len(base) = 1 PROVE FALSE
    OBVIOUS
  <2>2. base = <<"/">>
    <3>1. <<"/">> \in Seq({"/"}) /\ Len(<<"/">>) = 1 /\ <<"/">>[1] = "/"
      OBVIOUS
    <3>2. \A i \in 1..Len(base) : base[i] = <<"/">>[i]
      BY <1>2, <2>1, <3>1
    <3> QED
      BY <2>1, <3>1, <3>2, SeqEqual
  <2> QED
    BY <2>2 DEF OneSegment
<1> QED
  BY <1>1, <1>2, <1>5, <1>6

\* What begins with such a path is looked up under it, and belongs to it.
LEMMA BelowIsReached ==
  ASSUME NEW A, "/" \in A, NEW base \in Seq(A), OneSegment(base), NEW s \in Seq(A),
         s = <<>> \/ (Len(s) >= 1 /\ s[1] = "/")
  PROVE  BasePath(base \o s) = base /\ BelongsTo(base \o s, base)
<1> DEFINE n == Len(base)
           p == base \o s
           hi == Max(Letters(p))
           t == Strip(p)
           norm == NormalizePath(p)
<1>1. /\ n \in Nat /\ n >= 2 /\ base[1] = "/"
      /\ \A i \in 2..n : base[i] # "/"
  BY OneSegmentFact
<1>2. Len(s) \in Nat
  BY LenProperties
<1>3. /\ p \in Seq(A) /\ Len(p) = n + Len(s)
      /\ \A i \in 1..(n + Len(s)) : p[i] = IF i <= n THEN base[i] ELSE s[i - n]
  BY ConcatProperties
<1> HIDE DEF n, p
<1>4. /\ p[1] = "/" /\ n <= Len(p)
      /\ \A i \in 1..n : p[i] = base[i]
      /\ \A i \in 2..n : p[i] # "/"
  BY <1>1, <1>2, <1>3
<1>5. Len(p) = n \/ (Len(p) > n /\ p[n + 1] = "/")
  <2>1. CASE s = <<>>
    <3>1. Len(s) = 0
      BY <2>1
    <3> QED
      BY <1>1, <1>3, <3>1
  <2>2. CASE Len(s) >= 1 /\ s[1] = "/"
    <3>1. n + 1 \in 1..(n + Len(s)) /\ ~(n + 1 <= n) /\ (n + 1) - n = 1
      BY <1>1, <1>2, <2>2
    <3>2. p[n + 1] = s[1]
      BY <1>3, <3>1
    <3> QED
      BY <1>1, <1>2, <1>3, <2>2, <3>2
  <2> QED
    BY <2>1, <2>2
<1>6. /\ hi \in n..Len(p)
      /\ t \in Seq(A) /\ Len(t) = hi - 1
      /\ \A i \in 1..(hi - 1) : t[i] = p[i + 1]
      /\ norm \in Seq(A) /\ Len(norm) = hi
      /\ \A i \in 1..hi : norm[i] = p[i]
  BY <1>1, <1>3, <1>4, NormalForm
<1>7. NormalizePath(base) = base
  <2> DEFINE b == NormalizePath(base)
             hb == Max(Letters(base))
  <2>0. /\ Len(base) \in Nat /\ Len(base) >= 2 /\ Len(base) <= Len(base)
        /\ base[1] = "/" /\ \A i \in 2..Len(base) : base[i] # "/"
    BY <1>1 DEF n
  <2>1. /\ hb \in n..n /\ b \in Seq(A) /\ Len(b) = hb
        /\ \A i \in 1..hb : b[i] = base[i]
    BY <2>0, NormalForm DEF n
  <2> HIDE DEF b, hb
  <2>2. hb = n
    BY <1>1, <2>1
  <2>3. b = base
    BY <2>1, <2>2, SeqEqual DEF n
  <2> QED
    BY <2>3 DEF b
<1> HIDE DEF hi, t, norm
<1>8. hi \in Nat /\ hi >= n /\ (hi = n \/ (hi > n /\ p[n + 1] = "/"))
  BY <1>1, <1>2, <1>3, <1>5, <1>6
<1>9. BasePath(p) = base
  <2> DEFINE head == IF Slashes(t) = {} THEN t ELSE SubSeq(t, 1, Min(Slashes(t)) - 1)
  <2>1. head \in Seq(A) /\ Len(head) = n - 1 /\ \A i \in 1..(n - 1) : head[i] = base[i + 1]
    <3>0. DOMAIN t = 1..(hi - 1)
      BY <1>6, LenProperties
    <3>1. ASSUME NEW i \in 1..(n - 1) PROVE t[i] = base[i + 1] /\ t[i] # "/"
      <4>1. i \in 1..(hi - 1) /\ i + 1 \in 1..n /\ i + 1 \in 2..n
        BY <1>1, <1>8
      <4> QED
        BY <1>1, <1>4, <1>6, <4>1
    <3>2. CASE hi = n
      <4>1. Slashes(t) = {}
        BY <3>0, <3>1, <3>2 DEF Slashes, Letters
      <4> QED
        BY <1>6, <3>1, <3>2, <4>1
    <3>3. CASE hi > n /\ p[n + 1] = "/"
      <4>1. n \in 1..(hi - 1)
        BY <1>1, <1>8, <3>3
      <4>2. t[n] = "/"
        BY <1>6, <3>3, <4>1
      <4>3. n \in Slashes(t) /\ Slashes(t) \subseteq 1..(hi - 1)
        BY <3>0, <4>1, <4>2 DEF Slashes, Letters
      <4>4. \A y \in Slashes(t) : y >= n
        <5> TAKE y \in Slashes(t)
        <5>1. y \in 1..(hi - 1) /\ t[y] = "/"
          BY <3>0 DEF Slashes, Letters
        <5>2. y \notin 1..(n - 1)
          BY <3>1, <5>1
        <5> QED
          BY <1>1, <1>8, <5>1, <5>2
      <4>5. Slashes(t) \subseteq Nat /\ Slashes(t) # {}
        BY <4>3
      <4>6. Min(Slashes(t)) \in Slashes(t) /\ \A y \in Slashes(t) : Min(Slashes(t)) <= y
        BY <4>5, MinFact
      <4>7. Min(Slashes(t)) = n
        BY <1>1, <4>3, <4>4, <4>5, <4>6
      <4>8. head = SubSeq(t, 1, n - 1)
        BY <4>5, <4>7
      <4>9. \A i \in 1..(n - 1) : t[i] \in A
        <5>1. \A i \in 1..Len(t) : t[i] \in A
          BY <1>6, ElementOfSeq
        <5>2. \A i \in 1..(n - 1) : i \in 1..Len(t)
          BY <1>1, <1>6, <1>8
        <5> QED
          BY <5>1, <5>2
      <4>10. 1 \in Int /\ n - 1 \in Int /\ 1 <= n - 1 /\ (n - 1) - 1 + 1 = n - 1
        BY <1>1
      <4>11. /\ SubSeq(t, 1, n - 1) \in Seq(A)
             /\ Len(SubSeq(t, 1, n - 1)) = n - 1
             /\ \A i \in 1..(n - 1) : SubSeq(t, 1, n - 1)[i] = t[i]
        <5>1. /\ SubSeq(t, 1, n - 1) \in Seq(A)
              /\ Len(SubSeq(t, 1, n - 1)) = (n - 1) - 1 + 1
              /\ \A i \in 1..((n - 1) - 1 + 1) :
                   SubSeq(t, 1, n - 1)[i] = t[1 + i - 1]
          BY <4>9, <4>10, SubSeqProperties
        <5>2. \A i \in 1..(n - 1) : 1 + i - 1 = i
          BY <1>1
        <5> QED
          BY <4>10, <5>1, <5>2
      <4> HIDE DEF head
      <4> QED
        BY <3>1, <4>8, <4>11
    <3> QED
      BY <1>8, <3>2, <3>3
  <2>2. BasePath(p) = <<"/">> \o head
    BY DEF BasePath, t
  <2> HIDE DEF head
  <2>3. /\ <<"/">> \o head \in Seq(A) /\ Len(<<"/">> \o head) = Len(head) + 1
        /\ (<<"/">> \o head)[1] = "/"
        /\ \A i \in 1..Len(head) : (<<"/">> \o head)[i + 1] = head[i]
    BY <2>1, SlashFirst
  <2> DEFINE c == <<"/">> \o head
  <2>4. c \in Seq(A) /\ Len(c) = n /\ c[1] = "/"
        /\ \A i \in 1..(n - 1) : c[i + 1] = head[i]
    BY <1>1, <2>1, <2>3
  <2> HIDE DEF c
  <2>5. ASSUME NEW i \in 1..n PROVE c[i] = base[i]
    <3>1. CASE i = 1
      BY <1>1, <2>4, <3>1
    <3>2. CASE i # 1
      <4>1. i - 1 \in 1..(n - 1) /\ (i - 1) + 1 = i
        BY <1>1, <3>2
      <4>2. c[(i - 1) + 1] = head[i - 1] /\ head[i - 1] = base[(i - 1) + 1]
        BY <2>1, <2>4, <4>1
      <4> QED
        BY <4>1, <4>2
    <3> QED
      BY <3>1, <3>2
  <2>6. c = base
    BY <2>4, <2>5, SeqEqual DEF n
  <2> QED
    BY <2>2, <2>6 DEF c
<1>10. BelongsTo(p, base)
  <2>1. CASE hi = n
    <3>1. norm = base
      BY <1>4, <1>6, <2>1, SeqEqual DEF n
    <3> QED
      BY <1>7, <3>1 DEF BelongsTo, norm
  <2>2. CASE hi > n /\ p[n + 1] = "/"
    <3> DEFINE a == Append(base, "/")
    <3>1. a \in Seq(A) /\ Len(a) = n + 1
          /\ \A i \in 1..(n + 1) : a[i] = IF i = n + 1 THEN "/" ELSE base[i]
      BY <1>1, AppendProperties DEF n
    <3> HIDE DEF a
    <3>2. ASSUME NEW i \in 1..(n + 1) PROVE a[i] = norm[i]
      <4>1. i \in 1..hi
        BY <1>1, <1>8, <2>2
      <4>2. CASE i = n + 1
        BY <1>6, <2>2, <3>1, <4>1, <4>2
      <4>3. CASE i # n + 1
        <5>1. i \in 1..n
          BY <1>1, <4>3
        <5> QED
          BY <1>4, <1>6, <3>1, <4>1, <4>3, <5>1
      <4> QED
        BY <4>2, <4>3
    <3>3. Len(a) <= Len(norm)
      BY <1>1, <1>6, <1>8, <2>2, <3>1
    <3>4. SubSeq(a, 1, Len(a)) = SubSeq(norm, 1, Len(a))
      <4>1. (\A i \in 1..(n + 1) : a[i] \in A) /\ (\A i \in 1..(n + 1) : norm[i] \in A)
        <5>1. \A i \in 1..(n + 1) : a[i] \in A
          BY <3>1, ElementOfSeq
        <5> QED
          BY <3>2, <5>1
      <4>2. 1 \in Int /\ n + 1 \in Int /\ 1 <= n + 1 /\ (n + 1) - 1 + 1 = n + 1
        BY <1>1
      <4>3. /\ SubSeq(a, 1, n + 1) \in Seq(A)
            /\ Len(SubSeq(a, 1, n + 1)) = (n + 1) - 1 + 1
            /\ \A i \in 1..((n + 1) - 1 + 1) : SubSeq(a, 1, n + 1)[i] = a[1 + i - 1]
        BY <4>1, <4>2, SubSeqProperties
      <4>4. /\ SubSeq(norm, 1, n + 1) \in Seq(A)
            /\ Len(SubSeq(norm, 1, n + 1)) = (n + 1) - 1 + 1
            /\ \A i \in 1..((n + 1) - 1 + 1) :
                 SubSeq(norm, 1, n + 1)[i] = norm[1 + i - 1]
        BY <4>1, <4>2, SubSeqProperties
      <4>5. \A i \in 1..(n + 1) : 1 + i - 1 = i
        BY <1>1
      <4>6. \A i \in 1..(n + 1) : SubSeq(a, 1, n + 1)[i] = SubSeq(norm, 1, n + 1)[i]
        BY <3>2, <4>2, <4>3, <4>4, <4>5
      <4>7. Len(SubSeq(a, 1, n + 1)) = n + 1
            /\ Len(SubSeq(a, 1, n + 1)) = Len(SubSeq(norm, 1, n + 1))
        BY <4>2, <4>3, <4>4
      <4>8. SubSeq(a, 1, n + 1) = SubSeq(norm, 1, n + 1)
        BY <4>3, <4>4, <4>6, <4>7, SeqEqual
      <4> QED
        BY <3>1, <4>8
    <3>5. IsPrefix(a, norm)
      BY <3>3, <3>4 DEF IsPrefix
    <3> QED
      BY <1>7, <3>5 DEF BelongsTo, norm, a
  <2> QED
    BY <1>8, <2>1, <2>2
<1> QED
  BY <1>9, <1>10 DEF p

\* Reachable: after the last migration every route's path, and what lies
\* below it, is looked up under that path and has a target.
THEOREM Reachability == Spec => []Reachable
<1>1. MigrationInv => Reachable
  <2> SUFFICES ASSUME MigrationInv, status = "done", NEW r \in DOMAIN db.routes,
                      NEW s \in Below
               PROVE  /\ BasePath(db.routes[r].path \o s) = db.routes[r].path
                      /\ BelongsTo(db.routes[r].path \o s, db.routes[r].path)
    BY DEF Reachable
  <2> DEFINE base == db.routes[r].path
             A == Range(base) \cup {"/", "a"}
  <2>1. Valid(mig, high)
    BY DEF MigrationInv, Progress, Valid, Past
  <2>2. OneSegment(base)
    BY <2>1 DEF MigrationInv, Follows, PathsFollow
  <2>3. base \in Seq(Range(base))
    BY DEF MigrationInv, Follows, WellFormed
  <2>4. Range(base) \subseteq A /\ "/" \in A /\ "a" \in A
    OBVIOUS
  <2> HIDE DEF base, A
  <2>5. base \in Seq(A)
    BY <2>3, <2>4, SeqMonotonic
  <2>6. s \in Seq(A) /\ (s = <<>> \/ (Len(s) >= 1 /\ s[1] = "/"))
    <3>1. CASE s = <<>>
      BY <3>1
    <3>2. CASE s = <<"/">>
      BY <2>4, <3>2
    <3>3. CASE s = <<"/", "a">>
      BY <2>4, <3>3
    <3>4. CASE s = <<"/", "a", "/", "a">>
      BY <2>4, <3>4
    <3> QED
      BY <3>1, <3>2, <3>3, <3>4 DEF Below
  <2>7. BasePath(base \o s) = base /\ BelongsTo(base \o s, base)
    BY <2>2, <2>4, <2>5, <2>6, BelowIsReached
  <2> QED
    BY <2>7 DEF base
<1> QED
  BY <1>1, Invariance, PTL
=============================================================================
