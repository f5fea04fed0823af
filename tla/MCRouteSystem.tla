--------------------------- MODULE MCRouteSystem ----------------------------
(* RouteSystem on small tables. *)
EXTENDS RouteSystem, TLC

CONSTANTS p1, p2, s1, s2, s3, r1, r2, r3, o1, o2, pathA, pathB

Service(p) == [project |-> p, url |-> o1, active |-> TRUE]
RouteTo(s, p, path) ==
  [project |-> p, service |-> s, path |-> path, active |-> TRUE]

\* One tenant: a service behind one route, and a spare route key.
OneServices == [s \in Services |-> IF s = s1 THEN Service(p1) ELSE None]
OneRoutes ==
  [r \in Routes |-> IF r = r1 THEN RouteTo(s1, p1, pathA) ELSE None]

\* Two tenants, one route and one service each, on the same path.
TwoServices ==
  [s \in Services |-> IF s = s1 THEN Service(p1)
                      ELSE IF s = s2 THEN Service(p2) ELSE None]
TwoRoutes ==
  [r \in Routes |-> IF r = r1 THEN RouteTo(s1, p1, pathA)
                    ELSE IF r = r2 THEN RouteTo(s2, p2, pathA) ELSE None]

AdminSymmetry == Permutations(Admins)
=============================================================================
