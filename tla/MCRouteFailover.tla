--------------------------- MODULE MCRouteFailover --------------------------
(* RouteFailover on one tenant's route and path. *)
EXTENDS RouteFailover

CONSTANTS p1, s1, r1, o1, pathA

OneServices ==
  [s \in Services |-> [project |-> p1, url |-> o1, active |-> TRUE]]
OneRoutes ==
  [r \in Routes |->
     [project |-> p1, service |-> s1, path |-> pathA, active |-> TRUE]]
=============================================================================
