----------------------------- MODULE RoutePath ------------------------------
(***************************************************************************)
(* The path arithmetic of RouteResolver and GatewayRequestPreview in       *)
(* apps/gateway/services.py.  A path is the sequence of its characters,    *)
(* one of which is "/"; a target URL is an origin and a path.              *)
(***************************************************************************)
EXTENDS Integers, Sequences, FiniteSets, FiniteSetsExt, SequencesExt

Letters(p) == {i \in DOMAIN p : p[i] # "/"}
Slashes(p) == DOMAIN p \ Letters(p)

\* str.rstrip('/') and str.strip('/').
RStrip(p) == IF Letters(p) = {} THEN <<>> ELSE SubSeq(p, 1, Max(Letters(p)))
Strip(p) ==
  IF Letters(p) = {} THEN <<>>
  ELSE SubSeq(p, Min(Letters(p)), Max(Letters(p)))

\* RouteResolver.normalize_path.
NormalizePath(p) == <<"/">> \o Strip(p)

\* get_route_for_request: the first segment, under which a route is looked
\* up; <<"/">> is never looked up.
BasePath(p) ==
  LET s == Strip(p)
  IN  <<"/">> \o (IF Slashes(s) = {} THEN s ELSE SubSeq(s, 1, Min(Slashes(s)) - 1))

\* GatewayRequestPreview.build_target_url: what it accepts, and what it
\* returns; none stands for the ValueError.
BelongsTo(request, base) ==
  LET route == NormalizePath(base)
      path  == NormalizePath(request)
  IN  path = route \/ IsPrefix(Append(route, "/"), path)

BuildTargetUrl(origin, base, request, none) ==
  IF BelongsTo(request, base)
  THEN [origin |-> origin, path |-> NormalizePath(request)] ELSE none

\* The condition of validate_paths in migration routes.0010.
OneSegment(p) ==
  /\ p # <<>> /\ Head(p) = "/" /\ p # <<"/">>
  /\ Cardinality(Slashes(p)) = 1
=============================================================================
