------------------------- MODULE MCRouteMigrations --------------------------
(* Databases of two tenants that earlier releases may have left behind. *)
EXTENDS RouteMigrations

CONSTANTS p1, p2, o1, o2, bad, k1, k2, l1, l2

\* downstream_service as stored, and as slugify makes it.
MCSlug == ("" :> "") @@ ("svc" :> "svc") @@ ("Svc" :> "svc")

Root == <<"/">>
A == <<"/", "a">>
AB == <<"/", "a", "b">>
Nested == <<"/", "a", "/", "b">>
NoSlash == <<"a">>

Url(o, p) == [origin |-> o, path |-> p]
S1 == [project |-> p1, slug |-> "s1"]
S2 == [project |-> p2, slug |-> "s2"]
S3 == [project |-> p1, slug |-> "s3"]
App(n) == [project |-> p1, slug |-> n]
Key(p, a) == [project |-> p, app |-> a]

Row(p, method, path, active, service, target) ==
  [project |-> p, method |-> method, path |-> path, active |-> active,
   policy |-> IF method = "GET" THEN "api_key_only" ELSE "api_key_and_jwt",
   downstream |-> "", targets |-> <<>>, service |-> service, target |-> target]

Db(routes, grants, keys, name) ==
  [routes |-> routes, grants |-> grants, keys |-> keys, methods |-> {},
   services |-> [s \in {S1, S2, S3} |->
     [name |-> IF s = S3 THEN name ELSE s.slug, url |-> None]],
   logs |-> (l1 :> 1) @@ (l2 :> 2)]

\* Who may call what: two methods of one path, a second path, a neighbour.
GrantDbs ==
  {Db(<<Row(p1, "GET", A, x, S1, Url(o1, A)),
        Row(p1, "POST", A, y, S1, Url(o1, A)),
        Row(p2, "GET", A, TRUE, S2, Url(o2, A)),
        Row(p1, "GET", AB, TRUE, S1, Url(o1, AB))>>,
      {g \in {[app |-> App("a1"), route |-> r, active |-> f[r] = "on"] :
                r \in {1, 2, 4}} : f[g.route] # "no"}
        \cup {[app |-> App("a2"), route |-> r, active |-> TRUE] : r \in h},
      (k1 :> Key(p1, App("a1"))) @@ (k2 :> Key(p1, App("a2"))), "s3") :
    x \in BOOLEAN, y \in BOOLEAN, f \in [{1, 2, 4} -> {"no", "on", "off"}],
    h \in {{}, {2}, {1, 2}}}

\* Where calls go.
TargetDbs ==
  {Db(<<Row(p1, "GET", path, TRUE, service, target),
        Row(p1, "POST", other, FALSE, second, next)>>,
      {}, (k1 :> Key(p1, App("a1"))), "s3") :
    path \in {A, AB, Nested, NoSlash, Root}, service \in {S1, None},
    target \in {None, Url(o1, A), Url(o1, A \o Root), Url(o2, Nested),
                Url(bad, A)},
    other \in {A, AB}, second \in {S1, S2}, next \in {None, Url(o1, A)}}

\* Whose keys they are, and what services are called.
KeyDbs ==
  {Db(<<Row(p1, "GET", A, TRUE, S1, Url(o1, A)),
        Row(p2, "GET", A, TRUE, S2, Url(o2, A))>>,
      g, (k1 :> Key(p1, a)) @@ (k2 :> b), name) :
    a \in {None, App("a1")},
    b \in {Key(p1, None), Key(p2, None), Key(p1, App("a1"))},
    g \in {{}, {[app |-> DefaultApplication(p1), route |-> 1, active |-> FALSE]}},
    name \in {"s1", "s3"}}

\* Before there were services and applications.
OldRow(path, downstream, targets) ==
  [Row(p1, "GET", path, TRUE, None, None) EXCEPT
     !.downstream = downstream, !.targets = targets]

On(o, p) == [url |-> Url(o, p), active |-> TRUE]
Off(o, p) == [url |-> Url(o, p), active |-> FALSE]

OldDbs ==
  {[Db(<<OldRow(A, x, ts), OldRow(AB, y, us)>>, {}, (k1 :> Key(p1, None)), "")
      EXCEPT !.services = <<>>] :
    x \in DOMAIN MCSlug, y \in DOMAIN MCSlug,
    ts \in {<<>>, <<On(o1, A), On(o2, A)>>, <<Off(o1, A), On(o2, A)>>,
            <<Off(o2, A), Off(o1, A)>>},
    us \in {<<>>, <<On(o1, AB)>>, <<On(o2, AB)>>}}

CONSTANT Backends

MCDatabases ==
  {[backend |-> b, applied |-> 2, db |-> d] :
     b \in Backends, d \in GrantDbs \cup TargetDbs \cup KeyDbs}
    \cup {[backend |-> b, applied |-> 0, db |-> d] : b \in Backends, d \in OldDbs}

\* Two methods of one path and service lead to different targets: the first
\* thing that consolidate_routes refuses.
MCConflictDatabases ==
  {[backend |-> b, applied |-> 2, db |-> d] :
     b \in Backends,
     d \in {e \in TargetDbs : /\ ConsolidateConflicts(e) # {}
                             /\ e.routes[1].service = e.routes[2].service}}
=============================================================================
