----------------------------- MODULE MCGateway ------------------------------
(* Gateway with two projects, a route in each. *)
EXTENDS Gateway, TLC

CONSTANTS a1, a2, r1, r2

\* a1 and r1 belong to one project, every other to a second.
TwoProjects == [x \in Apps \cup Routes |-> IF x \in {a1, r1} THEN 1 ELSE 2]

OneProject == [x \in Apps \cup Routes |-> 1]

Symmetry == Permutations(MethodRows) \cup Permutations(GrantRows)
              \cup Permutations(Staff)
=============================================================================
