---------------------------- MODULE MCClientAuth ----------------------------
(* ClientAuth with two applications; every staff member owns the first. *)
EXTENDS ClientAuth, TLC

CONSTANTS app1, app2

OwnsFirst == [s \in Staff |-> {app1}]

Symmetry == Permutations(Clients) \cup Permutations(Emails)
              \cup Permutations(Users)
=============================================================================
