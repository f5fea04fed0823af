----------------------------- MODULE RouteLookup ----------------------------
(***************************************************************************)
(* What get_route promises, whatever the interleaving of readers, writers  *)
(* and Redis failures.  A value is FRESH for a key when it was current at  *)
(* some time since the key was last invalidated.  A call may answer with   *)
(* any value that was fresh at some time while it ran; in particular a     *)
(* call that begins after an invalidation never answers with a value that  *)
(* was replaced before it.                                                 *)
(***************************************************************************)
CONSTANTS Keys, Readers, Values, None

VARIABLES
  current,       \* per key: what MySQL says now
  fresh,         \* per key: what was current since the last invalidation
  status,        \* per reader: idle, active or done
  request,       \* per reader: the key asked for
  allowed,       \* per reader: the answers the running call may give
  answer         \* per reader: the answer of a finished call

lookupVars == <<current, fresh, status, request, allowed, answer>>

Init ==
  /\ current \in [Keys -> Values]
  /\ fresh = [k \in Keys |-> {current[k]}]
  /\ status = [r \in Readers |-> "idle"]
  /\ request = [r \in Readers |-> None]
  /\ allowed = [r \in Readers |-> {}]
  /\ answer = [r \in Readers |-> None]

\* A commit changes any number of keys at once.
Change ==
  /\ current' \in [Keys -> Values]
  /\ fresh' = [k \in Keys |-> fresh[k] \cup {current'[k]}]
  /\ allowed' = [r \in Readers |->
       IF status[r] = "active"
       THEN allowed[r] \cup {current'[request[r]]} ELSE allowed[r]]
  /\ UNCHANGED <<status, request, answer>>

Invalidate(k) ==
  /\ fresh' = [fresh EXCEPT ![k] = {current[k]}]
  /\ UNCHANGED <<current, status, request, allowed, answer>>

Begin(r, k) ==
  /\ status[r] # "active"
  /\ status' = [status EXCEPT ![r] = "active"]
  /\ request' = [request EXCEPT ![r] = k]
  /\ allowed' = [allowed EXCEPT ![r] = fresh[k]]
  /\ answer' = [answer EXCEPT ![r] = None]
  /\ UNCHANGED <<current, fresh>>

Return(r) ==
  /\ status[r] = "active"
  /\ \E v \in allowed[r] : answer' = [answer EXCEPT ![r] = v]
  /\ status' = [status EXCEPT ![r] = "done"]
  /\ allowed' = [allowed EXCEPT ![r] = {}]
  /\ UNCHANGED <<current, fresh, request>>

Next ==
  \/ Change
  \/ \E k \in Keys : Invalidate(k)
  \/ \E r \in Readers : Return(r) \/ \E k \in Keys : Begin(r, k)

Spec == Init /\ [][Next]_lookupVars
=============================================================================
