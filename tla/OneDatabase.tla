---------------------------- MODULE OneDatabase -----------------------------
(***************************************************************************)
(* What the models of this project take MySQL to be, and what the cluster  *)
(* behind two connection aliases has to look like: one database.  A row is *)
(* known by the number of the transaction that last wrote it.  A read      *)
(* returns a version that was current while it ran, and one inside a       *)
(* transaction sees what that transaction wrote.                           *)
(***************************************************************************)
EXTENDS Naturals

CONSTANTS Clients, Own     \* Own: the version an open transaction wrote

VARIABLES
  committed,     \* the last transaction
  session        \* per client: pc, tx, since, wrote, value

oneVars == <<committed, session>>

Idle == [pc |-> "idle", tx |-> FALSE, wrote |-> FALSE, since |-> 0, value |-> 0]

Init == committed = 0 /\ session = [c \in Clients |-> Idle]

Goes(c, pc) == session[c].pc = pc
Set(c, s) == session' = [session EXCEPT ![c] = s]

Begin(c) ==
  /\ Goes(c, "idle")
  /\ Set(c, [Idle EXCEPT !.pc = "open", !.tx = TRUE])
  /\ UNCHANGED committed

Write(c) ==
  /\ Goes(c, "open") /\ ~session[c].wrote
  /\ Set(c, [session[c] EXCEPT !.wrote = TRUE])
  /\ UNCHANGED committed

\* A read starts, in a transaction or on its own...
Read(c) ==
  /\ session[c].pc \in {"idle", "open"}
  /\ Set(c, [session[c] EXCEPT !.pc = "reading", !.since = committed])
  /\ UNCHANGED committed

\* ...and returns.
Return(c) ==
  /\ Goes(c, "reading")
  /\ \E v \in IF session[c].wrote THEN {Own} ELSE session[c].since..committed :
       Set(c, [session[c] EXCEPT !.value = v,
                 !.pc = IF session[c].tx THEN "open" ELSE "read"])
  /\ UNCHANGED committed

Commit(c) ==
  /\ Goes(c, "open") /\ session[c].wrote
  /\ committed' = committed + 1
  /\ Set(c, [session[c] EXCEPT !.pc = "committing", !.since = committed'])

Acknowledge(c) ==
  /\ Goes(c, "committing")
  /\ Set(c, [session[c] EXCEPT !.pc = "acknowledged"])
  /\ UNCHANGED committed

\* Some requests end, well or not; a commit that got no answer stays.
End(S) ==
  /\ session' = [c \in Clients |-> IF c \in S THEN Idle ELSE session[c]]
  /\ UNCHANGED committed

Next ==
  \/ \E c \in Clients : Begin(c) \/ Write(c) \/ Read(c) \/ Return(c)
                          \/ Commit(c) \/ Acknowledge(c)
  \/ \E S \in SUBSET Clients : End(S)

Spec == Init /\ [][Next]_oneVars
=============================================================================
