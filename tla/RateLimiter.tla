----------------------------- MODULE RateLimiter ----------------------------
(***************************************************************************)
(* The shared fixed-window limiter: RedisRateLimiter.allow_request of      *)
(* apps/gateway/services.py, for one rate key (an Application, or a        *)
(* registration or login key of apps/client_auth/views.py).                *)
(*                                                                         *)
(* A worker reads the clock, derives the window's counter key and TTL, and *)
(* then has Redis run the script; time passes between the two.  The eval   *)
(* may fail for the worker (answered 503) and still run, then or later;    *)
(* the cluster client may send it again.  A failover promotes a replica    *)
(* that lags: a counter rolls back.                                        *)
(*                                                                         *)
(* Gateway replicas and Redis share one clock (one Docker host).           *)
(***************************************************************************)
EXTENDS Integers

CONSTANTS
  Workers,       \* requests in progress, over all gateway replicas
  Limit,         \* requests allowed per window
  Window,        \* window_seconds
  MaxTime,       \* bound: seconds modelled
  MaxRequests,   \* bound: requests made in a behaviour
  MaxFaults      \* bound: failed evals and failovers

ASSUME LimiterAssumption ==
  /\ Limit \in Nat
  /\ Window \in Nat \ {0}
  /\ MaxTime \in Nat /\ MaxRequests \in Nat /\ MaxFaults \in Nat

VARIABLES
  now,           \* seconds
  count,         \* per window: the Redis counter; 0 when the key is absent
  expires,       \* per window: when Redis drops the key
  worker,        \* per worker: idle, or about to eval for a window
  late,          \* evals in flight that no worker waits for
  requests,      \* requests made so far
  faults,        \* failures so far
  granted,       \* history, per window: requests let through
  refused,       \* history, per window: requests answered 429
  wasted,        \* history, per window: evals that ran for nobody
  rolled,        \* history, per window: increments a failover lost
  delay          \* history, per window: how long after its request read the
                 \* clock the script ran that started the counter

limiterVars == <<now, count, expires, worker, late, requests, faults>>
tallyVars == <<granted, refused, wasted, rolled>>
vars == <<limiterVars, tallyVars, delay>>

Windows == 0 .. MaxTime

\* The first second after window w.
End(w) == Window * w + Window

\* The arguments of a script, and, for the history, when the clock was read.
Job == [win : Windows, ttl : 1 .. Window, read : 0 .. MaxTime]
Idle == [win |-> 0, ttl |-> 0, read |-> 0]

Init ==
  /\ now = 0
  /\ count = [w \in Windows |-> 0]
  /\ expires = [w \in Windows |-> 0]
  /\ worker = [p \in Workers |-> Idle]
  /\ late = {}
  /\ requests = 0
  /\ faults = 0
  /\ granted = [w \in Windows |-> 0]
  /\ refused = [w \in Windows |-> 0]
  /\ wasted = [w \in Windows |-> 0]
  /\ rolled = [w \in Windows |-> 0]
  /\ delay = [w \in Windows |-> 0]

-----------------------------------------------------------------------------
(* The script, atomic in Redis.                                            *)

\* Mutant of SetExpiry: EXPIRE on every request but the first.
SetExpiryLate(j) ==
  expires' = IF count[j.win] # 0 THEN [expires EXCEPT ![j.win] = now + j.ttl]
             ELSE expires

\* EXPIRE only when INCR returned 1.
SetExpiry(j) ==
  expires' = IF count[j.win] = 0 THEN [expires EXCEPT ![j.win] = now + j.ttl]
             ELSE expires

Script(j) ==
  /\ count' = [count EXCEPT ![j.win] = @ + 1]
  /\ SetExpiry(j)
  /\ delay' = IF count[j.win] = 0 THEN [delay EXCEPT ![j.win] = now - j.read]
              ELSE delay

\* Mutant of Passes: the count before INCR is compared.
PassesBeforeIncr(j) == count[j.win] <= Limit

\* Mutant of Passes: the limit itself is refused.
PassesBelow(j) == count[j.win] + 1 < Limit

Passes(j) == count[j.win] + 1 <= Limit

-----------------------------------------------------------------------------
(* allow_request, one request at a time per worker.                        *)

\* Mutant of TtlAt: the part of the window that has passed.
TtlElapsed(t) == t % Window

\* ttl_seconds: what is left of the window, at least one second.
TtlAt(t) == Window - (t % Window)

\* now = int(time.time()), window_key and ttl_seconds.
ReadClock(p) ==
  /\ worker[p] = Idle
  /\ requests < MaxRequests
  /\ requests' = requests + 1
  /\ worker' = [worker EXCEPT ![p] = [win |-> now \div Window,
                                      ttl |-> TtlAt(now), read |-> now]]
  /\ UNCHANGED <<now, count, expires, late, faults, tallyVars, delay>>

\* eval answered: 1 lets the request through, 0 is a 429.
Eval(p) ==
  LET j == worker[p] IN
  /\ j # Idle
  /\ Script(j)
  /\ worker' = [worker EXCEPT ![p] = Idle]
  /\ IF Passes(j)
     THEN granted' = [granted EXCEPT ![j.win] = @ + 1] /\ UNCHANGED refused
     ELSE refused' = [refused EXCEPT ![j.win] = @ + 1] /\ UNCHANGED granted
  /\ UNCHANGED <<now, late, requests, faults, wasted, rolled>>

\* RedisError or OSError: RateLimitBackendUnavailable, a 503; or the cluster
\* client sends the script again.  The script may have been received.
EvalFault(p) ==
  /\ worker[p] # Idle
  /\ faults < MaxFaults
  /\ faults' = faults + 1
  /\ \/ worker' = [worker EXCEPT ![p] = Idle]
     \/ UNCHANGED worker
  /\ \/ late' = late \cup {[id |-> faults, job |-> worker[p]]}
     \/ UNCHANGED late
  /\ UNCHANGED <<now, count, expires, requests, tallyVars, delay>>

LateEval(e) ==
  /\ e \in late
  /\ late' = late \ {e}
  /\ Script(e.job)
  /\ wasted' = [wasted EXCEPT ![e.job.win] = @ + 1]
  /\ UNCHANGED <<now, worker, requests, faults, granted, refused, rolled>>

-----------------------------------------------------------------------------
(* Redis and time.                                                         *)

\* A second passes; Redis drops the keys whose TTL has run out.
Tick ==
  /\ now < MaxTime
  /\ now' = now + 1
  /\ count' = [w \in Windows |-> IF expires[w] <= now + 1 THEN 0 ELSE count[w]]
  /\ UNCHANGED <<expires, worker, late, requests, faults, tallyVars, delay>>

\* A replica that has not seen the last increments becomes primary.
Failover(w) ==
  /\ faults < MaxFaults
  /\ faults' = faults + 1
  /\ \E c \in 0 .. count[w] :
       /\ c < count[w]
       /\ count' = [count EXCEPT ![w] = c]
       /\ rolled' = [rolled EXCEPT ![w] = @ + (count[w] - c)]
  /\ UNCHANGED <<now, expires, worker, late, requests, granted, refused,
                 wasted, delay>>

Next ==
  \/ \E p \in Workers : ReadClock(p) \/ Eval(p) \/ EvalFault(p)
  \/ \E e \in late : LateEval(e)
  \/ \E w \in Windows : Failover(w)
  \/ Tick

Spec == Init /\ [][Next]_vars

-----------------------------------------------------------------------------
(* Properties.                                                             *)

Late == [id : Nat, job : Job]

\* Every variable keeps its type; a TTL is between 1 and Window seconds.
TypeOK ==
  /\ now \in 0 .. MaxTime
  /\ count \in [Windows -> Nat]
  /\ expires \in [Windows -> Nat]
  /\ worker \in [Workers -> Job \cup {Idle}]
  /\ late \subseteq Late
  /\ requests \in Nat
  /\ faults \in Nat
  /\ granted \in [Windows -> Nat]
  /\ refused \in [Windows -> Nat]
  /\ wasted \in [Windows -> Nat]
  /\ rolled \in [Windows -> Nat]
  /\ delay \in [Windows -> Nat]

\* As long as a window lasts, no more requests of it are let through than
\* the limit and what failovers rolled back, over all replicas.
WindowQuota ==
  \A w \in Windows : now < End(w) => granted[w] <= Limit + rolled[w]

\* A request is refused only when the window's quota is really used up, by
\* requests let through or by evals that failed after they were counted.
NoFalseRefusal ==
  \A w \in Windows : refused[w] > 0 => granted[w] + wasted[w] >= Limit

\* Redis drops a counter at the end of its window, later only by the time
\* that the script which started it was on its way: never early, and at the
\* window boundary exactly if that script ran in the second its request read
\* the clock.  A straggler may start one long after its window, but not for
\* more than Window seconds (EXPIRE with a TTL computed before the eval).
CounterLifetime ==
  \A w \in Windows : count[w] > 0 =>
    /\ expires[w] = End(w) + delay[w]
    /\ now < expires[w] /\ expires[w] <= now + Window

-----------------------------------------------------------------------------
(* Why the properties hold, as an inductive invariant.                     *)

\* The TTL of a script that has yet to run reaches from when the clock was
\* read to the end of the window it counts for.
OnTime(j) == j.read <= now /\ j.read + j.ttl = End(j.win)

JobsOnTime ==
  /\ \A p \in Workers : worker[p] # Idle => OnTime(worker[p])
  /\ \A e \in late : OnTime(e.job)

\* While a window lasts its counter accounts for every request let through.
QuotaLedger ==
  \A w \in Windows : now < End(w) =>
    granted[w] <= count[w] + rolled[w] /\ granted[w] <= Limit + rolled[w]

\* Until the first refusal the counter counts nothing else.
RefusalLedger ==
  \A w \in Windows :
    \/ Limit <= granted[w] + wasted[w]
    \/ refused[w] = 0 /\ count[w] <= granted[w] + wasted[w]

\* The ledgers balance because counters outlast their windows, which they
\* do because every script on its way sets a long enough TTL.
IndInv ==
  TypeOK /\ JobsOnTime /\ CounterLifetime /\ QuotaLedger /\ RefusalLedger
=============================================================================
