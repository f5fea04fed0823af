-------------------------- MODULE RateLimiterProofs -------------------------
(***************************************************************************)
(* Proofs about RateLimiter, for every limit, window length, number of     *)
(* workers and number of failures.                                         *)
(***************************************************************************)
EXTENDS RateLimiter, TLAPS

\* Division of a time by the window length.
LEMMA DivMod ==
  ASSUME NEW t \in Nat
  PROVE  /\ t \div Window \in Nat /\ t \div Window <= t
         /\ t % Window \in 0 .. Window - 1
         /\ t = Window * (t \div Window) + (t % Window)
  BY LimiterAssumption

\* The end of a window is a natural number of seconds.
LEMMA EndNat == \A w \in Nat : End(w) \in Nat
  BY LimiterAssumption DEF End

\* A clock reading yields a job whose TTL ends exactly with its window.
LEMMA ClockJob ==
  ASSUME NEW t \in 0 .. MaxTime
  PROVE  LET j == [win |-> t \div Window, ttl |-> TtlAt(t), read |-> t]
         IN  j \in Job /\ j.read = t /\ j.read + j.ttl = End(j.win)
<1>1. t \in Nat
  BY LimiterAssumption
<1>2. t \div Window \in Windows
  BY <1>1, DivMod, LimiterAssumption DEF Windows
<1>3. TtlAt(t) \in 1 .. Window
  BY <1>1, DivMod, LimiterAssumption DEF TtlAt
<1>4. End(t \div Window) = t + TtlAt(t)
  BY <1>1, DivMod, LimiterAssumption DEF End, TtlAt
<1> QED
  BY <1>2, <1>3, <1>4 DEF Job

-----------------------------------------------------------------------------
\* The invariant holds initially.
LEMMA IndInvInit == Init => IndInv
<1> SUFFICES ASSUME Init PROVE IndInv
  OBVIOUS
<1>1. TypeOK
  BY LimiterAssumption DEF Init, TypeOK, Late
<1>2. JobsOnTime /\ CounterLifetime
  BY DEF Init, JobsOnTime, CounterLifetime
<1>3. QuotaLedger /\ RefusalLedger
  BY LimiterAssumption DEF Init, QuotaLedger, RefusalLedger
<1> QED
  BY <1>1, <1>2, <1>3 DEF IndInv

\* The script runs for a job whose TTL was exact when the clock was read: the
\* counter it starts outlives its window by the time it has been on its way.
LEMMA ScriptLifetime ==
  ASSUME TypeOK, CounterLifetime, NEW j \in Job, OnTime(j), Script(j),
         now' = now
  PROVE  /\ CounterLifetime'
         /\ count' \in [Windows -> Nat] /\ expires' \in [Windows -> Nat]
         /\ delay' \in [Windows -> Nat]
         /\ count'[j.win] = count[j.win] + 1
         /\ \A w \in Windows \ {j.win} : count'[w] = count[w]
<1>1. /\ j.win \in Windows /\ j.ttl \in 1 .. Window /\ j.read \in Nat
      /\ now \in Nat /\ Window \in Nat
      /\ j.read <= now /\ j.read + j.ttl = End(j.win)
  BY LimiterAssumption DEF Job, TypeOK, OnTime
<1>e. End(j.win) + (now - j.read) = now + j.ttl /\ now - j.read \in Nat
  <2>1. End(j.win) \in Nat
    BY <1>1, EndNat, LimiterAssumption DEF Windows
  <2> QED
    BY <1>1, <2>1
<1>2. /\ count' \in [Windows -> Nat]
      /\ count'[j.win] = count[j.win] + 1
      /\ \A w \in Windows \ {j.win} : count'[w] = count[w]
  BY <1>1 DEF TypeOK, Script
<1>3. /\ expires' \in [Windows -> Nat]
      /\ expires'[j.win] = IF count[j.win] = 0 THEN now + j.ttl
                           ELSE expires[j.win]
      /\ \A w \in Windows \ {j.win} : expires'[w] = expires[w]
  BY <1>1 DEF TypeOK, Script, SetExpiry
<1>d. /\ delay' \in [Windows -> Nat]
      /\ delay'[j.win] = IF count[j.win] = 0 THEN now - j.read
                         ELSE delay[j.win]
      /\ \A w \in Windows \ {j.win} : delay'[w] = delay[w]
  BY <1>1, <1>e DEF TypeOK, Script
<1>4. ASSUME NEW w \in Windows, count'[w] > 0
      PROVE  /\ expires'[w] = End(w) + delay'[w]
             /\ now < expires'[w] /\ expires'[w] <= now + Window
  <2>1. CASE w = j.win /\ count[w] = 0
    BY <1>1, <1>3, <1>d, <1>e, <2>1
  <2>2. CASE w = j.win /\ count[w] # 0
    BY <1>1, <1>3, <1>d, <2>2 DEF CounterLifetime, TypeOK
  <2>3. CASE w # j.win
    BY <1>2, <1>3, <1>d, <1>4, <2>3 DEF CounterLifetime
  <2> QED
    BY <2>1, <2>2, <2>3
<1>5. CounterLifetime'
  BY <1>4 DEF CounterLifetime, End
<1> QED
  BY <1>2, <1>3, <1>5, <1>d

\* Every step preserves the invariant.
LEMMA IndInvStep == IndInv /\ [Next]_vars => IndInv'
<1> SUFFICES ASSUME IndInv, [Next]_vars PROVE IndInv'
  OBVIOUS
<1> USE LimiterAssumption
<1>0. /\ TypeOK /\ JobsOnTime /\ CounterLifetime
      /\ QuotaLedger /\ RefusalLedger
  BY DEF IndInv
<1>a. now \in Nat /\ \A w \in Windows : w \in Nat /\ End(w) \in Nat
  <2>1. now \in Nat /\ Windows \subseteq Nat
    BY <1>0 DEF TypeOK, Windows
  <2> QED
    BY <2>1, EndNat
<1>b. ASSUME UNCHANGED <<now, count, granted, rolled>> PROVE QuotaLedger'
  BY <1>0, <1>b DEF QuotaLedger, End
<1>c. ASSUME UNCHANGED <<count, granted, wasted, refused>> PROVE RefusalLedger'
  BY <1>0, <1>c DEF RefusalLedger
<1>d. ASSUME UNCHANGED <<now, count, expires, delay>> PROVE CounterLifetime'
  BY <1>0, <1>d DEF CounterLifetime, End
<1>1. ASSUME NEW p \in Workers, ReadClock(p) PROVE IndInv'
  <2> DEFINE j == [win |-> now \div Window, ttl |-> TtlAt(now), read |-> now]
  <2>1. j \in Job /\ j.read = now /\ j.read + j.ttl = End(j.win)
    BY <1>0, ClockJob DEF TypeOK
  <2>2. worker' = [worker EXCEPT ![p] = j]
          /\ UNCHANGED <<now, count, expires, late, faults, tallyVars, delay>>
          /\ requests' = requests + 1
    BY <1>1 DEF ReadClock
  <2> HIDE DEF j
  <2>3. TypeOK'
    BY <1>0, <2>1, <2>2 DEF TypeOK, tallyVars
  <2>4. OnTime(j)
    BY <1>a, <2>1 DEF OnTime
  <2>5. JobsOnTime'
    BY <1>0, <2>2, <2>4 DEF JobsOnTime, OnTime, TypeOK, End
  <2> QED
    BY <1>b, <1>c, <1>d, <2>2, <2>3, <2>5 DEF IndInv, tallyVars
<1>2. ASSUME NEW p \in Workers, Eval(p) PROVE IndInv'
  <2> DEFINE j == worker[p]
  <2>1. j \in Job /\ OnTime(j) /\ Script(j) /\ now' = now
    BY <1>0, <1>2 DEF Eval, TypeOK, JobsOnTime
  <2>2. /\ worker' = [worker EXCEPT ![p] = Idle]
        /\ UNCHANGED <<now, late, requests, faults, wasted, rolled>>
    BY <1>2 DEF Eval
  <2>3. IF count[j.win] + 1 <= Limit
        THEN granted' = [granted EXCEPT ![j.win] = @ + 1] /\ refused' = refused
        ELSE refused' = [refused EXCEPT ![j.win] = @ + 1] /\ granted' = granted
    BY <1>2 DEF Eval, Passes
  <2> HIDE DEF j
  <2>4. j.win \in Windows
    BY <2>1 DEF Job
  <2>5. /\ CounterLifetime'
        /\ count' \in [Windows -> Nat] /\ expires' \in [Windows -> Nat]
        /\ delay' \in [Windows -> Nat]
        /\ count'[j.win] = count[j.win] + 1
        /\ \A w \in Windows \ {j.win} : count'[w] = count[w]
    BY <1>0, <2>1, ScriptLifetime
  <2>6. granted' \in [Windows -> Nat] /\ refused' \in [Windows -> Nat]
    BY <1>0, <2>3 DEF TypeOK
  <2>7. TypeOK'
    BY <1>0, <2>2, <2>5, <2>6 DEF TypeOK
  <2>8. JobsOnTime'
    BY <1>0, <2>2 DEF JobsOnTime, OnTime, TypeOK, End
  <2>9. ASSUME NEW w \in Windows, now < End(w)
        PROVE  /\ granted'[w] <= count'[w] + rolled[w]
               /\ granted'[w] <= Limit + rolled[w]
    <3>1. /\ granted[w] <= count[w] + rolled[w]
          /\ granted[w] <= Limit + rolled[w]
          /\ granted[w] \in Nat /\ count[w] \in Nat /\ rolled[w] \in Nat
      BY <1>0, <2>9 DEF QuotaLedger, TypeOK
    <3>2. CASE w # j.win
      BY <1>0, <2>3, <2>5, <3>1, <3>2 DEF TypeOK
    <3>3. CASE w = j.win /\ count[j.win] + 1 <= Limit
      <4>1. granted'[w] = granted[w] + 1
        BY <1>0, <2>3, <3>3 DEF TypeOK
      <4> QED
        BY <2>5, <3>1, <3>3, <4>1
    <3>4. CASE w = j.win /\ ~(count[j.win] + 1 <= Limit)
      BY <2>3, <2>5, <3>1, <3>4
    <3> QED
      BY <3>2, <3>3, <3>4
  <2>10. QuotaLedger'
    BY <2>2, <2>9 DEF QuotaLedger, End
  <2>11. ASSUME NEW w \in Windows
         PROVE  \/ Limit <= granted'[w] + wasted[w]
                \/ refused'[w] = 0 /\ count'[w] <= granted'[w] + wasted[w]
    <3>1. /\ \/ Limit <= granted[w] + wasted[w]
             \/ refused[w] = 0 /\ count[w] <= granted[w] + wasted[w]
          /\ granted[w] \in Nat /\ count[w] \in Nat /\ wasted[w] \in Nat
      BY <1>0 DEF RefusalLedger, TypeOK
    <3>2. CASE w # j.win
      BY <1>0, <2>3, <2>5, <3>1, <3>2 DEF TypeOK
    <3>3. CASE w = j.win /\ count[j.win] + 1 <= Limit
      <4>1. granted'[w] = granted[w] + 1 /\ refused'[w] = refused[w]
        BY <1>0, <2>3, <3>3 DEF TypeOK
      <4> QED
        BY <2>5, <3>1, <3>3, <4>1
    <3>4. CASE w = j.win /\ ~(count[j.win] + 1 <= Limit)
      BY <2>3, <2>5, <3>1, <3>4
    <3> QED
      BY <3>2, <3>3, <3>4
  <2>12. RefusalLedger'
    BY <2>2, <2>11 DEF RefusalLedger
  <2> QED
    BY <2>5, <2>7, <2>8, <2>10, <2>12 DEF IndInv
<1>3. ASSUME NEW p \in Workers, EvalFault(p) PROVE IndInv'
  <2> DEFINE e == [id |-> faults, job |-> worker[p]]
  <2>1. worker[p] \in Job /\ OnTime(worker[p])
    BY <1>0, <1>3 DEF EvalFault, TypeOK, JobsOnTime
  <2>2. /\ worker' \in {worker, [worker EXCEPT ![p] = Idle]}
        /\ late' \in {late, late \cup {e}}
        /\ faults' = faults + 1
        /\ UNCHANGED <<now, count, expires, requests, tallyVars, delay>>
    BY <1>3 DEF EvalFault
  <2>3. e \in Late /\ e.job = worker[p]
    BY <1>0, <2>1 DEF TypeOK, Late
  <2> HIDE DEF e
  <2>4. TypeOK'
    BY <1>0, <2>2, <2>3 DEF TypeOK, tallyVars
  <2>5. JobsOnTime'
    BY <1>0, <2>1, <2>2, <2>3 DEF JobsOnTime, OnTime, TypeOK, End
  <2> QED
    BY <1>b, <1>c, <1>d, <2>2, <2>4, <2>5 DEF IndInv, tallyVars
<1>4. ASSUME NEW e \in late, LateEval(e) PROVE IndInv'
  <2> DEFINE j == e.job
  <2>1. /\ j \in Job /\ OnTime(j) /\ Script(j)
        /\ late' = late \ {e}
        /\ wasted' = [wasted EXCEPT ![j.win] = @ + 1]
        /\ UNCHANGED <<now, worker, requests, faults, granted, refused, rolled>>
    BY <1>0, <1>4 DEF LateEval, TypeOK, Late, JobsOnTime
  <2> HIDE DEF j
  <2>2. j.win \in Windows
    BY <2>1 DEF Job
  <2>3. /\ CounterLifetime'
        /\ count' \in [Windows -> Nat] /\ expires' \in [Windows -> Nat]
        /\ delay' \in [Windows -> Nat]
        /\ count'[j.win] = count[j.win] + 1
        /\ \A w \in Windows \ {j.win} : count'[w] = count[w]
    BY <1>0, <2>1, ScriptLifetime
  <2>4. /\ wasted' \in [Windows -> Nat] /\ wasted'[j.win] = wasted[j.win] + 1
        /\ \A w \in Windows \ {j.win} : wasted'[w] = wasted[w]
    BY <1>0, <2>1, <2>2 DEF TypeOK
  <2>5. TypeOK'
    BY <1>0, <2>1, <2>3, <2>4 DEF TypeOK
  <2>6. JobsOnTime'
    BY <1>0, <2>1 DEF JobsOnTime, OnTime, End
  <2>7. QuotaLedger'
    BY <1>0, <2>1, <2>3 DEF QuotaLedger, TypeOK, End
  <2>8. RefusalLedger'
    BY <1>0, <2>1, <2>3, <2>4 DEF RefusalLedger, TypeOK
  <2> QED
    BY <2>3, <2>5, <2>6, <2>7, <2>8 DEF IndInv
<1>5. ASSUME NEW w \in Windows, Failover(w) PROVE IndInv'
  <2>1. PICK c \in 0 .. count[w] :
          /\ c < count[w]
          /\ count' = [count EXCEPT ![w] = c]
          /\ rolled' = [rolled EXCEPT ![w] = @ + (count[w] - c)]
    BY <1>5 DEF Failover
  <2>2. UNCHANGED <<now, expires, worker, late, requests, granted, refused,
                    wasted, delay>> /\ faults' = faults + 1
    BY <1>5 DEF Failover
  <2>3. /\ count[w] \in Nat /\ c \in Nat
        /\ count' \in [Windows -> Nat] /\ count'[w] = c
        /\ \A v \in Windows \ {w} : count'[v] = count[v]
    BY <1>0, <2>1 DEF TypeOK
  <2>4. /\ rolled' \in [Windows -> Nat]
        /\ rolled'[w] = rolled[w] + (count[w] - c)
        /\ \A v \in Windows \ {w} : rolled'[v] = rolled[v]
    BY <1>0, <2>1, <2>3 DEF TypeOK
  <2>5. TypeOK'
    BY <1>0, <2>2, <2>3, <2>4 DEF TypeOK
  <2>6. JobsOnTime' /\ CounterLifetime'
    BY <1>0, <2>1, <2>2, <2>3 DEF JobsOnTime, OnTime, CounterLifetime, TypeOK, End
  <2>7. QuotaLedger'
    BY <1>0, <2>1, <2>2, <2>3, <2>4 DEF QuotaLedger, TypeOK, End
  <2>8. RefusalLedger'
    BY <1>0, <2>1, <2>2, <2>3 DEF RefusalLedger, TypeOK
  <2> QED
    BY <2>5, <2>6, <2>7, <2>8 DEF IndInv
<1>6. CASE Tick
  <2>1. /\ now' = now + 1 /\ now < MaxTime
        /\ UNCHANGED <<expires, worker, late, requests, faults, tallyVars, delay>>
    BY <1>6 DEF Tick
  <2>2. /\ count' \in [Windows -> Nat]
        /\ \A w \in Windows :
             count'[w] = IF expires[w] <= now + 1 THEN 0 ELSE count[w]
    BY <1>0, <1>6 DEF Tick, TypeOK
  <2>3. TypeOK'
    BY <1>0, <2>1, <2>2 DEF TypeOK, tallyVars
  <2>4. JobsOnTime'
    <3>1. ASSUME NEW k, k.read \in Nat, OnTime(k)
          PROVE  k.read <= now' /\ k.read + k.ttl = End(k.win)
      BY <1>a, <2>1, <3>1 DEF OnTime
    <3>2. /\ \A p \in Workers : worker[p] # Idle => worker[p].read \in Nat
          /\ \A e \in late : e.job.read \in Nat
      BY <1>0 DEF TypeOK, Late, Job
    <3>3. /\ \A p \in Workers : worker[p] # Idle => OnTime(worker[p])
          /\ \A e \in late : OnTime(e.job)
      BY <1>0 DEF JobsOnTime
    <3> QED
      BY <2>1, <3>1, <3>2, <3>3 DEF JobsOnTime, OnTime, End
  <2>5. ASSUME NEW w \in Windows, count'[w] > 0
        PROVE  /\ expires[w] = End(w) + delay[w]
               /\ now' < expires[w] /\ expires[w] <= now' + Window
    BY <1>0, <1>a, <2>1, <2>2, <2>5 DEF CounterLifetime, TypeOK
  <2>6. CounterLifetime'
    BY <2>1, <2>5 DEF CounterLifetime, End
  <2>7. ASSUME NEW w \in Windows, now' < End(w)
        PROVE  count'[w] = count[w]
    BY <1>0, <1>a, <2>1, <2>2, <2>7 DEF CounterLifetime, TypeOK
  <2>8. ASSUME NEW w \in Windows, now' < End(w)
        PROVE  /\ granted[w] <= count'[w] + rolled[w]
               /\ granted[w] <= Limit + rolled[w]
    BY <1>0, <1>a, <2>1, <2>7, <2>8 DEF QuotaLedger
  <2>9. QuotaLedger'
    BY <2>1, <2>8 DEF QuotaLedger, End, tallyVars
  <2>10. RefusalLedger'
    BY <1>0, <2>1, <2>2 DEF RefusalLedger, TypeOK, tallyVars
  <2> QED
    BY <2>3, <2>4, <2>6, <2>9, <2>10 DEF IndInv
<1>7. CASE UNCHANGED vars
  <2>1. TypeOK' /\ JobsOnTime'
    BY <1>0, <1>7 DEF vars, limiterVars, tallyVars, TypeOK, JobsOnTime, OnTime,
                      End
  <2> QED
    BY <1>7, <1>b, <1>c, <1>d, <2>1 DEF IndInv, vars, limiterVars, tallyVars
<1> QED
  BY <1>1, <1>2, <1>3, <1>4, <1>5, <1>6, <1>7 DEF Next

\* Every state the limiter reaches satisfies the inductive invariant.
THEOREM Invariance == Spec => []IndInv
  BY IndInvInit, IndInvStep, PTL DEF Spec

\* Counters, TTLs and clock keep their types: in particular no script that
\* waits or runs late carries a TTL outside 1..Window.
THEOREM TypeCorrect == Spec => []TypeOK
<1>1. IndInv => TypeOK
  BY DEF IndInv
<1> QED
  BY <1>1, Invariance, PTL

\* While a window lasts, all replicas together let no more than Limit
\* requests of it through, but for what failovers rolled back.
THEOREM QuotaHolds == Spec => []WindowQuota
<1>1. IndInv => WindowQuota
  BY DEF IndInv, QuotaLedger, WindowQuota
<1> QED
  BY <1>1, Invariance, PTL

\* A 429 is only answered once the window's quota has been used up.
THEOREM RefusalsJustified == Spec => []NoFalseRefusal
<1>1. IndInv => NoFalseRefusal
  BY LimiterAssumption
  DEF IndInv, TypeOK, RefusalLedger, NoFalseRefusal
<1> QED
  BY <1>1, Invariance, PTL

\* A counter is dropped at the end of its window, later only by as long as
\* the script that started it was on its way after the clock was read.
THEOREM CountersExpire == Spec => []CounterLifetime
<1>1. IndInv => CounterLifetime
  BY DEF IndInv
<1> QED
  BY <1>1, Invariance, PTL
=============================================================================
