--------------------------- MODULE GatewayProofs ---------------------------
(***************************************************************************)
(* Proofs about MonthlyQuota and about Gateway, which extends it.  First   *)
(* the quota on its own: a month is capped until its last second and       *)
(* counted by at most two counters, for every limit, length of a second    *)
(* and of a month, time to live, number of requests and of months.  Then   *)
(* the gateway: it asks the quota as MonthlyQuota does, so that those      *)
(* theorems hold of it, and what every request is known to have passed at  *)
(* every stage, for any policies, paths and settings of the payment gate.  *)
(***************************************************************************)
EXTENDS Gateway, AllowlistProofs

-----------------------------------------------------------------------------
(* Arithmetic. *)

\* The provers take products of two variables one at a time: they are naturals,
LEMMA ProductNat == ASSUME NEW a \in Nat, NEW b \in Nat PROVE a * b \in Nat
OBVIOUS

\* monotone in either factor,
LEMMA Monotone ==
    ASSUME NEW a \in Nat, NEW b \in Nat, NEW r \in Nat, a <= b
    PROVE  a * r <= b * r
<1>1. PICK d \in Nat : b = a + d
  <2>1. b - a \in Nat /\ b = a + (b - a)
    OBVIOUS
  <2> QED BY <2>1
<1>2. b * r = (a * r) + (d * r)
  BY <1>1
<1>3. d * r \in Nat /\ a * r \in Nat
  BY ProductNat
<1> QED BY <1>1, <1>2, <1>3

\* and divide with a remainder below the divisor.
LEMMA Division ==
    ASSUME NEW t \in Nat, NEW d \in Nat \ {0}
    PROVE  /\ (t \div d) \in Nat
           /\ (t \div d) * d <= t /\ t < ((t \div d) + 1) * d
<1>1. (t \div d) \in Nat /\ d * (t \div d) <= t /\ t < (d * (t \div d)) + d
  OBVIOUS
<1>2. ((t \div d) + 1) * d = (d * (t \div d)) + d /\ (t \div d) * d = d * (t \div d)
  BY <1>1
<1> QED BY <1>1, <1>2

LEMMA Constants ==
    /\ Second \in Nat /\ Second >= 1 /\ Month \in Nat \ {0}
    /\ MinTtl \in Nat /\ Limit \in Nat /\ MaxDelay \in Nat
    /\ Months \in Nat /\ Months >= 1
    /\ MinTtl * Second \in Nat /\ MaxDelay + Second <= (MinTtl * Second) + 1
    /\ Months * Month \in Nat /\ Months * Month >= 1
<1>1. Months * Month >= 1
  BY QuotaAssumption, Monotone
<1> QED BY <1>1, QuotaAssumption, ProductNat

-----------------------------------------------------------------------------
(* Months. *)

StartOf(m) == m * Month

LEMMA EndOfType ==
    ASSUME NEW m \in Nat
    PROVE  /\ EndOf(m) \in Nat /\ StartOf(m) \in Nat
           /\ StartOf(m) < EndOf(m)
<1>1. EndOf(m) = StartOf(m) + Month
  BY Constants DEF EndOf, StartOf
<1> QED BY <1>1, Constants, ProductNat DEF StartOf

\* Every instant of the run falls in one of its months.
LEMMA MonthOfClock ==
    ASSUME NEW t \in 0..(Months * Month - 1)
    PROVE  /\ MonthAt(t) \in MonthIds
           /\ StartOf(MonthAt(t)) <= t /\ t < EndOf(MonthAt(t))
<1>1. MonthAt(t) \in Nat /\ StartOf(MonthAt(t)) <= t /\ t < EndOf(MonthAt(t))
  BY Constants, Division DEF MonthAt, StartOf, EndOf
<1>2. MonthAt(t) < Months
  <2>1. SUFFICES ASSUME Months <= MonthAt(t) PROVE FALSE
    BY <1>1, Constants
  <2>2. Months * Month <= MonthAt(t) * Month
    BY <1>1, <2>1, Constants, Monotone
  <2> QED BY <1>1, <2>2, Constants, EndOfType DEF StartOf
<1> QED BY <1>1, <1>2, Constants DEF MonthIds

\* seconds_until_next_month_utc at an instant t no earlier than the start of month m
\* (limits/mod.rs 20-38): a key set then outlives all of m but its last second.
LEMMA TtlCoversMonth ==
    ASSUME NEW t \in 0..(Months * Month - 1), NEW m \in MonthIds, StartOf(m) <= t
    PROVE  /\ SecondsUntilNextMonth(t) \in Nat
           /\ SecondsUntilNextMonth(t) * Second \in Nat
           /\ MinTtl * Second <= SecondsUntilNextMonth(t) * Second
           /\ t + (SecondsUntilNextMonth(t) * Second) > EndOf(m) - Second
<1> DEFINE whole == (EndOf(MonthAt(t)) - t) \div Second
<1>1. /\ t \in Nat /\ m \in Nat /\ MonthAt(t) \in Nat
      /\ EndOf(MonthAt(t)) \in Nat /\ t < EndOf(MonthAt(t)) /\ EndOf(m) \in Nat
  BY Constants, MonthOfClock, EndOfType DEF MonthIds
<1>2. whole \in Nat /\ EndOf(MonthAt(t)) - t < (whole + 1) * Second
  <2>1. EndOf(MonthAt(t)) - t \in Nat
    BY <1>1
  <2> QED BY <2>1, Division, Constants
<1>3. EndOf(m) <= EndOf(MonthAt(t))
  <2>1. SUFFICES ASSUME MonthAt(t) < m PROVE FALSE
    <3>1. CASE MonthAt(t) < m
      BY <2>1, <3>1
    <3>2. CASE m <= MonthAt(t)
      BY <1>1, <3>2, Monotone, Constants DEF EndOf
    <3> QED BY <1>1, <3>1, <3>2
  <2>2. (MonthAt(t) + 1) * Month <= m * Month
    BY <1>1, <2>1, Monotone, Constants
  <2> QED BY <1>1, <2>2, EndOfType DEF EndOf, StartOf
<1>4. PICK s \in Nat : s = whole * Second
  BY <1>2, Constants, ProductNat
<1>5. (whole + 1) * Second = s + Second
  BY <1>2, <1>4, Constants
<1>6. t + s > EndOf(m) - Second
  BY <1>1, <1>2, <1>3, <1>5, Constants
<1>7. CASE whole >= MinTtl
  <2>1. SecondsUntilNextMonth(t) = whole
    BY <1>7 DEF SecondsUntilNextMonth
  <2>2. MinTtl * Second <= whole * Second
    BY <1>2, <1>7, Constants, Monotone
  <2> QED BY <1>2, <1>4, <1>6, <2>1, <2>2
<1>8. CASE whole < MinTtl
  <2>1. SecondsUntilNextMonth(t) = MinTtl
    BY <1>2, <1>8, Constants DEF SecondsUntilNextMonth
  <2>2. whole * Second <= MinTtl * Second
    BY <1>2, <1>8, Constants, Monotone
  <2> QED BY <1>1, <1>4, <1>6, <2>1, <2>2, Constants
<1> QED BY <1>2, <1>7, <1>8, Constants

-----------------------------------------------------------------------------
(* The inductive invariant. *)

\* A call names the month it began in, runs no later than the TimeoutLayer allows,
\* and brings a time to live that reaches the last second of its month.
CallOK(p) ==
    call[p].step # "idle" =>
        /\ StartOf(call[p].month) <= call[p].readAt
        /\ call[p].readAt < EndOf(call[p].month)
        /\ call[p].readAt <= clock /\ clock <= call[p].readAt + MaxDelay
        /\ call[p].step = "script" =>
             /\ MinTtl * Second <= call[p].ttl * Second
             /\ clock + (call[p].ttl * Second) > EndOf(call[p].month) - Second

\* The counter of a month is its first, which has counted everything, or its second,
\* which outlives every call that could still start a third.
CounterOK(m) ==
    /\ counter[m].used > 0 => counter[m].expiresAt > EndOf(m) - Second
    /\ counter[m].used = 0 => allowed[m] = 0
    /\ early[m] <= allowed[m] /\ early[m] <= Limit
    /\ counter[m].used <= allowed[m]
    /\ \/ allowed[m] = counter[m].used
       \/ /\ allowed[m] <= Limit + counter[m].used
          /\ counter[m].expiresAt >= EndOf(m) + MaxDelay
          /\ clock > EndOf(m) - Second

QuotaInv ==
    /\ QuotaTypeOK
    /\ \A p \in Slots : CallOK(p)
    /\ \A m \in MonthIds : CounterOK(m)

LEMMA QuotaInitInv == QuotaInit => QuotaInv
<1> SUFFICES ASSUME QuotaInit PROVE QuotaInv
  OBVIOUS
<1>1. QuotaTypeOK
  <2>1. 0 \in MonthIds /\ 0 \in 0..(Months * Month - 1)
    BY Constants DEF MonthIds
  <2> QED BY <2>1, Constants DEF QuotaInit, QuotaTypeOK, NoCall, NoKey
<1>2. \A p \in Slots : CallOK(p)
  BY DEF QuotaInit, CallOK, NoCall
<1>3. \A m \in MonthIds : CounterOK(m)
  BY Constants DEF QuotaInit, CounterOK, NoKey
<1> QED BY <1>1, <1>2, <1>3 DEF QuotaInv

-----------------------------------------------------------------------------
(* One lemma for each kind of step. *)

\* A call moves on or ends, and nothing is counted.
LEMMA CallMoves ==
    ASSUME QuotaInv, NEW p \in Slots,
           NEW c \in [step : {"idle", "month", "script"}, month : MonthIds,
                      ttl : Nat, readAt : Nat],
           call' = [call EXCEPT ![p] = c], CallOK(p)',
           UNCHANGED <<clock, counter, allowed, early>>
    PROVE  QuotaInv'
<1>1. QuotaTypeOK'
  BY DEF QuotaInv, QuotaTypeOK
<1>2. \A q \in Slots : CallOK(q)'
  <2> TAKE q \in Slots
  <2>1. CASE q = p
    BY <2>1
  <2>2. CASE q # p
    <3>1. call'[q] = call[q]
      BY <2>2 DEF QuotaInv, QuotaTypeOK
    <3> QED BY <3>1 DEF QuotaInv, CallOK
  <2> QED BY <2>1, <2>2
<1>3. \A m \in MonthIds : CounterOK(m)'
  BY DEF QuotaInv, CounterOK
<1> QED BY <1>1, <1>2, <1>3 DEF QuotaInv

LEMMA NoCallType ==
    /\ NoCall \in [step : {"idle", "month", "script"}, month : MonthIds,
                    ttl : Nat, readAt : Nat]
    /\ NoCall.step = "idle"
BY Constants DEF NoCall, MonthIds

LEMMA ReadMonthKeeps ==
    ASSUME QuotaInv, NEW p \in Slots, ReadMonth(p) PROVE QuotaInv'
<1> DEFINE c == [step |-> "month", month |-> MonthAt(clock), ttl |-> 0, readAt |-> clock]
<1>1. clock \in 0..(Months * Month - 1) /\ call \in [Slots -> [step : {"idle", "month", "script"},
        month : MonthIds, ttl : Nat, readAt : Nat]]
  BY DEF QuotaInv, QuotaTypeOK
<1>2. /\ MonthAt(clock) \in MonthIds
      /\ StartOf(MonthAt(clock)) <= clock /\ clock < EndOf(MonthAt(clock))
  BY <1>1, MonthOfClock
<1>3. call' = [call EXCEPT ![p] = c] /\ UNCHANGED <<clock, counter, allowed, early>>
  BY DEF ReadMonth
<1>4. call'[p] = c /\ clock' = clock
  BY <1>1, <1>3
<1>5. CallOK(p)'
  BY <1>1, <1>2, <1>4, Constants DEF CallOK
<1>6. c \in [step : {"idle", "month", "script"}, month : MonthIds, ttl : Nat, readAt : Nat]
  BY <1>1, <1>2, Constants
<1> QED BY <1>3, <1>5, <1>6, CallMoves

LEMMA ReadTtlKeeps ==
    ASSUME QuotaInv, NEW p \in Slots, ReadTtl(p) PROVE QuotaInv'
<1> DEFINE c == [call[p] EXCEPT !.step = "script", !.ttl = SecondsUntilNextMonth(clock)]
<1>1. /\ clock \in 0..(Months * Month - 1)
      /\ call \in [Slots -> [step : {"idle", "month", "script"}, month : MonthIds,
                             ttl : Nat, readAt : Nat]]
      /\ CallOK(p) /\ call[p].step = "month"
  BY DEF QuotaInv, QuotaTypeOK, ReadTtl
<1>2. StartOf(call[p].month) <= clock
  <2>1. call[p].month \in Nat /\ call[p].readAt \in Nat /\ clock \in Nat
    BY <1>1, Constants DEF MonthIds
  <2> QED BY <1>1, <2>1, EndOfType DEF CallOK
<1>3. /\ SecondsUntilNextMonth(clock) \in Nat
      /\ MinTtl * Second <= SecondsUntilNextMonth(clock) * Second
      /\ clock + (SecondsUntilNextMonth(clock) * Second) > EndOf(call[p].month) - Second
  BY <1>1, <1>2, TtlCoversMonth
<1>4. call' = [call EXCEPT ![p] = c] /\ UNCHANGED <<clock, counter, allowed, early>>
  BY DEF ReadTtl
<1>5. c \in [step : {"idle", "month", "script"}, month : MonthIds, ttl : Nat, readAt : Nat]
  BY <1>1, <1>3
<1>6. /\ call'[p].month = call[p].month /\ call'[p].readAt = call[p].readAt
      /\ call'[p].ttl = SecondsUntilNextMonth(clock) /\ clock' = clock
  BY <1>1, <1>4
<1>7. CallOK(p)'
  BY <1>1, <1>3, <1>6 DEF CallOK
<1> QED BY <1>4, <1>5, <1>7, CallMoves

LEMMA EndsKeep ==
    ASSUME QuotaInv, NEW p \in Slots, Deny(p) \/ Forget(p) PROVE QuotaInv'
<1>1. call' = [call EXCEPT ![p] = NoCall] /\ UNCHANGED <<clock, counter, allowed, early>>
  BY DEF Deny, Forget
<1>2. CallOK(p)'
  BY <1>1, NoCallType DEF CallOK, QuotaInv, QuotaTypeOK
<1> QED BY <1>1, <1>2, NoCallType, CallMoves

\* Tick moves the clock only while no call is as old as the TimeoutLayer allows.
LEMMA TickKeeps == ASSUME QuotaInv, Tick PROVE QuotaInv'
<1>1. /\ clock \in 0..(Months * Month - 1) /\ clock < Months * Month - 1
      /\ clock' = clock + 1 /\ UNCHANGED <<counter, call, allowed, early>>
  BY DEF QuotaInv, QuotaTypeOK, Tick
<1>2. QuotaTypeOK'
  BY <1>1, Constants DEF QuotaInv, QuotaTypeOK
<1>3. \A p \in Slots : CallOK(p)'
  <2> TAKE p \in Slots
  <2>1. /\ CallOK(p) /\ call[p].month \in Nat /\ call[p].ttl \in Nat /\ call[p].readAt \in Nat
        /\ call[p].step # "idle" => clock - call[p].readAt < MaxDelay
    BY Constants DEF QuotaInv, QuotaTypeOK, MonthIds, Tick
  <2>2. EndOf(call[p].month) \in Nat /\ call[p].ttl * Second \in Nat
    BY <2>1, EndOfType, ProductNat, Constants
  <2> QED BY <1>1, <2>1, <2>2, Constants DEF CallOK
<1>4. \A m \in MonthIds : CounterOK(m)'
  <2> TAKE m \in MonthIds
  <2>1. CounterOK(m) /\ EndOf(m) \in Nat
    BY EndOfType, Constants DEF QuotaInv, MonthIds
  <2> QED BY <1>1, <2>1, Constants DEF CounterOK
<1> QED BY <1>2, <1>3, <1>4 DEF QuotaInv

\* What the script finds: the count of a month that has begun under a counter still
\* alive, or nothing, and then the month's last second has come.
LEMMA CurrentOfMonth ==
    ASSUME QuotaInv, NEW m \in MonthIds
    PROVE  /\ Current(m) \in 0..Limit
           /\ Current(m) = counter[m].used \/ (Current(m) = 0 /\ clock >= counter[m].expiresAt)
           /\ clock <= EndOf(m) - Second => Current(m) = counter[m].used
<1>1. /\ counter[m].used \in 0..Limit /\ counter[m].expiresAt \in Nat
      /\ clock \in 0..(Months * Month - 1) /\ CounterOK(m)
  BY DEF QuotaInv, QuotaTypeOK
<1>2. EndOf(m) \in Nat /\ clock \in Nat
  BY <1>1, EndOfType, Constants DEF MonthIds
<1> QED BY <1>1, <1>2, Constants DEF Current, CounterOK

\* The script counts a request of month m that was due to run by now.
LEMMA AllowKeepsCounter ==
    ASSUME QuotaInv, NEW p \in Slots, Allow(p), NEW m \in MonthIds, m = call[p].month
    PROVE  CounterOK(m)' /\ counter'[m].expiresAt \in Nat
<1> DEFINE n == counter[m]
<1>1. /\ m \in MonthIds /\ m \in Nat /\ clock \in Nat /\ call[p].readAt \in Nat
      /\ n.used \in 0..Limit /\ n.expiresAt \in Nat
      /\ allowed[m] \in Nat /\ early[m] \in Nat
      /\ CounterOK(m) /\ CallOK(p) /\ call[p].ttl \in Nat
  BY Constants DEF QuotaInv, QuotaTypeOK, MonthIds
<1>2. EndOf(m) \in Nat
  BY <1>1, EndOfType
<1>3. PICK life \in Nat : life = call[p].ttl * Second
  BY <1>1, Constants, ProductNat
<1>4. PICK least \in Nat : least = MinTtl * Second /\ MaxDelay + Second <= least + 1
  BY Constants
<1>5. /\ clock <= call[p].readAt + MaxDelay /\ call[p].readAt < EndOf(m)
      /\ least <= life /\ clock + life > EndOf(m) - Second
  BY <1>1, <1>3, <1>4 DEF CallOK, Allow
<1>6. PICK cur \in 0..Limit :
        /\ cur = Current(m) /\ cur < Limit
        /\ cur = n.used \/ (cur = 0 /\ clock >= n.expiresAt)
        /\ clock <= EndOf(m) - Second => cur = n.used
  BY <1>1, CurrentOfMonth, Constants DEF Allow, UnderLimit
<1>7. /\ counter'[m] = [used |-> cur + 1,
                        expiresAt |-> IF cur = 0 THEN clock + life ELSE n.expiresAt]
      /\ allowed'[m] = allowed[m] + 1
      /\ early'[m] = IF clock <= EndOf(m) - Second THEN early[m] + 1 ELSE early[m]
      /\ clock' = clock
  BY <1>1, <1>3, <1>6 DEF Allow, QuotaInv, QuotaTypeOK
<1>8. PICK u \in 0..Limit, e \in Nat, u1, e1 \in Nat :
        /\ u = n.used /\ e = n.expiresAt
        /\ u1 = counter'[m].used /\ e1 = counter'[m].expiresAt
        /\ u1 = cur + 1 /\ (cur = 0 => e1 = clock + life) /\ (cur # 0 => e1 = e)
  BY <1>1, <1>6, <1>7
<1>9. /\ u > 0 => e > EndOf(m) - Second
      /\ u = 0 => allowed[m] = 0
      /\ early[m] <= allowed[m] /\ early[m] <= Limit /\ u <= allowed[m]
      /\ \/ allowed[m] = u
         \/ /\ allowed[m] <= Limit + u /\ e >= EndOf(m) + MaxDelay
            /\ clock > EndOf(m) - Second
  BY <1>1, <1>8 DEF CounterOK
<1>10. e1 > EndOf(m) - Second
  BY <1>1, <1>2, <1>5, <1>6, <1>8, <1>9, Constants
<1>11. early'[m] <= allowed'[m] /\ early'[m] <= Limit /\ u1 <= allowed'[m]
  BY <1>1, <1>2, <1>6, <1>7, <1>8, <1>9, Constants
<1>12. \/ allowed'[m] = u1
       \/ /\ allowed'[m] <= Limit + u1 /\ e1 >= EndOf(m) + MaxDelay
          /\ clock > EndOf(m) - Second
  <2>1. CASE allowed[m] = u /\ cur = u
    BY <1>1, <1>7, <1>8, <2>1
  <2>2. CASE allowed[m] = u /\ cur # u
    <3>1. cur = 0 /\ clock >= e /\ u > 0
      BY <1>6, <1>8, <2>2
    <3>2. clock > EndOf(m) - Second
      BY <1>1, <1>2, <1>8, <1>9, <3>1, Constants
    <3>3. e1 >= EndOf(m) + MaxDelay
      BY <1>1, <1>2, <1>3, <1>4, <1>5, <1>8, <3>1, <3>2, Constants
    <3> QED BY <1>1, <1>7, <1>8, <2>2, <3>1, <3>2, <3>3, Constants
  <2>3. CASE allowed[m] # u
    <3>1. allowed[m] <= Limit + u /\ e >= EndOf(m) + MaxDelay /\ clock > EndOf(m) - Second
      BY <1>9, <2>3
    <3>2. clock < e
      BY <1>1, <1>2, <1>5, <1>8, <3>1, Constants
    <3>3. cur = u
      BY <1>1, <1>6, <1>8, <3>2
    <3>4. u # 0
      BY <1>9, <2>3
    <3> QED BY <1>1, <1>7, <1>8, <3>1, <3>3, <3>4, Constants
  <2> QED BY <2>1, <2>2, <2>3
<1>13. CounterOK(m)'
  BY <1>7, <1>8, <1>10, <1>11, <1>12, Constants DEF CounterOK, EndOf
<1> QED BY <1>8, <1>13

LEMMA AllowKeeps ==
    ASSUME QuotaInv, NEW p \in Slots, Allow(p) PROVE QuotaInv'
<1>1. PICK m \in MonthIds : m = call[p].month
  BY DEF QuotaInv, QuotaTypeOK
<1>2. CounterOK(m)' /\ counter'[m].expiresAt \in Nat
  BY <1>1, AllowKeepsCounter
<1>3. Current(m) \in 0..Limit /\ Current(m) < Limit
  BY <1>1, CurrentOfMonth, Constants DEF Allow, UnderLimit
<1>4. PICK k : /\ counter' = [counter EXCEPT ![m] = [used |-> Current(m) + 1, expiresAt |-> k]]
               /\ UNCHANGED clock /\ call' = [call EXCEPT ![p] = NoCall]
               /\ allowed' = [allowed EXCEPT ![m] = @ + 1]
  BY <1>1 DEF Allow
<1>5. k \in Nat
  BY <1>2, <1>4 DEF QuotaInv, QuotaTypeOK
<1>6. PICK e \in Nat : early' = [early EXCEPT ![m] = e]
  <2>1. early[m] \in Nat /\ early[m] + 1 \in Nat
    BY DEF QuotaInv, QuotaTypeOK
  <2> QED BY <1>1, <2>1 DEF Allow
<1>7. QuotaTypeOK'
  BY <1>3, <1>4, <1>5, <1>6, NoCallType, Constants DEF QuotaInv, QuotaTypeOK
<1>8. \A q \in Slots : CallOK(q)'
  <2> TAKE q \in Slots
  <2>1. CASE q = p
    BY <1>4, <2>1, NoCallType DEF CallOK, QuotaInv, QuotaTypeOK
  <2>2. CASE q # p
    <3>1. call'[q] = call[q]
      BY <1>4, <2>2 DEF QuotaInv, QuotaTypeOK
    <3> QED BY <1>4, <3>1 DEF QuotaInv, CallOK
  <2> QED BY <2>1, <2>2
<1>9. \A n \in MonthIds : CounterOK(n)'
  <2> TAKE n \in MonthIds
  <2>1. CASE n = m
    BY <1>2, <2>1
  <2>2. CASE n # m
    <3>1. counter'[n] = counter[n] /\ allowed'[n] = allowed[n] /\ early'[n] = early[n]
      BY <1>4, <1>6, <2>2 DEF QuotaInv, QuotaTypeOK
    <3> QED BY <1>4, <3>1 DEF QuotaInv, CounterOK
  <2> QED BY <2>1, <2>2
<1> QED BY <1>7, <1>8, <1>9 DEF QuotaInv

LEMMA StutterKeeps == ASSUME QuotaInv, UNCHANGED quotaVars PROVE QuotaInv'
BY DEF QuotaInv, QuotaTypeOK, CallOK, CounterOK, quotaVars

-----------------------------------------------------------------------------
(* Theorems. *)

LEMMA QuotaStep == QuotaInv /\ [QuotaNext]_quotaVars => QuotaInv'
<1> SUFFICES ASSUME QuotaInv, [QuotaNext]_quotaVars PROVE QuotaInv'
  OBVIOUS
<1>1. ASSUME NEW p \in Slots, ReadMonth(p) PROVE QuotaInv'
  BY <1>1, ReadMonthKeeps
<1>2. ASSUME NEW p \in Slots, ReadTtl(p) PROVE QuotaInv'
  BY <1>2, ReadTtlKeeps
<1>3. ASSUME NEW p \in Slots, Allow(p) PROVE QuotaInv'
  BY <1>3, AllowKeeps
<1>4. ASSUME NEW p \in Slots, Deny(p) \/ Forget(p) PROVE QuotaInv'
  BY <1>4, EndsKeep
<1>5. CASE Tick
  BY <1>5, TickKeeps
<1>6. CASE UNCHANGED quotaVars
  BY <1>6, StutterKeeps
<1> QED BY <1>1, <1>2, <1>3, <1>4, <1>5, <1>6 DEF QuotaNext

\* The invariant above holds of every run of the limiter (limits/mod.rs 94-132).
THEOREM QuotaInvariance == QuotaSpec => []QuotaInv
BY QuotaInitInv, QuotaStep, PTL DEF QuotaSpec

\* Clock, keys and calls stay in their ranges; no counter exceeds the limit.
THEOREM QuotaTypeCorrect == QuotaSpec => []QuotaTypeOK
<1>1. QuotaInv => QuotaTypeOK
  BY DEF QuotaInv
<1> QED BY <1>1, QuotaInvariance, PTL

\* Whatever the lengths of a month, a second and the minimum time to live, the
\* requests let through before a month's last second are within the quota.
THEOREM MonthsAreCapped == QuotaSpec => []CapUntilLastSecond
<1>1. QuotaInv => CapUntilLastSecond
  BY DEF QuotaInv, CounterOK, CapUntilLastSecond
<1> QED BY <1>1, QuotaInvariance, PTL

LEMMA TwoCounters == QuotaInv => AtMostTwice
<1> SUFFICES ASSUME QuotaInv, NEW m \in MonthIds PROVE allowed[m] <= 2 * Limit
  BY DEF AtMostTwice
<1>1. CounterOK(m) /\ counter[m].used \in 0..Limit /\ allowed[m] \in Nat
  BY DEF QuotaInv, QuotaTypeOK
<1> QED BY <1>1, Constants DEF CounterOK

\* And no month lets through more than twice its quota, with calls as late as the
\* TimeoutLayer allows.
THEOREM MonthsCountTwice == QuotaSpec => []AtMostTwice
BY TwoCounters, QuotaInvariance, PTL

-----------------------------------------------------------------------------
(* The refinement. *)

\* The steps in which the quota is asked.
LEMMA QuotaStepsKeep ==
    ASSUME NEW p \in Slots,
           \/ AskQuota(p) \/ QuotaAllows(p) \/ QuotaDenies(p) \/ QuotaFails(p) \/ Drop(p)
    PROVE  QuotaNext \/ UNCHANGED quotaVars
<1>1. CASE AskQuota(p)
  BY <1>1 DEF AskQuota, QuotaNext
<1>2. CASE QuotaAllows(p)
  BY <1>2 DEF QuotaAllows, QuotaNext
<1>3. CASE QuotaDenies(p)
  BY <1>3 DEF QuotaDenies, QuotaNext
<1>4. CASE QuotaFails(p)
  BY <1>4 DEF QuotaFails, QuotaNext
<1>5. CASE Drop(p)
  BY <1>5 DEF Drop, QuotaNext
<1> QED BY <1>1, <1>2, <1>3, <1>4, <1>5

\* All others leave it alone.
LEMMA OtherStepsKeep ==
    ASSUME NEW p \in Slots,
           \/ \E tail \in Requests : Arrive(p, tail)
           \/ Authenticate(p) \/ NoPolicy(p)
           \/ \E policy \in Policies : LoadPolicy(p, policy)
           \/ Connect(p) \/ TakeToken(p) \/ Record(p) \/ TooManyRequests(p)
           \/ Gate(p) \/ Proxy(p)
    PROVE  UNCHANGED quotaVars
BY DEF Arrive, Authenticate, NoPolicy, LoadPolicy, Connect, TakeToken, Record,
       TooManyRequests, Gate, Proxy, quotaVars

LEMMA StepKeepsQuota == [Next]_vars => [QuotaNext]_quotaVars
<1> SUFFICES ASSUME [Next]_vars PROVE [QuotaNext]_quotaVars
  OBVIOUS
<1>1. CASE TimePasses
  BY <1>1 DEF TimePasses, QuotaNext
<1>2. ASSUME NEW p \in Slots, RequestStep(p) PROVE [QuotaNext]_quotaVars
  BY <1>2, QuotaStepsKeep, OtherStepsKeep DEF RequestStep
<1>3. CASE UNCHANGED vars
  BY <1>3 DEF vars, quotaVars
<1> QED BY <1>1, <1>2, <1>3 DEF Next

\* The layers take the steps of MonthlyQuota or leave it alone,
LEMMA GatewayKeepsQuota == Spec => QuotaSpec
<1>1. Init => QuotaInit
  BY DEF Init
<1> QED BY <1>1, StepKeepsQuota, PTL DEF Spec, QuotaSpec

\* so that its caps hold behind authentication, allowlist and bucket too:
\* a month is capped until its last second,
THEOREM GatewayMonthsAreCapped == Spec => []CapUntilLastSecond
BY GatewayKeepsQuota, MonthsAreCapped, PTL

\* and lets through no more than twice its quota.
THEOREM GatewayMonthsCountTwice == Spec => []AtMostTwice
BY GatewayKeepsQuota, MonthsCountTwice, PTL

\* The invariant of MonthlyQuota, which the reasons of refusals need.
LEMMA GatewayQuotaInv == Spec => []QuotaInv
BY GatewayKeepsQuota, QuotaInvariance, PTL

-----------------------------------------------------------------------------
(* What is known of a request at every stage. *)

\* The operators that the prover need not look into: the allowlist lets the request
\* through, rate and quota are paid for or passed over, a month is used up.
Listed(p) ==
    rq[p].policy \in Policies /\ MiddlewareAllows(rq[p].policy.list, rq[p].tail)

RateTaken(p) == rq[p].policy.rps => spent[p].token \/ "rps" \in spent[p].skipped

QuotaTaken(p) == rq[p].policy.quota => spent[p].unit = 1 \/ "quota" \in spent[p].skipped

UsedUp == \E m \in MonthIds : allowed[m] >= Limit

\* What must be so for a limit to be the reason.
Reason(p, why) ==
    /\ why = "rate_limit_exceeded" => rq[p].policy.rps /\ ~spent[p].token
    /\ why = "monthly_quota_exceeded" => rq[p].policy.quota /\ UsedUp
    /\ why \in LimitReasons => spent[p].unit = 0 /\ ~spent[p].paid /\ ~spent[p].sent

\* The three properties, of one request that has come to its end.
LetAt(p) ==
    spent[p].sent => /\ Listed(p) /\ RateTaken(p) /\ QuotaTaken(p)
                     /\ Config(p) # None => spent[p].paid

OrderAt(p) ==
    /\ answer[p] \in {"unauthorized", "auth_error"} => spent[p] = Nothing
    /\ answer[p] = "endpoint_not_allowed" /\ ListedDecoded(rq[p].policy.list) =>
         spent[p] = Nothing

WhyAt(p) ==
    /\ answer[p] \in LimitReasons => event[p] \in {answer[p], "none"}
    /\ Reason(p, answer[p]) /\ Reason(p, event[p])
    /\ event[p] = "forwarded" => spent[p].sent
    /\ event[p] = "blocked" => ~spent[p].sent

Known(p) ==
    /\ stage[p] \in WithPolicy => Listed(p)
    /\ stage[p] \in {"idle", "key", "policy", "connect", "bucket"} => spent[p] = Nothing
    /\ stage[p] = "bucket" => rq[p].policy.rps
    /\ stage[p] = "quota" => rq[p].policy.quota /\ spent[p].unit = 0
    /\ stage[p] \in {"quota", "gate", "proxy"} => RateTaken(p)
    /\ stage[p] \in {"gate", "proxy"} => QuotaTaken(p)
    /\ stage[p] \in {"quota", "gate"} => ~spent[p].paid
    /\ stage[p] \in {"record", "recorded"} =>
         refusal[p] \in LimitReasons /\ Reason(p, refusal[p])
    /\ stage[p] = "recorded" => event[p] \in {refusal[p], "none"}
    /\ stage[p] = "proxy" => (Config(p) # None => spent[p].paid)
    /\ stage[p] # "done" => answer[p] = "none" /\ ~spent[p].sent
    /\ stage[p] \notin {"recorded", "done"} => event[p] = "none"
    /\ stage[p] = "done" => LetAt(p) /\ OrderAt(p) /\ WhyAt(p)

SlotsTyped ==
    /\ stage \in [Slots -> Stages]
    /\ rq \in [Slots -> [tail : Requests \cup {<<>>}, policy : Policies \cup {None}]]
    /\ refusal \in [Slots -> LimitReasons \cup {"none"}]
    /\ spent \in [Slots -> Spendings]
    /\ answer \in [Slots -> Answers]
    /\ event \in [Slots -> Events]

AtQuota(p) == call[p].step # "idle" => stage[p] = "quota"

GatewayInv ==
    /\ QuotaInv
    /\ SlotsTyped
    /\ \A p \in Slots : AtQuota(p) /\ Known(p)

LEMMA GatewayInitInv == Init => GatewayInv
<1> SUFFICES ASSUME Init PROVE GatewayInv
  OBVIOUS
<1>1. QuotaInv
  BY QuotaInitInv DEF Init
<1>2. SlotsTyped
  BY DEF Init, SlotsTyped, Stages, Answers, Events, LimitReasons, NoRequest, Nothing, Spendings
<1>3. \A p \in Slots : AtQuota(p) /\ Known(p)
  BY DEF Init, QuotaInit, NoCall, AtQuota, Known, WithPolicy, Stages, Nothing
<1> QED BY <1>1, <1>2, <1>3 DEF GatewayInv

\* The other requests are where they were.
Apart(p) ==
    \A q \in Slots \ {p} :
        /\ stage'[q] = stage[q] /\ rq'[q] = rq[q] /\ refusal'[q] = refusal[q]
        /\ spent'[q] = spent[q] /\ answer'[q] = answer[q] /\ event'[q] = event[q]
        /\ call'[q].step = call[q].step

\* Months are used up for good.
LEMMA UsedUpStays ==
    ASSUME QuotaInv, QuotaInv', QuotaNext \/ UNCHANGED quotaVars, UsedUp
    PROVE  UsedUp'
<1>1. PICK m \in MonthIds : allowed[m] >= Limit
  BY DEF UsedUp
<1>2. /\ allowed \in [MonthIds -> Nat] /\ allowed[m] \in Nat
      /\ allowed' \in [MonthIds -> Nat] /\ allowed'[m] \in Nat
  BY DEF QuotaInv, QuotaTypeOK
<1>3. allowed'[m] >= allowed[m]
  <2>1. ASSUME NEW p \in Slots, Allow(p) PROVE allowed'[m] >= allowed[m]
    BY <1>2, <2>1 DEF Allow
  <2>2. ASSUME NEW p \in Slots, ReadMonth(p) \/ ReadTtl(p) \/ Deny(p) \/ Forget(p)
        PROVE  allowed'[m] >= allowed[m]
    BY <1>2, <2>2 DEF ReadMonth, ReadTtl, Deny, Forget
  <2>3. CASE Tick
    BY <1>2, <2>3 DEF Tick
  <2>4. CASE UNCHANGED quotaVars
    BY <1>2, <2>4 DEF quotaVars
  <2> QED BY <2>1, <2>2, <2>3, <2>4 DEF QuotaNext
<1>4. allowed'[m] >= Limit
  BY <1>1, <1>2, <1>3, Constants
<1> QED BY <1>4 DEF UsedUp

\* What is known of a request stays known while it waits.
LEMMA KnownStays ==
    ASSUME NEW q, Known(q), UsedUp => UsedUp',
           stage'[q] = stage[q], rq'[q] = rq[q], refusal'[q] = refusal[q],
           spent'[q] = spent[q], answer'[q] = answer[q], event'[q] = event[q]
    PROVE  Known(q)'
<1>1. Listed(q)' = Listed(q) /\ RateTaken(q)' = RateTaken(q) /\ QuotaTaken(q)' = QuotaTaken(q)
  BY DEF Listed, RateTaken, QuotaTaken
<1>2. Config(q)' = Config(q)
  BY DEF Config
<1>3. ASSUME NEW why, Reason(q, why) PROVE Reason(q, why)'
  BY <1>3 DEF Reason
<1>4. LetAt(q) => LetAt(q)'
  BY <1>1, <1>2 DEF LetAt
<1>5. OrderAt(q) => OrderAt(q)'
  BY DEF OrderAt
<1>6. WhyAt(q) => WhyAt(q)'
  BY <1>3 DEF WhyAt
<1> QED BY <1>1, <1>2, <1>3, <1>4, <1>5, <1>6 DEF Known

\* So a step need only account for the request that takes it.
LEMMA OneRequest ==
    ASSUME GatewayInv, NEW p \in Slots, Apart(p), QuotaNext \/ UNCHANGED quotaVars,
           SlotsTyped', AtQuota(p)', Known(p)'
    PROVE  GatewayInv'
<1>1. QuotaInv'
  BY QuotaStep DEF GatewayInv
<1>2. UsedUp => UsedUp'
  BY <1>1, UsedUpStays DEF GatewayInv
<1>3. ASSUME NEW q \in Slots, q # p PROVE AtQuota(q)' /\ Known(q)'
  <2>1. /\ stage'[q] = stage[q] /\ rq'[q] = rq[q] /\ refusal'[q] = refusal[q]
        /\ spent'[q] = spent[q] /\ answer'[q] = answer[q] /\ event'[q] = event[q]
        /\ call'[q].step = call[q].step
    BY <1>3 DEF Apart
  <2>2. AtQuota(q) /\ Known(q)
    BY DEF GatewayInv
  <2>3. Known(q)'
    BY <1>2, <2>1, <2>2, KnownStays
  <2> QED BY <2>1, <2>2, <2>3 DEF AtQuota
<1>4. \A q \in Slots : AtQuota(q)' /\ Known(q)'
  BY <1>3
<1> QED BY <1>1, <1>4 DEF GatewayInv

-----------------------------------------------------------------------------
(* The moves the actions are made of keep the types. *)

LEMMA PassTyped ==
    ASSUME SlotsTyped, NEW p \in Slots, NEW await \in Stages, Pass(p, await)
    PROVE  SlotsTyped'
BY DEF SlotsTyped, Pass, GoTo

LEMMA ReplyTyped ==
    ASSUME SlotsTyped, NEW p \in Slots, NEW what \in Answers, Reply(p, what)
    PROVE  SlotsTyped'
<1>1. "done" \in Stages
  BY DEF Stages
<1> QED BY <1>1 DEF SlotsTyped, Reply, GoTo

LEMMA PassWithTyped ==
    ASSUME SlotsTyped, NEW p \in Slots, NEW await \in Stages, NEW used \in Spendings,
           PassWith(p, await, used)
    PROVE  SlotsTyped'
BY DEF SlotsTyped, PassWith, GoTo

LEMMA SpentType ==
    ASSUME SlotsTyped, NEW p \in Slots
    PROVE  /\ spent[p] \in Spendings
           /\ \A u \in BOOLEAN : /\ [spent[p] EXCEPT !.token = u] \in Spendings
                                 /\ [spent[p] EXCEPT !.paid = u] \in Spendings
                                 /\ [spent[p] EXCEPT !.sent = u] \in Spendings
           /\ [spent[p] EXCEPT !.unit = @ + 1] \in Spendings
           /\ \A limits \in SUBSET {"rps", "quota"} :
                [spent[p] EXCEPT !.skipped = @ \cup limits] \in Spendings
<1>1. spent[p] \in Spendings
  BY DEF SlotsTyped
<1> QED BY <1>1 DEF Spendings

LEMMA SkipTyped ==
    ASSUME SlotsTyped, NEW p \in Slots, NEW await \in Stages,
           NEW limits \in SUBSET {"rps", "quota"}, Skip(p, await, limits)
    PROVE  SlotsTyped'
<1>1. [spent[p] EXCEPT !.skipped = @ \cup limits] \in Spendings
  BY SpentType
<1> QED BY <1>1, PassWithTyped DEF Skip

LEMMA RefuseTyped ==
    ASSUME SlotsTyped, NEW p \in Slots, NEW reason \in LimitReasons, Refuse(p, reason)
    PROVE  SlotsTyped'
<1>1. "record" \in Stages
  BY DEF Stages
<1> QED BY <1>1 DEF SlotsTyped, Refuse, GoTo

LEMMA FinishTyped ==
    ASSUME SlotsTyped, NEW p \in Slots, NEW what \in Answers, NEW kind \in Events,
           NEW sent \in BOOLEAN, Finish(p, what, kind, sent),
           refusal' \in [Slots -> LimitReasons \cup {"none"}]
    PROVE  /\ SlotsTyped'
           /\ stage'[p] = "done" /\ answer'[p] = what /\ event'[p] = kind
           /\ rq'[p] = rq[p] /\ spent'[p] = [spent[p] EXCEPT !.sent = sent]
           /\ \A q \in Slots \ {p} :
                /\ stage'[q] = stage[q] /\ rq'[q] = rq[q] /\ spent'[q] = spent[q]
                /\ answer'[q] = answer[q] /\ event'[q] = event[q]
<1>1. "done" \in Stages
  BY DEF Stages
<1>2. [spent[p] EXCEPT !.sent = sent] \in Spendings
  BY SpentType
<1> QED BY <1>1, <1>2 DEF SlotsTyped, Finish, GoTo

-----------------------------------------------------------------------------
(* One lemma per action. *)

\* Away from the quota no call of the request is open.
LEMMA NoOpenCall ==
    ASSUME GatewayInv, NEW p \in Slots, stage[p] # "quota", UNCHANGED quotaVars
    PROVE  AtQuota(p)'
BY DEF GatewayInv, AtQuota, quotaVars

LEMMA ArriveKeeps ==
    ASSUME GatewayInv, NEW p \in Slots, NEW tail \in Requests, Arrive(p, tail)
    PROVE  GatewayInv'
<1>1. SlotsTyped /\ stage[p] # "quota" /\ UNCHANGED quotaVars
  BY DEF GatewayInv, Arrive
<1>2. SlotsTyped'
  BY <1>1 DEF SlotsTyped, Arrive, GoTo, Stages, Answers, Events, Nothing, Spendings
<1>3. Apart(p)
  BY <1>1 DEF Apart, SlotsTyped, Arrive, GoTo, quotaVars
<1>4. /\ stage'[p] \in {"key", "done"} /\ spent'[p] = Nothing /\ event'[p] = "none"
      /\ stage'[p] = "key" => answer'[p] = "none"
      /\ stage'[p] = "done" => answer'[p] = "unauthorized"
  BY <1>1 DEF SlotsTyped, Arrive, GoTo
<1>5. Known(p)'
  BY <1>4 DEF Known, LetAt, OrderAt, WhyAt, Reason, LimitReasons, WithPolicy, Stages, Nothing
<1>6. AtQuota(p)'
  BY <1>1, NoOpenCall
<1> QED BY <1>1, <1>2, <1>3, <1>5, <1>6, OneRequest

LEMMA AuthenticateKeeps ==
    ASSUME GatewayInv, NEW p \in Slots, Authenticate(p) \/ NoPolicy(p)
    PROVE  GatewayInv'
<1>1. /\ SlotsTyped /\ Known(p) /\ stage[p] \in {"key", "policy"}
      /\ UNCHANGED quotaVars
  BY DEF GatewayInv, Authenticate, NoPolicy
<1>2. SlotsTyped'
  <2>1. "policy" \in Stages /\ {"unauthorized", "auth_error"} \subseteq Answers
    BY DEF Stages, Answers
  <2> QED BY <1>1, <2>1, PassTyped, ReplyTyped DEF Authenticate, NoPolicy
<1>3. Apart(p)
  BY <1>1 DEF Apart, SlotsTyped, Authenticate, NoPolicy, Pass, Reply, GoTo, quotaVars
<1>4. /\ stage'[p] \in {"policy", "done"} /\ spent'[p] = Nothing /\ event'[p] = "none"
      /\ stage'[p] = "policy" => answer'[p] = "none"
      /\ stage'[p] = "done" => answer'[p] \in {"unauthorized", "auth_error"}
  BY <1>1 DEF SlotsTyped, Known, Authenticate, NoPolicy, Pass, Reply, GoTo
<1>5. Known(p)'
  BY <1>4 DEF Known, LetAt, OrderAt, WhyAt, Reason, LimitReasons, WithPolicy, Stages, Nothing
<1>6. AtQuota(p)'
  BY <1>1, NoOpenCall
<1> QED BY <1>1, <1>2, <1>3, <1>5, <1>6, OneRequest

LEMMA LoadPolicyKeeps ==
    ASSUME GatewayInv, NEW p \in Slots, NEW policy \in Policies, LoadPolicy(p, policy)
    PROVE  GatewayInv'
<1>1. /\ SlotsTyped /\ Known(p) /\ stage[p] = "policy" /\ UNCHANGED quotaVars
  BY DEF GatewayInv, LoadPolicy
<1>2. SlotsTyped'
  <2>1. {"connect", "done"} \subseteq Stages /\ "endpoint_not_allowed" \in Answers
    BY DEF Stages, Answers
  <2>2. stage' \in [Slots -> Stages]
    <3>1. CASE GoTo(p, "connect")
      BY <1>1, <2>1, <3>1 DEF SlotsTyped, GoTo
    <3>2. CASE GoTo(p, "done")
      BY <1>1, <2>1, <3>2 DEF SlotsTyped, GoTo
    <3> QED BY <3>1, <3>2 DEF LoadPolicy
  <2>3. answer' \in [Slots -> Answers]
    <3>1. CASE UNCHANGED answer
      BY <1>1, <3>1 DEF SlotsTyped
    <3>2. CASE answer' = [answer EXCEPT ![p] = "endpoint_not_allowed"]
      BY <1>1, <2>1, <3>2 DEF SlotsTyped
    <3> QED BY <3>1, <3>2 DEF LoadPolicy
  <2>4. rq' \in [Slots -> [tail : Requests \cup {<<>>}, policy : Policies \cup {None}]]
    BY <1>1 DEF SlotsTyped, LoadPolicy
  <2> QED BY <1>1, <2>2, <2>3, <2>4 DEF SlotsTyped, LoadPolicy
<1>3. Apart(p)
  BY <1>1 DEF Apart, SlotsTyped, LoadPolicy, GoTo, quotaVars
<1>4. /\ stage'[p] \in {"connect", "done"} /\ spent'[p] = Nothing /\ event'[p] = "none"
      /\ rq'[p].policy = policy /\ rq'[p].tail = rq[p].tail
      /\ stage'[p] = "connect" =>
           answer'[p] = "none" /\ MiddlewareAllows(policy.list, rq[p].tail)
      /\ stage'[p] = "done" => answer'[p] = "endpoint_not_allowed"
  BY <1>1 DEF SlotsTyped, Known, LoadPolicy, GoTo
<1>5. Known(p)'
  BY <1>4 DEF Known, Listed, LetAt, OrderAt, WhyAt, Reason, LimitReasons, WithPolicy, Stages, Nothing
<1>6. AtQuota(p)'
  BY <1>1, NoOpenCall
<1> QED BY <1>1, <1>2, <1>3, <1>5, <1>6, OneRequest

\* Behind the allowlist a request keeps its policy and its path.
LEMMA StaysListed ==
    ASSUME NEW p, Listed(p), rq'[p] = rq[p] PROVE Listed(p)'
BY DEF Listed

LEMMA ConnectKeeps ==
    ASSUME GatewayInv, NEW p \in Slots, Connect(p)
    PROVE  GatewayInv'
<1>1. /\ SlotsTyped /\ Known(p) /\ stage[p] = "connect" /\ UNCHANGED quotaVars
      /\ Listed(p) /\ spent[p] = Nothing
  BY DEF GatewayInv, Connect, Known, WithPolicy, Stages
<1>2. SlotsTyped'
  <2>1. "gate" \in Stages /\ AfterConnect(rq[p].policy) \in Stages
    BY DEF Stages, AfterConnect, AfterBucket
  <2> QED BY <1>1, <2>1, PassTyped, SkipTyped DEF Connect
<1>3. Apart(p)
  BY <1>1 DEF Apart, SlotsTyped, Connect, Pass, Skip, PassWith, GoTo, quotaVars
<1>4. /\ rq'[p] = rq[p] /\ answer'[p] = "none" /\ event'[p] = "none"
      /\ \/ stage'[p] = AfterConnect(rq[p].policy) /\ spent'[p] = Nothing
         \/ /\ stage'[p] = "gate"
            /\ spent'[p] = [spent[p] EXCEPT !.skipped = @ \cup {"rps", "quota"}]
  BY <1>1 DEF SlotsTyped, Known, Connect, Pass, Skip, PassWith, GoTo
<1>5. Listed(p)'
  BY <1>1, <1>4, StaysListed
<1>6. /\ stage'[p] \in {"bucket", "quota", "gate"}
      /\ stage'[p] = "bucket" => rq[p].policy.rps /\ spent'[p] = Nothing
      /\ stage'[p] = "quota" => rq[p].policy.quota /\ ~rq[p].policy.rps
      /\ stage'[p] = "gate" => \/ {"rps", "quota"} \subseteq spent'[p].skipped
                               \/ ~rq[p].policy.quota /\ ~rq[p].policy.rps
      /\ spent'[p].unit = 0 /\ ~spent'[p].paid /\ ~spent'[p].sent
  BY <1>1, <1>4 DEF AfterConnect, AfterBucket, Nothing
<1>7. Known(p)'
  BY <1>4, <1>5, <1>6 DEF Known, RateTaken, QuotaTaken
<1>8. AtQuota(p)'
  BY <1>1, NoOpenCall
<1> QED BY <1>1, <1>2, <1>3, <1>7, <1>8, OneRequest

LEMMA TakeTokenKeeps ==
    ASSUME GatewayInv, NEW p \in Slots, TakeToken(p)
    PROVE  GatewayInv'
<1>1. /\ SlotsTyped /\ Known(p) /\ stage[p] = "bucket" /\ UNCHANGED quotaVars
      /\ Listed(p) /\ spent[p] = Nothing /\ rq[p].policy.rps
  BY DEF GatewayInv, TakeToken, Known, WithPolicy, Stages
<1>2. SlotsTyped'
  <2>1. AfterBucket(rq[p].policy) \in Stages /\ "rate_limit_exceeded" \in LimitReasons
    BY DEF Stages, AfterBucket, LimitReasons
  <2>2. [spent[p] EXCEPT !.token = TRUE] \in Spendings
    BY <1>1, SpentType
  <2> QED BY <1>1, <2>1, <2>2, PassWithTyped, SkipTyped, RefuseTyped DEF TakeToken
<1>3. Apart(p)
  BY <1>1 DEF Apart, SlotsTyped, TakeToken, Refuse, Skip, PassWith, GoTo, quotaVars
<1>4. /\ rq'[p] = rq[p] /\ answer'[p] = "none" /\ event'[p] = "none"
      /\ \/ /\ stage'[p] = AfterBucket(rq[p].policy)
            /\ \/ spent'[p] = [spent[p] EXCEPT !.token = TRUE]
               \/ spent'[p] = [spent[p] EXCEPT !.skipped = @ \cup {"rps"}]
         \/ /\ stage'[p] = "record" /\ spent'[p] = Nothing
            /\ refusal'[p] = "rate_limit_exceeded"
  BY <1>1 DEF SlotsTyped, Known, TakeToken, Refuse, Skip, PassWith, GoTo
<1>5. Listed(p)'
  BY <1>1, <1>4, StaysListed
<1>6. /\ stage'[p] \in {"quota", "gate", "record"}
      /\ spent'[p].unit = 0 /\ ~spent'[p].paid /\ ~spent'[p].sent
      /\ stage'[p] = "quota" => rq[p].policy.quota
      /\ stage'[p] = "gate" => ~rq[p].policy.quota
      /\ stage'[p] \in {"quota", "gate"} => spent'[p].token \/ "rps" \in spent'[p].skipped
      /\ stage'[p] = "record" =>
           ~spent'[p].token /\ refusal'[p] = "rate_limit_exceeded"
  BY <1>1, <1>4 DEF AfterBucket, Nothing
<1>7. Known(p)'
  BY <1>1, <1>4, <1>5, <1>6 DEF Known, RateTaken, QuotaTaken, Reason, LimitReasons
<1>8. AtQuota(p)'
  BY <1>1, NoOpenCall
<1> QED BY <1>1, <1>2, <1>3, <1>7, <1>8, OneRequest

\* The calls of the other requests stay where they are.
LEMMA OtherCalls ==
    ASSUME GatewayInv, NEW p \in Slots,
           ReadMonth(p) \/ ReadTtl(p) \/ Allow(p) \/ Deny(p) \/ Forget(p)
    PROVE  /\ \A q \in Slots \ {p} : call'[q].step = call[q].step
           /\ Allow(p) \/ Deny(p) \/ Forget(p) => call'[p].step = "idle"
BY DEF GatewayInv, QuotaInv, QuotaTypeOK, ReadMonth, ReadTtl, Allow, Deny, Forget, NoCall

LEMMA AskQuotaKeeps ==
    ASSUME GatewayInv, NEW p \in Slots, AskQuota(p)
    PROVE  GatewayInv'
<1>1. /\ SlotsTyped /\ Known(p) /\ stage[p] = "quota" /\ UNCHANGED gatewayVars
      /\ ReadMonth(p) \/ ReadTtl(p)
  BY DEF GatewayInv, AskQuota
<1>2. SlotsTyped'
  BY <1>1 DEF SlotsTyped, gatewayVars
<1>3. Apart(p) /\ AtQuota(p)'
  BY <1>1, OtherCalls DEF Apart, AtQuota, gatewayVars
<1>4. QuotaNext
  BY <1>1 DEF QuotaNext
<1>5. UsedUp => UsedUp'
  BY <1>4, QuotaStep, UsedUpStays DEF GatewayInv
<1>6. Known(p)'
  BY <1>1, <1>5, KnownStays DEF gatewayVars
<1> QED BY <1>2, <1>3, <1>4, <1>6, OneRequest

\* A month that refuses has been used up, also if its counter began anew.
LEMMA DenyMeansUsedUp ==
    ASSUME QuotaInv, NEW p \in Slots, Deny(p) PROVE UsedUp'
<1>1. PICK m \in MonthIds : m = call[p].month /\ ~(Current(m) < Limit)
  BY DEF Deny, UnderLimit, QuotaInv, QuotaTypeOK
<1>2. /\ Current(m) \in 0..Limit /\ allowed[m] \in Nat
      /\ Current(m) = counter[m].used \/ Current(m) = 0
      /\ counter[m].used <= allowed[m]
  BY CurrentOfMonth DEF QuotaInv, QuotaTypeOK, CounterOK
<1>3. Current(m) <= allowed[m]
  BY <1>2, Constants
<1>4. allowed[m] >= Limit
  BY <1>1, <1>2, <1>3, Constants
<1> QED BY <1>4 DEF Deny, UsedUp

\* The quota lets the request on, counted or by a fault.
LEMMA QuotaPasses ==
    ASSUME GatewayInv, NEW p \in Slots, stage[p] = "quota",
           \/ Allow(p) /\ PassWith(p, "gate", [spent[p] EXCEPT !.unit = @ + 1])
           \/ (Deny(p) \/ Forget(p)) /\ Skip(p, "gate", {"quota"})
    PROVE  GatewayInv'
<1>1. /\ SlotsTyped /\ Known(p) /\ Listed(p) /\ RateTaken(p) /\ ~spent[p].paid
      /\ spent[p].unit = 0 /\ ~spent[p].sent
  BY DEF GatewayInv, Known, WithPolicy, Stages
<1>2. SlotsTyped'
  <2>1. "gate" \in Stages
    BY DEF Stages
  <2>2. [spent[p] EXCEPT !.unit = @ + 1] \in Spendings
    BY <1>1, SpentType
  <2> QED BY <1>1, <2>1, <2>2, PassWithTyped, SkipTyped
<1>3. Apart(p) /\ AtQuota(p)'
  BY <1>1, OtherCalls DEF Apart, AtQuota, SlotsTyped, Skip, PassWith, GoTo
<1>4. /\ rq'[p] = rq[p] /\ answer'[p] = "none" /\ event'[p] = "none" /\ stage'[p] = "gate"
      /\ \/ spent'[p] = [spent[p] EXCEPT !.unit = @ + 1]
         \/ spent'[p] = [spent[p] EXCEPT !.skipped = @ \cup {"quota"}]
  BY <1>1 DEF SlotsTyped, Known, Skip, PassWith, GoTo
<1>5. /\ spent'[p].unit = 1 \/ "quota" \in spent'[p].skipped
      /\ spent'[p].token = spent[p].token /\ spent'[p].paid = spent[p].paid
      /\ spent'[p].sent = spent[p].sent /\ spent[p].skipped \subseteq spent'[p].skipped
  <2>1. spent[p] \in Spendings
    BY <1>1 DEF SlotsTyped
  <2> QED BY <1>1, <1>4, <2>1 DEF Spendings
<1>6. Listed(p)' /\ RateTaken(p)' /\ QuotaTaken(p)'
  BY <1>1, <1>4, <1>5, StaysListed DEF RateTaken, QuotaTaken
<1>7. Known(p)'
  BY <1>1, <1>4, <1>5, <1>6 DEF Known
<1>8. QuotaNext
  BY DEF QuotaNext
<1> QED BY <1>2, <1>3, <1>7, <1>8, OneRequest

LEMMA QuotaDeniesKeeps ==
    ASSUME GatewayInv, NEW p \in Slots, QuotaDenies(p)
    PROVE  GatewayInv'
<1>1. /\ SlotsTyped /\ Known(p) /\ stage[p] = "quota" /\ Deny(p) /\ Listed(p)
      /\ rq[p].policy.quota /\ spent[p].unit = 0 /\ ~spent[p].paid /\ ~spent[p].sent
  BY DEF GatewayInv, QuotaDenies, Known, WithPolicy, Stages
<1>2. CASE Skip(p, "gate", {"quota"})
  BY <1>1, <1>2, QuotaPasses
<1>3. CASE Refuse(p, "monthly_quota_exceeded")
  <2>1. SlotsTyped'
    <3>1. "monthly_quota_exceeded" \in LimitReasons
      BY DEF LimitReasons
    <3> QED BY <1>1, <1>3, <3>1, RefuseTyped
  <2>2. Apart(p) /\ AtQuota(p)'
    BY <1>1, <1>3, OtherCalls DEF Apart, AtQuota, SlotsTyped, Refuse, GoTo
  <2>3. /\ rq'[p] = rq[p] /\ spent'[p] = spent[p] /\ answer'[p] = "none"
        /\ event'[p] = "none" /\ stage'[p] = "record"
        /\ refusal'[p] = "monthly_quota_exceeded"
    BY <1>1, <1>3 DEF SlotsTyped, Known, Refuse, GoTo
  <2>4. Listed(p)' /\ UsedUp'
    BY <1>1, <2>3, StaysListed, DenyMeansUsedUp DEF GatewayInv
  <2>5. Known(p)'
    BY <1>1, <2>3, <2>4 DEF Known, Reason, LimitReasons
  <2>6. QuotaNext
    BY <1>1 DEF QuotaNext
  <2> QED BY <2>1, <2>2, <2>5, <2>6, OneRequest
<1> QED BY <1>2, <1>3 DEF QuotaDenies

LEMMA RecordKeeps ==
    ASSUME GatewayInv, NEW p \in Slots, Record(p)
    PROVE  GatewayInv'
<1>1. /\ SlotsTyped /\ Known(p) /\ stage[p] = "record" /\ UNCHANGED quotaVars
      /\ Listed(p) /\ refusal[p] \in LimitReasons /\ Reason(p, refusal[p])
      /\ answer[p] = "none" /\ ~spent[p].sent
  BY DEF GatewayInv, Record, Known, WithPolicy, Stages
<1>2. SlotsTyped'
  <2>1. "recorded" \in Stages /\ LimitReasons \cup {"none"} \subseteq Events
    BY DEF Stages, Events
  <2>2. PICK what \in LimitReasons \cup {"none"} : event' = [event EXCEPT ![p] = what]
    BY <1>1 DEF Record
  <2> QED BY <1>1, <2>1, <2>2 DEF SlotsTyped, Record, GoTo
<1>3. Apart(p)
  BY <1>1 DEF Apart, SlotsTyped, Record, GoTo, quotaVars
<1>4. /\ rq'[p] = rq[p] /\ spent'[p] = spent[p] /\ stage'[p] = "recorded"
      /\ answer'[p] = "none" /\ refusal'[p] = refusal[p]
      /\ event'[p] \in {refusal[p], "none"}
  BY <1>1 DEF SlotsTyped, Record, GoTo
<1>5. Reason(p, refusal[p])' /\ Listed(p)'
  BY <1>1, <1>4, StaysListed DEF Reason, UsedUp, quotaVars
<1>6. Known(p)'
  BY <1>1, <1>4, <1>5 DEF Known
<1>7. AtQuota(p)'
  BY <1>1, NoOpenCall
<1> QED BY <1>1, <1>2, <1>3, <1>6, <1>7, OneRequest

LEMMA TooManyRequestsKeeps ==
    ASSUME GatewayInv, NEW p \in Slots, TooManyRequests(p)
    PROVE  GatewayInv'
<1>1. /\ SlotsTyped /\ Known(p) /\ stage[p] = "recorded" /\ UNCHANGED quotaVars
      /\ refusal[p] \in LimitReasons /\ Reason(p, refusal[p])
      /\ event[p] \in {refusal[p], "none"} /\ ~spent[p].sent
  BY DEF GatewayInv, TooManyRequests, Known
<1>2. SlotsTyped'
  <2>1. "done" \in Stages /\ LimitReasons \subseteq Answers
    BY DEF Stages, Answers
  <2> QED BY <1>1, <2>1 DEF SlotsTyped, TooManyRequests, GoTo
<1>3. Apart(p)
  BY <1>1 DEF Apart, SlotsTyped, TooManyRequests, GoTo, quotaVars
<1>4. /\ rq'[p] = rq[p] /\ spent'[p] = spent[p] /\ stage'[p] = "done"
      /\ answer'[p] = refusal[p] /\ event'[p] \in {refusal[p], "none"}
  BY <1>1 DEF SlotsTyped, TooManyRequests, GoTo
<1>5. Reason(p, answer[p])' /\ Reason(p, event[p])'
  BY <1>1, <1>4 DEF Reason, UsedUp, LimitReasons, quotaVars
<1>6. Known(p)'
  BY <1>1, <1>4, <1>5 DEF Known, LetAt, OrderAt, WhyAt, LimitReasons, WithPolicy, Stages
<1>7. AtQuota(p)'
  BY <1>1, NoOpenCall
<1> QED BY <1>1, <1>2, <1>3, <1>6, <1>7, OneRequest

LEMMA GateKeeps ==
    ASSUME GatewayInv, NEW p \in Slots, Gate(p)
    PROVE  GatewayInv'
<1>1. /\ SlotsTyped /\ Known(p) /\ stage[p] = "gate" /\ UNCHANGED quotaVars
      /\ Listed(p) /\ RateTaken(p) /\ QuotaTaken(p) /\ ~spent[p].sent
  BY DEF GatewayInv, Gate, Known, WithPolicy, Stages
<1>2. SlotsTyped'
  <2>1. "proxy" \in Stages /\ "x402_refused" \in Answers
    BY DEF Stages, Answers
  <2>2. [spent[p] EXCEPT !.paid = TRUE] \in Spendings
    BY <1>1, SpentType
  <2> QED BY <1>1, <2>1, <2>2, PassTyped, PassWithTyped, ReplyTyped DEF Gate
<1>3. Apart(p)
  BY <1>1 DEF Apart, SlotsTyped, Gate, Pass, PassWith, Reply, GoTo, quotaVars
<1>4. /\ rq'[p] = rq[p] /\ event'[p] = "none"
      /\ \/ /\ stage'[p] = "proxy" /\ answer'[p] = "none"
            /\ Config(p) = None /\ spent'[p] = spent[p]
         \/ /\ stage'[p] = "proxy" /\ answer'[p] = "none"
            /\ spent'[p] = [spent[p] EXCEPT !.paid = TRUE]
         \/ stage'[p] = "done" /\ answer'[p] = "x402_refused" /\ spent'[p] = spent[p]
  BY <1>1 DEF SlotsTyped, Known, Gate, Pass, PassWith, Reply, GoTo
<1>5. Config(p)' = Config(p)
  BY <1>4 DEF Config
<1>6. Listed(p)'
  BY <1>1, <1>4, StaysListed
<1>7. ASSUME stage'[p] = "proxy" PROVE Known(p)'
  <2>1. spent[p] \in Spendings
    BY <1>1 DEF SlotsTyped
  <2>2. /\ spent'[p].token = spent[p].token /\ spent'[p].unit = spent[p].unit
        /\ spent'[p].skipped = spent[p].skipped /\ spent'[p].sent = spent[p].sent
        /\ Config(p) # None => spent'[p].paid
    BY <1>4, <1>7, <2>1 DEF Spendings
  <2>3. RateTaken(p)' /\ QuotaTaken(p)'
    BY <1>1, <1>4, <2>2 DEF RateTaken, QuotaTaken
  <2> QED BY <1>1, <1>4, <1>5, <1>6, <1>7, <2>2, <2>3 DEF Known
<1>8. ASSUME stage'[p] = "done" PROVE Known(p)'
  BY <1>1, <1>4, <1>8 DEF Known, LetAt, OrderAt, WhyAt, Reason, LimitReasons, WithPolicy, Stages
<1>9. AtQuota(p)'
  BY <1>1, NoOpenCall
<1>10. Known(p)' => GatewayInv'
  BY <1>1, <1>2, <1>3, <1>9, OneRequest
<1> QED BY <1>4, <1>7, <1>8, <1>10

\* What the handler does in the end, or had done when it was dropped.
LEMMA HandlerEnds ==
    ASSUME GatewayInv, NEW p \in Slots, stage[p] = "proxy", UNCHANGED quotaVars,
           NEW does \in HandlerDoes(p), NEW what \in {does.answer, "dropped"},
           NEW kind \in {"none", does.event}, Finish(p, what, kind, does.sent),
           refusal' \in [Slots -> LimitReasons \cup {"none"}],
           \A q \in Slots \ {p} : refusal'[q] = refusal[q]
    PROVE  GatewayInv'
<1>1. /\ SlotsTyped /\ Listed(p) /\ RateTaken(p) /\ QuotaTaken(p)
      /\ Config(p) # None => spent[p].paid
  BY DEF GatewayInv, Known, WithPolicy, Stages
<1>2. /\ does.sent \in BOOLEAN
      /\ does.answer \in {"not_proxied", "blocked", "upstream", "unanswered",
                          "endpoint_not_allowed"}
      /\ does.event \in {"none", "blocked", "forwarded"}
      /\ does.event = "forwarded" => does.sent
      /\ does.event = "blocked" => ~does.sent
      /\ does.answer = "endpoint_not_allowed" =>
           ~HandlerAllows(rq[p].policy.list, rq[p].tail)
  BY DEF HandlerDoes
<1>3. what \in Answers /\ kind \in Events
  BY <1>2 DEF Answers, Events
<1>4. /\ SlotsTyped'
      /\ stage'[p] = "done" /\ answer'[p] = what /\ event'[p] = kind
      /\ rq'[p] = rq[p] /\ spent'[p] = [spent[p] EXCEPT !.sent = does.sent]
      /\ \A q \in Slots \ {p} :
           /\ stage'[q] = stage[q] /\ rq'[q] = rq[q] /\ spent'[q] = spent[q]
           /\ answer'[q] = answer[q] /\ event'[q] = event[q]
  BY <1>1, <1>2, <1>3, FinishTyped
<1>5. Apart(p)
  BY <1>4 DEF Apart, quotaVars
<1>6. ListedDecoded(rq[p].policy.list) => what # "endpoint_not_allowed"
  <2>1. SUFFICES ASSUME ListedDecoded(rq[p].policy.list) PROVE what # "endpoint_not_allowed"
    OBVIOUS
  <2>2. rq[p].policy \in Policies /\ rq[p].tail \in Requests \cup {<<>>}
    BY <1>1 DEF Listed, SlotsTyped
  <2>3. rq[p].tail \in Seq(Tokens)
    <3>1. Requests \subseteq Seq(Tokens)
      BY GatewayAssumption
    <3>2. <<>> \in Seq(Tokens)
      OBVIOUS
    <3> QED BY <2>2, <3>1, <3>2
  <2>4. rq[p].policy.list \in SUBSET Seq(Tokens)
    BY <2>2, GatewayAssumption
  <2>5. HandlerAllows(rq[p].policy.list, rq[p].tail)
    BY <1>1, <2>1, <2>3, <2>4, HandlerAgrees DEF Listed
  <2> QED BY <1>2, <2>5
<1>7. Config(p)' = Config(p)
  BY <1>4 DEF Config
<1>8. LetAt(p)'
  <2>1. /\ spent'[p].token = spent[p].token /\ spent'[p].unit = spent[p].unit
        /\ spent'[p].skipped = spent[p].skipped /\ spent'[p].paid = spent[p].paid
    <3>1. spent[p] \in Spendings
      BY <1>1 DEF SlotsTyped
    <3> QED BY <1>4, <3>1 DEF Spendings
  <2>2. Listed(p)' /\ RateTaken(p)' /\ QuotaTaken(p)'
    BY <1>1, <1>4, <2>1, StaysListed DEF RateTaken, QuotaTaken
  <2> QED BY <1>1, <1>7, <2>1, <2>2 DEF LetAt
<1>9. OrderAt(p)'
  BY <1>2, <1>4, <1>6 DEF OrderAt
<1>10. WhyAt(p)'
  <2>1. spent'[p].sent = does.sent
    <3>1. spent[p] \in Spendings
      BY <1>1 DEF SlotsTyped
    <3> QED BY <1>4, <3>1 DEF Spendings
  <2> QED BY <1>2, <1>4, <2>1 DEF WhyAt, Reason, LimitReasons
<1>11. Known(p)'
  BY <1>4, <1>8, <1>9, <1>10 DEF Known, WithPolicy
<1>12. AtQuota(p)'
  BY NoOpenCall
<1> QED BY <1>4, <1>5, <1>11, <1>12, OneRequest

LEMMA ProxyKeeps ==
    ASSUME GatewayInv, NEW p \in Slots, Proxy(p)
    PROVE  GatewayInv'
<1>1. SlotsTyped /\ stage[p] = "proxy" /\ UNCHANGED <<refusal, quotaVars>>
  BY DEF GatewayInv, Proxy
<1>2. PICK does \in HandlerDoes(p) : Finish(p, does.answer, does.event, does.sent)
  BY DEF Proxy
<1>3. refusal' \in [Slots -> LimitReasons \cup {"none"}]
  BY <1>1 DEF SlotsTyped
<1> QED BY <1>1, <1>2, <1>3, HandlerEnds

LEMMA DropKeeps ==
    ASSUME GatewayInv, NEW p \in Slots, Drop(p)
    PROVE  GatewayInv'
<1>1. /\ SlotsTyped /\ Known(p) /\ stage[p] \notin {"idle", "done"}
      /\ IF call[p].step = "idle" THEN UNCHANGED quotaVars ELSE Forget(p)
      /\ refusal' = [refusal EXCEPT ![p] = "none"]
  BY DEF GatewayInv, Drop
<1>2. /\ refusal' \in [Slots -> LimitReasons \cup {"none"}]
      /\ \A q \in Slots \ {p} : refusal'[q] = refusal[q]
  BY <1>1 DEF SlotsTyped
<1>3. CASE stage[p] = "proxy"
  <2>1. UNCHANGED quotaVars
    BY <1>1, <1>3 DEF GatewayInv, AtQuota
  <2>2. PICK does \in HandlerDoes(p) : \E kind \in {"none", does.event} :
          Finish(p, "dropped", kind, does.sent)
    BY <1>3 DEF Drop
  <2>3. PICK kind \in {"none", does.event} : Finish(p, "dropped", kind, does.sent)
    BY <2>2
  <2> QED BY <1>2, <1>3, <2>1, <2>3, HandlerEnds
<1>4. CASE stage[p] # "proxy"
  <2>1. Finish(p, "dropped", event[p], FALSE)
    BY <1>4 DEF Drop
  <2>2. "dropped" \in Answers /\ event[p] \in Events
    BY <1>1 DEF Answers, SlotsTyped
  <2>3. /\ SlotsTyped'
        /\ stage'[p] = "done" /\ answer'[p] = "dropped" /\ event'[p] = event[p]
        /\ rq'[p] = rq[p] /\ spent'[p] = [spent[p] EXCEPT !.sent = FALSE]
        /\ \A q \in Slots \ {p} :
             /\ stage'[q] = stage[q] /\ rq'[q] = rq[q] /\ spent'[q] = spent[q]
             /\ answer'[q] = answer[q] /\ event'[q] = event[q]
    BY <1>1, <1>2, <2>1, <2>2, FinishTyped
  <2>4. Apart(p) /\ AtQuota(p)'
    BY <1>1, <1>2, <2>3, OtherCalls DEF Apart, AtQuota, quotaVars
  <2>5. UNCHANGED allowed
    BY <1>1 DEF Forget, quotaVars
  <2>6. /\ ~spent'[p].sent /\ spent'[p].token = spent[p].token
        /\ spent'[p].unit = spent[p].unit /\ spent'[p].paid = spent[p].paid
    <3>1. spent[p] \in Spendings
      BY <1>1 DEF SlotsTyped
    <3> QED BY <2>3, <3>1 DEF Spendings
  <2>7. event[p] = "none" \/ (event[p] \in LimitReasons /\ Reason(p, event[p]))
    BY <1>1, <1>4 DEF Known
  <2>8. Reason(p, event[p])'
    BY <2>3, <2>5, <2>6, <2>7 DEF Reason, UsedUp, LimitReasons
  <2>9. Known(p)'
    BY <2>3, <2>6, <2>7, <2>8 DEF Known, LetAt, OrderAt, WhyAt, Reason, LimitReasons, WithPolicy
  <2>10. QuotaNext \/ UNCHANGED quotaVars
    BY <1>1 DEF QuotaNext
  <2> QED BY <2>3, <2>4, <2>9, <2>10, OneRequest
<1> QED BY <1>3, <1>4

LEMMA TimeKeeps == ASSUME GatewayInv, TimePasses \/ UNCHANGED vars PROVE GatewayInv'
<1>1. /\ QuotaNext \/ UNCHANGED quotaVars
      /\ UNCHANGED gatewayVars /\ UNCHANGED call
  BY DEF TimePasses, QuotaNext, Tick, vars, quotaVars
<1>2. QuotaInv'
  BY <1>1, QuotaStep DEF GatewayInv
<1>3. UsedUp => UsedUp'
  BY <1>1, <1>2, UsedUpStays DEF GatewayInv
<1>4. SlotsTyped'
  BY <1>1 DEF GatewayInv, SlotsTyped, gatewayVars
<1>5. \A p \in Slots : AtQuota(p)' /\ Known(p)'
  <2> TAKE p \in Slots
  <2>1. AtQuota(p) /\ Known(p)
    BY DEF GatewayInv
  <2>2. Known(p)'
    BY <1>1, <1>3, <2>1, KnownStays DEF gatewayVars
  <2> QED BY <1>1, <2>1, <2>2 DEF AtQuota, gatewayVars
<1> QED BY <1>2, <1>4, <1>5 DEF GatewayInv

-----------------------------------------------------------------------------
(* Theorems. *)

LEMMA GatewayStep == GatewayInv /\ [Next]_vars => GatewayInv'
<1> SUFFICES ASSUME GatewayInv, [Next]_vars PROVE GatewayInv'
  OBVIOUS
<1>1. CASE TimePasses \/ UNCHANGED vars
  BY <1>1, TimeKeeps
<1>2. ASSUME NEW p \in Slots, RequestStep(p) PROVE GatewayInv'
  <2>1. ASSUME NEW tail \in Requests, Arrive(p, tail) PROVE GatewayInv'
    BY <2>1, ArriveKeeps
  <2>2. CASE Authenticate(p) \/ NoPolicy(p)
    BY <2>2, AuthenticateKeeps
  <2>3. ASSUME NEW policy \in Policies, LoadPolicy(p, policy) PROVE GatewayInv'
    BY <2>3, LoadPolicyKeeps
  <2>4. CASE Connect(p)
    BY <2>4, ConnectKeeps
  <2>5. CASE TakeToken(p)
    BY <2>5, TakeTokenKeeps
  <2>6. CASE AskQuota(p)
    BY <2>6, AskQuotaKeeps
  <2>7. CASE QuotaAllows(p)
    BY <2>7, QuotaPasses DEF QuotaAllows
  <2>8. CASE QuotaDenies(p)
    BY <2>8, QuotaDeniesKeeps
  <2>9. CASE QuotaFails(p)
    BY <2>9, QuotaPasses DEF QuotaFails
  <2>10. CASE Record(p) \/ TooManyRequests(p)
    BY <2>10, RecordKeeps, TooManyRequestsKeeps
  <2>11. CASE Gate(p)
    BY <2>11, GateKeeps
  <2>12. CASE Proxy(p)
    BY <2>12, ProxyKeeps
  <2>13. CASE Drop(p)
    BY <2>13, DropKeeps
  <2> QED BY <1>2, <2>1, <2>2, <2>3, <2>4, <2>5, <2>6, <2>7, <2>8, <2>9, <2>10,
             <2>11, <2>12, <2>13 DEF RequestStep
<1> QED BY <1>1, <1>2 DEF Next

\* What is known of a request at each stage of the stack (app.rs 36-41).
THEOREM GatewayInvariance == Spec => []GatewayInv
BY GatewayInitInv, GatewayStep, PTL DEF Spec

LEMMA InvMeansTypes == GatewayInv => TypeOK
<1> SUFFICES ASSUME GatewayInv PROVE TypeOK
  OBVIOUS
<1>1. QuotaTypeOK
  BY DEF GatewayInv, QuotaInv
<1>2. \A p \in Slots :
        /\ stage[p] \in WithPolicy => rq[p].policy \in Policies
        /\ call[p].step # "idle" => stage[p] = "quota"
  BY DEF GatewayInv, Known, Listed, AtQuota
<1> QED BY <1>1, <1>2 DEF GatewayInv, SlotsTyped, TypeOK

\* Requests stay in their ranges, have a policy from the limits on, and ask the quota
\* where the middleware does.
THEOREM GatewayTypeCorrect == Spec => []TypeOK
BY InvMeansTypes, GatewayInvariance, PTL

LEMMA InvMeansLet == GatewayInv => ForwardedWasLet
<1> SUFFICES ASSUME GatewayInv, NEW p \in Slots, spent[p].sent
    PROVE  Listed(p) /\ RateTaken(p) /\ QuotaTaken(p) /\ (Config(p) # None => spent[p].paid)
  BY DEF ForwardedWasLet, Listed, RateTaken, QuotaTaken
<1>1. Known(p)
  BY DEF GatewayInv
<1> QED BY <1>1 DEF Known, LetAt

\* No partner hears of a request that a layer switched on for it did not let through;
\* a fault of one limit does not excuse the other.
THEOREM ForwardsWereLet == Spec => []ForwardedWasLet
BY InvMeansLet, GatewayInvariance, PTL

\* Whatever a request was told so far, in its answer or in its event, was so.
LEMMA ToldIsTrue ==
    ASSUME GatewayInv, NEW p \in Slots, NEW why \in Told(p)
    PROVE  Reason(p, why)
<1>1. Known(p)
  BY DEF GatewayInv
<1>2. CASE stage[p] = "done"
  BY <1>1, <1>2 DEF Known, WhyAt, Told
<1>3. CASE stage[p] # "done" /\ why = "none"
  BY <1>3 DEF Reason, LimitReasons
<1>4. CASE stage[p] = "recorded" /\ why = refusal[p]
  BY <1>1, <1>4 DEF Known
<1> QED BY <1>1, <1>2, <1>3, <1>4 DEF Known, Told

LEMMA InvMeansWhy == GatewayInv => RefusalsTellWhy
<1> SUFFICES ASSUME GatewayInv, NEW p \in Slots
    PROVE  /\ answer[p] \in LimitReasons => event[p] \in {answer[p], "none"}
           /\ "rate_limit_exceeded" \in Told(p) => rq[p].policy.rps /\ ~spent[p].token
           /\ "monthly_quota_exceeded" \in Told(p) =>
                rq[p].policy.quota /\ spent[p].unit = 0 /\ UsedUp
           /\ event[p] = "forwarded" => spent[p].sent
           /\ event[p] = "blocked" => ~spent[p].sent
  BY DEF RefusalsTellWhy, UsedUp
<1>1. Known(p)
  BY DEF GatewayInv
<1>2. /\ answer[p] \in LimitReasons => event[p] \in {answer[p], "none"}
      /\ event[p] = "forwarded" => spent[p].sent
      /\ event[p] = "blocked" => ~spent[p].sent
  BY <1>1 DEF Known, WhyAt, LimitReasons
<1>3. ASSUME "rate_limit_exceeded" \in Told(p)
      PROVE  rq[p].policy.rps /\ ~spent[p].token
  BY <1>3, ToldIsTrue DEF Reason
<1>4. ASSUME "monthly_quota_exceeded" \in Told(p)
      PROVE  rq[p].policy.quota /\ spent[p].unit = 0 /\ UsedUp
  BY <1>4, ToldIsTrue DEF Reason, LimitReasons
<1> QED BY <1>2, <1>3, <1>4

\* The reason a limit gives and records is its own, also if the request is dropped
\* between the two.
THEOREM RefusalsAreTrue == Spec => []RefusalsTellWhy
BY InvMeansWhy, GatewayInvariance, PTL

LEMMA InvMeansOrder == GatewayInv => SpendsInOrder
<1> SUFFICES ASSUME GatewayInv, NEW p \in Slots
    PROVE  /\ OrderAt(p)
           /\ "rate_limit_exceeded" \in Told(p) => spent[p].unit = 0
           /\ Told(p) \cap LimitReasons # {} => ~spent[p].paid /\ ~spent[p].sent
  BY DEF SpendsInOrder, OrderAt
<1>1. OrderAt(p)
  BY DEF GatewayInv, Known, OrderAt
<1>2. ASSUME NEW why \in Told(p), why \in LimitReasons
      PROVE  spent[p].unit = 0 /\ ~spent[p].paid /\ ~spent[p].sent
  BY <1>2, ToldIsTrue DEF Reason
<1> QED BY <1>1, <1>2 DEF LimitReasons

\* A refused request has spent nothing of what lies behind the layer that refused it. The
\* handler's own reading of the list refuses none, whatever the patterns, if the list has
\* with each pattern what that is decoded to.
THEOREM SpendingIsInOrder == Spec => []SpendsInOrder
BY InvMeansOrder, GatewayInvariance, PTL

=============================================================================
