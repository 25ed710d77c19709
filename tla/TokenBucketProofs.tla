-------------------------- MODULE TokenBucketProofs --------------------------
(***************************************************************************)
(* Proofs about TokenBucket, for every rate, burst, unit of time, number   *)
(* of requests and bound on the clock.                                     *)
(***************************************************************************)
EXTENDS TokenBucket, TLAPS

-----------------------------------------------------------------------------
(* Arithmetic.  The provers take products of two variables one at a time. *)

\* Nonlinear arithmetic the provers want spelled out: products are naturals,
LEMMA ProductNat == ASSUME NEW a \in Nat, NEW b \in Nat PROVE a * b \in Nat
OBVIOUS

\* multiplication distributes over addition,
LEMMA Distributes ==
    ASSUME NEW r \in Int, NEW a \in Int, NEW b \in Int
    PROVE  r * (a + b) = r * a + r * b
OBVIOUS

\* and is monotone.
LEMMA Monotone ==
    ASSUME NEW r \in Nat, NEW a \in Int, NEW b \in Int, a <= b
    PROVE  r * a <= r * b
<1>1. PICK d \in Nat : b = a + d
  <2>1. b - a \in Nat /\ b = a + (b - a)
    OBVIOUS
  <2> QED BY <2>1
<1>2. r * b = r * a + r * d
  BY <1>1, Distributes
<1>3. r * d \in Nat
  BY ProductNat
<1>4. r * a \in Int
  OBVIOUS
<1> QED BY <1>1, <1>2, <1>3, <1>4

\* The constants are naturals, and a key that expires would have refilled.
LEMMA ConstantTypes ==
    /\ Second \in Nat /\ Second >= 1 /\ Rate \in Nat /\ Cap \in Nat
    /\ Full \in Nat /\ Full >= Second
    /\ KeyTtl \in Nat /\ MaxDelay \in Nat /\ MaxClock \in Nat
    /\ KeyTtl - MaxDelay \in Nat /\ Full <= Rate * (KeyTtl - MaxDelay)
<1>1. /\ Second \in Nat /\ Second >= 1 /\ Rate \in Nat
      /\ Cap \in Nat /\ Cap >= 1
      /\ KeyTtl \in Nat /\ MaxDelay \in Nat /\ MaxClock \in Nat
      /\ KeyTtl - MaxDelay \in Nat
  BY BucketAssumption, RefillAssumption
<1>2. Full \in Nat
  BY <1>1, ProductNat DEF Full
<1>3. Second * 1 <= Second * Cap
  BY <1>1, Monotone
<1>4. Full >= Second
  <2>1. Second * Cap = Cap * Second /\ Second * 1 = Second
    BY <1>1
  <2> QED BY <1>1, <1>2, <1>3, <2>1 DEF Full
<1>5. Full <= Rate * (KeyTtl - MaxDelay)
  BY RefillAssumption DEF Full
<1> QED BY <1>1, <1>2, <1>4, <1>5

-----------------------------------------------------------------------------
(* What the script computes. *)

\* A refill (limits/mod.rs 56-64) never lowers the tokens nor exceeds a full bucket.
LEMMA RefillBounds ==
    ASSUME TypeOK, NEW now \in Times
    PROVE  /\ Refill(now) \in 0..Full
           /\ bucket.present => Refill(now) >= bucket.tokens
           /\ bucket.present /\ now >= bucket.ts =>
                Refill(now) <= bucket.tokens + Rate * (now - bucket.ts)
           /\ bucket.present /\ now >= bucket.ts /\ Refill(now) < Full =>
                Refill(now) = bucket.tokens + Rate * (now - bucket.ts)
           /\ ~bucket.present => Refill(now) = Full
<1>1. /\ bucket.tokens \in 0..Full /\ bucket.ts \in Nat /\ now \in Nat
      /\ Full \in Nat /\ Rate \in Nat
  BY ConstantTypes DEF TypeOK, Times
<1>2. CASE ~bucket.present
  BY <1>1, <1>2 DEF Refill
<1>3. CASE bucket.present /\ now < bucket.ts
  <2>1. 0 * Rate = 0
    BY <1>1
  <2>2. Refill(now) = Least(Full, bucket.tokens)
    BY <1>1, <1>3, <2>1 DEF Refill
  <2> QED BY <1>1, <1>3, <2>2 DEF Least
<1>4. CASE bucket.present /\ now >= bucket.ts
  <2>1. now - bucket.ts \in Nat
    BY <1>1, <1>4
  <2>2. PICK gain \in Nat : gain = Rate * (now - bucket.ts)
    BY <1>1, <2>1, ProductNat
  <2>3. (now - bucket.ts) * Rate = gain
    BY <1>1, <2>1, <2>2
  <2>4. Refill(now) = Least(Full, bucket.tokens + gain)
    BY <1>4, <2>3 DEF Refill
  <2>5. /\ Refill(now) \in 0..Full /\ Refill(now) >= bucket.tokens
        /\ Refill(now) <= bucket.tokens + gain
        /\ Refill(now) < Full => Refill(now) = bucket.tokens + gain
    BY <1>1, <2>2, <2>4 DEF Least
  <2> QED BY <1>4, <2>2, <2>5
<1> QED BY <1>1, <1>2, <1>3, <1>4

\* A denial is justified in any state the invariant allows.
LEMMA DenialMeansRecent ==
    ASSUME BucketInv, NEW p \in Slots, Deny(p)
    PROVE  /\ bucket.present /\ lastAllowed # NoTime
           /\ Refill(stamp[p]) >= Rate * (stamp[p] - lastAllowed)
<1>1. /\ stamp[p] \in Times /\ Refill(stamp[p]) < Second
      /\ TypeOK /\ CreditKept
  BY DEF BucketInv, TypeOK, Deny, ReachesRedis
<1>2. bucket.present
  BY <1>1, RefillBounds, ConstantTypes
<1>3. /\ lastAllowed \in Int /\ lastAllowed # NoTime
      /\ bucket.ts \in Int /\ stamp[p] \in Int /\ bucket.tokens \in Int
      /\ Rate \in Nat /\ Refill(stamp[p]) \in Int /\ Full \in Int
      /\ Second <= Full /\ Second \in Int
  BY <1>1, <1>2, RefillBounds, ConstantTypes DEF TypeOK, CreditKept, Times, NoTime
<1>4. Refill(stamp[p]) >= bucket.tokens /\ bucket.tokens < Full
  BY <1>1, <1>2, <1>3, RefillBounds
<1>5. bucket.tokens >= Rate * (bucket.ts - lastAllowed)
  BY <1>1, <1>2, <1>3, <1>4 DEF CreditKept
<1>6. CASE stamp[p] < bucket.ts
  <2>1. Rate * (stamp[p] - lastAllowed) <= Rate * (bucket.ts - lastAllowed)
    BY <1>3, <1>6, Monotone
  <2>2. /\ Rate * (stamp[p] - lastAllowed) \in Int
        /\ Rate * (bucket.ts - lastAllowed) \in Int
    BY <1>3
  <2> QED BY <1>2, <1>3, <1>4, <1>5, <2>1, <2>2
<1>7. CASE stamp[p] >= bucket.ts
  <2>1. Refill(stamp[p]) = bucket.tokens + Rate * (stamp[p] - bucket.ts)
    BY <1>1, <1>2, <1>3, <1>7, RefillBounds
  <2>2. Rate * ((stamp[p] - bucket.ts) + (bucket.ts - lastAllowed))
          = Rate * (stamp[p] - bucket.ts) + Rate * (bucket.ts - lastAllowed)
    BY <1>3, Distributes
  <2>3. (stamp[p] - bucket.ts) + (bucket.ts - lastAllowed)
          = stamp[p] - lastAllowed
    BY <1>3
  <2>4. /\ Rate * (stamp[p] - bucket.ts) \in Int
        /\ Rate * (bucket.ts - lastAllowed) \in Int
    BY <1>3
  <2> QED BY <1>2, <1>3, <1>5, <2>1, <2>2, <2>3, <2>4
<1> QED BY <1>3, <1>6, <1>7

-----------------------------------------------------------------------------
(* The inductive invariant. *)

\* The invariant holds before the first request.
LEMMA InitBucketInv == Init => BucketInv
<1> SUFFICES ASSUME Init PROVE BucketInv
  OBVIOUS
<1>1. TypeOK
  BY ConstantTypes DEF Init, TypeOK, NoBucket, Times, NoTime
<1>2. CreditKept /\ StampsFollow
  BY DEF Init, CreditKept, StampsFollow, NoBucket
<1>3. WindowPaid
  <2>1. Rate * (0 - 0) = 0 /\ 0 * Second = 0
    BY ConstantTypes
  <2> QED BY <2>1 DEF Init, WindowPaid, NoBucket
<1> QED BY <1>1, <1>2, <1>3 DEF BucketInv

\* What a script call of slot p, allowed or not, does to the bucket.
ScriptCall(p, tokens) ==
    /\ ReachesRedis(p)
    /\ Store(tokens, stamp[p])
    /\ stamp' = [stamp EXCEPT ![p] = NoTime]
    /\ UNCHANGED <<clock, windowFrom>>

\* A run of the script (limits/mod.rs 50-76) keeps every variable in its range.
LEMMA ScriptKeepsTypes ==
    ASSUME TypeOK, NEW p \in Slots, NEW tokens \in 0..Full,
           ScriptCall(p, tokens), inWindow' \in Nat,
           lastAllowed' \in Times \cup {NoTime}
    PROVE  TypeOK'
<1>1. /\ stamp[p] \in Times /\ stamp[p] <= clock /\ clock \in Times
      /\ clock' = clock /\ windowFrom' = windowFrom
      /\ bucket' = [present |-> TRUE, tokens |-> tokens, ts |-> stamp[p],
                    setAt |-> clock]
  BY DEF ScriptCall, ReachesRedis, Store, TypeOK
<1>2. /\ stamp' \in [Slots -> Times \cup {NoTime}]
      /\ \A q \in Slots : stamp'[q] # NoTime => stamp'[q] = stamp[q]
  BY DEF ScriptCall, TypeOK
<1>3. bucket' \in [present : BOOLEAN, tokens : 0..Full, ts : Times, setAt : Times]
  BY <1>1
<1>4. bucket'.ts <= bucket'.setAt /\ bucket'.setAt <= clock'
  BY <1>1 DEF Times
<1>5. \A q \in Slots : stamp'[q] # NoTime =>
        stamp'[q] <= clock' /\ clock' - stamp'[q] <= MaxDelay
  BY <1>1, <1>2 DEF TypeOK
<1> QED BY <1>1, <1>2, <1>3, <1>4, <1>5 DEF TypeOK

\* In order, the stamp that reaches Redis is the oldest of those in flight.
LEMMA ScriptKeepsOrder ==
    ASSUME TypeOK, StampsFollow, InOrder, NEW p \in Slots, NEW tokens,
           ScriptCall(p, tokens)
    PROVE  /\ StampsFollow'
           /\ bucket.present => bucket.ts <= stamp[p]
BY DEF TypeOK, StampsFollow, ScriptCall, ReachesRedis, Store

\* The refill pays for what the window has allowed so far.
LEMMA RefillPays ==
    ASSUME TypeOK, StampsFollow, WindowPaid, NEW p \in Slots,
           stamp[p] # NoTime
    PROVE  LET s == stamp[p]
               w == IF s >= windowFrom THEN s - windowFrom ELSE 0
           IN  /\ Refill(s) + inWindow * Second <= Full + Rate * w
               /\ s < windowFrom /\ bucket.present => inWindow = 0
<1> DEFINE s == stamp[p]
           w == IF s >= windowFrom THEN s - windowFrom ELSE 0
<1>1. /\ s \in Times /\ s \in Int /\ windowFrom \in Int /\ w \in Nat
      /\ bucket.ts \in Int /\ bucket.tokens \in Int /\ inWindow \in Nat
      /\ Full \in Int /\ Rate \in Nat /\ Second \in Int /\ Second >= 0
      /\ Refill(s) \in Int /\ Refill(s) <= Full
  BY ConstantTypes, RefillBounds DEF TypeOK, Times
<1>2. inWindow * Second \in Nat /\ Rate * w \in Nat
  BY <1>1, ProductNat, ConstantTypes
<1>3. CASE ~bucket.present /\ s >= windowFrom
  BY <1>1, <1>2, <1>3 DEF WindowPaid
<1>4. CASE bucket.present
  <2>1. bucket.ts <= s
    BY <1>1, <1>4 DEF StampsFollow
  <2>2. Refill(s) <= bucket.tokens + Rate * (s - bucket.ts)
    BY <1>1, <1>4, <2>1, RefillBounds
  <2>3. CASE bucket.ts < windowFrom
    <3>1. inWindow = 0
      BY <1>4, <2>3 DEF WindowPaid
    <3>2. inWindow * Second = 0
      BY <1>1, <3>1
    <3> QED BY <1>1, <1>2, <3>1, <3>2
  <2>4. CASE bucket.ts >= windowFrom
    <3>1. bucket.tokens + inWindow * Second
            <= Full + Rate * (bucket.ts - windowFrom)
      BY <1>4, <2>4 DEF WindowPaid, Seen
    <3>2. Rate * ((s - bucket.ts) + (bucket.ts - windowFrom))
            = Rate * (s - bucket.ts) + Rate * (bucket.ts - windowFrom)
      BY <1>1, Distributes
    <3>3. w = (s - bucket.ts) + (bucket.ts - windowFrom)
      BY <1>1, <2>1, <2>4
    <3>4. /\ Rate * (s - bucket.ts) \in Int
          /\ Rate * (bucket.ts - windowFrom) \in Int
      BY <1>1
    <3>5. s >= windowFrom
      BY <1>1, <2>1, <2>4
    <3> QED BY <1>1, <1>2, <2>2, <3>1, <3>2, <3>3, <3>4, <3>5
  <2> QED BY <1>1, <2>3, <2>4
<1>5. CASE ~bucket.present /\ s < windowFrom
  <2>1. inWindow = 0
    BY <1>1, <1>5 DEF WindowPaid
  <2>2. inWindow * Second = 0
    BY <1>1, <2>1
  <2> QED BY <1>1, <1>2, <1>5, <2>2
<1> QED BY <1>1, <1>3, <1>4, <1>5

\* A run of the script pays for what it allows out of the burst or a refill.
LEMMA ScriptKeepsWindow ==
    ASSUME BucketInv, InOrder, NEW p \in Slots, NEW tokens \in 0..Full,
           ScriptCall(p, tokens), TypeOK',
           \/ /\ tokens = Refill(stamp[p])
              /\ inWindow' = inWindow
           \/ /\ tokens = Refill(stamp[p]) - Second
              /\ inWindow' = IF stamp[p] >= windowFrom
                             THEN inWindow + 1 ELSE inWindow
    PROVE  WindowPaid'
<1> DEFINE s == stamp[p]
           w == IF s >= windowFrom THEN s - windowFrom ELSE 0
<1>1. /\ TypeOK /\ StampsFollow /\ WindowPaid /\ s # NoTime
      /\ bucket'.present /\ bucket'.ts = s /\ bucket'.tokens = tokens
      /\ windowFrom' = windowFrom
  BY DEF BucketInv, ScriptCall, ReachesRedis, Store
<1>2. /\ s \in Times /\ s \in Int /\ windowFrom \in Int
      /\ inWindow \in Nat /\ inWindow' \in Nat /\ tokens \in Int
      /\ Full \in Int /\ Rate \in Nat /\ Second \in Nat /\ Second >= 1
      /\ Refill(s) \in Int /\ w \in Nat
  BY <1>1, ConstantTypes, RefillBounds DEF TypeOK, Times
<1>3. /\ Refill(s) + inWindow * Second <= Full + Rate * w
      /\ s < windowFrom /\ bucket.present => inWindow = 0
  BY <1>1, RefillPays
<1>4. s < windowFrom => inWindow = 0
  BY <1>1, <1>2, <1>3 DEF WindowPaid
<1>5. tokens + inWindow' * Second <= Full + Rate * w
  <2>1. CASE inWindow' = inWindow + 1 /\ tokens = Refill(s) - Second
    <3>1. inWindow' * Second = inWindow * Second + Second
      BY <1>2, <2>1
    <3>2. inWindow * Second \in Int /\ Rate * w \in Int
      BY <1>2
    <3> QED BY <1>2, <1>3, <2>1, <3>1, <3>2
  <2>2. CASE inWindow' = inWindow /\ tokens <= Refill(s)
    <3>1. inWindow * Second \in Int /\ Rate * w \in Int
      BY <1>2
    <3> QED BY <1>2, <1>3, <2>2, <3>1
  <2> QED BY <1>2, <2>1, <2>2
<1>6. s < windowFrom => inWindow' = 0
  BY <1>2, <1>4
<1>7. Seen' = w
  BY <1>1 DEF Seen
<1> QED BY <1>1, <1>5, <1>6, <1>7 DEF WindowPaid

\* Allow and Deny are script calls.
LEMMA CallKeepsInv ==
    ASSUME BucketInv, NEW p \in Slots, Allow(p) \/ Deny(p)
    PROVE  BucketInv'
<1>1. /\ TypeOK /\ CreditKept /\ stamp[p] \in Times /\ stamp[p] # NoTime
      /\ Refill(stamp[p]) \in 0..Full
  BY RefillBounds DEF BucketInv, TypeOK, Allow, Deny, ReachesRedis
<1>2. PICK tokens \in 0..Full :
        /\ ScriptCall(p, tokens)
        /\ \/ /\ tokens = Refill(stamp[p]) - Second
              /\ inWindow' = IF stamp[p] >= windowFrom
                             THEN inWindow + 1 ELSE inWindow
              /\ lastAllowed' = stamp[p]
           \/ /\ Deny(p) /\ tokens = Refill(stamp[p])
              /\ inWindow' = inWindow /\ lastAllowed' = lastAllowed
  <2>1. CASE Allow(p)
    <3>1. Refill(stamp[p]) - Second \in 0..Full
      BY <1>1, <2>1, ConstantTypes DEF Allow
    <3> QED BY <2>1, <3>1 DEF Allow, ScriptCall
  <2>2. CASE Deny(p)
    BY <1>1, <2>2 DEF Deny, ScriptCall
  <2> QED BY <2>1, <2>2
<1>3. inWindow' \in Nat /\ lastAllowed' \in Times \cup {NoTime}
  BY <1>1, <1>2 DEF TypeOK
<1>4. TypeOK'
  BY <1>1, <1>2, <1>3, ScriptKeepsTypes
<1>5. bucket'.ts = stamp[p] /\ bucket'.tokens = tokens
  BY <1>2 DEF ScriptCall, Store
<1>6. CreditKept'
  <2>1. CASE lastAllowed' = stamp[p] /\ tokens = Refill(stamp[p]) - Second
    <3>1. Rate * (stamp[p] - stamp[p]) = 0
      BY <1>1, ConstantTypes DEF Times
    <3> QED BY <1>1, <1>5, <2>1, <3>1 DEF CreditKept
  <2>2. CASE Deny(p) /\ tokens = Refill(stamp[p]) /\ lastAllowed' = lastAllowed
    BY <1>5, <2>2, DenialMeansRecent DEF CreditKept
  <2> QED BY <1>2, <2>1, <2>2
<1>7. ASSUME InOrder PROVE StampsFollow' /\ WindowPaid'
  BY <1>1, <1>2, <1>4, <1>7, ScriptKeepsOrder, ScriptKeepsWindow DEF BucketInv
<1> QED BY <1>4, <1>6, <1>7 DEF BucketInv

\* An expired bucket has had time to refill before any stamp still in flight.
LEMMA ExpiryKeepsInv ==
    ASSUME BucketInv, KeyExpires
    PROVE  BucketInv'
<1>1. /\ TypeOK /\ bucket.present /\ bucket' = NoBucket
      /\ clock >= bucket.setAt + KeyTtl
      /\ UNCHANGED <<clock, stamp, windowFrom, inWindow, lastAllowed>>
  BY DEF BucketInv, KeyExpires
<1>2. TypeOK'
  BY <1>1, ConstantTypes DEF TypeOK, NoBucket, Times
<1>3. CreditKept' /\ StampsFollow'
  BY <1>1 DEF CreditKept, StampsFollow, NoBucket
<1>4. ASSUME InOrder PROVE WindowPaid'
  <2>1. WindowPaid /\ StampsFollow
    BY <1>4 DEF BucketInv
  <2>2. /\ bucket.ts \in Nat /\ windowFrom \in Nat /\ clock \in Nat
        /\ bucket.tokens \in Nat /\ inWindow \in Nat /\ Rate \in Nat
        /\ Full \in Nat /\ Second \in Nat /\ KeyTtl \in Nat /\ MaxDelay \in Nat
        /\ KeyTtl - MaxDelay \in Nat /\ Full <= Rate * (KeyTtl - MaxDelay)
        /\ inWindow * Second \in Nat /\ windowFrom <= clock
        /\ bucket.setAt \in Nat /\ bucket.ts <= bucket.setAt
    BY <1>1, ConstantTypes, ProductNat DEF TypeOK, Times
  <2>3. ASSUME NEW t \in Nat, t >= windowFrom, t >= clock - MaxDelay
        PROVE  inWindow * Second <= Rate * (t - windowFrom)
    <3>1. CASE bucket.ts < windowFrom
      <4>1. inWindow * Second = 0
        BY <1>1, <2>1, <2>2, <3>1 DEF WindowPaid
      <4>2. Rate * (t - windowFrom) \in Nat
        BY <2>2, <2>3, ProductNat
      <4> QED BY <4>1, <4>2
    <3>2. CASE bucket.ts >= windowFrom
      <4>1. bucket.tokens + inWindow * Second
              <= Full + Rate * (bucket.ts - windowFrom)
        BY <1>1, <2>1, <3>2 DEF WindowPaid, Seen
      <4>2. Rate * ((KeyTtl - MaxDelay) + (bucket.ts - windowFrom))
              = Rate * (KeyTtl - MaxDelay) + Rate * (bucket.ts - windowFrom)
        BY <2>2, Distributes
      <4>3. (KeyTtl - MaxDelay) + (bucket.ts - windowFrom) <= t - windowFrom
        BY <1>1, <2>2, <2>3
      <4>4. Rate * ((KeyTtl - MaxDelay) + (bucket.ts - windowFrom))
              <= Rate * (t - windowFrom)
        BY <2>2, <4>3, Monotone
      <4>5. /\ Rate * (KeyTtl - MaxDelay) \in Int
            /\ Rate * (bucket.ts - windowFrom) \in Int
            /\ Rate * (t - windowFrom) \in Int
        BY <2>2
      <4> QED BY <2>2, <4>1, <4>2, <4>4, <4>5
    <3> QED BY <2>2, <3>1, <3>2
  <2>4. inWindow * Second <= Rate * (clock - windowFrom)
    <3>1. clock \in Nat /\ clock >= windowFrom /\ clock >= clock - MaxDelay
      BY <2>2
    <3> QED BY <2>3, <3>1
  <2>5. ASSUME NEW p \in Slots, stamp[p] # NoTime
        PROVE  IF stamp[p] < windowFrom THEN inWindow = 0
               ELSE inWindow * Second <= Rate * (stamp[p] - windowFrom)
    <3>1. stamp[p] \in Nat /\ stamp[p] >= clock - MaxDelay
      BY <1>1, <2>2, <2>5 DEF TypeOK, Times
    <3>2. bucket.ts <= stamp[p]
      BY <1>1, <2>1, <2>5 DEF StampsFollow
    <3>3. CASE stamp[p] < windowFrom
      BY <1>1, <2>1, <2>2, <3>1, <3>2, <3>3 DEF WindowPaid
    <3>4. CASE stamp[p] >= windowFrom
      <4>1. inWindow * Second <= Rate * (stamp[p] - windowFrom)
        BY <2>3, <3>1, <3>4
      <4>2. ~(stamp[p] < windowFrom)
        BY <2>2, <3>1, <3>4
      <4> QED BY <4>1, <4>2
    <3> QED BY <2>2, <3>1, <3>3, <3>4
  <2> QED BY <1>1, <2>4, <2>5 DEF WindowPaid, NoBucket
<1> QED BY <1>2, <1>3, <1>4 DEF BucketInv

\* Every step, of a request or of the environment, keeps the invariant.
LEMMA StepKeepsBucketInv ==
    ASSUME BucketInv, [Next]_vars
    PROVE  BucketInv'
<1>0. TypeOK /\ CreditKept /\ (InOrder => StampsFollow /\ WindowPaid)
  BY DEF BucketInv
<1>1. ASSUME NEW p \in Slots, Allow(p) \/ Deny(p) PROVE BucketInv'
  BY <1>1, CallKeepsInv
<1>2. ASSUME NEW p \in Slots, ReadClock(p) PROVE BucketInv'
  <2>1. /\ stamp' = [stamp EXCEPT ![p] = clock] /\ stamp[p] = NoTime
        /\ UNCHANGED <<clock, bucket, windowFrom, inWindow, lastAllowed>>
    BY <1>2 DEF ReadClock
  <2>2. /\ stamp' \in [Slots -> Times \cup {NoTime}] /\ stamp'[p] = clock
        /\ \A q \in Slots \ {p} : stamp'[q] = stamp[q]
        /\ clock - clock <= MaxDelay /\ clock <= clock
    BY <1>0, <2>1, ConstantTypes DEF TypeOK, Times
  <2>3. TypeOK'
    <3>1. \A q \in Slots : stamp'[q] # NoTime =>
            stamp'[q] <= clock /\ clock - stamp'[q] <= MaxDelay
      BY <1>0, <2>2 DEF TypeOK
    <3> QED BY <1>0, <2>1, <2>2, <3>1 DEF TypeOK
  <2>4. CreditKept'
    BY <1>0, <2>1 DEF CreditKept
  <2>5. ASSUME InOrder PROVE StampsFollow' /\ WindowPaid'
    <3>1. bucket.present => bucket.ts <= clock
      BY <1>0 DEF TypeOK, Times
    <3>2. StampsFollow'
      BY <1>0, <2>1, <2>2, <2>5, <3>1 DEF StampsFollow
    <3>3. clock >= windowFrom /\ ~(clock < windowFrom)
      BY <1>0 DEF TypeOK, Times
    <3>4. CASE bucket.present
      BY <1>0, <2>1, <2>5, <3>2, <3>4 DEF WindowPaid, Seen
    <3>5. CASE ~bucket.present
      <4>1. \A q \in Slots : stamp'[q] # NoTime =>
              IF stamp'[q] < windowFrom THEN inWindow = 0
              ELSE inWindow * Second <= Rate * (stamp'[q] - windowFrom)
        <5> SUFFICES ASSUME NEW q \in Slots, stamp'[q] # NoTime
            PROVE  IF stamp'[q] < windowFrom THEN inWindow = 0
                   ELSE inWindow * Second <= Rate * (stamp'[q] - windowFrom)
          OBVIOUS
        <5>1. CASE q = p
          BY <1>0, <2>2, <2>5, <3>3, <3>5, <5>1 DEF WindowPaid
        <5>2. CASE q # p
          BY <1>0, <2>2, <2>5, <3>5, <5>2 DEF WindowPaid
        <5> QED BY <5>1, <5>2
      <4> QED BY <1>0, <2>1, <2>5, <3>2, <3>5, <4>1 DEF WindowPaid
    <3> QED BY <3>4, <3>5
  <2> QED BY <2>3, <2>4, <2>5 DEF BucketInv
<1>3. ASSUME NEW p \in Slots, Drop(p) PROVE BucketInv'
  <2>1. /\ stamp' = [stamp EXCEPT ![p] = NoTime]
        /\ UNCHANGED <<clock, bucket, windowFrom, inWindow, lastAllowed>>
    BY <1>3 DEF Drop
  <2>2. /\ stamp' \in [Slots -> Times \cup {NoTime}]
        /\ \A q \in Slots : stamp'[q] # NoTime => stamp'[q] = stamp[q]
    BY <1>0, <2>1 DEF TypeOK
  <2>3. TypeOK' /\ CreditKept'
    BY <1>0, <2>1, <2>2 DEF TypeOK, CreditKept
  <2>4. ASSUME InOrder PROVE StampsFollow' /\ WindowPaid'
    BY <1>0, <2>1, <2>2, <2>4 DEF StampsFollow, WindowPaid, Seen
  <2> QED BY <2>3, <2>4 DEF BucketInv
<1>4. ASSUME KeyExpires PROVE BucketInv'
  BY <1>4, ExpiryKeepsInv
<1>5. ASSUME Tick PROVE BucketInv'
  <2>1. /\ clock < MaxClock /\ clock' = clock + 1
        /\ \A p \in Slots : stamp[p] # NoTime => clock - stamp[p] < MaxDelay
        /\ UNCHANGED <<bucket, stamp, windowFrom, inWindow, lastAllowed>>
    BY <1>5 DEF Tick
  <2>2. TypeOK'
    BY <1>0, <2>1, ConstantTypes DEF TypeOK, Times
  <2>3. CreditKept'
    BY <1>0, <2>1 DEF CreditKept
  <2>4. ASSUME InOrder PROVE StampsFollow' /\ WindowPaid'
    <3>1. /\ clock \in Nat /\ windowFrom \in Nat /\ Rate \in Nat
          /\ inWindow * Second \in Int
      BY <1>0, ConstantTypes DEF TypeOK, Times
    <3>2. Rate * (clock - windowFrom) <= Rate * (clock' - windowFrom)
      BY <2>1, <3>1, Monotone
    <3>3. Rate * (clock - windowFrom) \in Int /\ Rate * (clock' - windowFrom) \in Int
      BY <2>1, <3>1
    <3>4. inWindow * Second <= Rate * (clock - windowFrom)
            => inWindow * Second <= Rate * (clock' - windowFrom)
      BY <3>1, <3>2, <3>3
    <3> QED BY <1>0, <2>1, <2>4, <3>4 DEF StampsFollow, WindowPaid, Seen
  <2> QED BY <2>2, <2>3, <2>4 DEF BucketInv
<1>6. ASSUME OpenWindow PROVE BucketInv'
  <2>1. windowFrom' = clock /\ inWindow' = 0
        /\ UNCHANGED <<clock, bucket, stamp, lastAllowed>>
    BY <1>6 DEF OpenWindow
  <2>2. TypeOK' /\ CreditKept'
    BY <1>0, <2>1 DEF TypeOK, CreditKept, Times
  <2>3. ASSUME InOrder PROVE StampsFollow' /\ WindowPaid'
    <3>1. /\ clock \in Nat /\ bucket.ts \in Nat /\ bucket.tokens \in 0..Full
          /\ Full \in Nat /\ Rate \in Nat /\ Second \in Nat
      BY <1>0, ConstantTypes DEF TypeOK, Times
    <3>2. 0 * Second = 0 /\ \A t \in Nat : t >= clock => Rate * (t - clock) >= 0
      BY <3>1, ProductNat
    <3>3. PICK seen \in Nat : seen = Seen'
      BY <2>1, <3>1 DEF Seen
    <3>4. Rate * Seen' >= 0 /\ Rate * Seen' \in Int
      <4>1. Rate * seen \in Nat
        BY <3>1, <3>3, ProductNat
      <4> QED BY <3>3, <4>1
    <3>5. \A p \in Slots : stamp[p] # NoTime => stamp[p] \in Nat
      BY <1>0 DEF TypeOK, Times
    <3>6. StampsFollow'
      BY <1>0, <2>1, <2>3 DEF StampsFollow
    <3>7. CASE bucket.present
      <4>1. bucket.tokens + 0 * Second <= Full + Rate * Seen'
        BY <3>1, <3>2, <3>4
      <4> QED BY <2>1, <3>7, <3>6, <4>1 DEF WindowPaid
    <3>8. CASE ~bucket.present
      <4>1. Rate * (clock - clock) >= 0
        BY <3>1, <3>2
      <4>2. \A p \in Slots : stamp[p] # NoTime =>
              IF stamp[p] < clock THEN 0 = 0
              ELSE 0 * Second <= Rate * (stamp[p] - clock)
        BY <3>1, <3>2, <3>5
      <4> QED BY <2>1, <3>2, <3>8, <3>6, <4>1, <4>2 DEF WindowPaid
    <3> QED BY <3>7, <3>8
  <2> QED BY <2>2, <2>3 DEF BucketInv
<1>7. ASSUME UNCHANGED vars PROVE BucketInv'
  BY <1>0, <1>7 DEF BucketInv, TypeOK, CreditKept, StampsFollow, WindowPaid,
                    Seen, vars
<1> QED BY <1>1, <1>2, <1>3, <1>4, <1>5, <1>6, <1>7 DEF Next

\* The invariant holds in every reachable state of the limiter.
THEOREM BucketInvariance == Spec => []BucketInv
<1> QED BY InitBucketInv, StepKeepsBucketInv, PTL DEF Spec

-----------------------------------------------------------------------------
(* The theorems. *)

\* The bucket, its clock and its stamps stay in range; tokens never go below
\* zero or above the burst.
THEOREM BucketTypeCorrect == Spec => []TypeOK
<1>1. BucketInv => TypeOK
  BY DEF BucketInv
<1> QED BY <1>1, BucketInvariance, PTL

\* With timestamps in order, token_bucket_allow lets through at most Cap plus
\* Rate per second over any window of time.
THEOREM BucketBound ==
    ASSUME InOrder PROVE Spec => []WindowBound
<1>1. BucketInv => WindowBound
  <2> SUFFICES ASSUME BucketInv PROVE WindowBound
    OBVIOUS
  <2>1. /\ TypeOK /\ WindowPaid /\ clock \in Nat /\ windowFrom \in Nat
        /\ windowFrom <= clock /\ bucket.ts \in Nat /\ bucket.ts <= clock
        /\ bucket.tokens \in Nat /\ inWindow * Second \in Int
        /\ Rate \in Nat /\ Full \in Nat
    BY ConstantTypes DEF BucketInv, TypeOK, Times
  <2>2. Seen \in Nat /\ Seen <= clock - windowFrom
    BY <2>1 DEF Seen
  <2>3. Rate * Seen <= Rate * (clock - windowFrom)
    BY <2>1, <2>2, Monotone
  <2>4. Rate * Seen \in Int /\ Rate * (clock - windowFrom) \in Int
    BY <2>1, <2>2
  <2> QED BY <2>1, <2>3, <2>4 DEF WindowPaid, WindowBound
<1> QED BY <1>1, BucketInvariance, PTL

\* In any order of timestamps, a request is denied only within 1/Rate second
\* of a request that was allowed.
THEOREM DenialsAreJustified == Spec => DenialJustified
<1>1. BucketInv /\ [Next]_vars =>
        [\A p \in Slots : Deny(p) =>
           lastAllowed # NoTime /\ Rate * (stamp[p] - lastAllowed) < Second]_vars
  <2> SUFFICES ASSUME BucketInv, NEW p \in Slots, Deny(p)
      PROVE  lastAllowed # NoTime /\ Rate * (stamp[p] - lastAllowed) < Second
    OBVIOUS
  <2>1. /\ lastAllowed # NoTime
        /\ Refill(stamp[p]) >= Rate * (stamp[p] - lastAllowed)
    BY DenialMeansRecent
  <2>2. /\ stamp[p] \in Times /\ stamp[p] \in Int /\ lastAllowed \in Int
        /\ Refill(stamp[p]) < Second
    BY DEF BucketInv, TypeOK, Times, NoTime, Deny, ReachesRedis
  <2>3. /\ Refill(stamp[p]) \in Int /\ Second \in Int
        /\ Rate * (stamp[p] - lastAllowed) \in Int
    BY <2>2, RefillBounds, ConstantTypes DEF BucketInv
  <2> QED BY <2>1, <2>2, <2>3
<1> QED BY <1>1, BucketInvariance, PTL DEF Spec, DenialJustified

=============================================================================
