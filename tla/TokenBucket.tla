----------------------------- MODULE TokenBucket -----------------------------
(***************************************************************************)
(* The requests-per-second limiter: token_bucket_allow in                  *)
(* crates/relaykey_app/src/limits/mod.rs, on the key rl:{vk} of one        *)
(* virtual key.                                                            *)
(*                                                                         *)
(* A request reads the gateway's clock (now_ms) and then sends the script  *)
(* to Redis, which runs it atomically.  Between the two other requests may *)
(* run theirs, so the timestamps need not reach Redis in order.            *)
(*                                                                         *)
(* One tick of the clock is a millisecond and a token is Second units, so  *)
(* that the script's delta / 1000 * rate is the integer delta * Rate.      *)
(* A request whose connection fails before the script runs is a Drop, and  *)
(* one that loses the reply is a script call like any other: the bucket    *)
(* does not know what the middleware does with the answer.                 *)
(***************************************************************************)
EXTENDS Integers

CONSTANTS
    Second,      \* ticks per second
    Rate,        \* rps_limit
    Cap,         \* rps_burst.unwrap_or(rps).max(1)
    KeyTtl,      \* EXPIRE key 7 days
    MaxDelay,    \* TimeoutLayer: no script call comes later than this
    InOrder,     \* whether timestamps reach Redis in order
    Slots,       \* requests in flight at once
    MaxClock     \* bound on the clock

ASSUME BucketAssumption ==
    /\ Second \in Nat \ {0}
    /\ Rate \in Nat
    /\ Cap \in Nat \ {0}
    /\ KeyTtl \in Nat /\ MaxDelay \in Nat
    /\ InOrder \in BOOLEAN
    /\ MaxClock \in Nat

\* A bucket left alone until its key expires would have refilled anyway.
ASSUME RefillAssumption ==
    MaxDelay <= KeyTtl /\ Cap * Second <= Rate * (KeyTtl - MaxDelay)

VARIABLES
    clock,
    bucket,      \* the hash rl:{vk}, with the time it was last set
    stamp,       \* now_ms of each request in flight
    windowFrom,  \* history: where the observed window of time starts
    inWindow,    \* history: requests stamped in the window that were allowed
    lastAllowed  \* history: stamp of the request allowed last

vars == <<clock, bucket, stamp, windowFrom, inWindow, lastAllowed>>

Full == Cap * Second

Times == 0..MaxClock

NoTime == -1

NoBucket == [present |-> FALSE, tokens |-> 0, ts |-> 0, setAt |-> 0]

Init ==
    /\ clock = 0
    /\ bucket = NoBucket
    /\ stamp = [p \in Slots |-> NoTime]
    /\ windowFrom = 0
    /\ inWindow = 0
    /\ lastAllowed = NoTime

ReadClock(p) ==
    /\ stamp[p] = NoTime
    /\ stamp' = [stamp EXCEPT ![p] = clock]
    /\ UNCHANGED <<clock, bucket, windowFrom, inWindow, lastAllowed>>

-----------------------------------------------------------------------------
(* The script. *)

Least(a, b) == IF a <= b THEN a ELSE b

\* Mutation: a refill is not capped at a full bucket.
RefillUncapped(now) ==
    IF bucket.present
    THEN bucket.tokens + (IF now >= bucket.ts THEN now - bucket.ts ELSE 0) * Rate
    ELSE Full

Refill(now) ==
    IF bucket.present
    THEN Least(Full, bucket.tokens
                       + (IF now >= bucket.ts THEN now - bucket.ts ELSE 0) * Rate)
    ELSE Full

\* Mutation: the time of a refill is not stored, so it is counted again.
StoreTokens(tokens, now) ==
    bucket' = [present |-> TRUE, tokens |-> tokens, setAt |-> clock,
               ts |-> IF bucket.present THEN bucket.ts ELSE now]

\* Mutation: only whole tokens are stored.
StoreWhole(tokens, now) ==
    bucket' = [present |-> TRUE, tokens |-> tokens - (tokens % Second),
               ts |-> now, setAt |-> clock]

Store(tokens, now) ==
    bucket' = [present |-> TRUE, tokens |-> tokens, ts |-> now, setAt |-> clock]

ReachesRedis(p) ==
    /\ stamp[p] # NoTime
    /\ InOrder => \A q \in Slots : stamp[q] # NoTime => stamp[p] <= stamp[q]

Allow(p) ==
    /\ ReachesRedis(p)
    /\ Refill(stamp[p]) >= Second
    /\ Store(Refill(stamp[p]) - Second, stamp[p])
    /\ inWindow' = IF stamp[p] >= windowFrom THEN inWindow + 1 ELSE inWindow
    /\ lastAllowed' = stamp[p]
    /\ stamp' = [stamp EXCEPT ![p] = NoTime]
    /\ UNCHANGED <<clock, windowFrom>>

Deny(p) ==
    /\ ReachesRedis(p)
    /\ Refill(stamp[p]) < Second
    /\ Store(Refill(stamp[p]), stamp[p])
    /\ stamp' = [stamp EXCEPT ![p] = NoTime]
    /\ UNCHANGED <<clock, windowFrom, inWindow, lastAllowed>>

-----------------------------------------------------------------------------
(* The environment. *)

\* The request is cancelled or Redis fails before the script runs.
Drop(p) ==
    /\ stamp[p] # NoTime
    /\ stamp' = [stamp EXCEPT ![p] = NoTime]
    /\ UNCHANGED <<clock, bucket, windowFrom, inWindow, lastAllowed>>

KeyExpires ==
    /\ bucket.present
    /\ clock >= bucket.setAt + KeyTtl
    /\ bucket' = NoBucket
    /\ UNCHANGED <<clock, stamp, windowFrom, inWindow, lastAllowed>>

Tick ==
    /\ clock < MaxClock
    /\ \A p \in Slots : stamp[p] # NoTime => clock - stamp[p] < MaxDelay
    /\ clock' = clock + 1
    /\ UNCHANGED <<bucket, stamp, windowFrom, inWindow, lastAllowed>>

\* The observer starts a new window: admissions stamped from now on count.
OpenWindow ==
    /\ windowFrom' = clock
    /\ inWindow' = 0
    /\ UNCHANGED <<clock, bucket, stamp, lastAllowed>>

Next ==
    \/ \E p \in Slots : ReadClock(p) \/ Allow(p) \/ Deny(p) \/ Drop(p)
    \/ KeyExpires \/ Tick \/ OpenWindow

Spec == Init /\ [][Next]_vars

-----------------------------------------------------------------------------
(* Properties. *)

\* Clock, bucket and stamps in their ranges: tokens stay between 0 and full.
TypeOK ==
    /\ clock \in Times /\ windowFrom \in 0..clock
    /\ bucket \in [present : BOOLEAN, tokens : 0..Full, ts : Times, setAt : Times]
    /\ bucket.ts <= bucket.setAt /\ bucket.setAt <= clock
    /\ stamp \in [Slots -> Times \cup {NoTime}]
    /\ \A p \in Slots : stamp[p] # NoTime =>
         stamp[p] <= clock /\ clock - stamp[p] <= MaxDelay
    /\ inWindow \in Nat
    /\ lastAllowed \in Times \cup {NoTime}

\* What a token bucket is for (limits/mod.rs:42, docs/security.md:154): over
\* any window of time the limiter allows at most a burst of Cap and Rate more
\* per second, across refills, denials that reset ts_ms, and expiry of the key.
WindowBound == inWindow * Second <= Full + Rate * (clock - windowFrom)

\* The limiter never refuses a client that has waited a full 1/Rate second
\* since the last request it allowed: the tokens a denied call has seen are
\* stored back, also when timestamps arrive out of order.
DenialJustified ==
    [][\A p \in Slots : Deny(p) =>
         lastAllowed # NoTime /\ Rate * (stamp[p] - lastAllowed) < Second]_vars

-----------------------------------------------------------------------------
(* The inductive invariant. *)

\* In-order stamps are never older than the bucket.
StampsFollow ==
    \A p \in Slots : stamp[p] # NoTime /\ bucket.present => bucket.ts <= stamp[p]

\* The part of the window the bucket has seen.
Seen == IF bucket.ts >= windowFrom THEN bucket.ts - windowFrom ELSE 0

\* Every token allowed in the window is paid out of the burst or a refill; a
\* bucket that is gone has been refilled since, for any stamp still to come.
WindowPaid ==
    IF bucket.present
    THEN /\ bucket.tokens + inWindow * Second <= Full + Rate * Seen
         /\ bucket.ts < windowFrom => inWindow = 0
    ELSE /\ inWindow * Second <= Rate * (clock - windowFrom)
         /\ \A p \in Slots : stamp[p] # NoTime =>
              IF stamp[p] < windowFrom THEN inWindow = 0
              ELSE inWindow * Second <= Rate * (stamp[p] - windowFrom)

\* No refill since the request allowed last has been thrown away.
CreditKept ==
    bucket.present =>
        /\ lastAllowed # NoTime
        /\ bucket.tokens >= Full \/ bucket.tokens >= Rate * (bucket.ts - lastAllowed)

BucketInv ==
    /\ TypeOK
    /\ CreditKept
    /\ InOrder => StampsFollow /\ WindowPaid

=============================================================================
