---------------------------- MODULE MonthlyQuota ----------------------------
(***************************************************************************)
(* The monthly quota: monthly_quota_allow_and_incr in                      *)
(* crates/relaykey_app/src/limits/mod.rs, on the keys quota:{vk}:{YYYYMM}  *)
(* of one virtual key.                                                     *)
(*                                                                         *)
(* A request reads the clock twice, for the month in the key and for the   *)
(* time to live, and then sends a script that Redis runs atomically.  The  *)
(* clock has Second ticks per second, so that the rounding of the time to  *)
(* live to whole seconds is visible.                                       *)
(***************************************************************************)
EXTENDS Integers

CONSTANTS
    Second,     \* ticks per second
    Month,      \* ticks per month
    MinTtl,     \* the .max(60) of seconds_until_next_month_utc
    MaxDelay,   \* TimeoutLayer: no script runs later than this
    Limit,      \* monthly_quota of the policy
    Slots,      \* requests in flight at once
    Months      \* bound: months observed

ASSUME QuotaAssumption ==
    /\ Second \in Nat \ {0} /\ Month \in Nat \ {0} /\ Month % Second = 0
    /\ MinTtl \in Nat /\ Limit \in Nat
    /\ MaxDelay \in Nat /\ MaxDelay + Second <= MinTtl * Second + 1
    /\ Months \in Nat \ {0}

VARIABLES
    clock,
    counter,     \* the Redis key of each month
    call,        \* the call each slot is preparing
    allowed,     \* history: requests allowed under each month's key
    early        \* history: those allowed before the month's last second

quotaVars == <<clock, counter, call, allowed, early>>

MonthIds == 0..(Months - 1)

MonthAt(t) == t \div Month

EndOf(m) == (m + 1) * Month

NoCall == [step |-> "idle", month |-> 0, ttl |-> 0, readAt |-> 0]

NoKey == [used |-> 0, expiresAt |-> 0]

QuotaInit ==
    /\ clock = 0
    /\ counter = [m \in MonthIds |-> NoKey]
    /\ call = [p \in Slots |-> NoCall]
    /\ allowed = [m \in MonthIds |-> 0]
    /\ early = [m \in MonthIds |-> 0]

-----------------------------------------------------------------------------
(* The gateway's side: yyyymm_utc, then seconds_until_next_month_utc. *)

ReadMonth(p) ==
    /\ call[p].step = "idle"
    /\ call' = [call EXCEPT ![p] = [step |-> "month", month |-> MonthAt(clock),
                                    ttl |-> 0, readAt |-> clock]]
    /\ UNCHANGED <<clock, counter, allowed, early>>

\* Mutation: the time to live is at most MinTtl, not at least.
TtlAtMost(t) ==
    LET whole == (EndOf(MonthAt(t)) - t) \div Second
    IN  IF whole <= MinTtl THEN whole ELSE MinTtl

\* Mutation: the time to live has no minimum, and rounds to nothing.
TtlUnbounded(t) == (EndOf(MonthAt(t)) - t) \div Second

\* whole_seconds() rounds towards zero.
SecondsUntilNextMonth(t) ==
    LET whole == (EndOf(MonthAt(t)) - t) \div Second
    IN  IF whole >= MinTtl THEN whole ELSE MinTtl

ReadTtl(p) ==
    /\ call[p].step = "month"
    /\ call' = [call EXCEPT ![p].step = "script",
                            ![p].ttl = SecondsUntilNextMonth(clock)]
    /\ UNCHANGED <<clock, counter, allowed, early>>

-----------------------------------------------------------------------------
(* The script. *)

\* GET key: a key past its expiry is gone.
Current(m) == IF clock < counter[m].expiresAt THEN counter[m].used ELSE 0

\* Mutation: the comparison is off by one.
UpToLimit(m) == Current(m) <= Limit

UnderLimit(m) == Current(m) < Limit

Allow(p) ==
    LET m == call[p].month
    IN  /\ call[p].step = "script"
        /\ UnderLimit(m)
        /\ counter' = [counter EXCEPT ![m] =
             [used |-> Current(m) + 1,
              expiresAt |-> IF Current(m) = 0
                            THEN clock + call[p].ttl * Second
                            ELSE @.expiresAt]]
        /\ allowed' = [allowed EXCEPT ![m] = @ + 1]
        /\ early' = [early EXCEPT ![m] =
                       IF clock <= EndOf(m) - Second THEN @ + 1 ELSE @]
        /\ call' = [call EXCEPT ![p] = NoCall]
        /\ UNCHANGED clock

Deny(p) ==
    /\ call[p].step = "script"
    /\ ~UnderLimit(call[p].month)
    /\ call' = [call EXCEPT ![p] = NoCall]
    /\ UNCHANGED <<clock, counter, allowed, early>>

-----------------------------------------------------------------------------

\* The request is cancelled, or Redis fails before the script runs.
Forget(p) ==
    /\ call[p].step # "idle"
    /\ call' = [call EXCEPT ![p] = NoCall]
    /\ UNCHANGED <<clock, counter, allowed, early>>

Tick ==
    /\ clock < Months * Month - 1
    /\ \A p \in Slots : call[p].step # "idle" => clock - call[p].readAt < MaxDelay
    /\ clock' = clock + 1
    /\ UNCHANGED <<counter, call, allowed, early>>

QuotaNext ==
    \/ \E p \in Slots : \/ ReadMonth(p) \/ ReadTtl(p)
                        \/ Allow(p) \/ Deny(p) \/ Forget(p)
    \/ Tick

QuotaSpec == QuotaInit /\ [][QuotaNext]_quotaVars

-----------------------------------------------------------------------------
(* Properties. *)

\* Clock, keys and calls in their ranges.
QuotaTypeOK ==
    /\ clock \in 0..(Months * Month - 1)
    /\ counter \in [MonthIds -> [used : 0..Limit, expiresAt : Nat]]
    /\ call \in [Slots -> [step : {"idle", "month", "script"}, month : MonthIds,
                           ttl : Nat, readAt : Nat]]
    /\ allowed \in [MonthIds -> Nat] /\ early \in [MonthIds -> Nat]

\* The quota caps a month up to its last second: the counter a month starts
\* lives until then, whichever call started it and however long the script
\* took to reach Redis.
CapUntilLastSecond == \A m \in MonthIds : early[m] <= Limit

\* A month's requests are counted by at most two counters: the one that the
\* rounding lets go early, or that calls delayed past the month's end miss,
\* and a second that its minimum time to live keeps until every such call has
\* run.
AtMostTwice == \A m \in MonthIds : allowed[m] <= 2 * Limit

=============================================================================
