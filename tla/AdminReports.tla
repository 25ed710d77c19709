---------------------------- MODULE AdminReports ----------------------------
(***************************************************************************)
(* What GET /admin/usage and /admin/errors answer from the daily tables:   *)
(* crates/relaykey_app/src/admin/usage.rs and errors.rs.                   *)
(*                                                                         *)
(* Each handler runs two SELECTs one after the other.  Only days whose     *)
(* counts have come to rest are spoken of below, so the two are taken at   *)
(* one moment.                                                             *)
(***************************************************************************)
EXTENDS Rollup, Functions

\* Mutation: the last day is taken in.
InDaysInclusive(d, from, to) == from <= d /\ d <= to

\* day >= $1 AND day < $2.
InDays(d, from, to) == from <= d /\ d < to

\* The rows of table t for these days.
DailyRows(t, from, to) == {g \in DOMAIN table[t] : InDays(g[1], from, to)}

\* The x402 counts of a day and key: the sums over its providers, or zeros.
X402Counts(day, key) ==
    LET x402 == table["x402_rollup_daily"]
        found == {g \in DOMAIN x402 : g[1] = day /\ g[2] = key}
    IN  [c \in Columns("x402_rollup_daily") |-> SumFunction([g \in found |-> x402[g][c]])]

\* admin_usage: a row for each row of usage_rollup_daily, with the x402 counts of
\* the same day and key.
AdminUsage(from, to) ==
    {[day |-> g[1], key |-> g[2], usage |-> table["usage_rollup_daily"][g],
      x402 |-> X402Counts(g[1], g[2])] :
     g \in DailyRows("usage_rollup_daily", from, to)}

GatewayErrors(from, to) ==
    {[day |-> g[1], key |-> g[2], bucket |-> g[3], provider |-> None, source |-> "gateway",
      count |-> table["error_rollup_daily"][g]["count"]] :
     g \in DailyRows("error_rollup_daily", from, to)}

X402Errors(from, to) ==
    {[day |-> g[1], key |-> g[2], bucket |-> g[4], provider |-> g[3], source |-> "x402",
      count |-> table["x402_error_rollup_daily"][g]["count"]] :
     g \in DailyRows("x402_error_rollup_daily", from, to)}

\* admin_errors: the rows of both error tables.
AdminErrors(from, to) == GatewayErrors(from, to) \cup X402Errors(from, to)

-----------------------------------------------------------------------------
(* Properties. *)

\* Every row of the day was there when a completed run began.
AtRest(d) == \A row \in source : row.day = d => row.id \in settled

SumCounts(errors) == SumFunction([e \in errors |-> e.count])

Errors(k, d, buckets) ==
    {e \in AdminErrors(d, d + 1) : /\ e.source = "gateway" /\ e.key = k
                                   /\ e.bucket \in buckets}

UpstreamBuckets == {"upstream_timeout", "upstream_bad_gateway", "upstream_5xx", "upstream_4xx"}

\* The bucket of a blocked request is its reason behind 'blocked:', and so none of the others.
ASSUME BucketsAssumption == Reasons \cap (UpstreamBuckets \cup {"other"}) = {}

\* The usage report of a day at rest agrees with the events, though four statements
\* wrote its tables at four moments: every request was forwarded or blocked, the
\* intents of all providers are there, whichever run wrote which table last, and exactly the keys
\* with a request that day are reported (a key with nothing but intents is not).
UsageAtRest ==
    \A d \in 1..Days : AtRest(d) =>
        /\ \A u \in AdminUsage(d, d + 1) :
             LET n == Cardinality({row \in source : row.in = "usage_events"
                                                    /\ row.day = d /\ row.key = u.key})
             IN  /\ u.day = d
                 /\ u.usage["total"] = n
                 /\ u.usage["forwarded"] + u.usage["blocked"] = n
                 /\ u.x402["intents_created"] =
                      Cardinality({row \in source : row.in = "payment_intents"
                                                    /\ row.day = d /\ row.key = u.key})
        /\ {u.key : u \in AdminUsage(d, d + 1)} =
             {row.key : row \in {x \in source : x.in = "usage_events" /\ x.day = d}}

\* The two reports of a day at rest agree with each other: the blocked requests are
\* the error report's blocked buckets, the failed ones its upstream buckets, whatever
\* status the upstream made up.
ErrorsAtRest ==
    \A d \in 1..Days : AtRest(d) =>
        \A u \in AdminUsage(d, d + 1) :
             /\ u.usage["blocked"] = SumCounts(Errors(u.key, d, Reasons))
             /\ u.usage["4xx"] + u.usage["5xx"] = SumCounts(Errors(u.key, d, UpstreamBuckets))

=============================================================================
