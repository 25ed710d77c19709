# A TLA+ model of the RelayKey backend

RelayKey is an API gateway: a client sends a request with a *virtual key*, the
gateway checks the key, its policy, its limits and, where configured, an x402
payment, and forwards the request to a partner with the partner's own credential.
The program is stateless; what requests share is in PostgreSQL and Redis, and
each request is an async handler that can be interleaved with every other one at
any `.await`, and dropped at any `.await`.

This directory holds TLA+ modules of the parts where that matters, TLC
configurations that check them on small instances, and TLAPS proofs of their main
properties for every instance. Paths below are relative to the repository;
`app/` stands for `crates/relaykey_app/src/`, `queries/` for
`crates/relaykey-db/src/queries/`.

## 1. The system

`app/app.rs` stacks the handlers of `/proxy/:partner/*tail`:

    require_virtual_key -> enforce_allowlist -> enforce_limits -> enforce_x402 -> proxy::handler

and `app/main.rs` puts a 30 s `TimeoutLayer` around the router, which answers and
drops whatever handler is still running. A client that disconnects has the same
effect.

| Component | State | Operations | Interacts with |
|---|---|---|---|
| Virtual-key authentication, `app/auth.rs` | rows of `virtual_keys` (read) | look up by hash, load the policy, attach both to the request | policy cache, PostgreSQL |
| Policy cache, `app/policies/cache.rs` | Redis `rk:policy:{id}`, 5 min | read through, fill, no invalidation | Redis, PostgreSQL |
| Allowlist, `app/policies/allowlist.rs`, again in `app/proxy.rs` 48-88 | none | match the path with patterns | policy |
| Limits middleware, `app/limits/middleware.rs` | none | bucket, then quota, fail-open | the two limiters, usage events |
| Requests-per-second limiter, `app/limits/mod.rs` 44-90 | Redis hash `rl:{vk}`: tokens, ts_ms | read the clock, run a script | Redis |
| Monthly quota, `app/limits/mod.rs` 94-132 | Redis counter `quota:{vk}:{YYYYMM}` | read month and time to live, run a script | Redis |
| x402 gate, `app/x402/middleware.rs` | local: the intent found | sweep, replay checks, look up, verify, reconcile, insert | `payment_intents`, provider, x402 events |
| Payment intents, `queries/payment_intents.rs`, migrations 0011, 0016 | table `payment_intents`, three partial unique indexes | insert, mark verified, mark failed, expire, three queries | PostgreSQL |
| x402 resolution, `app/x402/config.rs`, `registry.rs`, providers | none | is this request gated, by which provider | policy |
| Proxy handler, `app/proxy.rs` | local: attempt, retries_used, deadline | look-ups, checks, retry loop, usage event | partner, retry budget, PostgreSQL |
| Retry budget, `app/retry/budget.rs` | Redis counters per partner and per virtual key | INCR, EXPIRE, twice | Redis |
| Usage events, `app/usage.rs` | table `usage_events` | insert | PostgreSQL |
| Rollups and admin, `app/bin/rollup.rs`, `queries/metrics.rs`, `app/admin/` | daily tables | four upserts; queries | PostgreSQL |

What is hard to get right:

- **Read, wait, write.** The gate checks for replay, finds the intent, asks the
  provider and updates the row in four separate awaits, and the `UPDATE`s do not
  look at the row again.
- **Cancellation between two steps that belong together:** verdict and `UPDATE`,
  `INCR` and `EXPIRE`, sending a request and recording it.
- **Clocks.** The limiter's clock is read in the gateway and used in Redis, the
  quota reads it twice, the retry loop mixes a deadline with waits it does not
  bound.
- **Commands that fail or lose their reply,** with a policy of failing open.
- **Time to live** as the only thing that resets a counter.

- **Two readings of one thing:** the allowlist is matched twice by different code, a
  policy lives in the table and in the cache, a month is in the key and in its time to
  live, and four daily tables count the same rows at four moments.

What makes each component correct, in a sentence: an intent is verified only by a
payment for its own request, and a proof serves one request (gate); over every
window the limiter lets through at most burst and rate, and refuses nobody slower
(bucket); a month has one cap (quota); a minute pays for a bounded number of
retries and then starts afresh (budget); a request is sent at most as often as
policy, method and budget allow, is answered, in time, and recorded as what it was
(proxy); a replaced policy stops governing within a known time (policy cache); the
most specific override decides, field by field, and the two matchers agree where they
must (settings); a refused request has used nothing of what lies behind its refusal and
is told the true reason (the layers together); a count never exceeds the rows there are,
and what a completed run found stays counted (rollups).

## 2. Modules

| Module | Models | Composes |
|---|---|---|
| `PaymentIntents` | the table and its statements | |
| `X402Gate` | `enforce_x402` | extends `PaymentIntents` |
| `IntentLedger` | abstract: what the table promises | implemented by `X402Gate` |
| `TokenBucket` | `token_bucket_allow` | |
| `MonthlyQuota` | `monthly_quota_allow_and_incr` | |
| `PolicyCache` | `load_policy_bundle` | |
| `RetryBudget` | `allow_retry_dual_budget` | |
| `ProxyForward` | `proxy::handler` | extends `RetryBudget` |
| `Paths`, `Allowlist`, `X402Config` | the two allowlist matchers and `resolve_x402_config`, as operators | `Allowlist` and `X402Config` extend `Paths` |
| `Settings` | lists and environments that operators edit | extends `Allowlist`, `X402Config` |
| `Gateway` | the layers of `build_router` around a request | extends `MonthlyQuota`, `Allowlist`, `X402Config` |
| `Rollup` | `bin/rollup.rs` and its four statements | |
| `AdminReports` | `admin_usage`, `admin_errors` | extends `Rollup` |
| `MC*` | instances for TLC: model values, symmetry | extend the module they instantiate |
| `*Proofs` | theorems and their proofs | extend the module they are about |

Definitions named `*Loose`, `*Swapped`, `*Uncapped` and the like, marked
"Mutation", are used by no specification. Each is a plausible bug in the definition
that follows it; with the bug in its place, TLC finds the property listed for it in
`PROJECT.json` violated, which shows that the property can fail.

### PaymentIntents and X402Gate

`intents[i]` is the i-th row inserted; its index stands for `id`, `ts` and (since
every intent lives 15 minutes) the order of `expires_at`, so `lapsed` alone says
which rows are overdue. Partner and path are functions of the request hash and not
stored. A statement is one atomic change, and `Settle` is refused as a whole when a
unique index would be violated.

A slot runs one request at a time and `pc` names the await it is at: `expire`
(sweep, then buffering the body), `replay_id`, `replay_token`, `find`, `verify`,
`mark_verified`, `mark_failed`, `mark_failed_error`, `insert`, `log`. Every action
goes from one await to the next; every statement may also fail, or take effect and
lose its reply; `Drop` is cancellation. `paid`, `forwards` and `shared` are histories:
the accepted requests, those given to `next.run` with the intent they reconciled, and
the intents that two requests ever held at the same time. The
provider's verdict is a free choice among `Verdicts`: `noop`, `stub` and a future
provider are all covered. Which requests are gated is the constant `Gated`.

### TokenBucket

`stamp[p]` is the `now_ms` a request has read, between `ReadClock` and the script
(`Allow` or `Deny`). A token is `Second` units and a tick a millisecond, which makes
the script's floating-point refill an exact integer; rounding of doubles is not
modelled. `InOrder` says whether scripts reach Redis in the order of their stamps.
`MaxDelay` is the `TimeoutLayer`: no script is sent later than that. The window
`windowFrom`/`inWindow` is an observer that may open at any moment, so an invariant
about it speaks of every window.

### MonthlyQuota

Ticks are fractions of a second, so that the rounding of the time to live shows.
`ReadMonth`, `ReadTtl` and the script are three actions with time between them. The
actions have names of their own (`QuotaInit`, `QuotaNext`, `Forget`), because `Gateway`
extends the module and runs it at the await where `enforce_limits` asks the quota.

### PolicyCache

One policy: `row` is its version in the table, `entry` the Redis key, `load[p]` a load
at its GET, its query or its SET. The three awaits are apart, so that a fill writes what
the table held some time ago, over whatever the entry holds by then. `Miss` covers no
entry, one that does not decode and no answer from Redis; `Fill` may fail. Operators
replace or remove the row at any moment (`Replace`, no statement of the program does),
and `retiredAt` is a history of when they did.

### Allowlist, X402Config, Settings

Paths and patterns are sequences of tokens: a slash, a star, or a piece of a name.
`Matches` and `MatchOne` are the two matchers of `app/policies/allowlist.rs` and
`app/proxy.rs`, each translated from its own code; `Resolve` is `resolve_x402_config`,
where an override is a function on the fields it sets, so that merging is choosing by
domain. `Settings` adds the only thing that changes either: operators who edit a list, or
the three maps of overrides in the environment, which may also be lost or stop parsing.
The middleware sees the path as it was sent (`app/policies/allowlist.rs:31`) and the
handler percent-decoded (`app/proxy.rs:107`): an escape of a character is one token,
`Decode` says what it is decoded to, and `HandlerAllows` matches the decoded path. A list
whose pattern is an escape, but not what that decodes to, is read in two ways, so
`ListedDecoded` is a hypothesis wherever the two readings are said to agree. Only `Decode`
is external (it is axum's); escapes in the partner's name, and paths that are not UTF-8
when decoded, which axum refuses, are left out.

### Gateway

`stage[p]` is the await a request is at, from the look-up of its key to the proxy's
answer; `spent[p]` is a history of what it used up (a token of the bucket, units of the
quota, a payment), of the limits that were passed over because Redis failed at them
(`skipped`), and of whether the partner got it (`sent`); `answer[p]` and `event[p]` say how
it was answered and recorded. The event of a refusal is written at `record`
(`Record`, best effort) and the 429 given at `recorded` (`TooManyRequests`); a request
dropped in between, or in the handler (where it may have done anything up to all of
`HandlerDoes`), keeps what it spent and recorded and is answered `dropped`. An event whose
INSERT failed is "none". The quota runs step by step; the bucket, the policy load, the
gate and the proxy are one step each with a free outcome, since they have modules of
their own. The policy a request is given is a free choice as well, which covers every
staleness `PolicyCache` allows; it is the same policy at every later layer, as in
the code, which clones it into the request.

### Rollup and AdminReports

`source` holds the committed rows of `usage_events`, `x402_events` and
`payment_intents`, `table` the four daily tables by primary key. A run (`job[r]`) is at
one of four statements: a statement sees the rows that are committed when it starts
and overwrites with what it counted when it ends, and meanwhile rows are inserted,
intents settled, and other runs begin, fail or are killed. A row is given any day at its
commit: `ts` is the time its INSERT started, which may be before midnight. Customer,
virtual key and partner are one key; the x402 tables are grouped by provider as well.
`settled` is a history: the rows a
completed run found when it began, unless another run was under way then.
`AdminReports` are the two reports as functions of the tables; the usage report sums the
x402 counts of a key over its providers.

### RetryBudget

`ask[p]` is a call of `allow_retry_dual_budget`: `connect`, `partner`,
`partner_ttl`, `vk`, `vk_ttl`, then the decision. INCR (`Take`) and EXPIRE
(`SetTtl`) are separate, and an error, a lost reply or a cancellation can stop the
call before, between and after them. A counter saturates one above its limit, where
the code can no longer tell values apart. `since`, `orphaned`, `windowFrom` and
`inWindow` are histories; `orphaned` are the keys whose counter a call started and
left without its EXPIRE.

### ProxyForward

`pc` is the place in `handler`; the two look-ups, the loop's head, the attempt in
flight (`sent`), the two calls of the budget, the sleep, the usage event (`Record`), and
the answer that follows it (`Respond`): a request dropped between the two keeps its event. The local
checks between look-up and loop are one choice between going on, a recorded refusal
and the unrecorded refusal of a malformed credential header. Time moves only when no
timer of the loop is due (`TimersPending`): tokio timers that are due fire, and
scheduling delay is not modelled. Whether upstream answers, and how, is free.
`RetryBudget` runs at the two awaits of the budget check and nowhere else: the handler
takes the budget's own actions there.

## 3. Runs

Bounds are constants in the `.cfg` of the same name.

| Run | Shows | Bounds |
|---|---|---|
| `gate_requests` | the inductive invariant `IInv`; a replay refusal is justified when every client uses one header; a forward whose intent nobody else held stays recorded, and its proof pays for one request hash; the table implements `IntentLedger` | 2 requests at once, 2 hashes, 1 payment id, 2 intents: enough for two requests to race for one row and for a proof to be offered for a second request |
| `gate_headers` | `VerifiedWasPaid`, `ForwardedWasPaid` with both headers | 2 at once, 2 virtual keys (one with an unregistered provider), 1 hash, id and token, 1 intent: rows settled several times with different parts of a proof |
| `bucket_ordered` | `WindowBound`, `DenialJustified` | 2 requests, rate 2, burst 2, 11 ticks of a third of a second: several refills, a key that expires, windows that span both |
| `policy_cache` | `CacheInv`, `StalenessBounded`, `FallbackIsCurrent` | 2 loads at once, 3 versions, an entry of 2 and loads of at most 2, 9 ticks: a slow fill of the first version over the second, and the time for it to be served as late as can be |
| `budget_window` | `WindowBound`, `BudgetResets`, with every fault | 2 calls, limits 2 and 1, window 2, calls of at most 1, 4 ticks: two counters in a window, and one that outlives its minute if nobody gives it a time to live |
| `proxy_calls` | `SendsBounded`, `EventsAgree`, `OverrunBounded`, `RetriesInWindow`, `EveryCallAnswers` | 1 request after another, 2 attempts (the code's default), timeout 3 so that the time would allow a third, backoff 1, budgets of 1, a window of 3, 7 ticks: requests before and after a counter's end |
| `gateway` | `ForwardedWasLet`, `SpendsInOrder`, `RefusalsTellWhy`, and the quota's `CapUntilLastSecond` and `AtMostTwice` | 2 requests at once, a path that must be paid for and one with an escape, a policy with both limits, one with the quota alone that lists the escape and what it decodes to, and one without limits that lists the escape alone; limit 1, 2 months of 2 seconds, half-second ticks: a month used up, its counter gone early, calls that straddle its end |
| `settings` | `AllowlistsAgree`, `ResolutionIsLayered`, `OverridesAreScoped` | every pattern and path of up to three tokens (a slash, a name, a star, an escaped slash, an escaped name), and of four without escapes; eight overrides, 2 edits: two patterns in a list, and two maps that name one caller |
| `rollup` | `NeverOvercounts`, `CompletedRunCounts`; `UsageAtRest`, that the usage report of a day at rest agrees with the events, and `ErrorsAtRest`, that the error report agrees with it | 2 runs at once, 2 rows of any kind, key and provider (2 each), 2 days of which the runs count the second: a row between two statements or out of range, and a run that overtakes another. Runs that have no day in common write no row in common; those that share only some of their days are left to the proofs. That a sum over two providers is right takes a third row, and is left to the proof |

Two requests are the fewest that interfere, and every interference in the code is
between one request and what another left in a row or a counter, so two show each kind
of it. They do not show what takes three requests; that is left to the proofs of
section 4, which hold for any number. `proxy_calls` has one handler at a time, because
the handler's variables and the budget's together outgrow two: what two handlers do to
the budget is `budget_window`, and `RetryWindowsBounded` and `RetriesStayInWindow` are
proved for any number of handlers.

Where the model disagrees with the documentation, a run expects a counterexample:

| Run | Statement | What the code does |
|---|---|---|
| `gate_unrecorded` | proofs are "bound to the request hash" (docs/security.md:208) | a proof that verifies with no pending intent is forwarded and not recorded (`app/x402/middleware.rs` 321) |
| `gate_overlap` | a proof already used by a different verified request is blocked (`app/x402/middleware.rs` 167-169) | two overlapping requests settle one row; the second `UPDATE` replaces the first proof. `UnsharedProofBound` says that this is the only way: without a shared intent the statement holds |
| `budget_stuck` | "resets each minute via TTL" (`app/retry/budget.rs:29`) | a call that stops between `INCR` and `EXPIRE` leaves a counter that never resets. `BudgetResets` says that nothing else does |

Other disagreements, read in the code while it was modelled, with no run of their own:

- docs/security.md:205 says challenges carry "an expiration time" and 207 that proofs are
  scoped to a narrow window; neither the look-up (`queries/payment_intents.rs:159`) nor
  the `UPDATE` reads `expires_at`, so an intent that lapses after the sweep, or whose
  sweep failed, is still verified.
- `app/limits/mod.rs:42` announces a "Token-bucket limiter."; line 72 stores the caller's
  `now_ms` even when it is older than the stored one, and the time between is credited
  twice. `WindowBound` needs `InOrder`: with `InOrder = FALSE` in `bucket_ordered.cfg` TLC
  finds a window that holds more than the burst and the rate.
- README.md:34 promises "hard monthly usage caps"; the quota's time to live is rounded
  down (`app/limits/mod.rs:33`), so a second counter can start in a month's last second
  or for a request delayed past its end. What does hold is in `gateway`.
- docs/security.md:160 prefers "counting forwarded requests (not blocked)"; the quota is
  counted before the gate and the proxy, whose refusals give nothing back.
  `SpendsInOrder` says what a refusal does not cost.
- A list with "/a%20b" and not "/a b" lets `GET /proxy/p/a%20b` through the middleware,
  which takes a token, a unit of the quota and a payment from it, and is refused as
  `endpoint_not_allowed` by the handler, which matches "/a b" (`app/policies/allowlist.rs:31`
  against `app/proxy.rs:107` and 251). `SpendsInOrder` and `AllowlistsAgree` hold of lists
  that have with each pattern what that decodes to.
- An empty allowlist allows nothing in `app/policies/allowlist.rs:39` and everything in
  `app/proxy.rs:50`. The middleware comes first, so nothing gets through;
  `AllowlistsAgree` says how far the two agree otherwise.
- The rollups take back what they counted when an older run ends after a newer one
  (`queries/metrics.rs:88`), and never report the intents of a key that has no usage row
  that day (`app/admin/usage.rs:132`). `CompletedRunCounts` and `UsageAtRest` are stated
  for what is left.
- docs/security.md:179 asks for usage events "for every request decision"; the refusals of
  authentication, of the middleware's allowlist and of the gate write none, nor do the 405,
  502, 504 and malformed-credential exits of `app/proxy.rs` (117, 311-331, 387, 562, 576).
  `EventsAgree` and `RefusalsTellWhy` cover the events that are written.
- `app/proxy.rs:340` speaks of a "total request budget"; the budget check and the sleep
  (450) are not bounded by it. `OverrunBounded` says by how much they exceed it.
- `COALESCE` in `queries/payment_intents.rs` 85-86 keeps a token that a rejected proof
  left on a row. Once another proof verifies the row, the rejected one counts as used.
  `ReplayRefusalJustified` therefore holds only while clients send one kind of header,
  which is why `gate_requests` has payment ids and no tokens.

Most runs switch deadlock checking off: the counters, clocks and tables are bounded,
so a model stops when its bounds are used up, which the program does not.
Symmetry is declared on slots (and on equal virtual keys of the budget) only, and never
in the run that checks liveness.

### Fairness

`ProxyForward!FairSpec` assumes weak fairness of the handler's own steps and of the
budget's (Redis and the database answer or fail, due timers fire), and of the
passing of time. It does not assume that upstream answers, nor that a request is
dropped: `EveryCallAnswers` follows from the timeout around the attempt and the
bound on attempts. It is the only fairness assumed: the gate's database and provider
have no timeout of their own, and what ends a request that waits for them is the
`TimeoutLayer`, which the models have as `Drop` and `MaxDelay`.

## 4. Proofs

All eight proof modules are checked by `tlapm` to the last leaf. Every property of a
passing run is a theorem, for every value of the constants, except the one liveness
property (see below). Assumptions are the `ASSUME`s of the modules, which state the
types of constants and:

- `RefillAssumption`: a bucket left alone until its key expires (7 days) would have been
  full by then (capacity / rate is below that for any rate of one request a week or more);
- `BucketAssumption` and its like: the `TimeoutLayer` bounds the delay of a call;
- `QuotaAssumption`: this delay is shorter than the quota's minimum time to live (30 s
  and 60 s in the code);
- `SlotsAssumption`: finitely many requests are in flight at a time, so that they can be
  counted;
- `RollupAssumption` and `BucketsAssumption`: NULL is neither a reason nor a status, and
  no blocked bucket is named like an upstream bucket, because it is the reason behind
  `blocked:` (`queries/metrics.rs:141`).

One theorem has a hypothesis of its own, `OneHeaderKind` (below).

**X402GateProofs.** `IInv` joins the types, the unique indexes, what a request knows
at each await (`SlotOK`) and the two properties. The two are not inductive alone: to
see that a row about to be marked verified was paid, one must know that the intent
found earlier still belongs to the request's key and hash (rows never change owner)
and that `mark_verified` is reached only through an accepted verdict.
`Invariance` gives `TypeCorrect`, `VerifiedRowsArePaid` and `ForwardsArePaid`;
`GateImplementsLedger` maps each action to a step of `IntentLedger` or to none,
where the index on verified rows supplies the guard of `MarkPaid`.
`RecordInv` says that an intent two requests hold is in `shared`, that a forward of an
intent outside it is still recorded, and that nobody holds such an intent any more;
the last part is what makes it inductive, since only a holder can settle a row again.
With the unique indexes of `IInv` it gives `UnsharedProofsBound`: two forwards with one
proof would be two rows with one payment id or token.
`ReplaysAreJustified` assumes `OneHeaderKind`, that requests carry payment ids only or
payment tokens only. The verified row that a replay look-up finds holds, by
`VerifiedWasPaid`, the whole of an accepted proof; with one kind of header that whole is
the id or token looked up. With two it need not be, and the statement is false (section
3, `COALESCE`). `ReplayInv` adds that a refusal is carried at no await but `log`, so that
a refusal in hand was made by the look-up before.

**TokenBucketProofs.** `BucketInv` says that tokens left plus requests allowed in the
window are paid for by the burst and the refill the bucket has *seen* (`WindowPaid`),
and, when the key is gone, that any stamp still to come is late enough for a full
bucket to be due; `CreditKept` says that no refill since the last allowed request was
lost. `BucketBound` needs `InOrder`, without which it is false (section 3);
`DenialsAreJustified` does not.

**ProxyForwardProofs**, first the budget. `WindowInv`: a counter that can expire lives a
full window since its first take (`CountersLast`), so a window sees at most the tail of
one counter and the whole of the next (`WindowPaid`), which is `2 * limit - 1` takes.
`ResetInv`: every counter that is not orphaned has a time to live or a call about to
set it, and that call is younger than the `TimeoutLayer` allows, so `BudgetsReset` holds
of every interleaving of calls and every fault that does not hit that one gap.
Then the handler. `HandlerInv` ties the number of sends to `attempt`, `attempt`
to `retries_used`, and the budget's state to the await the handler is at; it is
proved together with `WindowInv`, whose types it needs. A step of the composition is a
step of `RetryBudget` or a stutter, by its construction (the lemma `HandlerKeepsBudget`), so
`RetryWindowsBounded` is `WindowBounded` carried over, not proved again. `TimingInv`
adds how late each await can be, and gives `OverrunsAreBounded`.
`RetriesStayInWindow` counts the retries that are made, and a call of the budget takes
from a counter before it knows whether a retry is granted: the partner's counter is taken
first, then the key's. `RetriesPaid` therefore adds the calls that have taken within the
limit and may still be granted (`Takers`) to the retries made, in the window observed and
in the one that would be opened now, and bounds the sum by what the current counter
accounts for (`PaidSince`): what it holds, less its first take when that is older than the
window, or else all its predecessor could hold but the first take as well. A take adds one
to both sides, a grant moves a call from the takers to the retries, a dropped request only
lowers the takers; counting the takers is where the requests must be finitely many.

**PolicyCacheProofs.** `CacheInv` says that an entry of a replaced version ends at most
one load and one life after the replacement (`EntryOK`), because the fill that wrote it
was part of a load that began before it (`LoadOK`); a hit can then come one more load
after the entry's end, which is the bound of `StalenessIsBounded`. `FallbacksAreCurrent`
rests on the same: what a load read from the table was there during the load.

**GatewayProofs**, first the quota. A month's first counter is started before the month
ends and, by the rounding, lives at least until its last second: so what is allowed early
is counted by it alone (`MonthsAreCapped`). A second counter can only start in that last
second or later, by a call that read the month before it ended; such a call is at most
`MaxDelay` old, and the second counter's minimum time to live outlasts it if
`MaxDelay + Second <= MinTtl * Second + 1`, so there is no third (`MonthsCountTwice`).
Then the gateway. A step of it is a step of the quota or a stutter, by its construction
(the lemma `GatewayKeepsQuota`), which carries the quota's theorems over. The rest follows
from what is known of a request at each stage: that the list let it through, that a limit
switched on has counted it once or is the one Redis failed at, that a refusal being recorded
is its limit's, and that the history of a dropped request stays as it was.
`SpendingIsInOrder` rests on `AllowlistProofs`: under `ListedDecoded`, a request that has
paid its way is never refused by the handler's own reading of the list.

**AllowlistProofs.** `MatchersAgree`: whatever the pattern, a path the middleware lets
through the handler would let through if it saw the same path. What it sees is the path
decoded, and a path that a pattern matches is matched, once decoded, by the pattern decoded,
which `ListedDecoded` has on the list too. With a slash and a star at the end the two say the same
in different words (`PlainMatchersAgree`). With a star elsewhere the middleware wants the
pattern itself, and `PatternFindsItself` shows that the handler's search for the pieces of
a pattern, each as early as it can be found, finds all of them in the pattern: the search
is never behind the star that precedes the piece it looks for. The search is a recursive
function, and the proof an induction over the tokens of the pattern.

**SettingsProofs.** `AllowlistReadingsAgree` carries this over to every list operators
edit. `ResolutionsAreLayered` shows the three merges equal to choosing, for
every field, the most specific layer that sets it, over any environments and overrides;
`EditsAreScoped` that an edit changes one map, and of it one entry or all of them, on
which only the requests it names depend.

**RollupProofs.** `RollupInv` makes the two counting properties inductive.
`NeverOvercounts` needs `RowsStay`: every row a run sees has since become a row of the
source, itself or the same intent settled (`Became`), so that a statement that writes an
old count writes one that is no higher than the present one. `CompletedRunCounts` speaks
of runs that have completed, but a table is written long before: `OwedIsCounted` says
that the i-th table already shows what every run under way found that has written it, and
`BasesSeen` that every run under way sees what others have found before it, which is why
a run that overtakes another takes nothing back. A day at rest is then counted exactly,
not too high by the one and not too low by the other (`RestIsExact`), which gives
`UsageAtRestAgrees`. `ErrorsAtRestAgree` adds the sums: each row of the error report
counts the events of its own bucket and no others, so that the sum of the counts is the
number of all those events (`CountsAddUp`). The intents of a key are summed over its
providers in the same way (`X402Column`).

Only model-checked: liveness (`EveryCallAnswers`), which needs fairness and `ENABLED`,
beyond the proof system.

No module uses a `RECURSIVE` operator. The library's induction theorems take an operator
as a parameter, which the provers cannot instantiate; where a recursive function is
reasoned about (`CountsAddUp`, `RecursionOn`, `PatternFindsItself`), the induction is over
a set of naturals that has a least element (`InductionOn`, `LeastNumber`).

## 5. Not modelled, and the plan

Next, in this order:

1. `Gateway` over `PolicyCache` and `TokenBucket` in place of its free choices.
2. `app/admin/virtual_keys.rs`: the insertion of a key beside the requests that use it.

Left out for good: headers, URLs and bodies of the proxied request, dot segments of its
path, the hash of a virtual key, metrics, health, settings and
logging, command-line tools and the admin handlers that run one statement each,
`app/policy_cache.rs` (unused), and the crates `relaykey-admin`, `relaykey-gateway`,
`relaykey-payments` and `relaykey-tests`, whose files are empty. `x402_events` rows are
written and never read by the gate; that they are written is the await `log`, and what
the rollups make of them is `Rollup`. The filters of the two reports (customer, key,
partner) and latencies are left out of `AdminReports`.
