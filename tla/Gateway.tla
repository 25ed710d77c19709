------------------------------ MODULE Gateway ------------------------------
(***************************************************************************)
(* The way of a request through the protected routes of build_router       *)
(* (crates/relaykey_app/src/app.rs): require_virtual_key,                  *)
(* enforce_allowlist, enforce_limits, enforce_x402 and the proxy handler,  *)
(* for any number of requests of one virtual key to one partner.           *)
(*                                                                         *)
(* The monthly quota is MonthlyQuota, step by step.  The token bucket, the *)
(* policy cache, the payment gate and the retry loop have modules of their *)
(* own; here each is one step with a free outcome, and what counts is what *)
(* a request has spent when it is refused, and what is recorded of it.     *)
(***************************************************************************)
EXTENDS MonthlyQuota, Allowlist, X402Config

CONSTANTS
    Policies,      \* policies of the key: list, rps_limit is set, monthly_quota is set
    Requests,      \* tails that are requested
    Env,           \* the environment of the process
    Caller         \* partner, customer and virtual key of the requests

ASSUME GatewayAssumption ==
    /\ \A policy \in Policies :
         policy.list \subseteq Seq(Tokens) /\ policy.rps \in BOOLEAN /\ policy.quota \in BOOLEAN
    /\ Requests \subseteq Seq(Tokens)
    /\ None \notin Policies

VARIABLES
    stage,         \* the await each request is at
    rq,            \* the request, and the policy it was given
    refusal,       \* the reason being recorded before a 429
    spent,         \* history: what became of the request at each layer
    answer,        \* history: how it was answered
    event          \* history: the usage event it wrote

gatewayVars == <<stage, rq, refusal, spent, answer, event>>
vars == <<clock, counter, call, allowed, early, gatewayVars>>

NoRequest == [tail |-> <<>>, policy |-> None]

\* The tokens, units and payments it used, the limits passed over because Redis failed,
\* and whether it went out to the partner.
Nothing == [token |-> FALSE, unit |-> 0, skipped |-> {}, paid |-> FALSE, sent |-> FALSE]

Init ==
    /\ QuotaInit
    /\ stage = [p \in Slots |-> "idle"]
    /\ rq = [p \in Slots |-> NoRequest]
    /\ refusal = [p \in Slots |-> "none"]
    /\ spent = [p \in Slots |-> Nothing]
    /\ answer = [p \in Slots |-> "none"]
    /\ event = [p \in Slots |-> "none"]

-----------------------------------------------------------------------------

GoTo(p, await) == stage' = [stage EXCEPT ![p] = await]

Reply(p, what) ==
    /\ GoTo(p, "done")
    /\ answer' = [answer EXCEPT ![p] = what]
    /\ UNCHANGED <<rq, refusal, spent, event>>

Pass(p, await) ==
    /\ GoTo(p, await)
    /\ UNCHANGED <<rq, refusal, spent, answer, event>>

PassWith(p, await, used) ==
    /\ GoTo(p, await)
    /\ spent' = [spent EXCEPT ![p] = used]
    /\ UNCHANGED <<rq, refusal, answer, event>>

Skip(p, await, limits) == PassWith(p, await, [spent[p] EXCEPT !.skipped = @ \cup limits])

Refuse(p, reason) ==
    /\ GoTo(p, "record")
    /\ refusal' = [refusal EXCEPT ![p] = reason]
    /\ UNCHANGED <<rq, spent, answer, event>>

-----------------------------------------------------------------------------
(* require_virtual_key. *)

\* A request without a key is refused at once.
Arrive(p, tail) ==
    /\ stage[p] \in {"idle", "done"}
    /\ \/ GoTo(p, "key") /\ answer' = [answer EXCEPT ![p] = "none"]
       \/ GoTo(p, "done") /\ answer' = [answer EXCEPT ![p] = "unauthorized"]
    /\ rq' = [rq EXCEPT ![p] = [tail |-> tail, policy |-> None]]
    /\ spent' = [spent EXCEPT ![p] = Nothing]
    /\ event' = [event EXCEPT ![p] = "none"]
    /\ UNCHANGED <<refusal, quotaVars>>

\* get_virtual_key_by_hash: enabled, disabled or unknown, or a database error.
Authenticate(p) ==
    /\ stage[p] = "key"
    /\ \/ Pass(p, "policy")
       \/ \E what \in {"unauthorized", "auth_error"} : Reply(p, what)
    /\ UNCHANGED quotaVars

\* Mutation: enforce_allowlist is not among the layers.
LoadPolicyUnchecked(p, policy) ==
    /\ stage[p] = "policy"
    /\ GoTo(p, "connect")
    /\ rq' = [rq EXCEPT ![p].policy = policy]
    /\ UNCHANGED <<refusal, spent, answer, event, quotaVars>>

\* load_policy_bundle, and then enforce_allowlist without another await.
LoadPolicy(p, policy) ==
    /\ stage[p] = "policy"
    /\ IF MiddlewareAllows(policy.list, rq[p].tail)
       THEN /\ GoTo(p, "connect")
            /\ UNCHANGED answer
       ELSE /\ GoTo(p, "done")
            /\ answer' = [answer EXCEPT ![p] = "endpoint_not_allowed"]
    /\ rq' = [rq EXCEPT ![p].policy = policy]
    /\ UNCHANGED <<refusal, spent, event, quotaVars>>

NoPolicy(p) ==
    /\ stage[p] = "policy"
    /\ Reply(p, "auth_error")
    /\ UNCHANGED quotaVars

-----------------------------------------------------------------------------
(* enforce_limits.  Whatever Redis fails to answer lets the request pass. *)

AfterBucket(policy) == IF policy.quota THEN "quota" ELSE "gate"

AfterConnect(policy) == IF policy.rps THEN "bucket" ELSE AfterBucket(policy)

Connect(p) ==
    /\ stage[p] = "connect"
    /\ Pass(p, AfterConnect(rq[p].policy)) \/ Skip(p, "gate", {"rps", "quota"})
    /\ UNCHANGED quotaVars

\* Mutation: an error of the first limiter skips the second as well.
TakeTokenSkipsQuota(p) ==
    /\ stage[p] = "bucket"
    /\ \/ PassWith(p, AfterBucket(rq[p].policy), [spent[p] EXCEPT !.token = TRUE])
       \/ Skip(p, "gate", {"rps"})
       \/ Refuse(p, "rate_limit_exceeded")
    /\ UNCHANGED quotaVars

\* token_bucket_allow: true, an error, or false.
TakeToken(p) ==
    /\ stage[p] = "bucket"
    /\ \/ PassWith(p, AfterBucket(rq[p].policy), [spent[p] EXCEPT !.token = TRUE])
       \/ Skip(p, AfterBucket(rq[p].policy), {"rps"})
       \/ Refuse(p, "rate_limit_exceeded")
    /\ UNCHANGED quotaVars

AskQuota(p) ==
    /\ stage[p] = "quota"
    /\ ReadMonth(p) \/ ReadTtl(p)
    /\ UNCHANGED gatewayVars

\* The script counts the request, also when its reply is lost.
QuotaAllows(p) ==
    /\ stage[p] = "quota"
    /\ Allow(p)
    /\ PassWith(p, "gate", [spent[p] EXCEPT !.unit = @ + 1])

\* Mutation: the reason is the rate limiter's.
QuotaDeniesAsRate(p) ==
    /\ stage[p] = "quota"
    /\ Deny(p)
    /\ Refuse(p, "rate_limit_exceeded") \/ Skip(p, "gate", {"quota"})

\* Denied; a lost reply is an error, which lets the request pass.
QuotaDenies(p) ==
    /\ stage[p] = "quota"
    /\ Deny(p)
    /\ Refuse(p, "monthly_quota_exceeded") \/ Skip(p, "gate", {"quota"})

QuotaFails(p) ==
    /\ stage[p] = "quota"
    /\ Forget(p)
    /\ Skip(p, "gate", {"quota"})

\* insert_usage_event, whose failure is ignored,
Record(p) ==
    /\ stage[p] = "record"
    /\ GoTo(p, "recorded")
    /\ \E what \in {refusal[p], "none"} : event' = [event EXCEPT ![p] = what]
    /\ UNCHANGED <<rq, refusal, spent, answer, quotaVars>>

\* and then the 429.
TooManyRequests(p) ==
    /\ stage[p] = "recorded"
    /\ GoTo(p, "done")
    /\ answer' = [answer EXCEPT ![p] = refusal[p]]
    /\ refusal' = [refusal EXCEPT ![p] = "none"]
    /\ UNCHANGED <<rq, spent, event, quotaVars>>

-----------------------------------------------------------------------------
(* enforce_x402, which is X402Gate, and the handler, which is ProxyForward. *)

FullPath(tail) == <<"/", "proxy", "/", Caller.partner>> \o tail

Config(p) ==
    Resolve(Env, [partner |-> Caller.partner, customer |-> Caller.customer,
                  vk |-> Caller.vk, path |-> FullPath(rq[p].tail)])

Gate(p) ==
    /\ stage[p] = "gate"
    /\ \/ Config(p) = None /\ Pass(p, "proxy")
       \/ /\ Config(p) # None /\ Config(p).provider \in Registered
          /\ PassWith(p, "proxy", [spent[p] EXCEPT !.paid = TRUE])
       \/ Config(p) # None /\ Reply(p, "x402_refused")
    /\ UNCHANGED quotaVars

\* Refused without a usage event: by the extractors of axum or for its method.  Then a
\* look-up or a check that fails, the list, and at last the partner, which answers or
\* does not.
HandlerDoes(p) ==
    [answer : {"not_proxied"}, event : {"none"}, sent : {FALSE}] \cup
    [answer : {"blocked"}, event : {"blocked", "none"}, sent : {FALSE}] \cup
    IF HandlerAllows(rq[p].policy.list, rq[p].tail)
    THEN [answer : {"upstream"}, event : {"forwarded", "none"}, sent : {TRUE}] \cup
         [answer : {"unanswered"}, event : {"none"}, sent : {TRUE}]
    ELSE [answer : {"endpoint_not_allowed"}, event : {"blocked", "none"}, sent : {FALSE}]

Finish(p, what, kind, sent) ==
    /\ GoTo(p, "done")
    /\ answer' = [answer EXCEPT ![p] = what]
    /\ event' = [event EXCEPT ![p] = kind]
    /\ spent' = [spent EXCEPT ![p].sent = sent]
    /\ UNCHANGED rq

Proxy(p) ==
    /\ stage[p] = "proxy"
    /\ \E does \in HandlerDoes(p) : Finish(p, does.answer, does.event, does.sent)
    /\ UNCHANGED <<refusal, quotaVars>>

-----------------------------------------------------------------------------

\* The client goes away or TimeoutLayer answers; what was spent stays spent, and what was
\* recorded stays recorded.  In the handler that is anything up to what it would have done.
Drop(p) ==
    /\ stage[p] \notin {"idle", "done"}
    /\ IF stage[p] = "proxy"
       THEN \E does \in HandlerDoes(p) : \E kind \in {"none", does.event} :
              Finish(p, "dropped", kind, does.sent)
       ELSE Finish(p, "dropped", event[p], FALSE)
    /\ refusal' = [refusal EXCEPT ![p] = "none"]
    /\ IF call[p].step = "idle" THEN UNCHANGED quotaVars ELSE Forget(p)

TimePasses == Tick /\ UNCHANGED gatewayVars

RequestStep(p) ==
    \/ \E tail \in Requests : Arrive(p, tail)
    \/ Authenticate(p) \/ NoPolicy(p)
    \/ \E policy \in Policies : LoadPolicy(p, policy)
    \/ Connect(p) \/ TakeToken(p) \/ AskQuota(p)
    \/ QuotaAllows(p) \/ QuotaDenies(p) \/ QuotaFails(p)
    \/ Record(p) \/ TooManyRequests(p) \/ Gate(p) \/ Proxy(p) \/ Drop(p)

Next == TimePasses \/ \E p \in Slots : RequestStep(p)

Spec == Init /\ [][Next]_vars

-----------------------------------------------------------------------------
(* Properties. *)

Stages == {"idle", "key", "policy", "connect", "bucket", "quota", "record", "recorded",
           "gate", "proxy", "done"}

WithPolicy == Stages \ {"idle", "key", "policy", "done"}

Spendings == [token : BOOLEAN, unit : Nat, skipped : SUBSET {"rps", "quota"},
              paid : BOOLEAN, sent : BOOLEAN]

LimitReasons == {"rate_limit_exceeded", "monthly_quota_exceeded"}

Answers == LimitReasons \cup
    {"none", "unauthorized", "auth_error", "endpoint_not_allowed", "x402_refused",
     "not_proxied", "blocked", "upstream", "unanswered", "dropped"}

Events == LimitReasons \cup {"none", "blocked", "forwarded"}

\* Requests in their ranges; from the limits on a request has a policy, and it is
\* at the quota whenever the quota is asked on its behalf.
TypeOK ==
    /\ QuotaTypeOK
    /\ stage \in [Slots -> Stages]
    /\ rq \in [Slots -> [tail : Requests \cup {<<>>}, policy : Policies \cup {None}]]
    /\ refusal \in [Slots -> LimitReasons \cup {"none"}]
    /\ spent \in [Slots -> Spendings]
    /\ answer \in [Slots -> Answers]
    /\ event \in [Slots -> Events]
    /\ \A p \in Slots :
         /\ stage[p] \in WithPolicy => rq[p].policy \in Policies
         /\ call[p].step # "idle" => stage[p] = "quota"

\* A request that reached the partner was let through by every layer of app.rs:36
\* that is switched on for it, in whatever way the others were passed over: its path
\* is on the list, each limit counted it, the quota once, unless Redis failed when that
\* very limit was asked, and it was paid for if the settings of its scope ask for
\* payment. So it is also of a request that was dropped while the partner had it.
ForwardedWasLet ==
    \A p \in Slots : spent[p].sent =>
        /\ MiddlewareAllows(rq[p].policy.list, rq[p].tail)
        /\ rq[p].policy.rps => spent[p].token \/ "rps" \in spent[p].skipped
        /\ rq[p].policy.quota => spent[p].unit = 1 \/ "quota" \in spent[p].skipped
        /\ Config(p) # None => spent[p].paid

\* What the client or the usage events have as the reason.
Told(p) == {answer[p], event[p]}

\* A request uses up nothing of what lies behind the layer that refuses it, though
\* the layers await in between (limits/middleware.rs:112) and the list is read twice,
\* the second time decoded (proxy.rs:107): without a key or off the list neither limiter
\* knows of it, if the list has with each pattern what that is decoded to; over the rate
\* it costs no quota, and over the quota no payment, also if it is dropped between the
\* event and the answer.
SpendsInOrder ==
    \A p \in Slots :
        /\ answer[p] \in {"unauthorized", "auth_error"} => spent[p] = Nothing
        /\ answer[p] = "endpoint_not_allowed" /\ ListedDecoded(rq[p].policy.list) =>
             spent[p] = Nothing
        /\ "rate_limit_exceeded" \in Told(p) => spent[p].unit = 0
        /\ Told(p) \cap LimitReasons # {} => ~spent[p].paid /\ ~spent[p].sent

\* The reason a limit gives, in the answer and in the usage event that the rollups
\* count, is that limit's own: the rate limiter's when there was no token, the
\* quota's when a month has used all of it. What is recorded as forwarded was
\* sent, and what is recorded as blocked was not, also of a request that was dropped
\* once the event was written.
RefusalsTellWhy ==
    \A p \in Slots :
        /\ answer[p] \in LimitReasons => event[p] \in {answer[p], "none"}
        /\ "rate_limit_exceeded" \in Told(p) => rq[p].policy.rps /\ ~spent[p].token
        /\ "monthly_quota_exceeded" \in Told(p) =>
             rq[p].policy.quota /\ spent[p].unit = 0 /\ \E m \in MonthIds : allowed[m] >= Limit
        /\ event[p] = "forwarded" => spent[p].sent
        /\ event[p] = "blocked" => ~spent[p].sent

=============================================================================
