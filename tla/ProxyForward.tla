---------------------------- MODULE ProxyForward ----------------------------
(***************************************************************************)
(* The proxy handler: crates/relaykey_app/src/proxy.rs, with the retry     *)
(* budget it asks before it sends a request again.                         *)
(*                                                                         *)
(* A slot handles one request at a time: it loads the partner and its      *)
(* credential, checks the request, and then sends it upstream until an     *)
(* attempt is answered, the policy's total time is over, or no retry is    *)
(* left.  Names, headers, URLs and bodies are left out; which of the local *)
(* checks fails is a free choice.                                          *)
(***************************************************************************)
EXTENDS RetryBudget, FiniteSets

CONSTANTS
    MaxAttempts,   \* RetryPolicy: total tries including the first
    Timeout,       \* policy.timeout_ms, in ticks
    Backoff        \* the sleep before an attempt is repeated

ASSUME ProxyAssumption ==
    MaxAttempts \in Nat \ {0} /\ Timeout \in Nat \ {0} /\ Backoff \in Nat

ASSUME SlotsAssumption == IsFiniteSet(Slots)

VARIABLES
    pc,            \* where the handler is
    rq,            \* the request it handles, with the loop's local variables
    sends,         \* history: times this request was sent upstream
    event,         \* history: the usage event of this request
    answer,        \* history: what its client was told
    retried        \* history: granted retries in the observed window, per key

proxyVars == <<pc, rq, sends, event, answer, retried>>
vars == <<clock, counter, ask, since, orphaned, windowFrom, inWindow,
          pc, rq, sends, event, answer, retried>>

Methods == {"idempotent", "other", "tunnel"}

NoRequest == [method |-> "other", partner |-> NoAsk.partner, vk |-> NoAsk.vk,
              attempt |-> 0, retries_used |-> 0, deadline |-> 0, wakeAt |-> 0]

Init ==
    /\ BudgetInit
    /\ pc = [p \in Slots |-> "idle"]
    /\ rq = [p \in Slots |-> NoRequest]
    /\ sends = [p \in Slots |-> 0]
    /\ event = [p \in Slots |-> "none"]
    /\ answer = [p \in Slots |-> "none"]
    /\ retried = [k \in Keys |-> 0]

\* Bound on arrivals: a request's last wake-up is still within MaxClock.
Horizon == Timeout + MaxDelay + Backoff

-----------------------------------------------------------------------------
(* Steps of the handler. *)

GoTo(p, step) == pc' = [pc EXCEPT ![p] = step]

Reply(p, what) ==
    /\ GoTo(p, "done")
    /\ answer' = [answer EXCEPT ![p] = what]

\* Mutation: one try too many.
RetryLeftLoose(p) == rq[p].method = "idempotent" /\ rq[p].attempt <= MaxAttempts

\* Mutation: every method is retried.
RetryLeftAny(p) == rq[p].attempt < MaxAttempts

\* is_idempotent, and the one more try that max_attempts leaves.
RetryLeft(p) == rq[p].method = "idempotent" /\ rq[p].attempt < MaxAttempts

Arrive(p) ==
    /\ pc[p] \in {"idle", "done"}
    /\ clock + Horizon <= MaxClock
    /\ sends' = [sends EXCEPT ![p] = 0]
    /\ event' = [event EXCEPT ![p] = "none"]
    /\ \E method \in Methods, partner \in Partners, vk \in VirtualKeys :
         /\ rq' = [rq EXCEPT ![p] = [NoRequest EXCEPT !.method = method,
                                       !.partner = partner, !.vk = vk]]
         /\ IF method = "tunnel"
            THEN Reply(p, "method_not_allowed")
            ELSE /\ GoTo(p, "partner")
                 /\ answer' = [answer EXCEPT ![p] = "none"]
    /\ UNCHANGED <<retried, askVars>>

\* get_partner_by_name: found, unknown, or a database error.
LoadPartner(p) ==
    /\ pc[p] = "partner"
    /\ GoTo(p, "credential") \/ GoTo(p, "record_blocked")
    /\ UNCHANGED <<rq, sends, event, answer, retried, askVars>>

\* get_credential_for_partner, the local checks, and the loop's set-up.
LoadCredential(p) ==
    /\ pc[p] = "credential"
    /\ \/ /\ GoTo(p, "loop")
          /\ rq' = [rq EXCEPT ![p].deadline = clock + Timeout]
          /\ UNCHANGED answer
       \/ GoTo(p, "record_blocked") /\ UNCHANGED <<rq, answer>>
       \/ Reply(p, "bad_credential_header") /\ UNCHANGED rq
    /\ UNCHANGED <<sends, event, retried, askVars>>

StartAttempt(p) ==
    /\ pc[p] = "loop"
    /\ clock < rq[p].deadline
    /\ rq' = [rq EXCEPT ![p].attempt = @ + 1]
    /\ sends' = [sends EXCEPT ![p] = @ + 1]
    /\ GoTo(p, "sent")
    /\ UNCHANGED <<event, answer, retried, askVars>>

OutOfTime(p) ==
    /\ pc[p] = "loop"
    /\ clock >= rq[p].deadline
    /\ Reply(p, "timed_out")
    /\ UNCHANGED <<rq, sends, event, retried, askVars>>

\* Mutation: there is no timeout around the attempt.
NeverElapsed(p) == pc[p] = "sent" /\ FALSE /\ UNCHANGED vars

\* The timeout around the attempt elapses.
Elapsed(p) ==
    /\ pc[p] = "sent"
    /\ clock >= rq[p].deadline
    /\ Reply(p, "timed_out")
    /\ UNCHANGED <<rq, sends, event, retried, askVars>>

AskForRetry(p, step) ==
    /\ GoTo(p, step)
    /\ StartAsk(p, rq[p].partner, rq[p].vk)
    /\ UNCHANGED <<counter, since, orphaned, inWindow>>

\* A response: retryable is classify_status together with the partner profile,
\* which keeps 429 from being retried.
UpstreamAnswers(p) ==
    /\ pc[p] = "sent"
    /\ \E retryable \in BOOLEAN :
         IF retryable /\ RetryLeft(p)
         THEN AskForRetry(p, "ask_status")
         ELSE GoTo(p, "record_allowed") /\ UNCHANGED askVars
    /\ UNCHANGED <<rq, sends, event, answer, retried>>

\* No response: a timeout or a failed connection is retryable.
UpstreamFails(p) ==
    /\ pc[p] = "sent"
    /\ \E retryable \in BOOLEAN :
         IF retryable /\ RetryLeft(p)
         THEN AskForRetry(p, "ask_error") /\ UNCHANGED answer
         ELSE Reply(p, "bad_gateway") /\ UNCHANGED askVars
    /\ UNCHANGED <<rq, sends, event, retried>>

Asked(p) == pc[p] \in {"ask_status", "ask_error"}

\* The decision is used and forgotten.
EndAsk(p) ==
    /\ ask' = [ask EXCEPT ![p] = NoAsk]
    /\ UNCHANGED <<counter, since, orphaned, inWindow>>

\* Mutation: the backoff grows with every retry and has no maximum.
RetryAllowedSlower(p) ==
    /\ Asked(p)
    /\ ask[p].step \in {"granted", "fail_open"}
    /\ GoTo(p, "sleep")
    /\ rq' = [rq EXCEPT ![p].retries_used = @ + 1,
                        ![p].wakeAt = clock + Backoff * (2 + rq[p].retries_used)]
    /\ UNCHANGED retried
    /\ EndAsk(p)
    /\ UNCHANGED <<sends, event, answer>>

RetryAllowed(p) ==
    /\ Asked(p)
    /\ ask[p].step \in {"granted", "fail_open"}
    /\ GoTo(p, "sleep")
    /\ rq' = [rq EXCEPT ![p].retries_used = @ + 1, ![p].wakeAt = clock + Backoff]
    /\ retried' = [k \in Keys |->
         IF /\ ask[p].step = "granted" /\ ask[p].askedAt >= windowFrom
            /\ k \in {ask[p].partner, ask[p].vk}
         THEN retried[k] + 1 ELSE retried[k]]
    /\ EndAsk(p)
    /\ UNCHANGED <<sends, event, answer>>

\* Mutation: a retry the budget denies is recorded as a blocked request.
RetryDeniedBlocks(p) ==
    /\ Asked(p)
    /\ ask[p].step = "denied"
    /\ \/ pc[p] = "ask_status" /\ GoTo(p, "record_blocked") /\ UNCHANGED answer
       \/ pc[p] = "ask_error" /\ Reply(p, "bad_gateway")
    /\ EndAsk(p)
    /\ UNCHANGED <<rq, sends, event, retried>>

\* The last attempt is the answer.
RetryDenied(p) ==
    /\ Asked(p)
    /\ ask[p].step = "denied"
    /\ \/ pc[p] = "ask_status" /\ GoTo(p, "record_allowed") /\ UNCHANGED answer
       \/ pc[p] = "ask_error" /\ Reply(p, "bad_gateway")
    /\ EndAsk(p)
    /\ UNCHANGED <<rq, sends, event, retried>>

Wake(p) ==
    /\ pc[p] = "sleep"
    /\ clock >= rq[p].wakeAt
    /\ GoTo(p, "loop")
    /\ UNCHANGED <<rq, sends, event, answer, retried, askVars>>

\* insert_usage_event, whose failure is ignored,
Record(p) ==
    /\ \/ /\ pc[p] = "record_allowed" /\ GoTo(p, "recorded_allowed")
          /\ \E kind \in {"allowed", "none"} : event' = [event EXCEPT ![p] = kind]
       \/ /\ pc[p] = "record_blocked" /\ GoTo(p, "recorded_blocked")
          /\ \E kind \in {"blocked", "none"} : event' = [event EXCEPT ![p] = kind]
    /\ UNCHANGED <<rq, sends, answer, retried, askVars>>

\* and then the reply.
Respond(p) ==
    /\ \/ pc[p] = "recorded_allowed" /\ Reply(p, "upstream")
       \/ pc[p] = "recorded_blocked" /\ Reply(p, "blocked")
    /\ UNCHANGED <<rq, sends, event, retried, askVars>>

HandlerStep(p) ==
    \/ LoadPartner(p) \/ LoadCredential(p)
    \/ StartAttempt(p) \/ OutOfTime(p) \/ Elapsed(p)
    \/ RetryAllowed(p) \/ RetryDenied(p) \/ Wake(p)
    \/ Record(p) \/ Respond(p)

UpstreamStep(p) == UpstreamAnswers(p) \/ UpstreamFails(p)

\* The handler awaits allow_retry_dual_budget.
BudgetStep(p) == AskStep(p) /\ UNCHANGED proxyVars

\* The client goes away or TimeoutLayer answers: the handler is dropped. What was sent
\* and recorded stays so.
Drop(p) ==
    /\ pc[p] \notin {"idle", "done"}
    /\ Reply(p, "dropped")
    /\ Abandon(p)
    /\ UNCHANGED <<rq, sends, event, retried>>

-----------------------------------------------------------------------------
(* Time: a timer that is due fires before the clock moves on. *)

TimersPending(p) ==
    /\ pc[p] = "sent" => clock < rq[p].deadline
    /\ pc[p] = "sleep" => clock < rq[p].wakeAt
    /\ pc[p] \notin {"loop", "ask_status", "ask_error"} \/ Asking(p)
    /\ pc[p] \in {"partner", "credential"} => clock + Horizon < MaxClock

TimePasses == Tick /\ (\A p \in Slots : TimersPending(p)) /\ UNCHANGED proxyVars

Observe ==
    /\ OpenWindow
    /\ retried' = [k \in Keys |-> 0]
    /\ UNCHANGED <<pc, rq, sends, event, answer>>

SlotActs(p) ==
    Arrive(p) \/ HandlerStep(p) \/ UpstreamStep(p) \/ BudgetStep(p) \/ Drop(p)

Next ==
    \/ \E p \in Slots : SlotActs(p) /\ UNCHANGED <<clock, windowFrom>>
    \/ TimePasses
    \/ Observe

Spec == Init /\ [][Next]_vars

\* The database and Redis answer, timers fire and time passes.  Nothing makes
\* the partner answer, and no request need be dropped.
FairSpec ==
    /\ Spec
    /\ \A p \in Slots :
         WF_vars((HandlerStep(p) \/ BudgetStep(p)) /\ UNCHANGED <<clock, windowFrom>>)
    /\ WF_vars(TimePasses)

-----------------------------------------------------------------------------
(* Properties. *)

Answers == {"none", "method_not_allowed", "bad_credential_header", "blocked",
            "upstream", "bad_gateway", "timed_out", "dropped"}

\* Every slot is at a step of the handler with a request in its ranges.
TypeOK ==
    /\ pc \in [Slots -> {"idle", "partner", "credential", "loop", "sent",
                         "ask_status", "ask_error", "sleep", "record_allowed",
                         "record_blocked", "recorded_allowed", "recorded_blocked",
                         "done"}]
    /\ rq \in [Slots -> [method : Methods, partner : Partners, vk : VirtualKeys,
                         attempt : 0..MaxAttempts, retries_used : Nat,
                         deadline : Nat, wakeAt : Nat]]
    /\ sends \in [Slots -> Nat]
    /\ event \in [Slots -> {"none", "allowed", "blocked"}]
    /\ answer \in [Slots -> Answers]
    /\ retried \in [Keys -> Nat]

\* policy.rs:3 "Total tries including the first", through every mix of
\* statuses, errors, budget answers and sleeps: a request reaches the partner
\* at most MaxAttempts times, once when its method is not idempotent, and every
\* time but the first was allowed by the retry budget.
SendsBounded ==
    \A p \in Slots :
        /\ sends[p] <= MaxAttempts
        /\ rq[p].method # "idempotent" => sends[p] <= 1
        /\ sends[p] <= 1 + rq[p].retries_used

\* budget.rs:53 "Require BOTH partner and vk budgets": in a window of a minute
\* the retries the budget granted, and the handler makes, stay within what either
\* key can pay for.
RetriesInWindow ==
    \A k \in Keys : clock < windowFrom + Window => retried[k] <= MostInWindow(k)

\* What is recorded agrees with what happened, whenever the request is dropped: one
\* recorded as blocked never reached the partner, one recorded as allowed did, no answer
\* of the proxy's own making is recorded as allowed, and a row without its answer is left
\* only by a request that was dropped after its INSERT (proxy.rs:471).
EventsAgree ==
    \A p \in Slots :
        /\ event[p] = "blocked" =>
             sends[p] = 0 /\ answer[p] \in {"none", "blocked", "dropped"}
        /\ event[p] = "allowed" =>
             sends[p] > 0 /\ answer[p] \in {"none", "upstream", "dropped"}
        /\ answer[p] = "upstream" => sends[p] > 0 /\ event[p] # "blocked"
        /\ answer[p] = "blocked" => sends[p] = 0 /\ event[p] # "allowed"

\* The retry loop.
InLoop(p) == pc[p] \in {"loop", "sent", "ask_status", "ask_error", "sleep"}

\* A request is held past the policy's time (proxy.rs:340) by no more than the
\* one budget check and the one sleep that began before it was over: however
\* attempts, checks and sleeps are strung together, overruns do not add up.
OverrunBounded ==
    \A p \in Slots : InLoop(p) => clock <= rq[p].deadline + MaxDelay + Backoff

\* A handler that is not dropped gives an answer: the retry loop ends.
EveryCallAnswers ==
    \A p \in Slots : pc[p] = "partner" ~> pc[p] = "done"

-----------------------------------------------------------------------------
(* The inductive invariant. *)

\* The budget is asked where the handler awaits it and nowhere else.
AskOK(p) ==
    IF Asked(p)
    THEN /\ ask[p].step # "none" /\ RetryLeft(p)
    ELSE ask[p] = NoAsk

\* Attempts so far are paid for; before another one, there is one left to make.
AttemptOK(p) ==
    /\ sends[p] = rq[p].attempt
    /\ rq[p].attempt <= 1 + rq[p].retries_used
    /\ rq[p].method # "idempotent" => rq[p].attempt <= 1
    /\ pc[p] \in {"idle", "partner", "credential", "record_blocked", "recorded_blocked"} =>
         rq[p].attempt = 0
    /\ pc[p] \in {"loop", "sleep"} =>
         /\ rq[p].attempt < MaxAttempts /\ rq[p].attempt <= rq[p].retries_used
         /\ rq[p].attempt > 0 => rq[p].method = "idempotent"
    /\ pc[p] \in {"sent", "ask_status", "ask_error", "record_allowed", "recorded_allowed"} =>
         rq[p].attempt > 0

\* Nothing is recorded or answered before the end.
RecordOK(p) ==
    /\ pc[p] # "done" => answer[p] = "none"
    /\ pc[p] \notin {"recorded_allowed", "recorded_blocked", "done"} => event[p] = "none"
    /\ pc[p] = "recorded_allowed" => event[p] # "blocked"
    /\ pc[p] = "recorded_blocked" => event[p] # "allowed"

HandlerInv ==
    /\ TypeOK
    /\ \A p \in Slots : AskOK(p) /\ AttemptOK(p) /\ RecordOK(p)
    /\ EventsAgree

\* An attempt ends by the deadline, so what follows it begins by then.
TimingOK(p) ==
    /\ pc[p] = "sent" => clock <= rq[p].deadline
    /\ Asked(p) => /\ ask[p].askedAt <= rq[p].deadline
                   /\ clock <= ask[p].askedAt + MaxDelay
    /\ pc[p] = "sleep" => /\ rq[p].wakeAt <= rq[p].deadline + MaxDelay + Backoff
                          /\ clock <= rq[p].wakeAt
    /\ pc[p] = "loop" => clock <= rq[p].deadline + MaxDelay + Backoff

TimingInv == \A p \in Slots : TimingOK(p)

\* The call of slot p has taken from the budget of k, within its limit, and may
\* still be granted.
HasTaken(p, k) ==
    /\ ask[p].within
    /\ \/ k = ask[p].partner /\ ask[p].step \in {"partner_ttl", "vk", "vk_ttl", "granted"}
       \/ k = ask[p].vk /\ ask[p].step \in {"vk_ttl", "granted"}

\* Such calls that began at t or later.
Takers(k, t) == {p \in Slots : HasTaken(p, k) /\ ask[p].askedAt >= t}

\* The most takes since t that the counter of k accounts for, if the one before it
\* may have ended since: what it holds, without its first take when that came before
\* t, and otherwise all that the one before could hold but its first.
PaidSince(k, t) ==
    IF Paid(k) = 0 THEN 0
    ELSE IF since[k] < t THEN Paid(k) - 1 ELSE Paid(k) + Limit(k) - 1

\* Retries made and calls that may still be granted one are paid for, in the window
\* that is observed and in the one that would be opened now.
RetriesPaid ==
    \A k \in Keys :
        /\ clock < windowFrom + Window =>
             retried[k] + Cardinality(Takers(k, windowFrom)) <= PaidSince(k, windowFrom)
        /\ Cardinality(Takers(k, clock)) <= PaidSince(k, clock)

GrantsAreWithin == \A p \in Slots : ask[p].step = "granted" => ask[p].within

=============================================================================
