----------------------------- MODULE RetryBudget -----------------------------
(***************************************************************************)
(* The retry budget: allow_retry_dual_budget in                            *)
(* crates/relaykey_app/src/retry/budget.rs.  A retry is paid for twice, on *)
(* the Redis counter of its partner and on that of its virtual key.        *)
(*                                                                         *)
(* INCR and EXPIRE are two commands: other requests, an error or the       *)
(* cancellation of the request can come between them.  Counters saturate   *)
(* one above their limit, where the code can no longer tell them apart.    *)
(***************************************************************************)
EXTENDS Integers

CONSTANTS
    Partners, VirtualKeys,  \* the two kinds of budget keys
    PartnerLimit, VkLimit,  \* partner_retries_per_min, vk_retries_per_min
    Window,                 \* ttl_secs, in ticks
    MaxDelay,               \* TimeoutLayer: no call lasts longer
    Slots,                  \* requests in flight at once
    MaxClock                \* bound on the clock

Keys == Partners \cup VirtualKeys

ASSUME BudgetAssumption ==
    /\ Partners \cap VirtualKeys = {} /\ Partners # {} /\ VirtualKeys # {}
    /\ PartnerLimit \in Nat /\ VkLimit \in Nat
    /\ Window \in Nat \ {0} /\ MaxDelay \in Nat /\ MaxClock \in Nat

VARIABLES
    clock,
    counter,     \* the Redis counter of each key, and its expiry
    ask,         \* the call of allow_retry_dual_budget in each slot
    since,       \* history: when each counter last started from nothing
    orphaned,    \* history: keys a call left without the EXPIRE they were due
    windowFrom,  \* history: where the observed window of time starts
    inWindow     \* history: takes within the limit in that window, per key

askVars == <<counter, ask, since, orphaned, inWindow>>
budgetVars == <<clock, counter, ask, since, orphaned, windowFrom, inWindow>>

Times == 0..MaxClock

Never == -1

Limit(k) == IF k \in Partners THEN PartnerLimit ELSE VkLimit

NoAsk == [step |-> "none", partner |-> CHOOSE a \in Partners : TRUE,
          vk |-> CHOOSE v \in VirtualKeys : TRUE, within |-> TRUE, askedAt |-> 0]

BudgetInit ==
    /\ clock = 0
    /\ counter = [k \in Keys |-> [used |-> 0, expiresAt |-> Never]]
    /\ ask = [p \in Slots |-> NoAsk]
    /\ since = [k \in Keys |-> 0]
    /\ orphaned = {}
    /\ windowFrom = 0
    /\ inWindow = [k \in Keys |-> 0]

-----------------------------------------------------------------------------
(* The two Redis commands. *)

\* What INCR finds: a key past its expiry is gone.
Used(k) ==
    IF counter[k].expiresAt # Never /\ counter[k].expiresAt <= clock
    THEN 0 ELSE counter[k].used

Incr(k) ==
    /\ counter' = [counter EXCEPT ![k] =
         [used |-> IF Used(k) <= Limit(k) THEN Used(k) + 1 ELSE Used(k),
          expiresAt |-> IF Used(k) = 0 THEN Never ELSE @.expiresAt]]
    /\ since' = [since EXCEPT ![k] = IF Used(k) = 0 THEN clock ELSE @]
    /\ inWindow' = [inWindow EXCEPT ![k] = IF Used(k) < Limit(k) THEN @ + 1 ELSE @]

\* Mutation: the time to live is too short.
ExpireSoon(k) ==
    /\ counter' = [counter EXCEPT ![k].expiresAt = clock + 1]
    /\ UNCHANGED <<since, inWindow>>

\* Mutation: EXPIRE is left out.
ExpireNever(k) == UNCHANGED <<counter, since, inWindow>>

Expire(k) ==
    /\ counter' = [counter EXCEPT ![k].expiresAt = clock + Window]
    /\ UNCHANGED <<since, inWindow>>

\* remaining >= 0 after this INCR.
Within(k) == Used(k) < Limit(k)

-----------------------------------------------------------------------------
(* One call, from the connection to the decision. *)

Decisions == {"granted", "denied", "fail_open"}

AskSteps == {"connect", "partner", "partner_ttl", "vk", "vk_ttl"}

KeyOf(p) ==
    IF ask[p].step \in {"partner", "partner_ttl"} THEN ask[p].partner ELSE ask[p].vk

Asking(p) == ask[p].step \in AskSteps

\* Mutation: the two names are passed in the wrong order.
StartAskSwapped(p, partner, vk) ==
    ask' = [ask EXCEPT ![p] = [step |-> "connect", partner |-> vk, vk |-> partner,
                               within |-> TRUE, askedAt |-> clock]]

StartAsk(p, partner, vk) ==
    ask' = [ask EXCEPT ![p] = [step |-> "connect", partner |-> partner, vk |-> vk,
                               within |-> TRUE, askedAt |-> clock]]

AskGoesTo(p, step) == ask' = [ask EXCEPT ![p].step = step]

Connect(p) ==
    /\ ask[p].step = "connect"
    /\ \/ AskGoesTo(p, "partner")
       \/ AskGoesTo(p, "fail_open")
    /\ UNCHANGED <<counter, since, orphaned, inWindow>>

\* Mutation: what remains of the budgets is not looked at.
AfterTakeGranted(p, within) ==
    IF KeyOf(p) = ask[p].partner THEN "vk" ELSE "granted"

\* Where a take goes on: to the other budget, or to the decision.
AfterTake(p, within) ==
    IF KeyOf(p) = ask[p].partner THEN "vk"
    ELSE IF within THEN "granted" ELSE "denied"

TtlStep(p) == IF ask[p].step = "partner" THEN "partner_ttl" ELSE "vk_ttl"

Take(p) ==
    LET within == ask[p].within /\ Within(KeyOf(p))
    IN  /\ ask[p].step \in {"partner", "vk"}
        /\ Incr(KeyOf(p))
        /\ ask' = [ask EXCEPT
             ![p].within = within,
             ![p].step = IF Used(KeyOf(p)) = 0 THEN TtlStep(p) ELSE AfterTake(p, within)]
        /\ UNCHANGED orphaned

SettingTtl(p) == ask[p].step \in {"partner_ttl", "vk_ttl"}

SetTtl(p) ==
    /\ SettingTtl(p)
    /\ Expire(KeyOf(p))
    /\ AskGoesTo(p, AfterTake(p, ask[p].within))
    /\ UNCHANGED orphaned

\* The call ends without another command: an EXPIRE it was about to send is lost.
SendNoMore(p) ==
    /\ orphaned' = orphaned \cup (IF SettingTtl(p) THEN {KeyOf(p)} ELSE {})
    /\ UNCHANGED <<counter, since, inWindow>>

\* Redis answers a command with an error: the retry is allowed.
CommandRefused(p) ==
    /\ ask[p].step \in {"partner", "partner_ttl", "vk", "vk_ttl"}
    /\ AskGoesTo(p, "fail_open")
    /\ SendNoMore(p)

\* Redis runs a command and its reply is lost: the retry is allowed too.
ReplyLost(p) ==
    /\ \/ /\ ask[p].step \in {"partner", "vk"}
          /\ Incr(KeyOf(p))
          /\ orphaned' = orphaned \cup (IF Used(KeyOf(p)) = 0 THEN {KeyOf(p)} ELSE {})
       \/ SettingTtl(p) /\ Expire(KeyOf(p)) /\ UNCHANGED orphaned
    /\ AskGoesTo(p, "fail_open")

AskStep(p) == Connect(p) \/ Take(p) \/ SetTtl(p) \/ CommandRefused(p) \/ ReplyLost(p)

\* The request is cancelled: the call stops where it is.
Abandon(p) ==
    /\ ask' = [ask EXCEPT ![p] = NoAsk]
    /\ SendNoMore(p)

-----------------------------------------------------------------------------
(* Time. *)

Tick ==
    /\ clock < MaxClock
    /\ \A p \in Slots : Asking(p) => clock - ask[p].askedAt < MaxDelay
    /\ clock' = clock + 1
    /\ UNCHANGED <<counter, ask, since, orphaned, windowFrom, inWindow>>

\* The observer starts a new window: takes count from now on.
OpenWindow ==
    /\ windowFrom' = clock
    /\ inWindow' = [k \in Keys |-> 0]
    /\ UNCHANGED <<clock, counter, ask, since, orphaned>>

-----------------------------------------------------------------------------
(* The budget on its own: slots that ask and do nothing else. *)

Request(p) ==
    /\ ask[p].step = "none"
    /\ \E partner \in Partners, vk \in VirtualKeys : StartAsk(p, partner, vk)
    /\ UNCHANGED <<counter, since, orphaned, inWindow>>

Finish(p) ==
    /\ ask[p].step # "none"
    /\ Abandon(p)

SlotStep(p) == Request(p) \/ AskStep(p) \/ Finish(p)

BudgetNext ==
    \/ \E p \in Slots : SlotStep(p) /\ UNCHANGED <<clock, windowFrom>>
    \/ Tick
    \/ OpenWindow

BudgetSpec == BudgetInit /\ [][BudgetNext]_budgetVars

-----------------------------------------------------------------------------
(* Properties. *)

\* Clock, counters and calls in their ranges; the two budgets are taken from
\* in their order.
BudgetTypeOK ==
    /\ clock \in Times /\ windowFrom \in 0..clock
    /\ counter \in [Keys -> [used : Nat, expiresAt : Nat \cup {Never}]]
    /\ \A k \in Keys : counter[k].used <= Limit(k) + 1
    /\ ask \in [Slots -> [step : AskSteps \cup Decisions \cup {"none"},
                          partner : Partners, vk : VirtualKeys,
                          within : BOOLEAN, askedAt : 0..clock]]
    /\ since \in [Keys -> 0..clock]
    /\ orphaned \subseteq Keys
    /\ inWindow \in [Keys -> Nat]

\* The most retries a key can pay for in Window: the end of one counter, whose
\* first take came before, and the whole of the next.
MostInWindow(k) == IF Limit(k) = 0 THEN 0 ELSE 2 * Limit(k) - 1

\* The budgets hold (budget.rs:10-17): in no window of a minute does a key pay
\* for more than that, whatever errors and cancellations there are.
WindowBound ==
    \A k \in Keys : clock < windowFrom + Window => inWindow[k] <= MostInWindow(k)

\* A counter is gone a minute, and the time one call can take, after it started,
\* whatever order the calls of several requests run in: only a call that stops
\* between the INCR that starts a counter and its EXPIRE (budget.rs:43-46) can
\* keep a counter alive.
BudgetResets ==
    \A k \in Keys \ orphaned : Used(k) > 0 => clock < since[k] + Window + MaxDelay

\* budget.rs:29 "resets each minute via TTL", of every counter.
AlwaysResets ==
    \A k \in Keys : Used(k) > 0 => clock < since[k] + Window + MaxDelay

-----------------------------------------------------------------------------
(* The inductive invariants. *)

\* A counter that will expire lives for Window at least.
CountersLast ==
    \A k \in Keys :
        counter[k].expiresAt # Never => counter[k].expiresAt >= since[k] + Window

\* Takes within the limit since the counter started.
Paid(k) == IF counter[k].used <= Limit(k) THEN counter[k].used ELSE Limit(k)

\* The window holds the takes of the counter, without the first one when the
\* counter is older than the window, and otherwise those of the counter before.
WindowPaid ==
    \A k \in Keys : clock < windowFrom + Window =>
        inWindow[k] <= IF Paid(k) = 0 THEN 0
                       ELSE IF since[k] < windowFrom THEN Paid(k) - 1
                       ELSE Paid(k) + Limit(k) - 1

WindowInv == BudgetTypeOK /\ CountersLast /\ WindowPaid

\* A call that owes a counter its time to live started before the counter did.
TtlCallsAreRecent ==
    \A p \in Slots :
        /\ Asking(p) => clock <= ask[p].askedAt + MaxDelay
        /\ SettingTtl(p) => ask[p].askedAt <= since[KeyOf(p)]

\* A counter that is not orphaned has a time to live or a call about to set it.
CountersEnd ==
    \A k \in Keys \ orphaned : counter[k].used > 0 =>
        IF counter[k].expiresAt # Never
        THEN counter[k].expiresAt <= since[k] + MaxDelay + Window
        ELSE \E p \in Slots : SettingTtl(p) /\ KeyOf(p) = k

ResetInv == BudgetTypeOK /\ TtlCallsAreRecent /\ CountersEnd

=============================================================================
