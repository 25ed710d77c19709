------------------------- MODULE ProxyForwardProofs -------------------------
(***************************************************************************)
(* Proofs about RetryBudget and about ProxyForward, which extends it.      *)
(* First the retry budget on its own: what a key pays for in a window of   *)
(* time, and that a counter resets unless a call stopped before its        *)
(* EXPIRE.  Then the proxy handler: how often a request is sent, what is   *)
(* recorded of it, that it keeps to the protocol of the budget, so that    *)
(* those theorems hold of it, and how many retries a window sees.          *)
(***************************************************************************)
EXTENDS ProxyForward, TLAPS, FiniteSetTheorems

-----------------------------------------------------------------------------
(* The retry budget. *)

\* The observed time of the two invariants: calls and counters move, clocks do not.
StillTime == clock' = clock /\ windowFrom' = windowFrom

\* Both limits are naturals.
LEMMA LimitIsNat == \A k \in Keys : Limit(k) \in Nat
  BY BudgetAssumption DEF Limit, Keys

\* The empty call has the type of a call.
LEMMA NoAskIsAsk ==
    /\ NoAsk.step = "none" /\ NoAsk.within \in BOOLEAN /\ NoAsk.askedAt = 0
    /\ NoAsk \in [step : AskSteps \cup Decisions \cup {"none"},
                  partner : Partners, vk : VirtualKeys,
                  within : BOOLEAN, askedAt : {0}]
  BY BudgetAssumption DEF NoAsk

\* Init establishes both invariants.
LEMMA InitWindowInv == BudgetInit => WindowInv
  <1> SUFFICES ASSUME BudgetInit PROVE WindowInv
    OBVIOUS
  <1>1. BudgetTypeOK
    BY BudgetAssumption, NoAskIsAsk, LimitIsNat DEF BudgetInit, BudgetTypeOK, Times
  <1>2. CountersLast
    BY DEF BudgetInit, CountersLast
  <1>3. WindowPaid
    BY LimitIsNat DEF BudgetInit, WindowPaid, Paid
  <1> QED
    BY <1>1, <1>2, <1>3 DEF WindowInv

\* INCR keeps the counters in their ranges, and the window paid for.
LEMMA IncrKeeps ==
    ASSUME WindowInv, StillTime, NEW k \in Keys, Incr(k)
    PROVE  /\ counter' \in [Keys -> [used : Nat, expiresAt : Nat \cup {Never}]]
           /\ \A l \in Keys : counter'[l].used <= Limit(l) + 1
           /\ since' \in [Keys -> 0..clock]
           /\ inWindow' \in [Keys -> Nat]
           /\ CountersLast'
           /\ WindowPaid'
  <1> USE DEF WindowInv, BudgetTypeOK, StillTime
  <1>0. /\ Limit(k) \in Nat /\ Window \in Nat \ {0} /\ Used(k) \in 0..(Limit(k) + 1)
        /\ clock \in Nat /\ windowFrom \in 0..clock
    BY LimitIsNat, BudgetAssumption DEF Used, Times
  <1>1. /\ counter'[k] = [used |-> IF Used(k) <= Limit(k) THEN Used(k) + 1 ELSE Used(k),
                          expiresAt |-> IF Used(k) = 0 THEN Never ELSE counter[k].expiresAt]
        /\ since'[k] = IF Used(k) = 0 THEN clock ELSE since[k]
        /\ inWindow'[k] = IF Used(k) < Limit(k) THEN inWindow[k] + 1 ELSE inWindow[k]
    BY DEF Incr
  <1>2. \A l \in Keys \ {k} : /\ counter'[l] = counter[l] /\ since'[l] = since[l]
                              /\ inWindow'[l] = inWindow[l]
    BY DEF Incr
  <1>3. counter'[k] \in [used : Nat, expiresAt : Nat \cup {Never}]
    BY <1>0, <1>1
  <1>4. counter' \in [Keys -> [used : Nat, expiresAt : Nat \cup {Never}]]
    BY <1>2, <1>3 DEF Incr
  <1>5. \A l \in Keys : counter'[l].used <= Limit(l) + 1
    BY <1>0, <1>1, <1>2
  <1>6. since' \in [Keys -> 0..clock] /\ inWindow' \in [Keys -> Nat]
    BY <1>0, <1>1, <1>2 DEF Incr
  <1> HIDE DEF WindowInv, BudgetTypeOK
  <1>7. CountersLast'
    <2> SUFFICES ASSUME NEW l \in Keys, counter'[l].expiresAt # Never
                 PROVE  counter'[l].expiresAt >= since'[l] + Window
      BY DEF CountersLast
    <2> QED
      BY <1>0, <1>1, <1>2 DEF WindowInv, CountersLast
  <1>9. /\ Paid(k) = IF counter[k].used <= Limit(k) THEN counter[k].used ELSE Limit(k)
        /\ Paid(k)' = IF counter'[k].used <= Limit(k) THEN counter'[k].used ELSE Limit(k)
        /\ Limit(k)' = Limit(k)
        /\ counter[k].used \in Nat /\ inWindow[k] \in Nat /\ since[k] \in 0..clock
    BY DEF Paid, Limit, WindowInv, BudgetTypeOK
  <1>8. WindowPaid'
    <2> SUFFICES ASSUME NEW l \in Keys, clock < windowFrom + Window
                 PROVE  inWindow'[l] <= IF Paid(l)' = 0 THEN 0
                                        ELSE IF since'[l] < windowFrom THEN Paid(l)' - 1
                                        ELSE Paid(l)' + Limit(l) - 1
      BY DEF WindowPaid, Limit, StillTime
    <2>1. CASE l # k
      BY <2>1, <1>2 DEF WindowInv, WindowPaid, Paid, Limit, StillTime
    <2> DEFINE old == Paid(k)  new == Paid(k)'  lim == Limit(k)
    <2>a. lim \in Nat /\ inWindow[k] \in Nat /\ windowFrom \in Nat /\ clock \in Nat
          /\ inWindow'[k] = IF Used(k) < lim THEN inWindow[k] + 1 ELSE inWindow[k]
      BY <1>0, <1>1, <1>9
    <2>2. CASE l = k /\ Used(k) # 0
      <3>1. Used(k) = counter[k].used /\ since'[k] = since[k]
        BY <2>2, <1>1 DEF Used
      <3>2. /\ Paid(k)' = IF Used(k) < Limit(k) THEN Paid(k) + 1 ELSE Paid(k)
            /\ Limit(k)' = Limit(k) /\ Paid(k) \in Nat
            /\ Paid(k) = 0 => Limit(k) = 0
        BY <2>2, <3>1, <1>0, <1>1, <1>9
      <3>3. inWindow[k] <= IF Paid(k) = 0 THEN 0
                           ELSE IF since[k] < windowFrom THEN Paid(k) - 1
                           ELSE Paid(k) + Limit(k) - 1
        BY DEF WindowInv, WindowPaid
      <3> QED
        <4>1. /\ new = IF Used(k) < lim THEN old + 1 ELSE old
              /\ old \in Nat /\ (old = 0 => lim = 0) /\ Used(k) \in Nat
          BY <3>2, <1>0
        <4>2. inWindow[k] <= IF old = 0 THEN 0
                             ELSE IF since[k] < windowFrom THEN old - 1 ELSE old + lim - 1
          BY <3>3
        <4> HIDE DEF old, new, lim
        <4>3. inWindow'[k] <= IF new = 0 THEN 0
                              ELSE IF since[k] < windowFrom THEN new - 1 ELSE new + lim - 1
          BY <4>1, <4>2, <2>a, <2>2
        <4> QED
          BY <4>3, <3>1, <2>2 DEF old, new, lim
    <2>3. CASE l = k /\ Used(k) = 0
      <3>1. since'[k] = clock /\ counter'[k].used = 1
        BY <2>3, <1>0, <1>1
      <3>2. Paid(k)' = IF Limit(k) = 0 THEN 0 ELSE 1
        BY <3>1, <1>0, <1>9
      <3>3. inWindow[k] <= IF Limit(k) = 0 THEN 0 ELSE Limit(k) - 1
        <4>1. CASE counter[k].used = 0
          BY <4>1, <1>0, <1>9 DEF WindowInv, WindowPaid
        <4>2. CASE counter[k].used # 0
          <5>1. counter[k].expiresAt # Never /\ counter[k].expiresAt <= clock
            BY <4>2, <2>3 DEF Used
          <5>2. counter[k].expiresAt >= since[k] + Window
            BY <5>1 DEF WindowInv, CountersLast
          <5>3. counter[k].expiresAt \in Int
            BY <5>1 DEF WindowInv, BudgetTypeOK
          <5>4. since[k] < windowFrom
            BY <5>1, <5>2, <5>3, <2>3, <1>0, <1>9, SMTT(30)
          <5> QED
            BY <5>4, <1>0, <1>9, <4>2 DEF WindowInv, WindowPaid
        <4> QED
          BY <4>1, <4>2
      <3> QED
        <4>1. new = (IF lim = 0 THEN 0 ELSE 1) /\ inWindow[k] <= IF lim = 0 THEN 0 ELSE lim - 1
          BY <3>2, <3>3
        <4>2. ~(clock < windowFrom)
          BY <1>0
        <4> HIDE DEF old, new, lim
        <4>3. inWindow'[k] <= IF new = 0 THEN 0 ELSE new + lim - 1
          BY <4>1, <2>a, <2>3
        <4> QED
          BY <4>2, <4>3, <3>1, <2>3 DEF old, new, lim
    <2> QED
      BY <2>1, <2>2, <2>3
  <1> QED
    BY <1>4, <1>5, <1>6, <1>7, <1>8

\* EXPIRE gives a counter a life of Window from now on.
LEMMA ExpireKeeps ==
    ASSUME WindowInv, StillTime, NEW k \in Keys, Expire(k)
    PROVE  /\ counter' \in [Keys -> [used : Nat, expiresAt : Nat \cup {Never}]]
           /\ \A l \in Keys : counter'[l].used <= Limit(l) + 1
           /\ since' \in [Keys -> 0..clock]
           /\ inWindow' \in [Keys -> Nat]
           /\ CountersLast'
           /\ WindowPaid'
  <1> USE DEF WindowInv, BudgetTypeOK, StillTime
  <1>0. Window \in Nat \ {0} /\ clock \in Nat
    BY BudgetAssumption DEF Times
  <1>1. /\ counter'[k] = [counter[k] EXCEPT !.expiresAt = clock + Window]
        /\ \A l \in Keys \ {k} : counter'[l] = counter[l]
        /\ since' = since /\ inWindow' = inWindow
    BY DEF Expire
  <1>2. \A l \in Keys : counter'[l].used = counter[l].used
    BY <1>1
  <1>3. counter' \in [Keys -> [used : Nat, expiresAt : Nat \cup {Never}]]
    BY <1>0, <1>1 DEF Expire
  <1>4. CountersLast'
    BY <1>0, <1>1 DEF CountersLast
  <1>5. WindowPaid'
    BY <1>1, <1>2 DEF WindowPaid, Paid, Limit
  <1> QED
    BY <1>1, <1>2, <1>3, <1>4, <1>5

\* A step that leaves the counters alone keeps the window.
LEMMA StillKeeps ==
    ASSUME WindowInv, StillTime, UNCHANGED <<counter, since, inWindow>>
    PROVE  /\ counter' \in [Keys -> [used : Nat, expiresAt : Nat \cup {Never}]]
           /\ \A l \in Keys : counter'[l].used <= Limit(l) + 1
           /\ since' \in [Keys -> 0..clock]
           /\ inWindow' \in [Keys -> Nat]
           /\ CountersLast'
           /\ WindowPaid'
  BY DEF WindowInv, BudgetTypeOK, StillTime, CountersLast, WindowPaid, Paid, Limit

AskType == [step : AskSteps \cup Decisions \cup {"none"},
            partner : Partners, vk : VirtualKeys,
            within : BOOLEAN, askedAt : 0..clock]

\* What a step of a slot does to the calls, whatever it does to the counters.
LEMMA SlotKeepsAsk ==
    ASSUME WindowInv, NEW p \in Slots, SlotStep(p)
    PROVE  ask' \in [Slots -> AskType]
  <1> USE DEF AskType
  <1>0. ask \in [Slots -> AskType] /\ clock \in Nat /\ KeyOf(p) \in Keys
    BY DEF WindowInv, BudgetTypeOK, Times, KeyOf, Keys
  <1>1. ASSUME NEW step \in AskSteps \cup Decisions, AskGoesTo(p, step)
        PROVE  ask' \in [Slots -> AskType]
    BY <1>0, <1>1 DEF AskGoesTo
  <1>2. CASE Request(p)
    BY <1>2, <1>0 DEF Request, StartAsk, AskSteps
  <1>3. CASE Connect(p)
    BY <1>3, <1>1 DEF Connect, AskSteps, Decisions
  <1>4. CASE Take(p)
    <2>1. PICK within, step :
            /\ within \in BOOLEAN /\ step \in AskSteps \cup Decisions
            /\ ask' = [ask EXCEPT ![p].within = within, ![p].step = step]
      <3>1. /\ (ask[p].within /\ Within(KeyOf(p))) \in BOOLEAN
            /\ TtlStep(p) \in AskSteps
            /\ \A within : AfterTake(p, within) \in AskSteps \cup Decisions
        BY DEF TtlStep, AfterTake, AskSteps, Decisions
      <3> QED
        BY <3>1, <1>4 DEF Take
    <2>2. [[ask[p] EXCEPT !.within = within] EXCEPT !.step = step] \in AskType
      BY <2>1, <1>0
    <2>3. ask' = [ask EXCEPT ![p] = [[ask[p] EXCEPT !.within = within] EXCEPT !.step = step]]
      BY <2>1, <1>0
    <2> QED
      BY <2>2, <2>3, <1>0
  <1>5. CASE SetTtl(p)
    <2>1. AfterTake(p, ask[p].within) \in AskSteps \cup Decisions
      BY DEF AfterTake, AskSteps, Decisions
    <2> QED
      BY <2>1, <1>5, <1>1 DEF SetTtl
  <1>6. CASE CommandRefused(p) \/ ReplyLost(p)
    BY <1>6, <1>1 DEF CommandRefused, ReplyLost, Decisions
  <1>7. CASE Finish(p)
    <2>1. NoAsk \in AskType
      BY <1>0, NoAskIsAsk
    <2>2. ask' = [ask EXCEPT ![p] = NoAsk]
      BY <1>7 DEF Finish, Abandon
    <2> HIDE DEF AskType
    <2> QED
      BY <2>1, <2>2, <1>0
  <1> QED
    BY <1>2, <1>3, <1>4, <1>5, <1>6, <1>7 DEF SlotStep, AskStep

\* A step of a slot is one command on one counter, or none.
LEMMA SlotTouches ==
    ASSUME WindowInv, NEW p \in Slots, SlotStep(p)
    PROVE  /\ KeyOf(p) \in Keys
           /\ \/ Incr(KeyOf(p)) /\ ask[p].step \in {"partner", "vk"}
              \/ Expire(KeyOf(p)) /\ SettingTtl(p)
              \/ UNCHANGED <<counter, since, inWindow>>
  <1>1. KeyOf(p) \in Keys
    BY DEF WindowInv, BudgetTypeOK, KeyOf, Keys
  <1> QED
    BY <1>1 DEF SlotStep, Request, Finish, Abandon, AskStep, Connect, Take, SetTtl,
                CommandRefused, ReplyLost, SendNoMore

\* A step of a slot orphans no key but the one its call takes from.
LEMMA SlotOrphans ==
    ASSUME WindowInv, NEW p \in Slots, SlotStep(p)
    PROVE  orphaned' \subseteq orphaned \cup {KeyOf(p)} /\ orphaned \subseteq orphaned'
  BY DEF SlotStep, Request, Finish, Abandon, AskStep, Connect, Take, SetTtl,
         CommandRefused, ReplyLost, SendNoMore

\* Every step keeps WindowInv.
LEMMA NextWindowInv == WindowInv /\ [BudgetNext]_budgetVars => WindowInv'
  <1> SUFFICES ASSUME WindowInv, [BudgetNext]_budgetVars PROVE WindowInv'
    OBVIOUS
  <1>1. ASSUME NEW p \in Slots, SlotStep(p), UNCHANGED <<clock, windowFrom>>
        PROVE  WindowInv'
    <2>0. StillTime
      BY <1>1 DEF StillTime
    <2>1. /\ counter' \in [Keys -> [used : Nat, expiresAt : Nat \cup {Never}]]
          /\ \A l \in Keys : counter'[l].used <= Limit(l) + 1
          /\ since' \in [Keys -> 0..clock]
          /\ inWindow' \in [Keys -> Nat]
          /\ CountersLast'
          /\ WindowPaid'
      BY <1>1, <2>0, SlotTouches, IncrKeeps, ExpireKeeps, StillKeeps
    <2>2. ask' \in [Slots -> AskType]
      BY <1>1, SlotKeepsAsk
    <2>3. orphaned' \subseteq Keys
      BY <1>1, SlotOrphans, SlotTouches DEF WindowInv, BudgetTypeOK
    <2> QED
      BY <1>1, <2>1, <2>2, <2>3 DEF WindowInv, BudgetTypeOK, AskType, Limit
  <1>2. CASE Tick
    <2>0. clock \in Nat /\ clock + 1 \in Times /\ windowFrom \in 0..clock
      BY <1>2, BudgetAssumption DEF Tick, WindowInv, BudgetTypeOK, Times
    <2>1. BudgetTypeOK'
      BY <1>2, <2>0 DEF Tick, WindowInv, BudgetTypeOK, Limit
    <2>2. CountersLast'
      BY <1>2 DEF Tick, WindowInv, CountersLast
    <2>3. WindowPaid'
      BY <1>2, <2>0, BudgetAssumption DEF Tick, WindowInv, WindowPaid, Paid, Limit
    <2> QED
      BY <2>1, <2>2, <2>3 DEF WindowInv
  <1>3. CASE OpenWindow
    <2>1. BudgetTypeOK'
      BY <1>3 DEF OpenWindow, WindowInv, BudgetTypeOK, Times, Limit
    <2>2. CountersLast'
      BY <1>3 DEF OpenWindow, WindowInv, CountersLast
    <2>3. WindowPaid'
      <3> SUFFICES ASSUME NEW k \in Keys, Paid(k)' # 0
                   PROVE  0 <= IF since[k] < clock THEN Paid(k)' - 1
                               ELSE Paid(k)' + Limit(k) - 1
        BY <1>3 DEF OpenWindow, WindowPaid, Limit
      <3>1. Paid(k)' = Paid(k) /\ Paid(k) \in Nat /\ Limit(k) \in Nat
        BY <1>3, LimitIsNat DEF OpenWindow, Paid, Limit, WindowInv, BudgetTypeOK
      <3> QED
        BY <3>1
    <2> QED
      BY <2>1, <2>2, <2>3 DEF WindowInv
  <1>4. CASE UNCHANGED budgetVars
    BY <1>4 DEF budgetVars, WindowInv, BudgetTypeOK, CountersLast, WindowPaid, Paid, Limit
  <1> QED
    BY <1>1, <1>2, <1>3, <1>4 DEF BudgetNext

\* Ranges of the budget's state, for every instance: counters, calls and
\* observations stay what the code makes them.
THEOREM BudgetTypeCorrect == BudgetSpec => []BudgetTypeOK
  <1>1. WindowInv => BudgetTypeOK
    BY DEF WindowInv
  <1> QED
    BY <1>1, InitWindowInv, NextWindowInv, PTL DEF BudgetSpec

\* No window of a minute holds more paid retries than the two budgets say, for
\* every limit, number of requests, fault and cancellation.
THEOREM WindowBounded == BudgetSpec => []WindowBound
  <1>1. WindowInv => WindowBound
    <2> SUFFICES ASSUME WindowInv, NEW k \in Keys, clock < windowFrom + Window
                 PROVE  inWindow[k] <= MostInWindow(k)
      BY DEF WindowBound
    <2>1. Limit(k) \in Nat /\ counter[k].used \in Nat /\ inWindow[k] \in Nat
      BY LimitIsNat DEF WindowInv, BudgetTypeOK
    <2> QED
      BY <2>1 DEF WindowInv, WindowPaid, Paid, MostInWindow
  <1> QED
    BY <1>1, InitWindowInv, NextWindowInv, PTL DEF BudgetSpec

-----------------------------------------------------------------------------
(* Counters reset unless a call stopped between INCR and EXPIRE. *)

\* Init establishes the invariant of the reset.
LEMMA InitResetInv == BudgetInit => TtlCallsAreRecent /\ CountersEnd
  BY NoAskIsAsk DEF BudgetInit, TtlCallsAreRecent, CountersEnd, Asking, SettingTtl,
                    AskSteps

\* Used is what is left of a counter, and a counter in use is a counter.
LEMMA UsedIsCounted ==
    ASSUME BudgetTypeOK, NEW k \in Keys, Used(k) # 0
    PROVE  Used(k) = counter[k].used /\ counter[k].used > 0
  BY DEF BudgetTypeOK, Used

\* Which call a step of a slot leaves alone, and what it does to its own.
LEMMA SlotMoves ==
    ASSUME WindowInv, NEW p \in Slots, SlotStep(p)
    PROVE  \A q \in Slots \ {p} : ask'[q] = ask[q]
  BY DEF WindowInv, BudgetTypeOK, SlotStep, Request, StartAsk, AskStep, AskGoesTo,
         Connect, Take, SetTtl, CommandRefused, ReplyLost, Finish, Abandon, SendNoMore

\* INCR adds to a counter, or starts one, and then its call goes on to the time
\* to live or orphans it.
LEMMA IncrResets ==
    ASSUME WindowInv, TtlCallsAreRecent, CountersEnd, StillTime, NEW p \in Slots,
           Take(p) \/ (ReplyLost(p) /\ ~SettingTtl(p))
    PROVE  TtlCallsAreRecent' /\ CountersEnd'
  <1> DEFINE k == KeyOf(p)
  <1>0. /\ clock \in Nat /\ MaxDelay \in Nat /\ Window \in Nat
        /\ ask[p].askedAt \in 0..clock /\ k \in Keys /\ since[k] \in 0..clock
        /\ ask[p].step \in {"partner", "vk"} /\ clock' = clock
        /\ orphaned \subseteq orphaned'
    BY BudgetAssumption DEF WindowInv, BudgetTypeOK, Times, KeyOf, Keys, Take, ReplyLost,
                            StillTime
  <1>1. /\ ask'[p].askedAt = ask[p].askedAt /\ ask'[p].partner = ask[p].partner
        /\ ask'[p].vk = ask[p].vk
        /\ \/ ask'[p].step = "fail_open" /\ (Used(k) = 0 => k \in orphaned')
           \/ ask'[p].step = IF Used(k) = 0 THEN TtlStep(p)
                             ELSE AfterTake(p, ask[p].within /\ Within(k))
    BY DEF Take, ReplyLost, AskGoesTo, WindowInv, BudgetTypeOK
  <1>2. \A q \in Slots \ {p} : ask'[q] = ask[q]
    BY DEF Take, ReplyLost, AskGoesTo, WindowInv, BudgetTypeOK
  <1>3. /\ Used(k) = 0 => SettingTtl(p)' \/ k \in orphaned'
        /\ SettingTtl(p)' => KeyOf(p)' = k
    BY <1>0, <1>1 DEF SettingTtl, KeyOf, TtlStep, AfterTake
  <1>4. Used(k) # 0 => ~SettingTtl(p)'
    BY <1>1 DEF SettingTtl, AfterTake
  <1>5. ~SettingTtl(p) /\ Asking(p)
    BY <1>0 DEF SettingTtl, Asking, AskSteps
  <1>6. \A q \in Slots \ {p} : /\ SettingTtl(q)' = SettingTtl(q)
                               /\ Asking(q)' = Asking(q) /\ KeyOf(q)' = KeyOf(q)
    BY <1>2 DEF SettingTtl, Asking, KeyOf
  <1> HIDE DEF k
  <1>7. /\ \A l \in Keys \ {k} : counter'[l] = counter[l] /\ since'[l] = since[l]
        /\ since'[k] = IF Used(k) = 0 THEN clock ELSE since[k]
        /\ counter'[k].expiresAt = IF Used(k) = 0 THEN Never ELSE counter[k].expiresAt
    BY <1>0 DEF Take, ReplyLost, Incr, WindowInv, BudgetTypeOK, k
  <1>8. TtlCallsAreRecent'
    <2> SUFFICES ASSUME NEW q \in Slots
                 PROVE  /\ Asking(q)' => clock <= ask'[q].askedAt + MaxDelay
                        /\ SettingTtl(q)' => ask'[q].askedAt <= since'[KeyOf(q)']
      BY <1>0 DEF TtlCallsAreRecent
    <2>1. CASE q = p
      BY <2>1, <1>0, <1>1, <1>3, <1>4, <1>5, <1>7 DEF TtlCallsAreRecent
    <2>2. CASE q # p
      <3>1. /\ Asking(q) => clock <= ask[q].askedAt + MaxDelay
            /\ SettingTtl(q) => ask[q].askedAt <= since[KeyOf(q)]
        BY DEF TtlCallsAreRecent
      <3>2. ask[q].askedAt \in 0..clock /\ KeyOf(q) \in Keys
        BY DEF WindowInv, BudgetTypeOK, KeyOf, Keys
      <3>3. since'[KeyOf(q)] = since[KeyOf(q)] \/ since'[KeyOf(q)] = clock
        BY <3>2, <1>7
      <3> QED
        BY <2>2, <3>1, <3>2, <3>3, <1>0, <1>2, <1>6
    <2> QED
      BY <2>1, <2>2
  <1>9. CountersEnd'
    <2> SUFFICES ASSUME NEW l \in Keys \ orphaned', counter'[l].used > 0
                 PROVE  IF counter'[l].expiresAt # Never
                        THEN counter'[l].expiresAt <= since'[l] + MaxDelay + Window
                        ELSE \E q \in Slots : SettingTtl(q)' /\ KeyOf(q)' = l
      BY DEF CountersEnd
    <2>0. counter[l].used > 0 =>
             IF counter[l].expiresAt # Never
             THEN counter[l].expiresAt <= since[l] + MaxDelay + Window
             ELSE \E q \in Slots : SettingTtl(q) /\ KeyOf(q) = l
      BY <1>0 DEF CountersEnd
    <2>1. CASE l # k
      BY <2>0, <2>1, <1>5, <1>6, <1>7
    <2>2. CASE l = k /\ Used(k) = 0
      BY <2>2, <1>3, <1>7
    <2>3. CASE l = k /\ Used(k) # 0
      <3>1. counter[k].used > 0
        BY <2>3, <1>0, UsedIsCounted DEF WindowInv
      <3> QED
        BY <2>0, <2>3, <3>1, <1>5, <1>6, <1>7
    <2> QED
      BY <2>1, <2>2, <2>3
  <1> QED
    BY <1>8, <1>9

\* EXPIRE ends a counter within one call's time and Window of its start.
LEMMA ExpireResets ==
    ASSUME WindowInv, TtlCallsAreRecent, CountersEnd, StillTime, NEW p \in Slots,
           SetTtl(p) \/ (ReplyLost(p) /\ SettingTtl(p))
    PROVE  TtlCallsAreRecent' /\ CountersEnd'
  <1> DEFINE k == KeyOf(p)
  <1>0. /\ clock \in Nat /\ MaxDelay \in Nat /\ Window \in Nat
        /\ ask[p].askedAt \in 0..clock /\ k \in Keys /\ since[k] \in 0..clock
        /\ SettingTtl(p) /\ Asking(p) /\ clock' = clock /\ orphaned' = orphaned
    BY BudgetAssumption DEF WindowInv, BudgetTypeOK, Times, KeyOf, Keys, SetTtl,
                            ReplyLost, SettingTtl, Asking, AskSteps, StillTime
  <1>1. /\ ask'[p].askedAt = ask[p].askedAt
        /\ ask'[p].step \in {"fail_open", AfterTake(p, ask[p].within)}
    BY DEF SetTtl, ReplyLost, AskGoesTo, WindowInv, BudgetTypeOK
  <1>2. \A q \in Slots \ {p} : ask'[q] = ask[q]
    BY DEF SetTtl, ReplyLost, AskGoesTo, WindowInv, BudgetTypeOK
  <1>3. ~SettingTtl(p)'
    BY <1>1 DEF SettingTtl, AfterTake
  <1>4. \A q \in Slots \ {p} : /\ SettingTtl(q)' = SettingTtl(q)
                               /\ Asking(q)' = Asking(q) /\ KeyOf(q)' = KeyOf(q)
    BY <1>2 DEF SettingTtl, Asking, KeyOf
  <1>5. clock <= ask[p].askedAt + MaxDelay /\ ask[p].askedAt <= since[k]
    BY <1>0 DEF TtlCallsAreRecent
  <1> HIDE DEF k
  <1>6. /\ \A l \in Keys \ {k} : counter'[l] = counter[l]
        /\ since' = since
        /\ counter'[k].expiresAt = clock + Window
    BY <1>0 DEF SetTtl, ReplyLost, SettingTtl, Expire, WindowInv, BudgetTypeOK, k
  <1>7. TtlCallsAreRecent'
    <2> SUFFICES ASSUME NEW q \in Slots
                 PROVE  /\ Asking(q)' => clock <= ask'[q].askedAt + MaxDelay
                        /\ SettingTtl(q)' => ask'[q].askedAt <= since'[KeyOf(q)']
      BY <1>0 DEF TtlCallsAreRecent
    <2>1. CASE q = p
      BY <2>1, <1>1, <1>3, <1>5
    <2>2. CASE q # p
      BY <2>2, <1>2, <1>4, <1>6 DEF TtlCallsAreRecent
    <2> QED
      BY <2>1, <2>2
  <1>8. CountersEnd'
    <2> SUFFICES ASSUME NEW l \in Keys \ orphaned', counter'[l].used > 0
                 PROVE  IF counter'[l].expiresAt # Never
                        THEN counter'[l].expiresAt <= since'[l] + MaxDelay + Window
                        ELSE \E q \in Slots : SettingTtl(q)' /\ KeyOf(q)' = l
      BY DEF CountersEnd
    <2>1. CASE l = k
      BY <2>1, <1>0, <1>5, <1>6 DEF Never
    <2>2. CASE l # k
      BY <2>2, <1>0, <1>4, <1>6 DEF CountersEnd, k
    <2> QED
      BY <2>1, <2>2
  <1> QED
    BY <1>7, <1>8

\* The other steps of a slot touch no counter and orphan the one they owe.
LEMMA RestResets ==
    ASSUME WindowInv, TtlCallsAreRecent, CountersEnd, StillTime, NEW p \in Slots,
           Request(p) \/ Connect(p) \/ CommandRefused(p) \/ Finish(p)
    PROVE  TtlCallsAreRecent' /\ CountersEnd'
  <1>0. clock \in Nat /\ MaxDelay \in Nat /\ clock' = clock
    BY BudgetAssumption DEF WindowInv, BudgetTypeOK, Times, StillTime
  <1>1. SlotStep(p)
    BY DEF SlotStep, AskStep
  <1>2. (\A q \in Slots \ {p} : ask'[q] = ask[q]) /\ orphaned \subseteq orphaned'
    BY <1>1, SlotMoves, SlotOrphans
  <1>3. /\ ~SettingTtl(p)' /\ counter' = counter /\ since' = since
        /\ SettingTtl(p) => KeyOf(p) \in orphaned'
    BY NoAskIsAsk DEF SettingTtl, Request, StartAsk, Connect, AskGoesTo, CommandRefused,
                      Finish, Abandon, SendNoMore, WindowInv, BudgetTypeOK
  <1>4. Asking(p)' => clock <= ask'[p].askedAt + MaxDelay
    <2>1. CASE Request(p)
      BY <2>1, <1>0 DEF Request, StartAsk, WindowInv, BudgetTypeOK
    <2>2. CASE Connect(p)
      BY <2>2, <1>0 DEF Connect, AskGoesTo, WindowInv, BudgetTypeOK, TtlCallsAreRecent,
                        Asking, AskSteps
    <2>3. CASE CommandRefused(p) \/ Finish(p)
      BY <2>3, NoAskIsAsk DEF CommandRefused, Finish, Abandon, AskGoesTo, Asking,
                              AskSteps, WindowInv, BudgetTypeOK
    <2> QED
      BY <2>1, <2>2, <2>3
  <1>5. \A q \in Slots \ {p} : /\ SettingTtl(q)' = SettingTtl(q)
                               /\ Asking(q)' = Asking(q) /\ KeyOf(q)' = KeyOf(q)
    BY <1>2 DEF SettingTtl, Asking, KeyOf
  <1>6. TtlCallsAreRecent'
    <2> SUFFICES ASSUME NEW q \in Slots
                 PROVE  /\ Asking(q)' => clock <= ask'[q].askedAt + MaxDelay
                        /\ SettingTtl(q)' => ask'[q].askedAt <= since[KeyOf(q)']
      BY <1>0, <1>3 DEF TtlCallsAreRecent
    <2>1. CASE q = p
      BY <2>1, <1>3, <1>4
    <2>2. CASE q # p
      BY <2>2, <1>2, <1>5 DEF TtlCallsAreRecent
    <2> QED
      BY <2>1, <2>2
  <1>7. CountersEnd'
    BY <1>2, <1>3, <1>5 DEF CountersEnd
  <1> QED
    BY <1>6, <1>7

\* Every step keeps ResetInv.
LEMMA NextResetInv == WindowInv /\ ResetInv /\ [BudgetNext]_budgetVars => ResetInv'
  <1> SUFFICES ASSUME WindowInv, ResetInv, [BudgetNext]_budgetVars
               PROVE  TtlCallsAreRecent' /\ CountersEnd'
    BY NextWindowInv DEF ResetInv, WindowInv
  <1> USE DEF ResetInv
  <1>1. ASSUME NEW p \in Slots, SlotStep(p), UNCHANGED <<clock, windowFrom>>
        PROVE  TtlCallsAreRecent' /\ CountersEnd'
    <2>0. StillTime
      BY <1>1 DEF StillTime
    <2>1. \/ Take(p) \/ (ReplyLost(p) /\ ~SettingTtl(p))
          \/ SetTtl(p) \/ (ReplyLost(p) /\ SettingTtl(p))
          \/ Request(p) \/ Connect(p) \/ CommandRefused(p) \/ Finish(p)
      BY <1>1 DEF SlotStep, AskStep
    <2> QED
      BY <2>0, <2>1, IncrResets, ExpireResets, RestResets
  <1>2. CASE Tick
    <2>1. \A p \in Slots : Asking(p) => clock + 1 <= ask[p].askedAt + MaxDelay
      BY <1>2, BudgetAssumption DEF Tick, BudgetTypeOK, Times
    <2> QED
      BY <1>2, <2>1 DEF Tick, TtlCallsAreRecent, CountersEnd, Asking, SettingTtl, KeyOf
  <1>3. CASE OpenWindow \/ UNCHANGED budgetVars
    BY <1>3 DEF OpenWindow, budgetVars, TtlCallsAreRecent, CountersEnd, Asking,
                SettingTtl, KeyOf
  <1> QED
    BY <1>1, <1>2, <1>3 DEF BudgetNext

\* Every counter resets each minute via its TTL, give or take one call, unless an
\* error or a cancellation fell between the INCR that started it and its EXPIRE.
THEOREM BudgetsReset == BudgetSpec => []BudgetResets
  <1>1. WindowInv /\ ResetInv => BudgetResets
    <2> SUFFICES ASSUME WindowInv, ResetInv, NEW k \in Keys \ orphaned, Used(k) > 0
                 PROVE  clock < since[k] + Window + MaxDelay
      BY DEF BudgetResets
    <2>0. /\ clock \in Nat /\ Window \in Nat \ {0} /\ MaxDelay \in Nat
          /\ since[k] \in Nat /\ counter[k].expiresAt \in Int
      BY BudgetAssumption DEF ResetInv, BudgetTypeOK, Times, Never
    <2>1. counter[k].used > 0
      BY UsedIsCounted DEF ResetInv
    <2>2. CASE counter[k].expiresAt # Never
      <3>1. clock < counter[k].expiresAt
        BY <2>0, <2>2 DEF Used
      <3>2. counter[k].expiresAt <= since[k] + MaxDelay + Window
        BY <2>1, <2>2 DEF ResetInv, CountersEnd
      <3> QED
        BY <2>0, <3>1, <3>2
    <2>3. CASE counter[k].expiresAt = Never
      <3>1. PICK p \in Slots : SettingTtl(p) /\ KeyOf(p) = k
        BY <2>1, <2>3 DEF ResetInv, CountersEnd
      <3>2. /\ clock <= ask[p].askedAt + MaxDelay /\ ask[p].askedAt <= since[k]
            /\ ask[p].askedAt \in Nat
        BY <3>1 DEF ResetInv, TtlCallsAreRecent, SettingTtl, Asking, AskSteps, BudgetTypeOK
      <3> QED
        BY <2>0, <3>2
    <2> QED
      BY <2>2, <2>3
  <1>2. BudgetInit => ResetInv
    BY InitWindowInv, InitResetInv DEF ResetInv, WindowInv
  <1>3. WindowInv /\ ResetInv /\ [BudgetNext]_budgetVars => WindowInv' /\ ResetInv'
    BY NextWindowInv, NextResetInv
  <1> QED
    BY <1>1, <1>2, <1>3, InitWindowInv, PTL DEF BudgetSpec

-----------------------------------------------------------------------------
(* The proxy handler. *)

\* The empty call asks for nothing.
LEMMA NoAskIsNone == NoAsk.step = "none"
  BY DEF NoAsk

\* The empty request has the type of a request, with no attempt made.
LEMMA NoRequestIsRequest ==
    /\ NoRequest \in [method : Methods, partner : Partners, vk : VirtualKeys,
                      attempt : 0..MaxAttempts, retries_used : Nat,
                      deadline : Nat, wakeAt : Nat]
    /\ NoRequest.attempt = 0 /\ NoRequest.retries_used = 0
  BY BudgetAssumption, ProxyAssumption DEF NoRequest, NoAsk, Methods

\* What holds of one slot: its share of HandlerInv.
SlotInv(p) == AskOK(p) /\ AttemptOK(p) /\ RecordOK(p)

SlotEventsAgree(p) ==
    /\ event[p] = "blocked" => sends[p] = 0 /\ answer[p] \in {"none", "blocked", "dropped"}
    /\ event[p] = "allowed" => sends[p] > 0 /\ answer[p] \in {"none", "upstream", "dropped"}
    /\ answer[p] = "upstream" => sends[p] > 0 /\ event[p] # "blocked"
    /\ answer[p] = "blocked" => sends[p] = 0 /\ event[p] # "allowed"

\* A slot another slot's step leaves alone keeps what holds of it.
LEMMA OthersKeep ==
    ASSUME NEW q \in Slots, SlotInv(q), SlotEventsAgree(q),
           pc'[q] = pc[q], rq'[q] = rq[q], sends'[q] = sends[q], event'[q] = event[q],
           answer'[q] = answer[q], ask'[q] = ask[q]
    PROVE  SlotInv(q)' /\ SlotEventsAgree(q)'
  BY DEF SlotInv, SlotEventsAgree, AskOK, AttemptOK, RecordOK, Asked, RetryLeft

\* The handler's invariant, slot by slot.
LEMMA HandlerInvBySlot ==
    HandlerInv <=> TypeOK /\ \A p \in Slots : SlotInv(p) /\ SlotEventsAgree(p)
  BY DEF HandlerInv, SlotInv, SlotEventsAgree, EventsAgree

\* A step of one slot changes that slot's variables only.
Alone(p) ==
    \A q \in Slots \ {p} :
        /\ pc'[q] = pc[q] /\ rq'[q] = rq[q] /\ sends'[q] = sends[q]
        /\ event'[q] = event[q] /\ answer'[q] = answer[q] /\ ask'[q] = ask[q]

\* So the invariant follows from what the step does to its own slot.
LEMMA StepKeeps ==
    ASSUME HandlerInv, NEW p \in Slots, Alone(p), TypeOK',
           SlotInv(p)', SlotEventsAgree(p)'
    PROVE  HandlerInv'
  <1>1. \A q \in Slots : SlotInv(q)' /\ SlotEventsAgree(q)'
    <2> SUFFICES ASSUME NEW q \in Slots, q # p
                 PROVE  SlotInv(q)' /\ SlotEventsAgree(q)'
      OBVIOUS
    <2> QED
      BY HandlerInvBySlot, OthersKeep DEF Alone
  <1> QED
    BY <1>1 DEF HandlerInv, SlotInv, SlotEventsAgree, EventsAgree

\* Init establishes the invariant.
LEMMA InitHandlerInv == Init => HandlerInv
  BY NoAskIsNone, NoRequestIsRequest
     DEF Init, BudgetInit, HandlerInv, TypeOK, AskOK, AttemptOK, RecordOK, EventsAgree,
         Asked, Answers

\* The type of rq, for the steps that change one slot of it.
RqType == [method : Methods, partner : Partners, vk : VirtualKeys,
           attempt : 0..MaxAttempts, retries_used : Nat,
           deadline : Nat, wakeAt : Nat]

\* An update of one slot's request leaves the others alone.
LEMMA RqChanges ==
    ASSUME TypeOK, NEW p \in Slots, NEW r \in RqType, rq' = [rq EXCEPT ![p] = r]
    PROVE  rq' \in [Slots -> RqType] /\ \A q \in Slots \ {p} : rq'[q] = rq[q]
  BY DEF TypeOK, RqType

\* Every step of a slot keeps the invariant.
LEMMA SlotActsKeeps ==
    ASSUME HandlerInv, BudgetTypeOK, BudgetTypeOK', NEW p \in Slots, SlotActs(p)
    PROVE  HandlerInv'
  <1> USE ProxyAssumption, NoAskIsNone, NoRequestIsRequest
  <1>0. /\ TypeOK /\ SlotInv(p) /\ SlotEventsAgree(p)
        /\ ask \in [Slots -> [step : AskSteps \cup Decisions \cup {"none"},
                          partner : Partners, vk : VirtualKeys,
                          within : BOOLEAN, askedAt : 0..clock]]
        /\ clock \in Nat
    BY HandlerInvBySlot, BudgetAssumption DEF BudgetTypeOK, Times
  <1>1. CASE Arrive(p)
    <2>1. PICK method \in Methods, partner \in Partners, vk \in VirtualKeys :
            /\ rq' = [rq EXCEPT ![p] = [NoRequest EXCEPT !.method = method,
                                       !.partner = partner, !.vk = vk]]
            /\ IF method = "tunnel"
               THEN Reply(p, "method_not_allowed")
               ELSE /\ GoTo(p, "partner")
                    /\ answer' = [answer EXCEPT ![p] = "none"]
      BY <1>1 DEF Arrive
    <2>2. /\ sends' = [sends EXCEPT ![p] = 0] /\ event' = [event EXCEPT ![p] = "none"]
          /\ ask' = ask /\ retried' = retried /\ pc[p] \in {"idle", "done"}
      BY <1>1 DEF Arrive, askVars
    <2>3. /\ rq'[p].attempt = 0 /\ rq'[p].retries_used = 0
          /\ rq'[p] \in [method : Methods, partner : Partners, vk : VirtualKeys,
                      attempt : 0..MaxAttempts, retries_used : Nat,
                      deadline : Nat, wakeAt : Nat]
      BY <2>1, <1>0 DEF TypeOK
    <2>4. TypeOK'
      BY <2>1, <2>2, <2>3, <1>0 DEF TypeOK, Reply, GoTo, Answers
    <2>5. Alone(p)
      BY <2>1, <2>2, <1>0 DEF TypeOK, Alone, Reply, GoTo
    <2>6. SlotInv(p)'
      BY <2>1, <2>2, <2>3, <1>0
         DEF TypeOK, SlotInv, AskOK, AttemptOK, RecordOK, Asked, Reply, GoTo
    <2>7. SlotEventsAgree(p)'
      BY <2>1, <2>2, <1>0 DEF TypeOK, SlotEventsAgree, Reply, GoTo
    <2> QED
      BY <2>4, <2>5, <2>6, <2>7, StepKeeps
  <1>2. CASE LoadPartner(p)
    <2>1. TypeOK' /\ Alone(p)
      BY <1>2, <1>0 DEF LoadPartner, GoTo, TypeOK, Alone, askVars
    <2>2. SlotInv(p)' /\ SlotEventsAgree(p)'
      BY <1>2, <1>0 DEF LoadPartner, GoTo, TypeOK, SlotInv, SlotEventsAgree, AskOK,
                        AttemptOK, RecordOK, Asked, askVars
    <2> QED
      BY <2>1, <2>2, StepKeeps
  <1>3. CASE LoadCredential(p)
    <2>a. rq' \in [Slots -> RqType] /\ \A q \in Slots \ {p} : rq'[q] = rq[q]
      <3>1. CASE rq' = rq
        BY <3>1, <1>0 DEF TypeOK, RqType
      <3>2. CASE rq' = [rq EXCEPT ![p].deadline = clock + Timeout]
        <4>1. [rq[p] EXCEPT !.deadline = clock + Timeout] \in RqType
          <5>1. clock + Timeout \in Nat /\ rq[p] \in RqType
            BY <1>0 DEF TypeOK, RqType
          <5> QED
            BY ONLY <5>1 DEF RqType
        <4> QED
          BY <3>2, <4>1, <1>0, RqChanges
      <3> QED
        BY <1>3, <3>1, <3>2 DEF LoadCredential
    <2>b. Alone(p)
      BY <1>3, <1>0, <2>a DEF LoadCredential, GoTo, Reply, TypeOK, Alone, askVars
    <2>c. TypeOK'
      BY <1>3, <1>0, <2>a DEF LoadCredential, GoTo, Reply, TypeOK, RqType, askVars, Answers
    <2>1. TypeOK' /\ Alone(p)
      BY <2>b, <2>c
    <2>2. SlotInv(p)' /\ SlotEventsAgree(p)'
      <3>1. /\ pc[p] = "credential" /\ pc'[p] \in {"loop", "record_blocked", "done"}
            /\ sends'[p] = sends[p] /\ event'[p] = event[p] /\ ask'[p] = ask[p]
            /\ pc'[p] # "done" => answer'[p] = answer[p]
            /\ pc'[p] = "done" => answer'[p] = "bad_credential_header"
        BY <1>3, <1>0 DEF LoadCredential, GoTo, Reply, TypeOK, askVars
      <3>2. /\ rq'[p].attempt = rq[p].attempt /\ rq'[p].method = rq[p].method
            /\ rq'[p].retries_used = rq[p].retries_used /\ rq[p].retries_used \in Nat
        BY <1>3, <1>0 DEF LoadCredential, TypeOK
      <3>3. /\ rq[p].attempt = 0 /\ sends[p] = 0 /\ ask[p] = NoAsk
            /\ event[p] = "none" /\ answer[p] = "none"
        BY <3>1, <1>0 DEF SlotInv, AskOK, AttemptOK, RecordOK, Asked
      <3> QED
        BY <3>1, <3>2, <3>3 DEF SlotInv, SlotEventsAgree, AskOK, AttemptOK, RecordOK, Asked
    <2> QED
      BY <2>1, <2>2, StepKeeps
  <1>4. CASE StartAttempt(p)
    <2>0. /\ rq' = [rq EXCEPT ![p].attempt = @ + 1] /\ sends' = [sends EXCEPT ![p] = @ + 1]
          /\ pc[p] = "loop" /\ pc' = [pc EXCEPT ![p] = "sent"]
          /\ event' = event /\ answer' = answer /\ ask' = ask /\ retried' = retried
      BY <1>4 DEF StartAttempt, GoTo, askVars
    <2>1. rq[p].attempt + 1 \in 0..MaxAttempts /\ rq[p].attempt \in Nat
      BY <2>0, <1>0 DEF TypeOK, SlotInv, AttemptOK
    <2>2. TypeOK' /\ Alone(p)
      <3>1. [rq[p] EXCEPT !.attempt = rq[p].attempt + 1] \in RqType
        BY <2>1, <1>0 DEF TypeOK, RqType
      <3>2. rq' \in [Slots -> RqType] /\ \A q \in Slots \ {p} : rq'[q] = rq[q]
        BY <3>1, <2>0, <1>0, RqChanges
      <3> QED
        BY <2>0, <3>2, <1>0 DEF TypeOK, RqType, Alone
    <2>3. SlotInv(p)' /\ SlotEventsAgree(p)'
      BY <2>0, <2>1, <1>0 DEF TypeOK, SlotInv, SlotEventsAgree, AskOK, AttemptOK,
                              RecordOK, Asked
    <2> QED
      BY <2>2, <2>3, StepKeeps
  <1>5. CASE OutOfTime(p) \/ Elapsed(p)
    <2>1. TypeOK' /\ Alone(p)
      BY <1>5, <1>0 DEF OutOfTime, Elapsed, GoTo, Reply, TypeOK, Alone, askVars, Answers
    <2>2. SlotInv(p)' /\ SlotEventsAgree(p)'
      BY <1>5, <1>0 DEF OutOfTime, Elapsed, GoTo, Reply, TypeOK, SlotInv,
                        SlotEventsAgree, AskOK, AttemptOK, RecordOK, Asked, askVars
    <2> QED
      BY <2>1, <2>2, StepKeeps
  <1>6. CASE UpstreamAnswers(p)
    <2>0. /\ pc[p] = "sent" /\ UNCHANGED <<rq, sends, event, answer, retried>>
          /\ \/ RetryLeft(p) /\ AskForRetry(p, "ask_status")
             \/ GoTo(p, "record_allowed") /\ ask' = ask
      BY <1>6 DEF UpstreamAnswers, askVars
    <2>1. TypeOK' /\ Alone(p)
      BY <2>0, <1>0 DEF AskForRetry, StartAsk, GoTo, TypeOK, Alone
    <2>2. SlotInv(p)' /\ SlotEventsAgree(p)'
      BY <2>0, <1>0 DEF AskForRetry, StartAsk, GoTo, TypeOK, SlotInv, SlotEventsAgree,
                        AskOK, AttemptOK, RecordOK, Asked, RetryLeft
    <2> QED
      BY <2>1, <2>2, StepKeeps
  <1>7. CASE UpstreamFails(p)
    <2>0. /\ pc[p] = "sent" /\ UNCHANGED <<rq, sends, event, retried>>
          /\ \/ RetryLeft(p) /\ AskForRetry(p, "ask_error") /\ answer' = answer
             \/ Reply(p, "bad_gateway") /\ ask' = ask
      BY <1>7 DEF UpstreamFails, askVars
    <2>1. TypeOK' /\ Alone(p)
      BY <2>0, <1>0 DEF AskForRetry, StartAsk, GoTo, Reply, TypeOK, Alone, Answers
    <2>2. SlotInv(p)' /\ SlotEventsAgree(p)'
      BY <2>0, <1>0 DEF AskForRetry, StartAsk, GoTo, Reply, TypeOK, SlotInv,
                        SlotEventsAgree, AskOK, AttemptOK, RecordOK, Asked, RetryLeft
    <2> QED
      BY <2>1, <2>2, StepKeeps
  <1>8. CASE RetryAllowed(p)
    <2>0. /\ Asked(p) /\ pc' = [pc EXCEPT ![p] = "sleep"]
          /\ rq' = [rq EXCEPT ![p].retries_used = @ + 1, ![p].wakeAt = clock + Backoff]
          /\ ask' = [ask EXCEPT ![p] = NoAsk]
          /\ UNCHANGED <<sends, event, answer>>
      BY <1>8 DEF RetryAllowed, GoTo, EndAsk
    <2>1. retried' \in [Keys -> Nat]
      BY <1>8, <1>0 DEF RetryAllowed, TypeOK
    <2>2. TypeOK' /\ Alone(p)
      <3>1. [[rq[p] EXCEPT !.retries_used = rq[p].retries_used + 1]
               EXCEPT !.wakeAt = clock + Backoff] \in RqType
        <4>1. /\ clock + Backoff \in Nat /\ rq[p] \in RqType
              /\ rq[p].retries_used + 1 \in Nat
          BY <1>0 DEF TypeOK, RqType
        <4> QED
          BY ONLY <4>1 DEF RqType
      <3>2. rq' = [rq EXCEPT ![p] = [[rq[p] EXCEPT !.retries_used = rq[p].retries_used + 1]
                                     EXCEPT !.wakeAt = clock + Backoff]]
        BY <2>0, <1>0 DEF TypeOK
      <3>3. rq' \in [Slots -> RqType] /\ \A q \in Slots \ {p} : rq'[q] = rq[q]
        BY <3>1, <3>2, <1>0, RqChanges
      <3> QED
        BY <2>0, <2>1, <3>3, <1>0 DEF TypeOK, RqType, Alone
    <2>3. SlotInv(p)' /\ SlotEventsAgree(p)'
      BY <2>0, <1>0 DEF TypeOK, SlotInv, SlotEventsAgree, AskOK, AttemptOK, RecordOK,
                        Asked, RetryLeft
    <2> QED
      BY <2>2, <2>3, StepKeeps
  <1>9. CASE RetryDenied(p)
    <2>0. /\ Asked(p) /\ ask' = [ask EXCEPT ![p] = NoAsk]
          /\ UNCHANGED <<rq, sends, event, retried>>
          /\ \/ GoTo(p, "record_allowed") /\ answer' = answer
             \/ Reply(p, "bad_gateway")
      BY <1>9 DEF RetryDenied, EndAsk
    <2>1. TypeOK' /\ Alone(p)
      BY <2>0, <1>0 DEF GoTo, Reply, TypeOK, Alone, Answers
    <2>2. SlotInv(p)' /\ SlotEventsAgree(p)'
      BY <2>0, <1>0 DEF GoTo, Reply, TypeOK, SlotInv, SlotEventsAgree, AskOK,
                        AttemptOK, RecordOK, Asked, RetryLeft
    <2> QED
      BY <2>1, <2>2, StepKeeps
  <1>10. CASE Wake(p)
    <2>1. TypeOK' /\ Alone(p)
      BY <1>10, <1>0 DEF Wake, GoTo, TypeOK, Alone, askVars
    <2>2. SlotInv(p)' /\ SlotEventsAgree(p)'
      BY <1>10, <1>0 DEF Wake, GoTo, TypeOK, SlotInv, SlotEventsAgree, AskOK,
                         AttemptOK, RecordOK, Asked, askVars
    <2> QED
      BY <2>1, <2>2, StepKeeps
  <1>11. CASE Record(p)
    <2>0. PICK kind \in {"none", "allowed", "blocked"} :
            /\ event' = [event EXCEPT ![p] = kind]
            /\ \/ /\ pc[p] = "record_allowed" /\ kind # "blocked"
                  /\ pc' = [pc EXCEPT ![p] = "recorded_allowed"]
               \/ /\ pc[p] = "record_blocked" /\ kind # "allowed"
                  /\ pc' = [pc EXCEPT ![p] = "recorded_blocked"]
            /\ rq' = rq /\ sends' = sends /\ answer' = answer /\ retried' = retried
            /\ ask' = ask
      BY <1>11 DEF Record, GoTo, askVars
    <2>1. TypeOK' /\ Alone(p)
      BY <2>0, <1>0 DEF TypeOK, Alone
    <2>2. SlotInv(p)' /\ SlotEventsAgree(p)'
      BY <2>0, <1>0 DEF TypeOK, SlotInv, SlotEventsAgree, AskOK, AttemptOK, RecordOK, Asked
    <2> QED
      BY <2>1, <2>2, StepKeeps
  <1>14. CASE Respond(p)
    <2>0. PICK what \in {"upstream", "blocked"} :
            /\ pc' = [pc EXCEPT ![p] = "done"] /\ answer' = [answer EXCEPT ![p] = what]
            /\ what = "upstream" => pc[p] = "recorded_allowed"
            /\ what = "blocked" => pc[p] = "recorded_blocked"
            /\ rq' = rq /\ sends' = sends /\ event' = event /\ retried' = retried
            /\ ask' = ask
      BY <1>14 DEF Respond, GoTo, Reply, askVars
    <2>1. TypeOK' /\ Alone(p)
      BY <2>0, <1>0 DEF TypeOK, Alone, Answers
    <2>2. SlotInv(p)' /\ SlotEventsAgree(p)'
      BY <2>0, <1>0 DEF TypeOK, SlotInv, SlotEventsAgree, AskOK, AttemptOK, RecordOK, Asked
    <2> QED
      BY <2>1, <2>2, StepKeeps
  <1>12. CASE BudgetStep(p)
    <2>0. /\ UNCHANGED proxyVars /\ ask[p].step \in AskSteps
          /\ \A q \in Slots \ {p} : ask'[q] = ask[q]
      BY <1>12, <1>0 DEF BudgetStep, AskStep, Connect, Take, SetTtl, CommandRefused,
                         ReplyLost, SettingTtl, AskGoesTo, AskSteps
    <2>1. ask'[p].step \in AskSteps \cup Decisions
      BY <1>12, <1>0 DEF BudgetStep, AskStep, Connect, Take, SetTtl, CommandRefused,
                         ReplyLost, AskGoesTo, AskSteps, Decisions, TtlStep, AfterTake
    <2>2. TypeOK' /\ Alone(p)
      BY <2>0, <1>0 DEF TypeOK, Alone, proxyVars
    <2>3. Asked(p) /\ ask'[p].step # "none"
      BY <2>0, <2>1, <1>0 DEF SlotInv, AskOK, AskSteps, Decisions
    <2>4. SlotInv(p)' /\ SlotEventsAgree(p)'
      BY <2>0, <2>3, <1>0 DEF SlotInv, SlotEventsAgree, AskOK, AttemptOK, RecordOK,
                              Asked, RetryLeft, proxyVars
    <2> QED
      BY <2>2, <2>4, StepKeeps
  <1>13. CASE Drop(p)
    <2>1. TypeOK' /\ Alone(p)
      BY <1>13, <1>0 DEF Drop, GoTo, Reply, Abandon, TypeOK, Alone, Answers
    <2>2. SlotInv(p)' /\ SlotEventsAgree(p)'
      BY <1>13, <1>0 DEF Drop, GoTo, Reply, Abandon, TypeOK, SlotInv, SlotEventsAgree, AskOK,
                         AttemptOK, RecordOK, Asked
    <2> QED
      BY <2>1, <2>2, StepKeeps
  <1> QED
    BY <1>1, <1>2, <1>3, <1>4, <1>5, <1>6, <1>7, <1>8, <1>9, <1>10, <1>11, <1>12, <1>13,
       <1>14 DEF SlotActs, HandlerStep, UpstreamStep

\* Every step keeps the invariant.
LEMMA NextHandlerInv ==
    HandlerInv /\ BudgetTypeOK /\ BudgetTypeOK' /\ [Next]_vars => HandlerInv'
  <1> SUFFICES ASSUME HandlerInv, BudgetTypeOK, BudgetTypeOK', [Next]_vars
               PROVE  HandlerInv'
    OBVIOUS
  <1>1. ASSUME NEW p \in Slots, SlotActs(p) PROVE HandlerInv'
    BY <1>1, SlotActsKeeps
  <1>2. CASE TimePasses \/ UNCHANGED vars
    BY <1>2 DEF TimePasses, Tick, vars, proxyVars, HandlerInv, TypeOK, AskOK, AttemptOK,
                RecordOK, EventsAgree, Asked, RetryLeft
  <1>3. CASE Observe
    BY <1>3 DEF Observe, OpenWindow, HandlerInv, TypeOK, AskOK, AttemptOK, RecordOK,
                EventsAgree, Asked, RetryLeft
  <1> QED
    BY <1>1, <1>2, <1>3 DEF Next

-----------------------------------------------------------------------------
(* The handler keeps to the protocol of the budget. *)

\* A step of the composition is a step of the budget or none.
LEMMA StepKeepsBudget ==
    WindowInv /\ HandlerInv /\ [Next]_vars => [BudgetNext]_budgetVars
  <1> SUFFICES ASSUME WindowInv, HandlerInv, [Next]_vars PROVE [BudgetNext]_budgetVars
    OBVIOUS
  <1>1. ASSUME NEW p \in Slots, SlotActs(p), UNCHANGED <<clock, windowFrom>>
        PROVE  [BudgetNext]_budgetVars
    <2>0. AskOK(p) /\ pc \in [Slots -> {"idle", "partner", "credential", "loop", "sent",
                         "ask_status", "ask_error", "sleep", "record_allowed",
                         "record_blocked", "recorded_allowed", "recorded_blocked",
                         "done"}]
      BY DEF HandlerInv, TypeOK
    <2>1. ASSUME SlotStep(p) PROVE [BudgetNext]_budgetVars
      BY <1>1, <2>1 DEF BudgetNext
    <2>2. ASSUME UNCHANGED askVars PROVE [BudgetNext]_budgetVars
      BY <1>1, <2>2 DEF askVars, budgetVars
    <2>3. ASSUME NEW step, pc[p] = "sent", AskForRetry(p, step) PROVE SlotStep(p)
      <3>1. ask[p].step = "none"
        BY <2>0, <2>3, NoAskIsNone DEF AskOK, Asked
      <3>2. rq[p].partner \in Partners /\ rq[p].vk \in VirtualKeys
        BY DEF HandlerInv, TypeOK
      <3> QED
        BY <2>3, <3>1, <3>2 DEF AskForRetry, SlotStep, Request
    <2>4. ASSUME Asked(p), EndAsk(p), ask[p].step \in Decisions PROVE SlotStep(p)
      BY <2>4 DEF EndAsk, SlotStep, Finish, Abandon, SendNoMore, SettingTtl, Decisions
    <2>5. CASE UpstreamAnswers(p) \/ UpstreamFails(p)
      BY <2>5, <2>1, <2>2, <2>3 DEF UpstreamAnswers, UpstreamFails
    <2>6. CASE RetryAllowed(p) \/ RetryDenied(p)
      BY <2>6, <2>1, <2>4 DEF RetryAllowed, RetryDenied, Decisions
    <2>7. CASE BudgetStep(p)
      BY <2>7, <2>1 DEF BudgetStep, SlotStep
    <2>8. CASE Drop(p)
      <3>1. CASE ask[p].step = "none"
        <4>1. ask[p] = NoAsk
          BY <2>0, <3>1 DEF AskOK
        <4>2. ask' = ask
          BY <2>8, <4>1 DEF Drop, Abandon, WindowInv, BudgetTypeOK
        <4> QED
          BY <2>2, <2>8, <3>1, <4>2 DEF Drop, Abandon, SendNoMore, SettingTtl, askVars
      <3>2. CASE ask[p].step # "none"
        BY <2>1, <2>8, <3>2 DEF Drop, SlotStep, Finish
      <3> QED
        BY <3>1, <3>2
    <2>9. CASE Arrive(p) \/ LoadPartner(p) \/ LoadCredential(p) \/ StartAttempt(p)
               \/ OutOfTime(p) \/ Elapsed(p) \/ Wake(p) \/ Record(p) \/ Respond(p)
      BY <2>9, <2>2 DEF Arrive, LoadPartner, LoadCredential, StartAttempt, OutOfTime,
                        Elapsed, Wake, Record, Respond
    <2> QED
      BY <1>1, <2>5, <2>6, <2>7, <2>8, <2>9 DEF SlotActs, HandlerStep, UpstreamStep
  <1>2. CASE TimePasses \/ Observe
    BY <1>2 DEF TimePasses, Observe, BudgetNext
  <1>3. CASE UNCHANGED vars
    BY <1>3 DEF vars, budgetVars
  <1> QED
    BY <1>1, <1>2, <1>3 DEF Next

\* The two invariants go together: the handler's needs the ranges of the budget.
THEOREM HandlerInvariance == Spec => [](WindowInv /\ HandlerInv)
  <1>1. Init => WindowInv /\ HandlerInv
    BY InitWindowInv, InitHandlerInv DEF Init
  <1>2. WindowInv /\ HandlerInv /\ [Next]_vars => WindowInv' /\ HandlerInv'
    <2> SUFFICES ASSUME WindowInv, HandlerInv, [Next]_vars
                 PROVE  WindowInv' /\ HandlerInv'
      OBVIOUS
    <2>1. WindowInv'
      BY StepKeepsBudget, NextWindowInv
    <2> QED
      BY <2>1, NextHandlerInv DEF WindowInv
  <1> QED
    BY <1>1, <1>2, PTL DEF Spec

\* The handler is a client of the retry budget as RetryBudget describes it, so
\* the bounds proved of the budget alone hold of the composition.
LEMMA HandlerKeepsBudget == Spec => BudgetSpec
  <1>1. Init => BudgetInit
    BY DEF Init
  <1> QED
    BY <1>1, StepKeepsBudget, HandlerInvariance, PTL DEF Spec, BudgetSpec

\* Steps, requests and histories stay in their ranges.
THEOREM HandlerTypeCorrect == Spec => []TypeOK
  <1>1. HandlerInv => TypeOK
    BY DEF HandlerInv
  <1> QED
    BY <1>1, HandlerInvariance, PTL

\* No request is sent more than MaxAttempts times, none that is not idempotent
\* is repeated, and every repetition was allowed, for every limit of the retry
\* policy and every answer of upstream and Redis.
THEOREM SendsAreBounded == Spec => []SendsBounded
  <1>1. HandlerInv => SendsBounded
    BY ProxyAssumption DEF HandlerInv, AttemptOK, TypeOK, SendsBounded
  <1> QED
    BY <1>1, HandlerInvariance, PTL

\* A usage event that is written tells what happened to its request.
THEOREM EventsAreTrue == Spec => []EventsAgree
  <1>1. HandlerInv => EventsAgree
    BY DEF HandlerInv
  <1> QED
    BY <1>1, HandlerInvariance, PTL

\* The budget's bound in the composition: no window of a minute holds more paid
\* retries of a key than its limit allows.
THEOREM RetryWindowsBounded == Spec => []WindowBound
  BY HandlerKeepsBudget, WindowBounded, PTL

-----------------------------------------------------------------------------
(* How long a request is held past the policy's time. *)

\* A step of a slot takes no time: it keeps the slot within its bound.
LEMMA SlotActsTiming ==
    ASSUME HandlerInv, BudgetTypeOK, TimingInv, NEW p \in Slots, SlotActs(p),
           clock' = clock
    PROVE  TimingInv'
  <1> USE ProxyAssumption, BudgetAssumption
  <1>0. /\ TypeOK /\ AskOK(p) /\ TimingOK(p)
        /\ ask \in [Slots -> [step : AskSteps \cup Decisions \cup {"none"},
                          partner : Partners, vk : VirtualKeys,
                          within : BOOLEAN, askedAt : 0..clock]]
        /\ clock \in Nat /\ rq[p].deadline \in Nat /\ rq[p].wakeAt \in Nat
        /\ ask[p].askedAt \in Nat
    BY DEF HandlerInv, TimingInv, BudgetTypeOK, Times, TypeOK
  <1>1. ASSUME NEW q \in Slots \ {p} PROVE TimingOK(q)'
    <2>1. pc'[q] = pc[q] /\ rq'[q] = rq[q] /\ ask'[q] = ask[q]
      <3>1. CASE BudgetStep(p)
        BY <1>0, <3>1 DEF BudgetStep, AskStep, Connect, Take, SetTtl, CommandRefused,
                          ReplyLost, AskGoesTo, proxyVars
      <3>2. CASE Drop(p)
        BY <1>0, <3>2 DEF Drop, GoTo, Reply, Abandon, TypeOK
      <3>3. CASE UpstreamStep(p)
        BY <1>0, <3>3 DEF UpstreamStep, UpstreamAnswers, UpstreamFails, AskForRetry,
                          StartAsk, GoTo, Reply, TypeOK, askVars
      <3>4. CASE RetryAllowed(p) \/ RetryDenied(p)
        BY <1>0, <3>4 DEF RetryAllowed, RetryDenied, EndAsk, GoTo, Reply, TypeOK
      <3>5. CASE Arrive(p)
        BY <1>0, <3>5 DEF Arrive, GoTo, Reply, TypeOK, askVars
      <3>6. CASE \/ LoadPartner(p) \/ LoadCredential(p) \/ StartAttempt(p)
                 \/ OutOfTime(p) \/ Elapsed(p) \/ Wake(p) \/ Record(p) \/ Respond(p)
        BY <1>0, <3>6 DEF LoadPartner, LoadCredential, StartAttempt, OutOfTime, Elapsed,
                          Wake, Record, Respond, GoTo, Reply, TypeOK, askVars
      <3> QED
        BY <3>1, <3>2, <3>3, <3>4, <3>5, <3>6 DEF SlotActs, HandlerStep
    <2> QED
      BY <2>1 DEF TimingInv, TimingOK, Asked
  <1>2. CASE Arrive(p) \/ LoadPartner(p) \/ OutOfTime(p) \/ Elapsed(p) \/ RetryDenied(p)
             \/ Record(p) \/ Respond(p) \/ Drop(p)
    <2>0. pc[p] \in {"idle", "partner", "credential", "loop", "sent", "ask_status",
                    "ask_error", "sleep", "record_allowed", "record_blocked",
                    "recorded_allowed", "recorded_blocked", "done"}
          /\ p \in DOMAIN pc
      BY <1>0 DEF TypeOK
    <2>1. pc'[p] \in {"partner", "credential", "record_blocked", "record_allowed",
                     "recorded_blocked", "recorded_allowed", "done"}
      <3>1. CASE Arrive(p)
        BY <2>0, <3>1 DEF Arrive, GoTo, Reply
      <3>2. CASE Record(p)
        BY <2>0, <3>2 DEF Record, GoTo
      <3> QED
        BY <1>2, <2>0, <3>1, <3>2 DEF LoadPartner, OutOfTime, Elapsed, RetryDenied, Respond,
                                      Drop, GoTo, Reply
    <2> QED
      BY <1>1, <2>1 DEF TimingInv, TimingOK, Asked
  <1>3. CASE LoadCredential(p)
    <2>1. \/ pc'[p] \notin {"loop", "sent", "ask_status", "ask_error", "sleep"}
          \/ pc'[p] = "loop" /\ rq'[p].deadline = clock + Timeout
      BY <1>0, <1>3 DEF LoadCredential, GoTo, Reply, TypeOK
    <2> QED
      BY <1>0, <1>1, <2>1 DEF TimingInv, TimingOK, Asked
  <1>4. CASE StartAttempt(p)
    <2>1. pc'[p] = "sent" /\ rq'[p].deadline = rq[p].deadline /\ clock < rq[p].deadline
      BY <1>0, <1>4 DEF StartAttempt, GoTo, TypeOK
    <2> QED
      BY <1>0, <1>1, <2>1 DEF TimingInv, TimingOK, Asked
  <1>5. CASE UpstreamAnswers(p) \/ UpstreamFails(p)
    <2>1. /\ pc[p] = "sent" /\ rq' = rq
          /\ \/ pc'[p] \notin {"loop", "sent", "ask_status", "ask_error", "sleep"}
             \/ pc'[p] \in {"ask_status", "ask_error"} /\ ask'[p].askedAt = clock
      BY <1>0, <1>5 DEF UpstreamAnswers, UpstreamFails, AskForRetry, StartAsk, GoTo, Reply,
                        TypeOK
    <2> QED
      BY <1>0, <1>1, <2>1 DEF TimingInv, TimingOK, Asked
  <1>6. CASE RetryAllowed(p)
    <2>1. /\ Asked(p) /\ pc'[p] = "sleep" /\ rq'[p].wakeAt = clock + Backoff
          /\ rq'[p].deadline = rq[p].deadline
      BY <1>0, <1>6 DEF RetryAllowed, GoTo, TypeOK
    <2>2. clock <= rq[p].deadline + MaxDelay
      BY <1>0, <2>1 DEF TimingOK
    <2> QED
      BY <1>0, <1>1, <2>1, <2>2 DEF TimingInv, TimingOK, Asked
  <1>7. CASE Wake(p)
    <2>1. pc[p] = "sleep" /\ pc'[p] = "loop" /\ rq' = rq
      BY <1>0, <1>7 DEF Wake, GoTo, TypeOK
    <2> QED
      BY <1>0, <1>1, <2>1 DEF TimingInv, TimingOK, Asked
  <1>8. CASE BudgetStep(p)
    <2>1. pc' = pc /\ rq' = rq /\ ask'[p].askedAt = ask[p].askedAt
      BY <1>0, <1>8 DEF BudgetStep, AskStep, Connect, Take, SetTtl, CommandRefused,
                        ReplyLost, AskGoesTo, proxyVars
    <2> QED
      BY <1>0, <1>1, <2>1 DEF TimingInv, TimingOK, Asked
  <1> QED
    BY <1>2, <1>3, <1>4, <1>5, <1>6, <1>7, <1>8 DEF SlotActs, HandlerStep, UpstreamStep

\* Time passes only while no timer of a request in the loop is due.
LEMMA NextTiming ==
    HandlerInv /\ WindowInv /\ TimingInv /\ [Next]_vars => TimingInv'
  <1> SUFFICES ASSUME HandlerInv, WindowInv, TimingInv, [Next]_vars PROVE TimingInv'
    OBVIOUS
  <1> USE ProxyAssumption, BudgetAssumption
  <1>0. BudgetTypeOK /\ TypeOK
    BY DEF WindowInv, HandlerInv
  <1>1. ASSUME NEW p \in Slots, SlotActs(p), UNCHANGED <<clock, windowFrom>>
        PROVE  TimingInv'
    BY <1>0, <1>1, SlotActsTiming
  <1>2. CASE TimePasses
    <2>1. /\ clock' = clock + 1 /\ UNCHANGED <<ask, pc, rq>>
          /\ \A p \in Slots : TimersPending(p)
          /\ \A p \in Slots : Asking(p) => clock - ask[p].askedAt < MaxDelay
      BY <1>2 DEF TimePasses, Tick, proxyVars
    <2>2. ASSUME NEW p \in Slots PROVE TimingOK(p)'
      <3>1. /\ clock \in Nat /\ rq[p].deadline \in Nat /\ rq[p].wakeAt \in Nat
            /\ ask[p].askedAt \in Nat /\ TimingOK(p) /\ AskOK(p)
        BY <1>0 DEF BudgetTypeOK, Times, TypeOK, TimingInv, HandlerInv
      <3>2. pc[p] # "loop"
        BY <2>1, <3>1, NoAskIsNone DEF TimersPending, AskOK, Asked, Asking, AskSteps
      <3>3. Asked(p) => clock - ask[p].askedAt < MaxDelay
        BY <2>1 DEF TimersPending, Asked
      <3>4. /\ pc[p] = "sent" => clock < rq[p].deadline
            /\ pc[p] = "sleep" => clock < rq[p].wakeAt
        BY <2>1 DEF TimersPending
      <3> QED
        BY <2>1, <3>1, <3>2, <3>3, <3>4 DEF TimingOK, Asked
    <2> QED
      BY <2>2 DEF TimingInv
  <1>3. CASE Observe \/ UNCHANGED vars
    BY <1>3 DEF Observe, OpenWindow, vars, TimingInv, TimingOK, Asked
  <1> QED
    BY <1>1, <1>2, <1>3 DEF Next

\* For every timeout, backoff and number of attempts, the handler holds a
\* request past the policy's time by one budget check and one sleep at most.
THEOREM OverrunsAreBounded == Spec => []OverrunBounded
  <1>1. Init => TimingInv
    BY DEF Init, TimingInv, TimingOK, Asked
  <1>2. Spec => []TimingInv
    BY <1>1, NextTiming, HandlerInvariance, PTL DEF Spec
  <1>3. HandlerInv /\ WindowInv /\ TimingInv => OverrunBounded
    <2> SUFFICES ASSUME HandlerInv, WindowInv, TimingInv, NEW p \in Slots, InLoop(p)
                 PROVE  clock <= rq[p].deadline + MaxDelay + Backoff
      BY DEF OverrunBounded
    <2>1. /\ clock \in Nat /\ rq[p].deadline \in Nat /\ rq[p].wakeAt \in Nat
          /\ ask[p].askedAt \in Nat /\ TimingOK(p) /\ MaxDelay \in Nat /\ Backoff \in Nat
      BY ProxyAssumption, BudgetAssumption
         DEF WindowInv, BudgetTypeOK, Times, HandlerInv, TypeOK, TimingInv
    <2> QED
      BY <2>1 DEF InLoop, TimingOK, Asked
  <1> QED
    BY <1>2, <1>3, HandlerInvariance, PTL

-----------------------------------------------------------------------------
(* What the budget grants is paid for when the handler makes use of it. *)

\* Calls that have taken can be counted.
LEMMA TakersAreFinite ==
    ASSUME NEW k, NEW t
    PROVE  IsFiniteSet(Takers(k, t)) /\ Cardinality(Takers(k, t)) \in Nat
  <1>1. Takers(k, t) \in SUBSET Slots
    BY DEF Takers
  <1>2. IsFiniteSet(Takers(k, t))
    BY <1>1, SlotsAssumption, FS_Subset
  <1> QED
    BY <1>2, FS_CardinalityType

\* What a counter accounts for is a natural number.
LEMMA PaidSinceIsNat ==
    ASSUME WindowInv, NEW k \in Keys, NEW t \in Nat
    PROVE  PaidSince(k, t) \in Nat /\ PaidSince(k, t) <= MostInWindow(k)
  <1>1. Limit(k) \in Nat /\ counter[k].used \in Nat /\ since[k] \in Nat
    BY LimitIsNat DEF WindowInv, BudgetTypeOK, Times
  <1> QED
    BY <1>1 DEF PaidSince, Paid, MostInWindow

\* INCR within the limit pays for one more take, also when the counter before it has
\* ended: that one began before t, and what follows it begins with nothing.
LEMMA IncrPays ==
    ASSUME WindowInv, NEW k \in Keys, Incr(k), clock' = clock,
           NEW t \in 0..clock, clock < t + Window
    PROVE  /\ PaidSince(k, t)' >= PaidSince(k, t)
           /\ Within(k) => PaidSince(k, t)' >= PaidSince(k, t) + 1
  <1>0. /\ Limit(k) \in Nat /\ Window \in Nat \ {0} /\ Used(k) \in 0..(Limit(k) + 1)
        /\ clock \in Nat /\ counter[k].used \in 0..(Limit(k) + 1) /\ since[k] \in 0..clock
        /\ counter[k].expiresAt \in Int
    BY LimitIsNat, BudgetAssumption DEF WindowInv, BudgetTypeOK, Used, Times, Never
  <1>1. /\ counter'[k].used = IF Used(k) <= Limit(k) THEN Used(k) + 1 ELSE Used(k)
        /\ since'[k] = IF Used(k) = 0 THEN clock ELSE since[k]
    BY DEF Incr, WindowInv, BudgetTypeOK
  <1>2. PaidSince(k, t)' = IF Paid(k)' = 0 THEN 0
                           ELSE IF since'[k] < t THEN Paid(k)' - 1 ELSE Paid(k)' + Limit(k) - 1
    BY DEF PaidSince, Limit
  <1>3. Paid(k)' = IF counter'[k].used <= Limit(k) THEN counter'[k].used ELSE Limit(k)
    BY DEF Paid, Limit
  <1>4. CASE Used(k) # 0
    <2>1. Used(k) = counter[k].used
      BY <1>4 DEF Used
    <2> QED
      BY <1>0, <1>1, <1>2, <1>3, <1>4, <2>1 DEF PaidSince, Paid, Within
  <1>5. CASE Used(k) = 0
    <2>1. PaidSince(k, t)' = Limit(k)
      BY <1>0, <1>1, <1>2, <1>3, <1>5
    <2>2. PaidSince(k, t) <= IF Limit(k) = 0 THEN 0 ELSE Limit(k) - 1
      <3>1. CASE counter[k].used = 0
        BY <1>0, <3>1 DEF PaidSince, Paid
      <3>2. CASE counter[k].used # 0
        <4>1. counter[k].expiresAt # Never /\ counter[k].expiresAt <= clock
          BY <3>2, <1>5 DEF Used
        <4>2. counter[k].expiresAt >= since[k] + Window
          BY <4>1 DEF WindowInv, CountersLast
        <4>3. since[k] < t
          BY <1>0, <4>1, <4>2
        <4> QED
          BY <1>0, <3>2, <4>3 DEF PaidSince, Paid
      <3> QED
        BY <3>1, <3>2
    <2> QED
      BY <1>0, <1>5, <2>1, <2>2 DEF Within, PaidSince, Paid
  <1> QED
    BY <1>4, <1>5

\* What a step of slot p does to the budget of k: it takes from it, it makes use of what
\* was granted, or neither.
Takes(p, k) ==
    /\ Incr(k) /\ ~HasTaken(p, k) /\ (HasTaken(p, k)' => Within(k))
    /\ retried'[k] = retried[k]

MakesUse(p, k) ==
    /\ UNCHANGED <<counter, since>> /\ ~HasTaken(p, k)'
    /\ retried'[k] = IF HasTaken(p, k) /\ ask[p].askedAt >= windowFrom
                     THEN retried[k] + 1 ELSE retried[k]

LeavesAlone(p, k) ==
    /\ counter'[k].used = counter[k].used /\ since'[k] = since[k]
    /\ HasTaken(p, k)' => HasTaken(p, k)
    /\ retried'[k] = retried[k]

KeepsCall(p) ==
    /\ \A q \in Slots \ {p} : ask'[q] = ask[q]
    /\ ask'[p].askedAt = ask[p].askedAt \/ \A k \in Keys : ~HasTaken(p, k)'

\* So much is all that any step of a handler does to the budgets and to the history
\* of retries (proxy.rs 380-470, budget.rs 26-120).
LEMMA StepOnBudget ==
    ASSUME HandlerInv, WindowInv, GrantsAreWithin, NEW p \in Slots, SlotActs(p)
    PROVE  /\ KeepsCall(p) /\ GrantsAreWithin'
           /\ \A k \in Keys : Takes(p, k) \/ MakesUse(p, k) \/ LeavesAlone(p, k)
  <1>0. /\ AskOK(p) /\ ask \in [Slots -> AskType] /\ KeyOf(p) \in Keys
        /\ ask[p].partner \in Partners /\ ask[p].vk \in VirtualKeys
        /\ ask[p].partner # ask[p].vk
        /\ retried \in [Keys -> Nat]
        /\ NoAsk \in AskType
    BY NoAskIsAsk, BudgetAssumption
       DEF HandlerInv, TypeOK, WindowInv, BudgetTypeOK, AskType, KeyOf, Keys, Times
  <1> DEFINE Effect == /\ KeepsCall(p) /\ GrantsAreWithin'
                       /\ \A k \in Keys : Takes(p, k) \/ MakesUse(p, k) \/ LeavesAlone(p, k)
  <1>1. ASSUME UNCHANGED <<ask, counter, since, retried>> PROVE Effect
    BY <1>1 DEF KeepsCall, GrantsAreWithin, LeavesAlone, HasTaken
  <1>2. ASSUME NEW c, ask' = [ask EXCEPT ![p] = c], c.step \in {"connect", "none"},
               UNCHANGED <<counter, since, retried>>
        PROVE  Effect
    <2>1. ask'[p].step \in {"connect", "none"} /\ \A q \in Slots \ {p} : ask'[q] = ask[q]
      BY <1>0, <1>2
    <2>2. \A k \in Keys : ~HasTaken(p, k)'
      BY <2>1 DEF HasTaken
    <2> QED
      BY <1>2, <2>1, <2>2 DEF KeepsCall, GrantsAreWithin, LeavesAlone
  <1>3. CASE \/ Arrive(p) \/ LoadPartner(p) \/ LoadCredential(p) \/ StartAttempt(p)
             \/ OutOfTime(p) \/ Elapsed(p) \/ Wake(p) \/ Record(p) \/ Respond(p)
    BY <1>1, <1>3 DEF Arrive, LoadPartner, LoadCredential, StartAttempt, OutOfTime, Elapsed,
                      Wake, Record, Respond, askVars
  <1>4. CASE UpstreamAnswers(p) \/ UpstreamFails(p)
    <2>1. retried' = retried
      BY <1>4 DEF UpstreamAnswers, UpstreamFails
    <2>2. CASE UNCHANGED askVars
      BY <1>1, <2>1, <2>2 DEF askVars
    <2>3. ASSUME NEW step, AskForRetry(p, step) PROVE Effect
      BY <1>2, <2>1, <2>3 DEF AskForRetry, StartAsk
    <2> QED
      BY <1>4, <2>2, <2>3 DEF UpstreamAnswers, UpstreamFails
  <1>5. CASE RetryDenied(p) \/ Drop(p)
    BY <1>2, <1>5, NoAskIsNone DEF RetryDenied, EndAsk, Drop, Abandon, SendNoMore
  <1>6. CASE RetryAllowed(p)
    <2>1. /\ ask[p].step \in {"granted", "fail_open"}
          /\ ask' = [ask EXCEPT ![p] = NoAsk] /\ UNCHANGED <<counter, since>>
          /\ retried' = [k \in Keys |->
               IF /\ ask[p].step = "granted" /\ ask[p].askedAt >= windowFrom
                  /\ k \in {ask[p].partner, ask[p].vk}
               THEN retried[k] + 1 ELSE retried[k]]
      BY <1>6 DEF RetryAllowed, EndAsk
    <2>2. ask'[p].step = "none" /\ \A q \in Slots \ {p} : ask'[q] = ask[q]
      BY <1>0, <2>1, NoAskIsNone
    <2>3. \A k \in Keys : ~HasTaken(p, k)'
      BY <2>2 DEF HasTaken
    <2>4. ASSUME NEW k \in Keys PROVE MakesUse(p, k)
      <3>1. HasTaken(p, k) <=> ask[p].step = "granted" /\ k \in {ask[p].partner, ask[p].vk}
        BY <2>1 DEF HasTaken, GrantsAreWithin
      <3> QED
        BY <2>1, <2>3, <3>1 DEF MakesUse
    <2> QED
      BY <2>2, <2>3, <2>4 DEF KeepsCall, GrantsAreWithin
  <1>7. CASE BudgetStep(p)
    <2>0. retried' = retried
      BY <1>7 DEF BudgetStep, proxyVars
    <2>1. ASSUME NEW step, NEW within, ~(step = "granted" /\ ~within),
                 ask' = [ask EXCEPT ![p].within = within, ![p].step = step]
          PROVE  /\ KeepsCall(p) /\ GrantsAreWithin' /\ ask'[p].step = step
                 /\ ask'[p].within = within /\ ask'[p].partner = ask[p].partner
                 /\ ask'[p].vk = ask[p].vk
      BY <1>0, <2>1 DEF KeepsCall, GrantsAreWithin, AskType
    <2>2. ASSUME NEW step, AskGoesTo(p, step), step = "granted" => ask[p].within
          PROVE  /\ KeepsCall(p) /\ GrantsAreWithin' /\ ask'[p].step = step
                 /\ ask'[p].within = ask[p].within /\ ask'[p].partner = ask[p].partner
                 /\ ask'[p].vk = ask[p].vk
      BY <1>0, <2>2 DEF AskGoesTo, KeepsCall, GrantsAreWithin, AskType
    <2>3. CASE Connect(p) \/ CommandRefused(p)
      <3>1. PICK step \in {"partner", "fail_open"} :
              AskGoesTo(p, step) /\ UNCHANGED <<counter, since>>
        BY <2>3 DEF Connect, CommandRefused, SendNoMore
      <3>2. \A k \in Keys : ~HasTaken(p, k)'
        BY <3>1, <2>2 DEF HasTaken
      <3> QED
        BY <2>0, <2>2, <3>1, <3>2 DEF LeavesAlone
    <2>4. CASE SetTtl(p)
      <3>1. /\ SettingTtl(p) /\ since' = since
            /\ \A k \in Keys : counter'[k].used = counter[k].used
            /\ AskGoesTo(p, AfterTake(p, ask[p].within))
        BY <2>4 DEF SetTtl, Expire, WindowInv, BudgetTypeOK
      <3>2. AfterTake(p, ask[p].within) = IF ask[p].step = "partner_ttl" THEN "vk"
                                          ELSE IF ask[p].within THEN "granted" ELSE "denied"
        BY <1>0, <3>1 DEF SettingTtl, AfterTake, KeyOf
      <3>3. ASSUME NEW k \in Keys, HasTaken(p, k)' PROVE HasTaken(p, k)
        BY <2>2, <3>1, <3>2, <3>3 DEF HasTaken, SettingTtl
      <3> QED
        BY <2>0, <2>2, <3>1, <3>2, <3>3 DEF LeavesAlone
    <2>k. PICK key \in Keys : key = KeyOf(p)
      BY <1>0
    <2>5. ASSUME Incr(key), ask[p].step \in {"partner", "vk"},
                 HasTaken(p, key)' => Within(key),
                 \A k \in Keys \ {key} : HasTaken(p, k)' => HasTaken(p, k)
          PROVE  \A k \in Keys : Takes(p, k) \/ LeavesAlone(p, k)
      <3>1. ~HasTaken(p, key)
        BY <1>0, <2>k, <2>5 DEF HasTaken, KeyOf
      <3>2. ASSUME NEW k \in Keys \ {key} PROVE LeavesAlone(p, k)
        BY <2>0, <2>5, <3>2 DEF LeavesAlone, Incr, WindowInv, BudgetTypeOK
      <3>3. Takes(p, key)
        BY <2>0, <2>5, <3>1 DEF Takes
      <3> QED
        BY <3>2, <3>3
    <2>6. CASE Take(p)
      <3>0. PICK within \in BOOLEAN : \E step :
              /\ within = (ask[p].within /\ Within(key))
              /\ step = IF Used(key) = 0 THEN TtlStep(p) ELSE AfterTake(p, within)
              /\ ask[p].step \in {"partner", "vk"} /\ Incr(key)
              /\ ask' = [ask EXCEPT ![p].within = within, ![p].step = step]
        BY <2>k, <2>6 DEF Take
      <3>1. PICK step :
              /\ within = (ask[p].within /\ Within(key))
              /\ step = IF Used(key) = 0 THEN TtlStep(p) ELSE AfterTake(p, within)
              /\ ask[p].step \in {"partner", "vk"} /\ Incr(key)
              /\ ask' = [ask EXCEPT ![p].within = within, ![p].step = step]
        BY <3>0
      <3>2. step \in IF ask[p].step = "partner" THEN {"partner_ttl", "vk"}
                     ELSE {"vk_ttl", "denied"} \cup (IF within THEN {"granted"} ELSE {})
        BY <1>0, <3>1 DEF TtlStep, AfterTake, KeyOf
      <3>3. /\ KeepsCall(p) /\ GrantsAreWithin' /\ ask'[p].step = step
            /\ ask'[p].within = within /\ ask'[p].partner = ask[p].partner
            /\ ask'[p].vk = ask[p].vk
        <4>1. ~(step = "granted" /\ ~within)
          BY <3>2
        <4> QED
          BY <2>1, <3>1, <4>1
      <3>4. HasTaken(p, key)' => Within(key)
        BY <3>1, <3>3 DEF HasTaken
      <3>5. ASSUME NEW k \in Keys \ {key}, HasTaken(p, k)' PROVE HasTaken(p, k)
        <4>1. ask[p].within
          BY <3>1, <3>3, <3>5 DEF HasTaken
        <4>2. CASE ask[p].step = "partner"
          BY <1>0, <2>k, <3>2, <3>3, <3>5, <4>2 DEF HasTaken, KeyOf
        <4>3. CASE ask[p].step = "vk"
          BY <1>0, <2>k, <3>3, <3>5, <4>1, <4>3 DEF HasTaken, KeyOf
        <4> QED
          BY <3>1, <4>2, <4>3
      <3> QED
        BY <2>5, <3>1, <3>3, <3>4, <3>5
    <2>7. CASE ReplyLost(p)
      <3>1. AskGoesTo(p, "fail_open")
        BY <2>7 DEF ReplyLost
      <3>2. \A k : ~HasTaken(p, k)'
        BY <2>2, <3>1 DEF HasTaken
      <3>3. CASE SettingTtl(p) /\ Expire(KeyOf(p))
        <4>1. since' = since /\ \A k \in Keys : counter'[k].used = counter[k].used
          BY <3>3 DEF Expire, WindowInv, BudgetTypeOK
        <4> QED
          BY <2>0, <2>2, <3>1, <3>2, <4>1 DEF LeavesAlone
      <3>4. CASE ask[p].step \in {"partner", "vk"} /\ Incr(KeyOf(p))
        BY <2>2, <2>k, <2>5, <3>1, <3>2, <3>4
      <3> QED
        BY <2>7, <3>3, <3>4 DEF ReplyLost
    <2> QED
      BY <1>7, <2>3, <2>4, <2>6, <2>7 DEF BudgetStep, AskStep
  <1> QED
    BY <1>3, <1>4, <1>5, <1>6, <1>7 DEF SlotActs, HandlerStep, UpstreamStep

\* Counting the calls that have taken: a step of slot p adds p to them or takes it out.
LEMMA TakersChange ==
    ASSUME NEW p \in Slots, KeepsCall(p), NEW k \in Keys, NEW t \in Nat
    PROVE  LET takers == Takers(k, t)
               next == Takers(k, t)'
           IN  /\ Cardinality(next) <= Cardinality(takers) + 1
               /\ (HasTaken(p, k)' => HasTaken(p, k)) => Cardinality(next) <= Cardinality(takers)
               /\ HasTaken(p, k) /\ ask[p].askedAt >= t /\ ~HasTaken(p, k)' =>
                    Cardinality(next) <= Cardinality(takers) - 1
  <1> DEFINE takers == Takers(k, t)
  <1> DEFINE next == Takers(k, t)'
  <1>1. next = {q \in Slots : HasTaken(q, k)' /\ ask'[q].askedAt >= t}
    BY DEF Takers
  <1>2. \A q \in Slots \ {p} : HasTaken(q, k)' <=> HasTaken(q, k)
    BY DEF KeepsCall, HasTaken
  <1>3. next \subseteq takers \cup {p}
    BY <1>1, <1>2 DEF Takers, KeepsCall
  <1>4. (HasTaken(p, k)' => HasTaken(p, k)) => next \subseteq takers
    BY <1>1, <1>2 DEF Takers, KeepsCall
  <1>5. /\ IsFiniteSet(takers) /\ Cardinality(takers) \in Nat
        /\ IsFiniteSet(next) /\ Cardinality(next) \in Nat
    <2>1. next \in SUBSET Slots
      BY <1>1
    <2> QED
      BY <2>1, TakersAreFinite, SlotsAssumption, FS_Subset, FS_CardinalityType
  <1>6. /\ IsFiniteSet(takers \cup {p})
        /\ Cardinality(takers \cup {p}) \in {Cardinality(takers), Cardinality(takers) + 1}
    BY <1>5, FS_AddElement
  <1>7. Cardinality(next) <= Cardinality(takers) + 1
    <2>1. Cardinality(next) <= Cardinality(takers \cup {p})
      BY <1>3, <1>6, FS_Subset
    <2> QED
      BY <1>5, <1>6, <2>1
  <1>8. ASSUME HasTaken(p, k)' => HasTaken(p, k)
        PROVE  Cardinality(next) <= Cardinality(takers)
    BY <1>4, <1>5, <1>8, FS_Subset
  <1>9. ASSUME HasTaken(p, k), ask[p].askedAt >= t, ~HasTaken(p, k)'
        PROVE  Cardinality(next) <= Cardinality(takers) - 1
    <2>1. next \subseteq takers \ {p} /\ p \in takers
      BY <1>1, <1>4, <1>9 DEF Takers
    <2>2. IsFiniteSet(takers \ {p}) /\ Cardinality(takers \ {p}) = Cardinality(takers) - 1
      BY <1>5, <2>1, FS_RemoveElement
    <2> QED
      BY <2>1, <2>2, FS_Subset
  <1> QED
    BY <1>7, <1>8, <1>9

\* So the sum of retries made and calls granted or about to be stays paid for, counted
\* from any moment on.
LEMMA StepKeepsPaid ==
    ASSUME WindowInv, TypeOK, NEW p \in Slots, KeepsCall(p), NEW k \in Keys,
           Takes(p, k) \/ MakesUse(p, k) \/ LeavesAlone(p, k),
           UNCHANGED <<clock, windowFrom>>,
           NEW t \in 0..clock, clock < t + Window
    PROVE  LET takers == Cardinality(Takers(k, t))
               next == Cardinality(Takers(k, t)')
           IN  /\ takers <= PaidSince(k, t) => next <= PaidSince(k, t)'
               /\ t = windowFrom /\ retried[k] + takers <= PaidSince(k, t) =>
                    retried'[k] + next <= PaidSince(k, t)'
  <1> DEFINE takers == Cardinality(Takers(k, t))
  <1> DEFINE next == Cardinality(Takers(k, t)')
  <1> DEFINE old == PaidSince(k, t)
  <1> DEFINE new == PaidSince(k, t)'
  <1>0. /\ t \in Nat /\ takers \in Nat /\ old \in Nat /\ retried[k] \in Nat
        /\ windowFrom \in Nat
    <2>1. t \in Nat /\ windowFrom \in Nat
      BY DEF WindowInv, BudgetTypeOK, Times
    <2> QED
      BY <2>1, TakersAreFinite, PaidSinceIsNat DEF TypeOK
  <1>1. next \in Nat
    <2>1. Takers(k, t)' \in SUBSET Slots
      BY DEF Takers
    <2> QED
      BY <2>1, SlotsAssumption, FS_Subset, FS_CardinalityType
  <1>2. /\ next <= takers + 1
        /\ (HasTaken(p, k)' => HasTaken(p, k)) => next <= takers
        /\ HasTaken(p, k) /\ ask[p].askedAt >= t /\ ~HasTaken(p, k)' => next <= takers - 1
    BY <1>0, TakersChange
  <1>3. CASE Takes(p, k)
    <2>1. retried'[k] = retried[k] /\ (HasTaken(p, k)' => Within(k))
      BY <1>3 DEF Takes
    <2>2. new >= old /\ (Within(k) => new >= old + 1) /\ new \in Int
      <3>1. Incr(k)
        BY <1>3 DEF Takes
      <3>2. new \in Int
        BY <3>1, LimitIsNat DEF PaidSince, Paid, Limit, Incr, WindowInv, BudgetTypeOK, Used
      <3> QED
        BY <3>1, <3>2, IncrPays
    <2>3. next <= takers \/ (next <= takers + 1 /\ Within(k))
      BY <1>2, <2>1
    <2> HIDE DEF takers, next, old, new
    <2> QED
      BY <1>0, <1>1, <2>1, <2>2, <2>3 DEF takers, next, old, new
  <1>4. CASE MakesUse(p, k)
    <2>1. new = old
      BY <1>4 DEF MakesUse, PaidSince, Paid, Limit
    <2>2. /\ next <= takers /\ retried'[k] \in {retried[k], retried[k] + 1}
          /\ t = windowFrom /\ retried'[k] # retried[k] => next <= takers - 1
      BY <1>2, <1>4 DEF MakesUse
    <2> HIDE DEF takers, next, old, new
    <2> QED
      BY <1>0, <1>1, <2>1, <2>2 DEF takers, next, old, new
  <1>5. CASE LeavesAlone(p, k)
    <2>1. new = old
      BY <1>5 DEF LeavesAlone, PaidSince, Paid, Limit
    <2>2. next <= takers /\ retried'[k] = retried[k]
      BY <1>2, <1>5 DEF LeavesAlone
    <2> HIDE DEF takers, next, old, new
    <2> QED
      BY <1>0, <1>1, <2>1, <2>2 DEF takers, next, old, new
  <1> QED
    BY <1>3, <1>4, <1>5

\* Every step keeps the retries paid for: a new window begins with what was taken at
\* this very moment, and as time passes there is no such take any more.
LEMMA NextRetriesPaid ==
    ASSUME HandlerInv, WindowInv, WindowInv', GrantsAreWithin, RetriesPaid, [Next]_vars
    PROVE  GrantsAreWithin' /\ RetriesPaid'
  <1>0. /\ TypeOK /\ clock \in Nat /\ windowFrom \in 0..clock /\ Window \in Nat \ {0}
        /\ \A p \in Slots : ask[p].askedAt \in 0..clock
    BY BudgetAssumption DEF HandlerInv, WindowInv, BudgetTypeOK, Times
  <1>1. ASSUME NEW p \in Slots, SlotActs(p), UNCHANGED <<clock, windowFrom>>
        PROVE  GrantsAreWithin' /\ RetriesPaid'
    <2>1. /\ KeepsCall(p) /\ GrantsAreWithin'
          /\ \A k \in Keys : Takes(p, k) \/ MakesUse(p, k) \/ LeavesAlone(p, k)
      BY <1>1, StepOnBudget
    <2>2. ASSUME NEW k \in Keys
          PROVE  /\ clock < windowFrom + Window =>
                      retried'[k] + Cardinality(Takers(k, windowFrom)')
                        <= PaidSince(k, windowFrom)'
                 /\ Cardinality(Takers(k, clock)') <= PaidSince(k, clock)'
      <3>1. ASSUME clock < windowFrom + Window
            PROVE  retried'[k] + Cardinality(Takers(k, windowFrom)') <= PaidSince(k, windowFrom)'
        <4>1. PICK t \in 0..clock : t = windowFrom
          BY <1>0
        <4>2. retried[k] + Cardinality(Takers(k, t)) <= PaidSince(k, t)
          BY <3>1, <4>1 DEF RetriesPaid
        <4>3. retried'[k] + Cardinality(Takers(k, t)') <= PaidSince(k, t)'
          BY <1>0, <1>1, <2>1, <3>1, <4>1, <4>2, StepKeepsPaid
        <4> QED
          BY <1>1, <4>1, <4>3
      <3>2. Cardinality(Takers(k, clock)') <= PaidSince(k, clock)'
        <4>1. PICK t \in 0..clock : t = clock
          BY <1>0
        <4>2. Cardinality(Takers(k, t)) <= PaidSince(k, t) /\ clock < t + Window
          BY <1>0, <4>1 DEF RetriesPaid
        <4>3. Cardinality(Takers(k, t)') <= PaidSince(k, t)'
          BY <1>0, <1>1, <2>1, <4>1, <4>2, StepKeepsPaid
        <4> QED
          BY <1>1, <4>1, <4>3
      <3> QED
        BY <3>1, <3>2
    <2> QED
      BY <1>1, <2>1, <2>2 DEF RetriesPaid
  <1>2. CASE TimePasses
    <2>1. /\ clock' = clock + 1
          /\ UNCHANGED <<counter, ask, since, windowFrom, retried>>
      BY <1>2 DEF TimePasses, Tick, proxyVars
    <2>2. GrantsAreWithin'
      BY <2>1 DEF GrantsAreWithin
    <2>3. ASSUME NEW k \in Keys
          PROVE  /\ clock' < windowFrom + Window =>
                      retried[k] + Cardinality(Takers(k, windowFrom)) <= PaidSince(k, windowFrom)
                 /\ Cardinality(Takers(k, clock)') <= PaidSince(k, clock)'
      <3>1. Takers(k, clock)' = {}
        BY <1>0, <2>1 DEF Takers
      <3>2. PaidSince(k, clock)' \in Nat
        <4>1. clock' \in Nat
          BY <1>0, <2>1
        <4>2. PaidSince(k, clock)' = PaidSince(k, clock')
          BY <2>1 DEF PaidSince, Paid, Limit
        <4> QED
          BY <4>1, <4>2, PaidSinceIsNat
      <3>3. Cardinality(Takers(k, clock)') <= PaidSince(k, clock)'
        BY <3>1, <3>2, FS_EmptySet
      <3> QED
        BY <1>0, <2>1, <3>3 DEF RetriesPaid
    <2>4. \A k \in Keys : /\ Takers(k, windowFrom)' = Takers(k, windowFrom)
                          /\ PaidSince(k, windowFrom)' = PaidSince(k, windowFrom)
      BY <2>1 DEF Takers, HasTaken, PaidSince, Paid, Limit
    <2> QED
      BY <2>1, <2>2, <2>3, <2>4 DEF RetriesPaid
  <1>3. CASE Observe
    <2>1. /\ windowFrom' = clock /\ retried' = [k \in Keys |-> 0]
          /\ UNCHANGED <<clock, counter, ask, since>>
      BY <1>3 DEF Observe, OpenWindow
    <2>2. ASSUME NEW k \in Keys
          PROVE  /\ Takers(k, windowFrom)' = Takers(k, clock)
                 /\ PaidSince(k, windowFrom)' = PaidSince(k, clock)
                 /\ Takers(k, clock)' = Takers(k, clock)
                 /\ PaidSince(k, clock)' = PaidSince(k, clock)
      BY <2>1 DEF Takers, HasTaken, PaidSince, Paid, Limit
    <2>3. \A k \in Keys : Cardinality(Takers(k, clock)) \in Nat
      BY TakersAreFinite
    <2> QED
      BY <2>1, <2>2, <2>3 DEF RetriesPaid, GrantsAreWithin
  <1>4. CASE UNCHANGED vars
    BY <1>4 DEF vars, RetriesPaid, GrantsAreWithin, Takers, HasTaken, PaidSince, Paid, Limit
  <1> QED
    BY <1>1, <1>2, <1>3, <1>4 DEF Next

\* For any limits, window, number of handlers and fault, the retries that handlers make
\* in a window of a minute stay within what either key can pay for: a call that was
\* granted and not yet used is not counted twice, and one that two keys pay for is made
\* only if both could (budget.rs:53).
THEOREM RetriesStayInWindow == Spec => []RetriesInWindow
  <1>1. Init => GrantsAreWithin /\ RetriesPaid
    <2> SUFFICES ASSUME Init PROVE GrantsAreWithin /\ RetriesPaid
      OBVIOUS
    <2>1. \A p \in Slots : ask[p].step = "none"
      BY NoAskIsNone DEF Init, BudgetInit
    <2>2. \A k, t : Takers(k, t) = {}
      BY <2>1 DEF Takers, HasTaken
    <2>3. \A k \in Keys : retried[k] = 0 /\ \A t : PaidSince(k, t) = 0
      BY LimitIsNat DEF Init, BudgetInit, PaidSince, Paid
    <2> QED
      BY <2>1, <2>2, <2>3, FS_EmptySet DEF GrantsAreWithin, RetriesPaid
  <1>2. Spec => [](GrantsAreWithin /\ RetriesPaid)
    BY <1>1, NextRetriesPaid, HandlerInvariance, PTL DEF Spec
  <1>3. WindowInv /\ HandlerInv /\ RetriesPaid => RetriesInWindow
    <2> SUFFICES ASSUME WindowInv, HandlerInv, RetriesPaid, NEW k \in Keys,
                        clock < windowFrom + Window
                 PROVE  retried[k] <= MostInWindow(k)
      BY DEF RetriesInWindow
    <2>1. /\ windowFrom \in Nat /\ retried[k] \in Nat
          /\ retried[k] + Cardinality(Takers(k, windowFrom)) <= PaidSince(k, windowFrom)
      BY DEF WindowInv, BudgetTypeOK, Times, HandlerInv, TypeOK, RetriesPaid
    <2>2. PaidSince(k, windowFrom) \in Nat /\ PaidSince(k, windowFrom) <= MostInWindow(k)
      BY <2>1, PaidSinceIsNat
    <2>3. Cardinality(Takers(k, windowFrom)) \in Nat /\ MostInWindow(k) \in Int
      BY TakersAreFinite, LimitIsNat DEF MostInWindow
    <2> QED
      BY <2>1, <2>2, <2>3
  <1> QED
    BY <1>2, <1>3, HandlerInvariance, PTL

=============================================================================
