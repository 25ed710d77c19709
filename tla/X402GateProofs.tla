--------------------------- MODULE X402GateProofs ---------------------------
(***************************************************************************)
(* Proofs about X402Gate for any number of keys, request hashes, payment   *)
(* headers, slots and intents.                                             *)
(***************************************************************************)
EXTENDS X402Gate, TLAPS

-----------------------------------------------------------------------------
(* Lemmas about the statements. *)

\* What every statement leaves alone: a row keeps the key and hash it was
\* inserted with (no UPDATE of payment_intents.rs sets those columns).
KeysFixed ==
    /\ count <= count'
    /\ \A i \in Ids : i <= count =>
         /\ intents'[i].vk = intents[i].vk
         /\ intents'[i].hash = intents[i].hash

\* A row is verified by this step only by being settled with r.
VerifiedOnlyBy(r) ==
    \A i \in Ids : intents'[i].status = "verified" =>
        \/ intents'[i] = intents[i]
        \/ SettlesWith(intents'[i], r)

\* No statement takes a settled row back to pending or on to expired.
SettledStays ==
    \A i \in Ids : intents[i].status \in {"verified", "failed"}
        => intents'[i].status \in {"verified", "failed"}

\* INSERT: the new row is pending, so no index and no verified row changes.
LEMMA InsertKeeps ==
    ASSUME TableTypeOK, IndexesHold, NEW vk \in VKs, NEW hash \in Hashes,
           InsertIntent(vk, hash)
    PROVE  /\ TableTypeOK' /\ IndexesHold' /\ KeysFixed /\ SettledStays
           /\ \A i \in Ids : intents'[i].status = "verified"
                => intents'[i] = intents[i]
<1> DEFINE new == [status |-> "pending", vk |-> vk, hash |-> hash,
                   pid |-> None, tok |-> None]
<1>1. /\ count < MaxIntents /\ count' = count + 1 /\ lapsed' = lapsed
      /\ intents' = [intents EXCEPT ![count + 1] = new]
  BY DEF InsertIntent
<1>2. /\ count \in Nat /\ count + 1 \in Ids /\ MaxIntents \in Nat
      /\ intents \in [Ids -> Row]
  BY <1>1, IntentAssumption DEF TableTypeOK, Ids
<1>3. new \in Row
  BY DEF Row, Statuses, OptId, OptToken
<1>4. /\ intents' \in [Ids -> Row]
      /\ intents'[count + 1] = new
      /\ \A i \in Ids \ {count + 1} : intents'[i] = intents[i]
  BY <1>1, <1>2, <1>3
<1>5. intents[count + 1].status = "absent"
  BY <1>2 DEF TableTypeOK
<1>6. TableTypeOK'
  <2>1. count' \in 0..MaxIntents /\ lapsed' \in 0..count'
    BY <1>1, <1>2 DEF TableTypeOK
  <2>2. \A i \in Ids : intents'[i].status = "absent" <=> i > count'
    BY <1>1, <1>2, <1>4 DEF TableTypeOK, Ids
  <2> QED BY <1>4, <2>1, <2>2 DEF TableTypeOK
<1>7. IndexesHold'
  <2> SUFFICES ASSUME NEW i \in Ids, NEW j \in Ids \ {i}
      PROVE /\ intents'[i].pid # None => intents'[j].pid # intents'[i].pid
            /\ intents'[i].tok # None => intents'[j].tok # intents'[i].tok
            /\ (intents'[i].status = "verified" /\ intents'[j].status = "verified")
                 => ~(intents'[j].vk = intents'[i].vk /\ intents'[j].hash = intents'[i].hash)
    BY DEF IndexesHold, KeepsIndexes
  <2>1. CASE i = count + 1
    BY <2>1, <1>4
  <2>2. CASE j = count + 1
    BY <2>2, <1>4
  <2>3. CASE i # count + 1 /\ j # count + 1
    BY <2>3, <1>4 DEF IndexesHold, KeepsIndexes
  <2> QED BY <2>1, <2>2, <2>3
<1>8. KeysFixed
  BY <1>1, <1>2, <1>4 DEF KeysFixed, Ids
<1>9. /\ SettledStays
      /\ \A i \in Ids : intents'[i].status = "verified" => intents'[i] = intents[i]
  BY <1>4, <1>5 DEF SettledStays
<1> QED BY <1>6, <1>7, <1>8, <1>9

\* UPDATE ... WHERE id = $1 on a row that exists, with either verdict.
LEMMA SettleKeeps ==
    ASSUME TableTypeOK, IndexesHold, NEW i \in Ids, i <= count,
           NEW st \in {"verified", "failed"}, NEW r \in Request, HasProof(r),
           intents[i].vk = r.vk, intents[i].hash = r.hash,
           Settle(i, st, r.pid, r.tok)
    PROVE  /\ TableTypeOK' /\ IndexesHold' /\ KeysFixed /\ SettledStays
           /\ VerifiedOnlyBy(r)
           /\ intents'[i].status = st
           /\ \A j \in Ids \ {i} : intents'[j] = intents[j]
<1> DEFINE row == SettledRow(intents[i], st, r.pid, r.tok)
<1>1. /\ KeepsIndexes(i, row)
      /\ intents' = [intents EXCEPT ![i] = row]
      /\ count' = count /\ lapsed' = lapsed
  BY DEF Settle
<1>2. intents \in [Ids -> Row] /\ count \in Nat /\ MaxIntents \in Nat
  BY IntentAssumption DEF TableTypeOK
<1>3. /\ row \in Row /\ row.status = st
      /\ row.vk = intents[i].vk /\ row.hash = intents[i].hash
      /\ row.pid = Coalesce(r.pid, intents[i].pid)
      /\ row.tok = Coalesce(r.tok, intents[i].tok)
  <2>1. intents[i] \in Row /\ r.pid \in OptId /\ r.tok \in OptToken
    BY <1>2 DEF Request
  <2>2. /\ Coalesce(r.pid, intents[i].pid) \in OptId
        /\ Coalesce(r.tok, intents[i].tok) \in OptToken
    BY <2>1 DEF Coalesce, Row
  <2> QED BY <2>1, <2>2 DEF SettledRow, Row, Statuses
<1>4. /\ intents' \in [Ids -> Row]
      /\ intents'[i] = row
      /\ \A j \in Ids \ {i} : intents'[j] = intents[j]
  BY <1>1, <1>2, <1>3
<1>5. TableTypeOK'
  <2>1. intents[i].status # "absent"
    BY <1>2 DEF TableTypeOK, Ids
  <2>2. \A j \in Ids : intents'[j].status = "absent" <=> j > count'
    BY <1>1, <1>2, <1>3, <1>4, <2>1 DEF TableTypeOK
  <2> QED BY <1>1, <1>4, <2>2 DEF TableTypeOK
<1>6. IndexesHold'
  <2> SUFFICES ASSUME NEW a \in Ids, NEW b \in Ids \ {a}
      PROVE /\ intents'[a].pid # None => intents'[b].pid # intents'[a].pid
            /\ intents'[a].tok # None => intents'[b].tok # intents'[a].tok
            /\ (intents'[a].status = "verified" /\ intents'[b].status = "verified")
                 => ~(intents'[b].vk = intents'[a].vk /\ intents'[b].hash = intents'[a].hash)
    BY DEF IndexesHold, KeepsIndexes
  <2>1. CASE a = i
    BY <2>1, <1>1, <1>4 DEF KeepsIndexes
  <2>2. CASE b = i
    BY <2>2, <1>1, <1>4 DEF KeepsIndexes
  <2>3. CASE a # i /\ b # i
    BY <2>3, <1>4 DEF IndexesHold, KeepsIndexes
  <2> QED BY <2>1, <2>2, <2>3
<1>7. KeysFixed
  BY <1>1, <1>2, <1>3, <1>4 DEF KeysFixed
<1>8. SettledStays
  BY <1>3, <1>4 DEF SettledStays
<1>9. VerifiedOnlyBy(r)
  <2>1. SettlesWith(intents'[i], r)
    BY <1>3, <1>4 DEF SettlesWith, Coalesce
  <2> QED BY <2>1, <1>4 DEF VerifiedOnlyBy
<1> QED BY <1>3, <1>4, <1>5, <1>6, <1>7, <1>8, <1>9

\* The expiry sweep changes pending rows only, and only their status.
LEMMA ExpireKeeps ==
    ASSUME TableTypeOK, IndexesHold, ExpireStale
    PROVE  /\ TableTypeOK' /\ IndexesHold' /\ KeysFixed /\ SettledStays
           /\ \A i \in Ids : intents'[i].status = "verified"
                => intents'[i] = intents[i]
<1>1. /\ count' = count /\ lapsed' = lapsed
      /\ intents' = [i \in Ids |->
                       IF intents[i].status = "pending" /\ i <= lapsed
                       THEN [intents[i] EXCEPT !.status = "expired"]
                       ELSE intents[i]]
  BY DEF ExpireStale
<1>2. intents \in [Ids -> Row] /\ count \in Nat
  BY IntentAssumption DEF TableTypeOK
<1>3. \A i \in Ids :
        /\ intents'[i] \in Row
        /\ intents'[i].vk = intents[i].vk /\ intents'[i].hash = intents[i].hash
        /\ intents'[i].pid = intents[i].pid /\ intents'[i].tok = intents[i].tok
        /\ \/ intents'[i] = intents[i]
           \/ intents[i].status = "pending" /\ intents'[i].status = "expired"
  BY <1>1, <1>2 DEF Row, Statuses
<1>4. TableTypeOK'
  <2>1. intents' \in [Ids -> Row]
    BY <1>1, <1>3
  <2>2. \A i \in Ids : intents'[i].status = "absent" <=> i > count'
    BY <1>1, <1>3 DEF TableTypeOK
  <2> QED BY <1>1, <2>1, <2>2 DEF TableTypeOK
<1>5. IndexesHold'
  <2> SUFFICES ASSUME NEW a \in Ids, NEW b \in Ids \ {a}
      PROVE /\ intents'[a].pid # None => intents'[b].pid # intents'[a].pid
            /\ intents'[a].tok # None => intents'[b].tok # intents'[a].tok
            /\ (intents'[a].status = "verified" /\ intents'[b].status = "verified")
                 => ~(intents'[b].vk = intents'[a].vk /\ intents'[b].hash = intents'[a].hash)
    BY DEF IndexesHold, KeepsIndexes
  <2> QED BY <1>3 DEF IndexesHold, KeepsIndexes
<1>6. KeysFixed
  BY <1>1, <1>2, <1>3 DEF KeysFixed
<1>7. /\ SettledStays
      /\ \A i \in Ids : intents'[i].status = "verified" => intents'[i] = intents[i]
  BY <1>3 DEF SettledStays
<1> QED BY <1>4, <1>5, <1>6, <1>7

-----------------------------------------------------------------------------
(* Lemmas about the ways a step of a slot ends. *)

\* The slots other than p keep their locals.
Frame(p) ==
    \A q \in Slots \ {p} :
        pc'[q] = pc[q] /\ rq'[q] = rq[q] /\ pend'[q] = pend[q]

\* Going on to the next await changes the one slot's place and nothing else.
LEMMA GoToKeeps ==
    ASSUME SlotTypeOK, NEW p \in Slots, NEW await \in Awaits, GoTo(p, await)
    PROVE  /\ SlotTypeOK' /\ Frame(p)
           /\ pc'[p] = await /\ rq'[p] = rq[p] /\ pend'[p] = pend[p]
BY DEF SlotTypeOK, GoTo, Frame

\* A refusal that is logged first changes the one slot's place and its refusal.
LEMMA LogKeeps ==
    ASSUME SlotTypeOK, NEW p \in Slots, NEW kind \in Logged,
           LogAndReturn(p, kind)
    PROVE  /\ SlotTypeOK' /\ Frame(p)
           /\ pc'[p] = "log" /\ rq'[p] = rq[p] /\ pend'[p] = pend[p]
BY DEF SlotTypeOK, LogAndReturn, Frame, Awaits

\* A request that ends leaves an idle slot behind.
LEMMA ReturnKeeps ==
    ASSUME SlotTypeOK, NEW p \in Slots, Return(p)
    PROVE  /\ SlotTypeOK' /\ Frame(p) /\ SlotOK(p)'
           /\ pc'[p] = "idle" /\ pend'[p] = NoIntent
BY DEF SlotTypeOK, Return, Frame, SlotOK, Awaits

\* What a step of the gate does to the table.
TableEffect ==
    /\ TableTypeOK' /\ IndexesHold' /\ KeysFixed /\ SettledStays
    /\ \A i \in Ids : intents'[i].status = "verified" =>
         \/ intents'[i] = intents[i]
         \/ \E r \in paid : SettlesWith(intents'[i], r)

\* A step that leaves the table alone has the effect every step may have.
LEMMA IdleTable ==
    ASSUME TableTypeOK, IndexesHold, UNCHANGED tableVars
    PROVE  TableEffect
<1>1. count \in Nat /\ intents' = intents /\ count' = count /\ lapsed' = lapsed
  BY IntentAssumption DEF TableTypeOK, tableVars
<1>2. TableTypeOK'
  BY <1>1 DEF TableTypeOK
<1>3. IndexesHold'
  BY <1>1 DEF IndexesHold, KeepsIndexes
<1>4. KeysFixed /\ SettledStays
  BY <1>1 DEF KeysFixed, SettledStays
<1> QED BY <1>1, <1>2, <1>3, <1>4 DEF TableEffect

\* The slot of the step, the other slots, the table and the histories together
\* give the invariant after the step.
LEMMA StepKeeps ==
    ASSUME IInv, NEW p \in Slots, TableEffect, SlotTypeOK', Frame(p),
           SlotOK(p)', HistoryTypeOK', paid \subseteq paid',
           \A f \in forwards' : f \in forwards \/ ForwardOK(f)'
    PROVE  IInv'
<1>1. SlotsOK'
  <2> SUFFICES ASSUME NEW q \in Slots PROVE SlotOK(q)'
    BY DEF SlotsOK
  <2>1. CASE q = p
    BY <2>1
  <2>2. CASE q # p
    <3>1. SlotOK(q) /\ pc'[q] = pc[q] /\ rq'[q] = rq[q] /\ pend'[q] = pend[q]
      BY <2>2 DEF IInv, SlotsOK, Frame
    <3>2. pend[q] \in Ids \cup {NoIntent} /\ count \in Nat /\ count' \in Nat
      BY IntentAssumption DEF IInv, TypeOK, SlotTypeOK, TableEffect, TableTypeOK
    <3>3. pend[q] # NoIntent =>
            /\ pend[q] <= count'
            /\ intents'[pend[q]].vk = rq[q].vk
            /\ intents'[pend[q]].hash = rq[q].hash
      BY <3>1, <3>2 DEF SlotOK, TableEffect, KeysFixed, Ids
    <3> QED BY <3>1, <3>3 DEF SlotOK
  <2> QED BY <2>1, <2>2
<1>2. VerifiedWasPaid'
  BY DEF IInv, VerifiedWasPaid, TableEffect
<1>3. ForwardedWasPaid'
  <2> SUFFICES ASSUME NEW f \in forwards, f \in forwards' PROVE ForwardOK(f)'
    BY DEF ForwardedWasPaid
  <2>1. ForwardOK(f) /\ f.intent \in Ids \cup {NoIntent}
    BY DEF IInv, ForwardedWasPaid, TypeOK, HistoryTypeOK
  <2>2. f.intent # NoIntent =>
          /\ intents'[f.intent].vk = f.rq.vk
          /\ intents'[f.intent].hash = f.rq.hash
          /\ intents'[f.intent].status \in {"verified", "failed"}
    <3> SUFFICES ASSUME f.intent # NoIntent, f.intent \in Ids
        PROVE  /\ intents'[f.intent].vk = f.rq.vk
               /\ intents'[f.intent].hash = f.rq.hash
               /\ intents'[f.intent].status \in {"verified", "failed"}
      BY <2>1
    <3>1. f.intent <= count
      BY <2>1, IntentAssumption DEF ForwardOK, IInv, TypeOK, TableTypeOK, Ids
    <3> QED BY <3>1, <2>1 DEF ForwardOK, TableEffect, KeysFixed, SettledStays
  <2> QED BY <2>1, <2>2 DEF ForwardOK
<1> QED BY <1>1, <1>2, <1>3 DEF IInv, TypeOK, TableEffect

-----------------------------------------------------------------------------
(* The inductive invariant. *)

\* The empty table satisfies the invariant.
LEMMA InitIInv == Init => IInv
<1> SUFFICES ASSUME Init PROVE IInv
  OBVIOUS
<1>1. /\ \A i \in Ids : intents[i] = AbsentRow
      /\ intents = [i \in Ids |-> AbsentRow] /\ count = 0 /\ lapsed = 0
      /\ MaxIntents \in Nat
  BY IntentAssumption DEF Init, TableInit
<1>2. AbsentRow \in Row
  BY DEF AbsentRow, Row, Statuses, OptId, OptToken
<1>3. TableTypeOK
  <2>1. \A i \in Ids : intents[i].status = "absent" <=> i > count
    BY <1>1 DEF AbsentRow, Ids
  <2> QED BY <1>1, <1>2, <2>1 DEF TableTypeOK
<1>4. SlotTypeOK /\ HistoryTypeOK
  BY DEF Init, SlotTypeOK, HistoryTypeOK
<1>5. IndexesHold
  BY <1>1 DEF IndexesHold, KeepsIndexes, AbsentRow
<1>6. SlotsOK
  BY DEF Init, SlotsOK, SlotOK
<1>7. VerifiedWasPaid /\ ForwardedWasPaid
  BY <1>1 DEF Init, VerifiedWasPaid, ForwardedWasPaid, AbsentRow
<1> QED BY <1>3, <1>4, <1>5, <1>6, <1>7 DEF IInv, TypeOK

\* A settlement of the pending intent of slot p.
LEMMA MarkEffect ==
    ASSUME IInv, NEW p \in Slots, NEW st \in {"verified", "failed"},
           pc[p] \in {"mark_verified", "mark_failed", "mark_failed_error"},
           st = "verified" => pc[p] = "mark_verified",
           Settle(pend[p], st, rq[p].pid, rq[p].tok)
    PROVE  /\ TableEffect
           /\ intents'[pend[p]].vk = rq[p].vk
           /\ intents'[pend[p]].hash = rq[p].hash
           /\ intents'[pend[p]].status = st
<1>1. /\ pend[p] \in Ids /\ pend[p] <= count
      /\ rq[p] \in Request /\ HasProof(rq[p])
      /\ intents[pend[p]].vk = rq[p].vk /\ intents[pend[p]].hash = rq[p].hash
      /\ st = "verified" => rq[p] \in paid
      /\ TableTypeOK /\ IndexesHold
  BY DEF IInv, TypeOK, SlotTypeOK, SlotsOK, SlotOK
<1>2. /\ TableTypeOK' /\ IndexesHold' /\ KeysFixed /\ SettledStays
      /\ VerifiedOnlyBy(rq[p])
      /\ intents'[pend[p]].status = st
      /\ \A j \in Ids \ {pend[p]} : intents'[j] = intents[j]
  BY <1>1, SettleKeeps
<1>3. \A i \in Ids : intents'[i].status = "verified" =>
        intents'[i] = intents[i] \/ \E r \in paid : SettlesWith(intents'[i], r)
  BY <1>1, <1>2 DEF VerifiedOnlyBy
<1> QED BY <1>1, <1>2, <1>3 DEF TableEffect, KeysFixed

\* Every step of enforce_x402, from one await to the next, keeps the invariant.
LEMMA StepIInv ==
    ASSUME IInv, NEW p \in Slots, GateStep(p)
    PROVE  IInv'
<1> USE DEF IInv
<1>1. /\ TableTypeOK /\ IndexesHold /\ SlotTypeOK /\ HistoryTypeOK
      /\ SlotOK(p)
  BY DEF TypeOK, SlotsOK
<1>2. ASSUME UNCHANGED <<tableVars, paid, forwards>>
      PROVE  /\ TableEffect /\ HistoryTypeOK' /\ paid \subseteq paid'
             /\ \A f \in forwards' : f \in forwards \/ ForwardOK(f)'
  BY <1>1, <1>2, IdleTable DEF HistoryTypeOK
<1>3. ASSUME UNCHANGED <<paid, forwards>>
      PROVE  /\ HistoryTypeOK' /\ paid \subseteq paid'
             /\ \A f \in forwards' : f \in forwards \/ ForwardOK(f)'
  BY <1>1, <1>3 DEF HistoryTypeOK
<1>4. ASSUME NEW r \in Request, ArriveUnregistered(p, r) PROVE IInv'
  <2>1. SlotTypeOK' /\ Frame(p) /\ SlotOK(p)'
    BY <1>1, <1>4 DEF ArriveUnregistered, Arrive, SlotTypeOK, Frame, SlotOK,
                      Awaits, Logged
  <2>2. UNCHANGED <<tableVars, paid, forwards>>
    BY <1>4 DEF ArriveUnregistered, Arrive
  <2> QED BY <1>2, <2>1, <2>2, StepKeeps
<1>5. ASSUME NEW r \in Request, ArriveGated(p, r) PROVE IInv'
  <2>1. SlotTypeOK' /\ Frame(p) /\ SlotOK(p)'
    BY <1>1, <1>5 DEF ArriveGated, Arrive, SlotTypeOK, Frame, SlotOK, Awaits
  <2>2. UNCHANGED <<tableVars, paid, forwards>>
    BY <1>5 DEF ArriveGated, Arrive
  <2> QED BY <1>2, <2>1, <2>2, StepKeeps
<1>6. ASSUME Expire(p) PROVE IInv'
  <2>1. TableEffect
    BY <1>1, <1>6, ExpireKeeps, IdleTable DEF Expire, TableEffect
  <2>2. SlotTypeOK' /\ Frame(p) /\ SlotOK(p)'
    <3>1. CASE Return(p)
      BY <1>1, <3>1, ReturnKeeps
    <3>2. CASE GoTo(p, AfterBody(rq[p]))
      <4>1. /\ AfterBody(rq[p]) \in Awaits
            /\ AfterBody(rq[p]) \notin {"mark_verified", "mark_failed",
                                        "mark_failed_error", "idle"}
            /\ AfterBody(rq[p]) # "insert" => HasProof(rq[p])
        BY DEF AfterBody, AfterReplayId, Awaits
      <4>2. /\ SlotTypeOK' /\ Frame(p) /\ pc'[p] = AfterBody(rq[p])
            /\ rq'[p] = rq[p] /\ pend'[p] = pend[p]
        BY <1>1, <3>2, <4>1, GoToKeeps
      <4>3. pend[p] # NoIntent =>
              /\ pend[p] <= count'
              /\ intents'[pend[p]].vk = rq[p].vk
              /\ intents'[pend[p]].hash = rq[p].hash
        BY <1>1, <2>1, IntentAssumption
           DEF SlotOK, SlotTypeOK, TableEffect, KeysFixed, TableTypeOK, Ids
      <4> QED BY <1>1, <1>6, <4>1, <4>2, <4>3 DEF SlotOK, Expire
    <3> QED BY <1>6, <3>1, <3>2 DEF Expire
  <2>3. UNCHANGED <<paid, forwards>>
    BY <1>6 DEF Expire
  <2> QED BY <1>3, <2>1, <2>2, <2>3, StepKeeps
<1>7. ASSUME NEW found, NEW next \in {"replay_token", "find"},
             pc[p] \in {"replay_id", "replay_token"},
             ReplayStep(p, found, next)
      PROVE  IInv'
  <2>1. UNCHANGED <<tableVars, paid, forwards>>
    BY <1>7 DEF ReplayStep
  <2>2. intents' = intents /\ count' = count /\ paid' = paid
    BY <2>1 DEF tableVars
  <2>3. SlotTypeOK' /\ Frame(p) /\ SlotOK(p)'
    <3>1. CASE Return(p)
      BY <1>1, <3>1, ReturnKeeps
    <3>2. CASE LogAndReturn(p, "x402_replay_blocked")
      <4>1. /\ SlotTypeOK' /\ Frame(p) /\ pc'[p] = "log"
            /\ rq'[p] = rq[p] /\ pend'[p] = pend[p]
        BY <1>1, <3>2, LogKeeps DEF Logged
      <4> QED BY <1>1, <1>7, <2>2, <4>1 DEF SlotOK
    <3>3. CASE GoTo(p, next)
      <4>1. /\ SlotTypeOK' /\ Frame(p) /\ pc'[p] = next
            /\ rq'[p] = rq[p] /\ pend'[p] = pend[p]
        BY <1>1, <1>7, <3>3, GoToKeeps DEF Awaits
      <4> QED BY <1>1, <1>7, <2>2, <4>1 DEF SlotOK
    <3> QED BY <1>7, <3>1, <3>2, <3>3 DEF ReplayStep
  <2> QED BY <1>2, <2>1, <2>3, StepKeeps
<1>8. ASSUME CheckReplayId(p) PROVE IInv'
  BY <1>7, <1>8 DEF CheckReplayId, AfterReplayId
<1>9. ASSUME CheckReplayToken(p) PROVE IInv'
  BY <1>7, <1>9 DEF CheckReplayToken
<1>10. ASSUME FindPending(p) PROVE IInv'
  <2>1. UNCHANGED <<tableVars, paid, forwards>>
    BY <1>10 DEF FindPending
  <2>2. intents' = intents /\ count' = count /\ paid' = paid
    BY <2>1 DEF tableVars
  <2>3. SlotTypeOK' /\ Frame(p) /\ SlotOK(p)'
    <3>1. CASE Return(p)
      BY <1>1, <3>1, ReturnKeeps
    <3>2. ASSUME NEW i \in Ids \cup {NoIntent},
                 IsLatestPending(i, rq[p].vk, rq[p].hash),
                 pc' = [pc EXCEPT ![p] = "verify"],
                 pend' = [pend EXCEPT ![p] = i],
                 UNCHANGED <<rq, refusal>>
          PROVE  SlotTypeOK' /\ Frame(p) /\ SlotOK(p)'
      <4>1. i # NoIntent => /\ i <= count
                            /\ intents[i].vk = rq[p].vk
                            /\ intents[i].hash = rq[p].hash
        <5>1. i # NoIntent => i \in PendingFor(rq[p].vk, rq[p].hash)
          BY <3>2 DEF IsLatestPending
        <5>2. i # NoIntent => /\ intents[i].status = "pending"
                              /\ intents[i].vk = rq[p].vk
                              /\ intents[i].hash = rq[p].hash
          BY <5>1 DEF PendingFor
        <5> QED BY <1>1, <3>2, <5>2, IntentAssumption
                DEF TableTypeOK, Ids, NoIntent
      <4>2. SlotTypeOK' /\ Frame(p)
        BY <1>1, <3>2 DEF SlotTypeOK, Frame, Awaits
      <4>3. pc'[p] = "verify" /\ pend'[p] = i /\ rq'[p] = rq[p]
        BY <1>1, <3>2 DEF SlotTypeOK
      <4> QED BY <1>1, <1>10, <2>2, <4>1, <4>2, <4>3 DEF SlotOK, FindPending
    <3> QED BY <1>10, <3>1, <3>2 DEF FindPending
  <2> QED BY <1>2, <2>1, <2>3, StepKeeps
<1>11. ASSUME Verify(p) PROVE IInv'
  <2>1. pc[p] = "verify" /\ UNCHANGED tableVars
    BY <1>11 DEF Verify
  <2>2. /\ intents' = intents /\ count' = count
        /\ rq[p] \in Request /\ HasProof(rq[p]) /\ TableEffect
        /\ pend[p] \in Ids \cup {NoIntent}
    BY <1>1, <2>1, IdleTable DEF tableVars, SlotOK, SlotTypeOK
  <2>3. CASE Accepted(p)
    <3>1. /\ paid' = paid \cup {rq[p]} /\ paid \subseteq paid'
          /\ rq[p] \in paid'
      BY <2>3 DEF Accepted
    <3>2. CASE pend[p] # NoIntent
      <4>1. GoTo(p, "mark_verified") /\ forwards' = forwards
        BY <2>3, <3>2 DEF Accepted
      <4>2. /\ SlotTypeOK' /\ Frame(p) /\ pc'[p] = "mark_verified"
            /\ rq'[p] = rq[p] /\ pend'[p] = pend[p]
        BY <1>1, <4>1, GoToKeeps DEF Awaits
      <4>3. SlotOK(p)'
        BY <1>1, <2>1, <2>2, <3>1, <3>2, <4>2 DEF SlotOK
      <4>4. HistoryTypeOK'
        BY <1>1, <2>2, <3>1, <4>1 DEF HistoryTypeOK
      <4> QED BY <2>2, <3>1, <4>1, <4>2, <4>3, <4>4, StepKeeps
    <3>3. CASE pend[p] = NoIntent
      <4>1. /\ Return(p)
            /\ forwards' = forwards \cup {[rq |-> rq[p], intent |-> pend[p]]}
        BY <2>3, <3>3 DEF Accepted, RunNext
      <4>2. SlotTypeOK' /\ Frame(p) /\ SlotOK(p)'
        BY <1>1, <4>1, ReturnKeeps
      <4>3. \A f \in forwards' : f \in forwards \/ ForwardOK(f)'
        BY <3>1, <3>3, <4>1 DEF ForwardOK
      <4>4. HistoryTypeOK'
        BY <1>1, <2>2, <3>1, <4>1 DEF HistoryTypeOK
      <4> QED BY <2>2, <3>1, <4>2, <4>3, <4>4, StepKeeps
    <3> QED BY <3>2, <3>3
  <2>4. ASSUME NEW await \in {"mark_failed", "mark_failed_error"},
               NEW kind \in Logged,
               UNCHANGED <<paid, forwards>>,
               \/ pend[p] # NoIntent /\ GoTo(p, await)
               \/ LogAndReturn(p, kind)
        PROVE  IInv'
    <3>1. SlotTypeOK' /\ Frame(p) /\ SlotOK(p)'
      <4>1. CASE pend[p] # NoIntent /\ GoTo(p, await)
        <5>1. /\ SlotTypeOK' /\ Frame(p) /\ pc'[p] = await
              /\ rq'[p] = rq[p] /\ pend'[p] = pend[p]
          BY <1>1, <2>4, <4>1, GoToKeeps DEF Awaits
        <5> QED BY <1>1, <2>1, <2>2, <2>4, <4>1, <5>1 DEF SlotOK
      <4>2. CASE LogAndReturn(p, kind)
        <5>1. /\ SlotTypeOK' /\ Frame(p) /\ pc'[p] = "log"
              /\ rq'[p] = rq[p] /\ pend'[p] = pend[p]
          BY <1>1, <2>4, <4>2, LogKeeps
        <5> QED BY <1>1, <2>1, <2>2, <2>4, <5>1 DEF SlotOK
      <4> QED BY <2>4, <4>1, <4>2
    <3> QED BY <1>3, <2>2, <2>4, <3>1, StepKeeps
  <2>5. CASE Rejected(p)
    BY <2>4, <2>5 DEF Rejected, Logged
  <2>6. CASE ProviderError(p)
    BY <2>4, <2>6 DEF ProviderError, Logged
  <2> QED BY <1>11, <2>3, <2>5, <2>6 DEF Verify
<1>12. ASSUME MarkVerifiedStep(p) PROVE IInv'
  <2>1. /\ pc[p] = "mark_verified" /\ Return(p) /\ paid' = paid
        /\ rq[p] \in Request /\ rq[p] \in paid
        /\ pend[p] \in Ids /\ pend[p] # NoIntent
    BY <1>1, <1>12 DEF MarkVerifiedStep, RunNext, SlotOK, SlotTypeOK
  <2>2. SlotTypeOK' /\ Frame(p) /\ SlotOK(p)'
    BY <1>1, <2>1, ReturnKeeps
  <2>3. CASE UNCHANGED <<tableVars, forwards>>
    BY <1>2, <2>1, <2>2, <2>3, StepKeeps
  <2>4. CASE MarkVerified(pend[p], rq[p].pid, rq[p].tok)
    <3>1. /\ TableEffect
          /\ intents'[pend[p]].vk = rq[p].vk
          /\ intents'[pend[p]].hash = rq[p].hash
          /\ intents'[pend[p]].status = "verified"
      BY <2>1, <2>4, MarkEffect DEF MarkVerified
    <3>2. \/ forwards' = forwards
          \/ forwards' = forwards \cup {[rq |-> rq[p], intent |-> pend[p]]}
      BY <1>12 DEF MarkVerifiedStep, RunNext
    <3>3. HistoryTypeOK'
      BY <1>1, <2>1, <3>2 DEF HistoryTypeOK
    <3>4. \A f \in forwards' : f \in forwards \/ ForwardOK(f)'
      BY <2>1, <3>1, <3>2 DEF ForwardOK
    <3> QED BY <2>1, <2>2, <3>1, <3>3, <3>4, StepKeeps
  <2> QED BY <1>12, <2>3, <2>4 DEF MarkVerifiedStep
<1>13. ASSUME NEW kind \in Logged, UNCHANGED <<paid, forwards>>,
              pc[p] \in {"mark_failed", "mark_failed_error"},
              \/ MarkFailed(pend[p], rq[p].pid, rq[p].tok)
              \/ UNCHANGED tableVars,
              LogAndReturn(p, kind) \/ Return(p)
       PROVE  IInv'
  <2>1. TableEffect
    BY <1>1, <1>13, MarkEffect, IdleTable DEF MarkFailed
  <2>2. SlotTypeOK' /\ Frame(p) /\ SlotOK(p)'
    <3>1. CASE Return(p)
      BY <1>1, <3>1, ReturnKeeps
    <3>2. CASE LogAndReturn(p, kind)
      <4>1. /\ SlotTypeOK' /\ Frame(p) /\ pc'[p] = "log"
            /\ rq'[p] = rq[p] /\ pend'[p] = pend[p]
        BY <1>1, <1>13, <3>2, LogKeeps
      <4>2. pend[p] # NoIntent =>
              /\ pend[p] <= count'
              /\ intents'[pend[p]].vk = rq[p].vk
              /\ intents'[pend[p]].hash = rq[p].hash
        BY <1>1, <2>1, IntentAssumption
           DEF SlotOK, SlotTypeOK, TableEffect, KeysFixed, TableTypeOK, Ids
      <4> QED BY <1>1, <1>13, <4>1, <4>2 DEF SlotOK
    <3> QED BY <1>13, <3>1, <3>2
  <2> QED BY <1>3, <1>13, <2>1, <2>2, StepKeeps
<1>14. ASSUME MarkFailedStep(p) PROVE IInv'
  BY <1>13, <1>14 DEF MarkFailedStep, Logged
<1>15. ASSUME MarkFailedOnError(p) PROVE IInv'
  BY <1>13, <1>15 DEF MarkFailedOnError, Logged
<1>16. ASSUME Insert(p) PROVE IInv'
  <2>1. pc[p] = "insert" /\ rq[p] \in Request
    BY <1>1, <1>16 DEF Insert, SlotOK
  <2>2. rq[p].vk \in VKs /\ rq[p].hash \in Hashes
    BY <2>1 DEF Request
  <2>3. TableEffect
    <3>1. CASE UNCHANGED tableVars
      BY <1>1, <3>1, IdleTable
    <3>2. CASE InsertIntent(rq[p].vk, rq[p].hash)
      BY <1>1, <2>2, <3>2, InsertKeeps DEF TableEffect
    <3> QED BY <1>16, <3>1, <3>2 DEF Insert
  <2>4. SlotTypeOK' /\ Frame(p) /\ SlotOK(p)'
    <3>1. CASE Return(p)
      BY <1>1, <3>1, ReturnKeeps
    <3>2. CASE LogAndReturn(p, "x402_intent_insert_failed")
      <4>1. /\ SlotTypeOK' /\ Frame(p) /\ pc'[p] = "log"
            /\ rq'[p] = rq[p] /\ pend'[p] = pend[p]
        BY <1>1, <3>2, LogKeeps DEF Logged
      <4>2. pend[p] # NoIntent =>
              /\ pend[p] <= count'
              /\ intents'[pend[p]].vk = rq[p].vk
              /\ intents'[pend[p]].hash = rq[p].hash
        BY <1>1, <2>3, IntentAssumption
           DEF SlotOK, SlotTypeOK, TableEffect, KeysFixed, TableTypeOK, Ids
      <4> QED BY <1>1, <2>1, <4>1, <4>2 DEF SlotOK
    <3> QED BY <1>16, <3>1, <3>2 DEF Insert
  <2>5. UNCHANGED <<paid, forwards>>
    BY <1>16 DEF Insert
  <2> QED BY <1>3, <2>3, <2>4, <2>5, StepKeeps
<1>17. ASSUME Log(p) \/ Drop(p) PROVE IInv'
  <2>1. Return(p) /\ UNCHANGED <<tableVars, paid, forwards>>
    BY <1>17 DEF Log, Drop
  <2>2. SlotTypeOK' /\ Frame(p) /\ SlotOK(p)'
    BY <1>1, <2>1, ReturnKeeps
  <2> QED BY <1>2, <2>1, <2>2, StepKeeps
<1> QED BY <1>4, <1>5, <1>6, <1>8, <1>9, <1>10, <1>11, <1>12, <1>14, <1>15,
           <1>16, <1>17 DEF GateStep

\* The invariant reads neither lapsed beyond its type nor anything else that
\* the passing of time changes.
LEMMA LapseIInv ==
    ASSUME IInv, TimeLapses
    PROVE  IInv'
<1>1. /\ intents' = intents /\ count' = count /\ lapsed' \in 0..count
      /\ UNCHANGED gateVars
  BY IntentAssumption DEF TimeLapses, Lapse, IInv, TypeOK, TableTypeOK
<1>2. TypeOK'
  BY <1>1 DEF IInv, TypeOK, TableTypeOK, SlotTypeOK, HistoryTypeOK, gateVars
<1>3. IndexesHold'
  BY <1>1 DEF IInv, IndexesHold, KeepsIndexes
<1>4. SlotsOK' /\ VerifiedWasPaid' /\ ForwardedWasPaid'
  BY <1>1 DEF IInv, SlotsOK, SlotOK, VerifiedWasPaid, ForwardedWasPaid,
              ForwardOK, gateVars
<1> QED BY <1>2, <1>3, <1>4 DEF IInv

\* A step that changes nothing keeps it.
LEMMA StutterIInv ==
    ASSUME IInv, UNCHANGED vars
    PROVE  IInv'
<1>1. TypeOK'
  BY DEF IInv, TypeOK, TableTypeOK, SlotTypeOK, HistoryTypeOK, vars,
         tableVars, gateVars
<1>2. IndexesHold'
  BY DEF IInv, IndexesHold, KeepsIndexes, vars, tableVars
<1>3. SlotsOK' /\ VerifiedWasPaid' /\ ForwardedWasPaid'
  BY DEF IInv, SlotsOK, SlotOK, VerifiedWasPaid, ForwardedWasPaid,
         ForwardOK, vars, tableVars, gateVars
<1> QED BY <1>1, <1>2, <1>3 DEF IInv

\* The inductive invariant holds in every reachable state, whatever the number
\* of overlapping requests.
THEOREM Invariance == Spec => []IInv
<1>1. Init => IInv
  BY InitIInv
<1>2. IInv /\ [Next]_vars => IInv'
  BY StepIInv, LapseIInv, StutterIInv DEF Next
<1> QED BY <1>1, <1>2, PTL DEF Spec

\* Type correctness of the table, the slots of enforce_x402 and the histories.
THEOREM TypeCorrect == Spec => []TypeOK
<1>1. IInv => TypeOK
  BY DEF IInv
<1> QED BY <1>1, Invariance, PTL

\* Every verified row of payment_intents was paid for by a request of its own
\* key and hash, and carries that request's whole proof.
THEOREM VerifiedRowsArePaid == Spec => []VerifiedWasPaid
<1>1. IInv => VerifiedWasPaid
  BY DEF IInv
<1> QED BY <1>1, Invariance, PTL

\* Every forwarded request was accepted by the provider, and the intent it
\* reconciled is its own and settled for good.
THEOREM ForwardsArePaid == Spec => []ForwardedWasPaid
<1>1. IInv => ForwardedWasPaid
  BY DEF IInv
<1> QED BY <1>1, Invariance, PTL

-----------------------------------------------------------------------------
(* Forwards of intents that no two requests held. *)

\* What a step of slot p does to the intent it holds, the other rows that are
\* verified, and the forwards.
RecordEffect(p) ==
    /\ \A q \in Slots \ {p} : pend'[q] = pend[q]
    /\ \/ pend'[p] \in {pend[p], NoIntent}
       \/ pend'[p] \in Ids /\ intents[pend'[p]].status = "pending"
    /\ \A i \in Ids : intents[i].status = "verified" /\ i # pend[p] =>
         intents'[i] = intents[i]
    /\ \/ forwards' = forwards
       \/ /\ forwards' = forwards \cup {[rq |-> rq[p], intent |-> pend[p]]}
          /\ pend'[p] = NoIntent
          /\ pend[p] # NoIntent => /\ intents'[pend[p]].status = "verified"
                                   /\ SettlesWith(intents'[pend[p]], rq[p])

\* A step that leaves the table and the forwards alone, and the intent of its
\* slot too or drops it.
LEMMA QuietEffect ==
    ASSUME SlotTypeOK, NEW p \in Slots, intents' = intents, forwards' = forwards,
           \/ pend' = pend
           \/ Return(p)
    PROVE  RecordEffect(p)
BY DEF SlotTypeOK, Return, RecordEffect

\* An UPDATE of the intent of slot p, after which its request ends or goes on.
LEMMA SettleEffect ==
    ASSUME IInv, NEW p \in Slots, NEW st \in {"verified", "failed"},
           pc[p] \in {"mark_verified", "mark_failed", "mark_failed_error"},
           Settle(pend[p], st, rq[p].pid, rq[p].tok),
           \/ pend' = pend /\ forwards' = forwards
           \/ Return(p) /\ forwards' = forwards
           \/ st = "verified" /\ RunNext(p)
    PROVE  RecordEffect(p)
<1>1. /\ pend[p] \in Ids /\ pend[p] <= count /\ rq[p] \in Request /\ HasProof(rq[p])
      /\ intents[pend[p]].vk = rq[p].vk /\ intents[pend[p]].hash = rq[p].hash
      /\ TableTypeOK /\ IndexesHold /\ SlotTypeOK
  BY DEF IInv, TypeOK, SlotTypeOK, SlotsOK, SlotOK
<1>2. /\ intents'[pend[p]].status = st
      /\ \A j \in Ids \ {pend[p]} : intents'[j] = intents[j]
  BY <1>1, SettleKeeps
<1>3. intents[pend[p]] \in Row
  BY <1>1 DEF TableTypeOK
<1>4. SettlesWith(intents'[pend[p]], rq[p])
  <2>1. intents'[pend[p]] = SettledRow(intents[pend[p]], st, rq[p].pid, rq[p].tok)
    BY <1>1 DEF Settle, TableTypeOK
  <2> QED BY <1>1, <1>3, <2>1 DEF SettlesWith, SettledRow, Coalesce, Row
<1> QED BY <1>1, <1>2, <1>4 DEF SlotTypeOK, Return, RunNext, RecordEffect

\* Every step of the gate has that effect.
LEMMA StepRecords ==
    ASSUME IInv, NEW p \in Slots, GateStep(p)
    PROVE  RecordEffect(p)
<1>0. SlotTypeOK /\ TableTypeOK /\ IndexesHold /\ SlotOK(p)
  BY DEF IInv, TypeOK, SlotsOK
<1>1. ASSUME NEW r \in Request, ArriveUnregistered(p, r) \/ ArriveGated(p, r)
      PROVE  RecordEffect(p)
  BY <1>0, <1>1, QuietEffect DEF ArriveUnregistered, ArriveGated, Arrive, tableVars
<1>2. CASE Expire(p)
  <2>1. \A i \in Ids : intents[i].status = "verified" => intents'[i] = intents[i]
    BY <1>0, <1>2 DEF Expire, ExpireStale, tableVars, TableTypeOK
  <2> QED BY <1>0, <1>2, <2>1 DEF Expire, GoTo, Return, SlotTypeOK, RecordEffect
<1>3. CASE CheckReplayId(p) \/ CheckReplayToken(p) \/ Log(p) \/ Drop(p)
  BY <1>0, <1>3, QuietEffect DEF CheckReplayId, CheckReplayToken, ReplayStep, Log, Drop,
                                 LogAndReturn, GoTo, tableVars
<1>4. CASE FindPending(p)
  <2>1. intents' = intents /\ forwards' = forwards
    BY <1>4 DEF FindPending, tableVars
  <2>2. CASE Return(p)
    BY <1>0, <2>1, <2>2, QuietEffect
  <2>3. ASSUME NEW i \in Ids \cup {NoIntent}, IsLatestPending(i, rq[p].vk, rq[p].hash),
               pend' = [pend EXCEPT ![p] = i]
        PROVE  RecordEffect(p)
    <3>1. i = NoIntent \/ (i \in Ids /\ intents[i].status = "pending")
      BY <2>3 DEF IsLatestPending, PendingFor
    <3> QED BY <1>0, <2>1, <2>3, <3>1 DEF SlotTypeOK, RecordEffect
  <2> QED BY <1>4, <2>2, <2>3 DEF FindPending
<1>5. CASE Verify(p)
  <2>1. intents' = intents
    BY <1>5 DEF Verify, tableVars
  <2>2. CASE pend[p] = NoIntent /\ RunNext(p)
    BY <1>0, <2>1, <2>2 DEF RunNext, Return, SlotTypeOK, RecordEffect
  <2>3. CASE forwards' = forwards /\ pend' = pend
    BY <1>0, <2>1, <2>3, QuietEffect
  <2> QED BY <1>5, <2>2, <2>3 DEF Verify, Accepted, Rejected, ProviderError, GoTo,
                                  LogAndReturn
<1>6. CASE MarkVerifiedStep(p)
  <2>1. CASE UNCHANGED <<tableVars, forwards>>
    BY <1>0, <1>6, <2>1, QuietEffect DEF MarkVerifiedStep, RunNext, tableVars
  <2>2. CASE MarkVerified(pend[p], rq[p].pid, rq[p].tok)
    BY <1>6, <2>2, SettleEffect DEF MarkVerifiedStep, MarkVerified, RunNext
  <2> QED BY <1>6, <2>1, <2>2 DEF MarkVerifiedStep
<1>7. CASE MarkFailedStep(p) \/ MarkFailedOnError(p)
  <2>1. forwards' = forwards /\ (pend' = pend \/ Return(p))
    BY <1>7 DEF MarkFailedStep, MarkFailedOnError, LogAndReturn
  <2>2. CASE UNCHANGED tableVars
    BY <1>0, <2>1, <2>2, QuietEffect DEF tableVars
  <2>3. CASE MarkFailed(pend[p], rq[p].pid, rq[p].tok)
    BY <1>7, <2>1, <2>3, SettleEffect DEF MarkFailedStep, MarkFailedOnError, MarkFailed
  <2> QED BY <1>7, <2>2, <2>3 DEF MarkFailedStep, MarkFailedOnError
<1>8. CASE Insert(p)
  <2>1. \A i \in Ids : intents[i].status = "verified" => intents'[i] = intents[i]
    <3>1. CASE UNCHANGED tableVars
      BY <3>1 DEF tableVars
    <3>2. CASE InsertIntent(rq[p].vk, rq[p].hash)
      <4>1. intents[count + 1].status = "absent"
        BY <1>0, <3>2, IntentAssumption DEF InsertIntent, TableTypeOK, Ids
      <4> QED BY <1>0, <3>2, <4>1 DEF InsertIntent, TableTypeOK
    <3> QED BY <1>8, <3>1, <3>2 DEF Insert
  <2> QED BY <1>0, <1>8, <2>1 DEF Insert, LogAndReturn, Return, SlotTypeOK, RecordEffect
<1> QED BY <1>1, <1>2, <1>3, <1>4, <1>5, <1>6, <1>7, <1>8 DEF GateStep

\* So a forward whose intent nobody else held stays as it was recorded.
LEMMA StepRecordInv ==
    ASSUME IInv, RecordInv, NEW p \in Slots, RecordEffect(p), NoteSharing
    PROVE  RecordInv'
<1>0. /\ pend \in [Slots -> Ids \cup {NoIntent}]
      /\ \A q \in Slots : pend'[q] \in Ids \cup {NoIntent}
      /\ \A f \in forwards : f.intent \in Ids \cup {NoIntent}
      /\ shared \subseteq shared'
  BY DEF IInv, TypeOK, SlotTypeOK, HistoryTypeOK, RecordEffect, NoteSharing
<1>1. ASSUME NEW q \in Slots, NEW r \in Slots, q # r, pend'[q] = pend'[r]
      PROVE  pend'[q] \in shared' \cup {NoIntent}
  BY <1>0, <1>1 DEF NoteSharing
<1>2. ASSUME NEW f \in forwards, f.intent \notin shared' \cup {NoIntent}
      PROVE  /\ intents'[f.intent] = intents[f.intent] /\ f.intent \in Ids
             /\ intents[f.intent].status = "verified" /\ SettlesWith(intents[f.intent], f.rq)
             /\ \A q \in Slots : pend'[q] # f.intent
  <2>1. /\ f.intent \in Ids /\ f.intent \notin shared \cup {NoIntent}
        /\ intents[f.intent].status = "verified" /\ SettlesWith(intents[f.intent], f.rq)
        /\ \A q \in Slots : pend[q] # f.intent
    BY <1>0, <1>2 DEF RecordInv, ForwardStaysRecorded
  <2> QED BY <1>2, <2>1 DEF RecordEffect
<1>3. ASSUME NEW f \in forwards', f \notin forwards,
             f.intent \notin shared' \cup {NoIntent}
      PROVE  /\ intents'[f.intent].status = "verified" /\ SettlesWith(intents'[f.intent], f.rq)
             /\ \A q \in Slots : pend'[q] # f.intent
  <2>1. /\ f.intent = pend[p] /\ f.rq = rq[p] /\ pend'[p] = NoIntent
        /\ intents'[pend[p]].status = "verified" /\ SettlesWith(intents'[pend[p]], rq[p])
    BY <1>3 DEF RecordEffect
  <2>2. \A q \in Slots \ {p} : pend'[q] # pend[p]
    BY <1>0, <1>3, <2>1 DEF RecordInv, RecordEffect
  <2> QED BY <1>3, <2>1, <2>2
<1>4. ForwardStaysRecorded'
  BY <1>2, <1>3 DEF ForwardStaysRecorded
<1> QED BY <1>1, <1>2, <1>3, <1>4 DEF RecordInv

\* The invariant of the record, in every reachable state.
THEOREM RecordInvariance == Spec => []RecordInv
<1>1. Init => RecordInv
  BY DEF Init, RecordInv, ForwardStaysRecorded
<1>2. IInv /\ RecordInv /\ [Next]_vars => RecordInv'
  <2>1. ASSUME intents' = intents, UNCHANGED <<pend, forwards, shared>>, RecordInv
        PROVE  RecordInv'
    BY <2>1 DEF RecordInv, ForwardStaysRecorded
  <2>2. TimeLapses \/ UNCHANGED vars => intents' = intents /\ UNCHANGED <<pend, forwards, shared>>
    BY DEF TimeLapses, Lapse, gateVars, vars, tableVars
  <2> QED BY <2>1, <2>2, StepRecords, StepRecordInv DEF Next
<1> QED BY <1>1, <1>2, Invariance, PTL DEF Spec

\* A forward whose intent no other request held at the same time is never
\* undone: its row stays verified and tied to its proof.
THEOREM RecordsStay == Spec => []ForwardStaysRecorded
<1>1. RecordInv => ForwardStaysRecorded
  BY DEF RecordInv
<1> QED BY <1>1, RecordInvariance, PTL

\* One proof does not pay for two requests with intents of their own: their rows
\* would be two rows with one payment id or token.
THEOREM UnsharedProofsBound == Spec => []UnsharedProofBound
<1>1. IInv /\ RecordInv => UnsharedProofBound
  <2> SUFFICES ASSUME IInv, RecordInv, NEW f \in forwards, NEW g \in forwards,
                      {f.intent, g.intent} \cap (shared \cup {NoIntent}) = {},
                      Shares(f.rq, g.rq)
               PROVE  f.rq.hash = g.rq.hash
    BY DEF UnsharedProofBound
  <2>1. /\ SettlesWith(intents[f.intent], f.rq) /\ SettlesWith(intents[g.intent], g.rq)
        /\ f.intent \in Ids /\ g.intent \in Ids
    BY DEF RecordInv, ForwardStaysRecorded, IInv, TypeOK, HistoryTypeOK
  <2>2. f.intent = g.intent
    BY <2>1 DEF SettlesWith, Shares, IInv, IndexesHold, KeepsIndexes
  <2> QED BY <2>1, <2>2 DEF SettlesWith
<1> QED BY <1>1, Invariance, RecordInvariance, PTL

-----------------------------------------------------------------------------
(* Refusals of a replay. *)

\* A refusal of a replay names a payment that was accepted for another request.
Justified(r) == \E other \in paid : Shares(other, r) /\ other.hash # r.hash

\* What a step of slot p does to its refusal.
RefusalEffect(p) ==
    /\ \A q \in Slots \ {p} : pc'[q] = pc[q] /\ rq'[q] = rq[q] /\ refusal'[q] = refusal[q]
    /\ paid \subseteq paid'
    /\ pc'[p] # "log" => refusal'[p] = "none"
    /\ refusal'[p] = "x402_replay_blocked" => Justified(rq'[p])
    /\ pc'[p] = "replay_id" => rq'[p].pid # None
    /\ pc'[p] = "replay_token" => rq'[p].tok # None

\* A request that goes on carries no refusal, one that ends none any more, and one that
\* is refused has its own.
LEMMA RefusalMoves ==
    ASSUME SlotTypeOK, ReplayInv, NEW p \in Slots, paid \subseteq paid',
           \/ \E await \in Awaits \ {"log"} :
                /\ GoTo(p, await) /\ pc[p] # "log"
                /\ await = "replay_id" => rq[p].pid # None
                /\ await = "replay_token" => rq[p].tok # None
           \/ Return(p)
           \/ \E kind \in Logged \ {"x402_replay_blocked"} : LogAndReturn(p, kind)
    PROVE  RefusalEffect(p)
<1>1. ASSUME NEW await \in Awaits \ {"log"}, GoTo(p, await), pc[p] # "log",
             await = "replay_id" => rq[p].pid # None,
             await = "replay_token" => rq[p].tok # None
      PROVE  RefusalEffect(p)
  <2>1. refusal' = refusal /\ refusal[p] = "none" /\ rq' = rq
    BY <1>1 DEF GoTo, ReplayInv
  <2>2. pc'[p] = await /\ \A q \in Slots \ {p} : pc'[q] = pc[q]
    BY <1>1 DEF GoTo, SlotTypeOK
  <2> QED BY <1>1, <2>1, <2>2 DEF RefusalEffect
<1>2. CASE Return(p)
  BY <1>2 DEF Return, SlotTypeOK, RefusalEffect
<1>3. CASE \E kind \in Logged \ {"x402_replay_blocked"} : LogAndReturn(p, kind)
  BY <1>3 DEF LogAndReturn, SlotTypeOK, RefusalEffect
<1> QED BY <1>1, <1>2, <1>3

\* A verified row that the check finds for another hash was paid for, and as one kind
\* of header is in use, with the very header that found it.
LEMMA FoundIsPaid ==
    ASSUME IInv, OneHeaderKind, NEW r \in Request, NEW i \in Ids,
           \/ r.pid # None /\ i \in VerifiedByPaymentId(r.pid)
           \/ r.tok # None /\ i \in VerifiedByPaymentToken(r.tok),
           intents[i].hash # r.hash
    PROVE  Justified(r)
<1>1. intents[i].status = "verified"
  BY DEF VerifiedByPaymentId, VerifiedByPaymentToken
<1>2. PICK other \in paid : SettlesWith(intents[i], other)
  BY <1>1 DEF IInv, VerifiedWasPaid
<1>3. other \in Request
  BY DEF IInv, TypeOK, HistoryTypeOK
<1>4. other.hash # r.hash
  BY <1>2 DEF SettlesWith
<1>5. CASE PayTokens = {}
  <2>1. other.tok = None /\ r.tok = None
    BY <1>3, <1>5 DEF Request, OptToken
  <2>2. other.pid # None /\ intents[i].pid = other.pid
    BY <1>2, <2>1 DEF SettlesWith, HasProof
  <2> QED BY <1>4, <2>1, <2>2 DEF VerifiedByPaymentId, Shares, Justified
<1>6. CASE PayIds = {}
  <2>1. other.pid = None /\ r.pid = None
    BY <1>3, <1>6 DEF Request, OptId
  <2>2. other.tok # None /\ intents[i].tok = other.tok
    BY <1>2, <2>1 DEF SettlesWith, HasProof
  <2> QED BY <1>4, <2>1, <2>2 DEF VerifiedByPaymentToken, Shares, Justified
<1> QED BY <1>5, <1>6 DEF OneHeaderKind

\* Every step of the gate has that effect.
LEMMA StepRefuses ==
    ASSUME IInv, ReplayInv, OneHeaderKind, NEW p \in Slots, GateStep(p)
    PROVE  RefusalEffect(p)
<1>0. SlotTypeOK /\ SlotOK(p)
  BY DEF IInv, TypeOK, SlotsOK
<1>1. ASSUME NEW r \in Request, ArriveUnregistered(p, r) \/ ArriveGated(p, r)
      PROVE  RefusalEffect(p)
  <2>1. refusal[p] = "none" /\ paid' = paid
    BY <1>1 DEF ReplayInv, ArriveUnregistered, ArriveGated, Arrive
  <2> QED BY <1>0, <1>1, <2>1 DEF ArriveUnregistered, ArriveGated, Arrive, SlotTypeOK,
                                  RefusalEffect
<1>2. CASE Expire(p)
  <2>1. /\ AfterBody(rq[p]) \in Awaits \ {"log"}
        /\ AfterBody(rq[p]) = "replay_id" => rq[p].pid # None
        /\ AfterBody(rq[p]) = "replay_token" => rq[p].tok # None
    BY DEF AfterBody, AfterReplayId, Awaits
  <2> QED BY <1>0, <1>2, <2>1, RefusalMoves DEF Expire
<1>3. ASSUME CheckReplayId(p) \/ CheckReplayToken(p) PROVE RefusalEffect(p)
  <2>1. PICK found, next :
          /\ next \in {"replay_token", "find"} /\ ReplayStep(p, found, next)
          /\ next = "replay_token" => rq[p].tok # None
          /\ \/ /\ found = VerifiedByPaymentId(rq[p].pid)
                /\ pc[p] = "replay_id" /\ rq[p].pid # None
             \/ /\ found = VerifiedByPaymentToken(rq[p].tok)
                /\ pc[p] = "replay_token" /\ rq[p].tok # None
    BY <1>3 DEF CheckReplayId, CheckReplayToken, AfterReplayId, ReplayInv
  <2>2. rq[p] \in Request /\ pc[p] # "log" /\ paid' = paid
    BY <1>0, <2>1 DEF SlotOK, ReplayStep
  <2>3. CASE GoTo(p, next) \/ Return(p)
    <3>1. next \in Awaits \ {"log"}
      BY <2>1 DEF Awaits
    <3> QED BY <1>0, <2>1, <2>2, <2>3, <3>1, RefusalMoves
  <2>4. CASE UsedElsewhere(found, rq[p].hash) /\ LogAndReturn(p, "x402_replay_blocked")
    <3>1. PICK i \in found : intents[i].hash # rq[p].hash
      BY <2>4 DEF UsedElsewhere
    <3>2. i \in Ids
      BY <2>1 DEF VerifiedByPaymentId, VerifiedByPaymentToken
    <3>3. Justified(rq[p])
      BY <2>1, <2>2, <3>1, <3>2, FoundIsPaid
    <3> QED BY <1>0, <2>2, <2>4, <3>3 DEF LogAndReturn, SlotTypeOK, RefusalEffect
  <2> QED BY <2>1, <2>3, <2>4 DEF ReplayStep
<1>4. CASE FindPending(p)
  <2>1. paid' = paid /\ pc[p] = "find"
    BY <1>4 DEF FindPending
  <2>2. CASE Return(p)
    BY <1>0, <2>1, <2>2, RefusalMoves
  <2>3. CASE pc' = [pc EXCEPT ![p] = "verify"] /\ UNCHANGED <<rq, refusal>>
    <3>1. refusal[p] = "none"
      BY <2>1 DEF ReplayInv
    <3> QED BY <1>0, <2>1, <2>3, <3>1 DEF SlotTypeOK, RefusalEffect
  <2> QED BY <1>4, <2>2, <2>3 DEF FindPending
<1>5. CASE Verify(p)
  <2>1. paid \subseteq paid' /\ pc[p] = "verify"
    BY <1>5 DEF Verify, Accepted, Rejected, ProviderError
  <2>2. \/ \E await \in Awaits \ {"log", "replay_id", "replay_token"} : GoTo(p, await)
        \/ Return(p)
        \/ \E kind \in Logged \ {"x402_replay_blocked"} : LogAndReturn(p, kind)
    BY <1>5 DEF Verify, Accepted, Rejected, ProviderError, RunNext, Awaits, Logged
  <2> QED BY <1>0, <2>1, <2>2, RefusalMoves
<1>6. CASE MarkVerifiedStep(p) \/ MarkFailedStep(p) \/ MarkFailedOnError(p) \/ Insert(p)
  <2>1. paid' = paid
    BY <1>6 DEF MarkVerifiedStep, MarkFailedStep, MarkFailedOnError, Insert
  <2>2. \/ Return(p)
        \/ \E kind \in Logged \ {"x402_replay_blocked"} : LogAndReturn(p, kind)
    BY <1>6 DEF MarkVerifiedStep, MarkFailedStep, MarkFailedOnError, Insert, RunNext, Logged
  <2> QED BY <1>0, <2>1, <2>2, RefusalMoves
<1>7. CASE Log(p) \/ Drop(p)
  BY <1>0, <1>7, RefusalMoves DEF Log, Drop
<1> QED BY <1>1, <1>2, <1>3, <1>4, <1>5, <1>6, <1>7 DEF GateStep

\* Where one kind of payment header is in use, a proof is refused as a replay only if the
\* provider accepted it before for another request (middleware.rs 167-258).  With both
\* kinds the refusal may be wrong: COALESCE can leave the id of a proof that was rejected
\* on a row that another proof verified.
THEOREM ReplaysAreJustified ==
    ASSUME OneHeaderKind PROVE Spec => []ReplayRefusalJustified
<1>1. Init => ReplayInv
  BY DEF Init, ReplayInv, ReplayRefusalJustified
<1>2. IInv /\ ReplayInv /\ [Next]_vars => ReplayInv'
  <2> SUFFICES ASSUME IInv, ReplayInv, [Next]_vars PROVE ReplayInv'
    OBVIOUS
  <2>1. ASSUME NEW p \in Slots, GateStep(p) PROVE ReplayInv'
    <3>1. RefusalEffect(p)
      BY <2>1, StepRefuses
    <3>2. ASSUME NEW q \in Slots
          PROVE  /\ pc'[q] # "log" => refusal'[q] = "none"
                 /\ refusal'[q] = "x402_replay_blocked" =>
                      \E r \in paid' : Shares(r, rq'[q]) /\ r.hash # rq'[q].hash
                 /\ pc'[q] = "replay_id" => rq'[q].pid # None
                 /\ pc'[q] = "replay_token" => rq'[q].tok # None
      BY <3>1 DEF RefusalEffect, Justified, ReplayInv, ReplayRefusalJustified
    <3> QED BY <3>2 DEF ReplayInv, ReplayRefusalJustified
  <2>2. CASE TimeLapses \/ UNCHANGED vars
    <3>1. UNCHANGED <<pc, rq, refusal, paid>>
      BY <2>2 DEF TimeLapses, gateVars, vars
    <3> QED BY <3>1 DEF ReplayInv, ReplayRefusalJustified
  <2> QED BY <2>1, <2>2 DEF Next
<1>3. ReplayInv => ReplayRefusalJustified
  BY DEF ReplayInv
<1> QED BY <1>1, <1>2, <1>3, Invariance, PTL DEF Spec

-----------------------------------------------------------------------------
(* The table implements the ledger of intents. *)

\* The mapped status, owner and settled, as they change when the table does.
LEMMA LedgerInitMaps == Init => Ledger!LedgerInit
<1> SUFFICES ASSUME Init PROVE Ledger!LedgerInit
  OBVIOUS
<1>1. intents = [i \in Ids |-> AbsentRow] /\ paid = {}
  BY DEF Init, TableInit
<1>2. \A i \in Ids : intents[i].status = "absent"
                     /\ <<intents[i].vk, intents[i].hash>> = <<None, None>>
  BY <1>1 DEF AbsentRow
<1> QED BY <1>1, <1>2 DEF Ledger!LedgerInit

\* A step that changes neither the table nor the accepted payments stutters.
LEMMA LedgerStutters ==
    ASSUME intents' = intents, paid' = paid
    PROVE  UNCHANGED Ledger!ledger
BY DEF Ledger!ledger

\* Marking an intent verified or failed is MarkPaid or MarkUnpaid of the ledger.
LEMMA LedgerSettles ==
    ASSUME IInv, NEW p \in Slots, NEW st \in {"verified", "failed"},
           pc[p] \in {"mark_verified", "mark_failed", "mark_failed_error"},
           st = "verified" => pc[p] = "mark_verified",
           Settle(pend[p], st, rq[p].pid, rq[p].tok), paid' = paid
    PROVE  Ledger!LedgerNext
<1>0. pend[p] \in Ids
  BY DEF IInv, TypeOK, SlotTypeOK, SlotsOK, SlotOK
<1> PICK i \in Ids : i = pend[p]
  BY <1>0
<1>1. /\ i \in Ids /\ i <= count /\ rq[p] \in Request /\ HasProof(rq[p])
      /\ intents[i].vk = rq[p].vk /\ intents[i].hash = rq[p].hash
      /\ st = "verified" => rq[p] \in paid
      /\ TableTypeOK /\ IndexesHold /\ TableTypeOK'
  BY MarkEffect DEF IInv, TypeOK, SlotTypeOK, SlotsOK, SlotOK, TableEffect
<1>2. /\ intents'[i].status = st
      /\ intents'[i].vk = intents[i].vk /\ intents'[i].hash = intents[i].hash
      /\ \A j \in Ids \ {i} : intents'[j] = intents[j]
  BY <1>1, SettleKeeps DEF KeysFixed
<1>3. intents[i].status # "absent" /\ intents \in [Ids -> Row]
  BY <1>1, IntentAssumption DEF TableTypeOK, Ids
<1>4. [j \in Ids |-> intents'[j].status]
        = [[j \in Ids |-> intents[j].status] EXCEPT ![i] = st]
  BY <1>1, <1>2
<1>5. [j \in Ids |-> <<intents'[j].vk, intents'[j].hash>>]
        = [j \in Ids |-> <<intents[j].vk, intents[j].hash>>]
  BY <1>2
<1>6. CASE st = "failed"
  <2>1. Ledger!MarkUnpaid(i)
    BY <1>1, <1>3, <1>4, <1>5, <1>6 DEF Ledger!MarkUnpaid
  <2> QED BY <1>1, <2>1 DEF Ledger!LedgerNext
<1>7. CASE st = "verified"
  <2>1. \A j \in Ids \ {i} : intents[j].status = "verified" =>
          <<intents[j].vk, intents[j].hash>> # <<intents[i].vk, intents[i].hash>>
    <3>1. KeepsIndexes(i, SettledRow(intents[i], st, rq[p].pid, rq[p].tok))
      BY DEF Settle
    <3>2. LET row == SettledRow(intents[i], st, rq[p].pid, rq[p].tok)
          IN  /\ row.status = "verified"
              /\ row.vk = intents[i].vk /\ row.hash = intents[i].hash
      BY <1>1, <1>3, <1>7 DEF SettledRow, Row
    <3> QED BY <3>1, <3>2 DEF KeepsIndexes
  <2>2. <<intents[i].vk, intents[i].hash>> \in {<<r.vk, r.hash>> : r \in paid}
    BY <1>1, <1>7
  <2>3. Ledger!MarkPaid(i)
    BY <1>1, <1>3, <1>4, <1>5, <1>7, <2>1, <2>2 DEF Ledger!MarkPaid
  <2> QED BY <1>1, <2>3 DEF Ledger!LedgerNext
<1> QED BY <1>6, <1>7

\* The expiry sweep is a Sweep of the ledger.
LEMMA LedgerSweeps ==
    ASSUME IInv, ExpireStale, paid' = paid
    PROVE  Ledger!LedgerNext
<1> PICK overdue \in SUBSET Ids :
       overdue = {i \in Ids : intents[i].status = "pending" /\ i <= lapsed}
  OBVIOUS
<1>1. intents \in [Ids -> Row]
  BY DEF IInv, TypeOK, TableTypeOK
<1>2. \A i \in Ids :
        /\ intents'[i].status = IF i \in overdue THEN "expired" ELSE intents[i].status
        /\ intents'[i].vk = intents[i].vk /\ intents'[i].hash = intents[i].hash
  BY <1>1 DEF ExpireStale, Row
<1>3. [j \in Ids |-> <<intents'[j].vk, intents'[j].hash>>]
        = [j \in Ids |-> <<intents[j].vk, intents[j].hash>>]
  BY <1>2
<1>4. Ledger!Sweep(overdue)
  BY <1>2, <1>3 DEF Ledger!Sweep
<1> QED BY <1>4 DEF Ledger!LedgerNext

\* Inserting an intent opens one in the ledger.
LEMMA LedgerOpens ==
    ASSUME IInv, NEW vk \in VKs, NEW hash \in Hashes,
           InsertIntent(vk, hash), paid' = paid
    PROVE  Ledger!LedgerNext
<1>0. count + 1 \in Ids
  BY IntentAssumption DEF IInv, TypeOK, TableTypeOK, InsertIntent, Ids
<1> PICK i \in Ids : i = count + 1
  BY <1>0
<1> DEFINE new == [status |-> "pending", vk |-> vk, hash |-> hash,
                   pid |-> None, tok |-> None]
<1>1. /\ i \in Ids /\ intents \in [Ids -> Row] /\ intents[i].status = "absent"
      /\ intents' = [intents EXCEPT ![i] = new]
  BY IntentAssumption DEF IInv, TypeOK, TableTypeOK, InsertIntent, Ids
<1>2. [j \in Ids |-> intents'[j].status]
        = [[j \in Ids |-> intents[j].status] EXCEPT ![i] = "pending"]
  BY <1>1
<1>3. [j \in Ids |-> <<intents'[j].vk, intents'[j].hash>>]
        = [[j \in Ids |-> <<intents[j].vk, intents[j].hash>>]
             EXCEPT ![i] = <<vk, hash>>]
  BY <1>1
<1>4. Ledger!Open(i, <<vk, hash>>)
  BY <1>1, <1>2, <1>3 DEF Ledger!Open
<1> QED BY <1>1, <1>4 DEF Ledger!LedgerNext

\* A verdict of the provider pays for the request's key in the ledger.
LEMMA LedgerPays ==
    ASSUME IInv, NEW p \in Slots, rq[p] \in Request, intents' = intents,
           paid' = paid \cup {rq[p]}
    PROVE  Ledger!LedgerNext
<1>1. {<<r.vk, r.hash>> : r \in paid'}
        = {<<r.vk, r.hash>> : r \in paid} \cup {<<rq[p].vk, rq[p].hash>>}
  OBVIOUS
<1>2. <<rq[p].vk, rq[p].hash>> \in VKs \X Hashes
  BY DEF Request
<1>3. PICK k \in VKs \X Hashes : k = <<rq[p].vk, rq[p].hash>>
  BY <1>2
<1>4. Ledger!Pay(k)
  BY <1>1, <1>3 DEF Ledger!Pay
<1> QED BY <1>4 DEF Ledger!LedgerNext

\* Every step of the gate is a step of the ledger, or none.
LEMMA LedgerStep ==
    ASSUME IInv, Next
    PROVE  [Ledger!LedgerNext]_(Ledger!ledger)
<1>1. CASE TimeLapses
  BY <1>1, LedgerStutters DEF TimeLapses, Lapse, gateVars
<1>2. ASSUME NEW p \in Slots, GateStep(p)
      PROVE  [Ledger!LedgerNext]_(Ledger!ledger)
  <2>1. SlotOK(p)
    BY DEF IInv, SlotsOK
  <2>2. CASE intents' = intents /\ paid' = paid
    BY <2>2, LedgerStutters
  <2>3. CASE Expire(p)
    BY <2>2, <2>3, LedgerSweeps DEF Expire, tableVars
  <2>4. CASE Verify(p)
    <3>1. intents' = intents /\ rq[p] \in Request
      BY <2>1, <2>4 DEF Verify, tableVars, SlotOK
    <3> QED BY <2>2, <2>4, <3>1, LedgerPays
            DEF Verify, Accepted, Rejected, ProviderError
  <2>5. CASE MarkVerifiedStep(p)
    BY <2>2, <2>5, LedgerSettles DEF MarkVerifiedStep, MarkVerified, tableVars
  <2>6. CASE MarkFailedStep(p)
    BY <2>2, <2>6, LedgerSettles DEF MarkFailedStep, MarkFailed, tableVars
  <2>7. CASE MarkFailedOnError(p)
    BY <2>2, <2>7, LedgerSettles DEF MarkFailedOnError, MarkFailed, tableVars
  <2>8. CASE Insert(p)
    <3>1. rq[p].vk \in VKs /\ rq[p].hash \in Hashes
      BY <2>1, <2>8 DEF Insert, SlotOK, Request
    <3> QED BY <2>2, <2>8, <3>1, LedgerOpens DEF Insert, tableVars
  <2>9. ASSUME NEW r \in Request, ArriveUnregistered(p, r) \/ ArriveGated(p, r)
        PROVE  intents' = intents /\ paid' = paid
    BY <2>9 DEF ArriveUnregistered, ArriveGated, Arrive, tableVars
  <2>10. CASE CheckReplayId(p) \/ CheckReplayToken(p) \/ FindPending(p)
              \/ Log(p) \/ Drop(p)
    BY <2>2, <2>10 DEF CheckReplayId, CheckReplayToken, ReplayStep, FindPending,
                       Log, Drop, tableVars
  <2> QED BY <1>2, <2>2, <2>3, <2>4, <2>5, <2>6, <2>7, <2>8, <2>9, <2>10
          DEF GateStep
<1> QED BY <1>1, <1>2 DEF Next

\* payment_intents, as enforce_x402 drives it, implements IntentLedger.
THEOREM GateImplementsLedger == Spec => ImplementsLedger
<1>1. Init => Ledger!LedgerInit
  BY LedgerInitMaps
<1>2. IInv /\ [Next]_vars => [Ledger!LedgerNext]_(Ledger!ledger)
  <2>1. ASSUME UNCHANGED vars PROVE UNCHANGED Ledger!ledger
    BY <2>1, LedgerStutters DEF vars, tableVars, gateVars
  <2> QED BY <2>1, LedgerStep
<1> QED BY <1>1, <1>2, Invariance, PTL DEF Spec, ImplementsLedger, Ledger!LedgerSpec

=============================================================================
