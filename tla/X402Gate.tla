------------------------------ MODULE X402Gate ------------------------------
(***************************************************************************)
(* The x402 payment gate: enforce_x402 in                                  *)
(* crates/relaykey_app/src/x402/middleware.rs, run by any number of        *)
(* requests at once over one payment_intents table.                        *)
(*                                                                         *)
(* A slot p handles one request at a time.  pc[p] names the await the      *)
(* request is suspended at, and every action is what the handler does from *)
(* one await to the next.  A statement may fail before it takes effect, or *)
(* take effect and still come back as an error when the reply is lost.     *)
(* The TimeoutLayer around the router, or a client that hangs up, drops    *)
(* the handler at whatever await it is at.                                 *)
(***************************************************************************)
EXTENDS PaymentIntents

CONSTANTS
    Slots,          \* requests that can be in flight at once
    Gated,          \* <<vk, hash>> for which resolve_x402_config is Some
    Unregistered,   \* those of Gated whose provider is not in the registry
    Verdicts        \* outcomes the payment provider can produce

ASSUME GateAssumption ==
    /\ Gated \subseteq VKs \X Hashes
    /\ Unregistered \subseteq Gated
    /\ Verdicts \subseteq {"verified", "rejected", "error"}

VARIABLES
    pc,             \* the await each request is suspended at
    rq,             \* the request: its key, hash and payment headers
    pend,           \* local pending_intent
    refusal,        \* the refusal being logged before it is returned
    paid,           \* history: requests whose proof the provider accepted
    forwards,       \* history: requests given to next.run, with their intent
    shared          \* history: intents two requests ever held at once

gateVars == <<pc, rq, pend, refusal, paid, forwards>>
vars == <<tableVars, gateVars, shared>>

Request == [vk : VKs, hash : Hashes, pid : OptId, tok : OptToken]

HasProof(r) == r.pid # None \/ r.tok # None

Awaits == {"expire", "replay_id", "replay_token", "find", "verify",
           "mark_verified", "mark_failed", "mark_failed_error", "insert", "log"}

\* Refusals that insert an x402_events row before they are returned.
Logged == {"x402_config_missing", "x402_replay_blocked", "x402_verify_failed",
           "x402_provider_error", "x402_intent_insert_failed"}

NoRequest == [vk |-> None, hash |-> None, pid |-> None, tok |-> None]

Init ==
    /\ TableInit
    /\ pc = [p \in Slots |-> "idle"]
    /\ rq = [p \in Slots |-> NoRequest]
    /\ pend = [p \in Slots |-> NoIntent]
    /\ refusal = [p \in Slots |-> "none"]
    /\ paid = {}
    /\ forwards = {}
    /\ shared = {}

-----------------------------------------------------------------------------
(* Ways a step ends.  The locals of a request die with it. *)

GoTo(p, await) ==
    /\ pc' = [pc EXCEPT ![p] = await]
    /\ UNCHANGED <<rq, pend, refusal>>

Return(p) ==
    /\ pc' = [pc EXCEPT ![p] = "idle"]
    /\ rq' = [rq EXCEPT ![p] = NoRequest]
    /\ pend' = [pend EXCEPT ![p] = NoIntent]
    /\ refusal' = [refusal EXCEPT ![p] = "none"]

\* A refusal that awaits insert_x402_event before it is returned.
LogAndReturn(p, kind) ==
    /\ pc' = [pc EXCEPT ![p] = "log"]
    /\ refusal' = [refusal EXCEPT ![p] = kind]
    /\ UNCHANGED <<rq, pend>>

RunNext(p) ==
    /\ Return(p)
    /\ forwards' = forwards \cup {[rq |-> rq[p], intent |-> pend[p]]}

-----------------------------------------------------------------------------
(* A request reaches the gate.  One that resolve_x402_config leaves ungated  *)
(* goes to next.run as it came and touches nothing here.                     *)

Arrive(p, r) ==
    /\ pc[p] = "idle"
    /\ rq' = [rq EXCEPT ![p] = r]
    /\ UNCHANGED <<tableVars, pend, paid, forwards>>

ArriveUnregistered(p, r) ==
    /\ <<r.vk, r.hash>> \in Unregistered
    /\ Arrive(p, r)
    /\ pc' = [pc EXCEPT ![p] = "log"]
    /\ refusal' = [refusal EXCEPT ![p] = "x402_config_missing"]

ArriveGated(p, r) ==
    /\ <<r.vk, r.hash>> \in Gated \ Unregistered
    /\ Arrive(p, r)
    /\ pc' = [pc EXCEPT ![p] = "expire"]
    /\ UNCHANGED refusal

AfterReplayId(r) == IF r.tok # None THEN "replay_token" ELSE "find"

AfterBody(r) ==
    IF ~HasProof(r) THEN "insert"
    ELSE IF r.pid # None THEN "replay_id"
    ELSE AfterReplayId(r)

\* expire_stale_payment_intents, whose error is only logged; then the body is
\* buffered, which may fail, and the payment headers decide the way on.
Expire(p) ==
    /\ pc[p] = "expire"
    /\ ExpireStale \/ UNCHANGED tableVars
    /\ GoTo(p, AfterBody(rq[p])) \/ Return(p)
    /\ UNCHANGED <<paid, forwards>>

-----------------------------------------------------------------------------
(* Replay checks and the look-up of the intent. *)

\* Mutation: any verified intent found counts as a replay.
UsedAtAll(found, hash) == found # {}

\* The verified intents found are for another request.
UsedElsewhere(found, hash) == \E i \in found : intents[i].hash # hash

ReplayStep(p, found, next) ==
    /\ \/ /\ UsedElsewhere(found, rq[p].hash)
          /\ LogAndReturn(p, "x402_replay_blocked")
       \/ /\ ~UsedElsewhere(found, rq[p].hash)
          /\ GoTo(p, next)
       \/ Return(p)
    /\ UNCHANGED <<tableVars, paid, forwards>>

CheckReplayId(p) ==
    /\ pc[p] = "replay_id"
    /\ ReplayStep(p, VerifiedByPaymentId(rq[p].pid), AfterReplayId(rq[p]))

CheckReplayToken(p) ==
    /\ pc[p] = "replay_token"
    /\ ReplayStep(p, VerifiedByPaymentToken(rq[p].tok), "find")

FindPending(p) ==
    /\ pc[p] = "find"
    /\ \/ \E i \in Ids \cup {NoIntent} :
            /\ IsLatestPending(i, rq[p].vk, rq[p].hash)
            /\ pc' = [pc EXCEPT ![p] = "verify"]
            /\ pend' = [pend EXCEPT ![p] = i]
            /\ UNCHANGED <<rq, refusal>>
       \/ Return(p)
    /\ UNCHANGED <<tableVars, paid, forwards>>

-----------------------------------------------------------------------------
(* The provider's verdict. *)

\* verified: mark the intent, or forward at once when none was pending.
Accepted(p) ==
    /\ paid' = paid \cup {rq[p]}
    /\ \/ /\ pend[p] # NoIntent
          /\ GoTo(p, "mark_verified")
          /\ UNCHANGED forwards
       \/ /\ pend[p] = NoIntent
          /\ RunNext(p)

\* not verified: mark the intent failed, log the event, answer 402.
Rejected(p) ==
    /\ \/ pend[p] # NoIntent /\ GoTo(p, "mark_failed")
       \/ pend[p] = NoIntent /\ LogAndReturn(p, "x402_verify_failed")
    /\ UNCHANGED <<paid, forwards>>

\* the provider errs: the same, answering 500.
ProviderError(p) ==
    /\ \/ pend[p] # NoIntent /\ GoTo(p, "mark_failed_error")
       \/ pend[p] = NoIntent /\ LogAndReturn(p, "x402_provider_error")
    /\ UNCHANGED <<paid, forwards>>

Verify(p) ==
    /\ pc[p] = "verify"
    /\ \/ "verified" \in Verdicts /\ Accepted(p)
       \/ "rejected" \in Verdicts /\ Rejected(p)
       \/ "error" \in Verdicts /\ ProviderError(p)
    /\ UNCHANGED tableVars

-----------------------------------------------------------------------------
(* Reconciling the intent. *)

MarkVerifiedStep(p) ==
    /\ pc[p] = "mark_verified"
    /\ \/ /\ MarkVerified(pend[p], rq[p].pid, rq[p].tok)
          /\ RunNext(p)
       \/ /\ MarkVerified(pend[p], rq[p].pid, rq[p].tok)   \* reply lost
          /\ Return(p) /\ UNCHANGED forwards
       \/ /\ UNCHANGED <<tableVars, forwards>>
          /\ Return(p)
    /\ UNCHANGED paid

MarkFailedStep(p) ==
    /\ pc[p] = "mark_failed"
    /\ \/ /\ MarkFailed(pend[p], rq[p].pid, rq[p].tok)
          /\ LogAndReturn(p, "x402_verify_failed")
       \/ /\ MarkFailed(pend[p], rq[p].pid, rq[p].tok)     \* reply lost
          /\ Return(p)
       \/ /\ UNCHANGED tableVars
          /\ Return(p)
    /\ UNCHANGED <<paid, forwards>>

\* After a provider error the result of the UPDATE is ignored.
MarkFailedOnError(p) ==
    /\ pc[p] = "mark_failed_error"
    /\ MarkFailed(pend[p], rq[p].pid, rq[p].tok) \/ UNCHANGED tableVars
    /\ LogAndReturn(p, "x402_provider_error")
    /\ UNCHANGED <<paid, forwards>>

\* No proof: create a pending intent and answer 402 with instructions.
Insert(p) ==
    /\ pc[p] = "insert"
    /\ \/ /\ InsertIntent(rq[p].vk, rq[p].hash)
          /\ Return(p)
       \/ /\ InsertIntent(rq[p].vk, rq[p].hash)            \* reply lost
          /\ LogAndReturn(p, "x402_intent_insert_failed")
       \/ /\ UNCHANGED tableVars
          /\ LogAndReturn(p, "x402_intent_insert_failed")
    /\ UNCHANGED <<paid, forwards>>

\* insert_x402_event: the row goes to x402_events, which the gate never reads;
\* its error is ignored and the refusal is returned either way.
Log(p) ==
    /\ pc[p] = "log"
    /\ Return(p)
    /\ UNCHANGED <<tableVars, paid, forwards>>

\* The 30 s TimeoutLayer or a disconnect drops the handler.
Drop(p) ==
    /\ pc[p] # "idle"
    /\ Return(p)
    /\ UNCHANGED <<tableVars, paid, forwards>>

-----------------------------------------------------------------------------

GateStep(p) ==
    \/ \E r \in Request : ArriveUnregistered(p, r) \/ ArriveGated(p, r)
    \/ Expire(p) \/ CheckReplayId(p) \/ CheckReplayToken(p) \/ FindPending(p)
    \/ Verify(p)
    \/ MarkVerifiedStep(p) \/ MarkFailedStep(p) \/ MarkFailedOnError(p)
    \/ Insert(p) \/ Log(p) \/ Drop(p)

\* Two requests hold one intent when both found it and neither is done with it.
NoteSharing ==
    shared' = shared \cup
        {i \in Ids : \E p, q \in Slots : p # q /\ pend'[p] = i /\ pend'[q] = i}

TimeLapses == Lapse /\ UNCHANGED <<gateVars, shared>>

Next == (\E p \in Slots : GateStep(p) /\ NoteSharing) \/ TimeLapses

Spec == Init /\ [][Next]_vars

-----------------------------------------------------------------------------
(* Properties that hold. *)

\* The variables stay in their types: the table, its bookkeeping, the slots of
\* enforce_x402 and the two histories.
SlotTypeOK ==
    /\ pc \in [Slots -> Awaits \cup {"idle"}]
    /\ rq \in [Slots -> Request \cup {NoRequest}]
    /\ pend \in [Slots -> Ids \cup {NoIntent}]
    /\ refusal \in [Slots -> Logged \cup {"none"}]

HistoryTypeOK ==
    /\ paid \subseteq Request
    /\ forwards \subseteq [rq : Request, intent : Ids \cup {NoIntent}]

TypeOK == TableTypeOK /\ SlotTypeOK /\ HistoryTypeOK

\* A verified row was verified by some request for the very same key and hash
\* whose proof the provider accepted, and it still carries all of that proof,
\* although concurrent requests settle one row several times and COALESCE
\* keeps what an earlier one left (middleware.rs 291-311, 334-354).
SettlesWith(row, r) ==
    /\ HasProof(r)
    /\ row.vk = r.vk /\ row.hash = r.hash
    /\ r.pid # None => row.pid = r.pid
    /\ r.tok # None => row.tok = r.tok

VerifiedWasPaid ==
    \A i \in Ids : intents[i].status = "verified" =>
        \E r \in paid : SettlesWith(intents[i], r)

\* A forwarded request carried a proof the provider accepted in that request,
\* and the intent it reconciled is its own and settled for good: no expiry
\* sweep that ran late, and no other request, turns it back into an intent
\* that is waiting for payment or has lapsed unpaid.
ForwardOK(f) ==
    /\ f.rq \in paid
    /\ f.intent # NoIntent =>
         /\ intents[f.intent].vk = f.rq.vk
         /\ intents[f.intent].hash = f.rq.hash
         /\ intents[f.intent].status \in {"verified", "failed"}

ForwardedWasPaid == \A f \in forwards : ForwardOK(f)

\* The inductive invariant behind both: the three unique indexes, and what a
\* request knows at each await.  The intent it found keeps its key and hash,
\* and a request about to mark an intent verified was accepted.
SlotOK(p) ==
    /\ pc[p] # "idle" => rq[p] \in Request
    /\ pc[p] \notin {"idle", "expire", "insert", "log"} => HasProof(rq[p])
    /\ pend[p] # NoIntent =>
         /\ pc[p] # "idle"
         /\ pend[p] <= count
         /\ intents[pend[p]].vk = rq[p].vk
         /\ intents[pend[p]].hash = rq[p].hash
    /\ pc[p] \in {"mark_verified", "mark_failed", "mark_failed_error"}
         => pend[p] # NoIntent
    /\ pc[p] = "mark_verified" => rq[p] \in paid

SlotsOK == \A p \in Slots : SlotOK(p)

IInv ==
    /\ TypeOK
    /\ IndexesHold
    /\ SlotsOK
    /\ VerifiedWasPaid
    /\ ForwardedWasPaid

\* The table implements the ledger of intents: status by status, key by key,
\* with the keys the provider has accepted a payment for.
Ledger == INSTANCE IntentLedger WITH
    Intents <- Ids,
    Keys <- VKs \X Hashes,
    NoKey <- <<None, None>>,
    status <- [i \in Ids |-> intents[i].status],
    owner <- [i \in Ids |-> <<intents[i].vk, intents[i].hash>>],
    settled <- {<<r.vk, r.hash>> : r \in paid}

ImplementsLedger == Ledger!LedgerSpec

\* A forward that reconciled an intent no other request held at the same time
\* is never undone, however requests overlap otherwise: the row stays verified
\* and tied to the proof, so the replay check keeps refusing that proof.
ForwardStaysRecorded ==
    \A f \in forwards : f.intent \notin shared \cup {NoIntent} =>
        /\ intents[f.intent].status = "verified"
        /\ SettlesWith(intents[f.intent], f.rq)

\* A proof is refused as a replay only if the provider accepted it before for
\* another request.  Holds while every client sends one kind of header.
Shares(r, s) ==
    \/ r.pid # None /\ r.pid = s.pid
    \/ r.tok # None /\ r.tok = s.tok

ReplayRefusalJustified ==
    \A p \in Slots : refusal[p] = "x402_replay_blocked" =>
        \E r \in paid : Shares(r, rq[p]) /\ r.hash # rq[p].hash

OneHeaderKind == PayIds = {} \/ PayTokens = {}

\* The inductive invariant behind it: no slot carries a refusal but while it logs one,
\* and a header is looked up only where it was sent.
ReplayInv ==
    /\ \A p \in Slots :
         /\ pc[p] # "log" => refusal[p] = "none"
         /\ pc[p] = "replay_id" => rq[p].pid # None
         /\ pc[p] = "replay_token" => rq[p].tok # None
    /\ ReplayRefusalJustified

\* One proof does not pay for two different requests, each with an intent of
\* its own that no other request held: where the replay check (middleware.rs
\* 167-258) is overtaken by a second request, the unique indexes refuse it.
UnsharedProofBound ==
    \A f, g \in forwards :
        (/\ {f.intent, g.intent} \cap (shared \cup {NoIntent}) = {}
         /\ Shares(f.rq, g.rq)) => f.rq.hash = g.rq.hash

\* The inductive invariant behind both: an intent two requests hold is shared,
\* and one that was forwarded and is not shared is in nobody's hands any more.
RecordInv ==
    /\ \A p, q \in Slots :
         p # q /\ pend[p] = pend[q] => pend[p] \in shared \cup {NoIntent}
    /\ ForwardStaysRecorded
    /\ \A f \in forwards, p \in Slots :
         f.intent \notin shared \cup {NoIntent} => pend[p] # f.intent

-----------------------------------------------------------------------------
(* What the documentation states and the code does not do. *)

\* docs/security.md:208, proofs are "bound to the request hash": no proof is
\* accepted and forwarded for two different requests.
ProofBoundToRequest ==
    \A f, g \in forwards : Shares(f.rq, g.rq) => f.rq.hash = g.rq.hash

\* The same of forwards that reconciled an intent, which the comment at
\* middleware.rs:167-169 promises ("if this payment proof was already used by
\* a DIFFERENT verified request_hash, block reuse").
RecordedProofBoundToRequest ==
    \A f, g \in forwards :
        (f.intent # NoIntent /\ g.intent # NoIntent /\ Shares(f.rq, g.rq))
            => f.rq.hash = g.rq.hash

=============================================================================
