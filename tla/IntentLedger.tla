---------------------------- MODULE IntentLedger ----------------------------
(***************************************************************************)
(* What the payment_intents table promises, whatever requests overlap.     *)
(* Each intent belongs to one (virtual key, request hash).  It opens       *)
(* pending and never comes back to pending; only a pending intent expires; *)
(* it is verified only after a payment for its own key was accepted; and   *)
(* one key has at most one verified intent.                                *)
(*                                                                         *)
(* The settlement of an intent is not final: a late verdict may overwrite  *)
(* an earlier verdict or an expiry, and this ledger says so.               *)
(***************************************************************************)
EXTENDS Naturals

CONSTANTS Intents, Keys, NoKey

VARIABLES
    status,     \* of each intent
    owner,      \* the key the intent was opened for
    settled     \* keys for which a payment was ever accepted

ledger == <<status, owner, settled>>

LedgerInit ==
    /\ status = [i \in Intents |-> "absent"]
    /\ owner = [i \in Intents |-> NoKey]
    /\ settled = {}

Open(i, k) ==
    /\ status[i] = "absent"
    /\ status' = [status EXCEPT ![i] = "pending"]
    /\ owner' = [owner EXCEPT ![i] = k]
    /\ UNCHANGED settled

Pay(k) ==
    /\ settled' = settled \cup {k}
    /\ UNCHANGED <<status, owner>>

MarkPaid(i) ==
    /\ status[i] # "absent"
    /\ owner[i] \in settled
    /\ \A j \in Intents \ {i} : status[j] = "verified" => owner[j] # owner[i]
    /\ status' = [status EXCEPT ![i] = "verified"]
    /\ UNCHANGED <<owner, settled>>

MarkUnpaid(i) ==
    /\ status[i] # "absent"
    /\ status' = [status EXCEPT ![i] = "failed"]
    /\ UNCHANGED <<owner, settled>>

Sweep(overdue) ==
    /\ \A i \in overdue : status[i] = "pending"
    /\ status' = [i \in Intents |-> IF i \in overdue THEN "expired" ELSE status[i]]
    /\ UNCHANGED <<owner, settled>>

LedgerNext ==
    \/ \E i \in Intents, k \in Keys : Open(i, k)
    \/ \E k \in Keys : Pay(k)
    \/ \E i \in Intents : MarkPaid(i) \/ MarkUnpaid(i)
    \/ \E overdue \in SUBSET Intents : Sweep(overdue)

LedgerSpec == LedgerInit /\ [][LedgerNext]_ledger

=============================================================================
