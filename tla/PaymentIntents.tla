--------------------------- MODULE PaymentIntents ---------------------------
(***************************************************************************)
(* The payment_intents table of RelayKey and the statements the gateway    *)
(* runs against it (crates/relaykey-db/src/queries/payment_intents.rs,     *)
(* migrations 0011 and 0016).                                              *)
(*                                                                         *)
(* Every statement runs in autocommit mode, so it is one atomic change of  *)
(* the table.  An UPDATE that would put two rows under one key of a unique *)
(* index is refused as a whole.                                            *)
(*                                                                         *)
(* Abstractions.  A row's id is its insertion order, which is the order of *)
(* ts and, since every intent lives for the same 15 minutes, the order of  *)
(* expires_at: "expires_at < now()" is "id <= lapsed".  A request hash     *)
(* covers the method, the path with its query and the body, and the        *)
(* partner is the second segment of the path, so partner_name and path are *)
(* functions of the hash and are not stored apart from it.                 *)
(***************************************************************************)
EXTENDS Naturals

CONSTANTS
    VKs,          \* virtual keys
    Hashes,       \* request hashes
    PayIds,       \* values of X-Payment-Id
    PayTokens,    \* values of X-Payment-Token
    None,         \* SQL NULL, an absent header
    MaxIntents    \* bound on the rows ever inserted

ASSUME IntentAssumption ==
    /\ MaxIntents \in Nat
    /\ None \notin VKs \cup Hashes \cup PayIds \cup PayTokens

VARIABLES
    intents,      \* the table: row by id
    count,        \* rows inserted so far
    lapsed        \* rows whose expires_at has passed

tableVars == <<intents, count, lapsed>>

Ids == 1..MaxIntents

NoIntent == 0     \* an empty result set

Statuses == {"absent", "pending", "verified", "failed", "expired"}

OptId == PayIds \cup {None}
OptToken == PayTokens \cup {None}

Row == [status : Statuses, vk : VKs \cup {None}, hash : Hashes \cup {None},
        pid : OptId, tok : OptToken]

AbsentRow == [status |-> "absent", vk |-> None, hash |-> None,
              pid |-> None, tok |-> None]

TableInit ==
    /\ intents = [i \in Ids |-> AbsentRow]
    /\ count = 0
    /\ lapsed = 0

-----------------------------------------------------------------------------
(* Queries. *)

\* Mutation: the query forgets the request hash.
PendingForKey(vk, hash) ==
    {i \in Ids : intents[i].status = "pending" /\ intents[i].vk = vk}

\* Mutation: the query forgets the status.
IntentsFor(vk, hash) ==
    {i \in Ids : intents[i].vk = vk /\ intents[i].hash = hash}

PendingFor(vk, hash) ==
    {i \in Ids : /\ intents[i].status = "pending"
                 /\ intents[i].vk = vk
                 /\ intents[i].hash = hash}

\* ORDER BY ts DESC LIMIT 1: the newest pending row; expires_at is not read.
IsLatestPending(i, vk, hash) ==
    IF PendingFor(vk, hash) = {}
    THEN i = NoIntent
    ELSE /\ i \in PendingFor(vk, hash)
         /\ \A j \in PendingFor(vk, hash) : j <= i

VerifiedByPaymentId(pid) ==
    {i \in Ids : intents[i].status = "verified" /\ intents[i].pid = pid}

VerifiedByPaymentToken(tok) ==
    {i \in Ids : intents[i].status = "verified" /\ intents[i].tok = tok}

-----------------------------------------------------------------------------
(* Statements. *)

Coalesce(new, old) == IF new # None THEN new ELSE old

\* Mutation: the UPDATE sets the status alone.
StatusOnlyRow(row, status, pid, tok) == [row EXCEPT !.status = status]

SettledRow(row, status, pid, tok) ==
    [row EXCEPT !.status = status,
                !.pid = Coalesce(pid, row.pid),
                !.tok = Coalesce(tok, row.tok)]

\* The three partial unique indexes, for row replacing the row of id i.
KeepsIndexes(i, row) ==
    \A j \in Ids \ {i} :
        /\ row.pid # None => intents[j].pid # row.pid
        /\ row.tok # None => intents[j].tok # row.tok
        /\ (row.status = "verified" /\ intents[j].status = "verified")
             => ~(intents[j].vk = row.vk /\ intents[j].hash = row.hash)

\* INSERT ... VALUES (..., 'pending', now() + interval '15 minutes')
InsertIntent(vk, hash) ==
    /\ count < MaxIntents
    /\ count' = count + 1
    /\ intents' = [intents EXCEPT ![count + 1] =
                     [status |-> "pending", vk |-> vk, hash |-> hash,
                      pid |-> None, tok |-> None]]
    /\ UNCHANGED lapsed

\* UPDATE ... SET status, payment_id, payment_token WHERE id = $1: the status
\* the row has by now is not looked at.
Settle(i, status, pid, tok) ==
    LET row == SettledRow(intents[i], status, pid, tok)
    IN  /\ KeepsIndexes(i, row)
        /\ intents' = [intents EXCEPT ![i] = row]
        /\ UNCHANGED <<count, lapsed>>

MarkVerified(i, pid, tok) == Settle(i, "verified", pid, tok)

\* Mutation: the UPDATE writes a status the table does not know.
MarkRejected(i, pid, tok) == Settle(i, "rejected", pid, tok)

MarkFailed(i, pid, tok) == Settle(i, "failed", pid, tok)

\* Mutation: the sweep forgets the status.
ExpireOverdue ==
    /\ intents' = [i \in Ids |->
                     IF i <= lapsed THEN [intents[i] EXCEPT !.status = "expired"]
                     ELSE intents[i]]
    /\ UNCHANGED <<count, lapsed>>

\* UPDATE ... SET status = 'expired' WHERE status = 'pending' AND overdue
ExpireStale ==
    /\ intents' = [i \in Ids |->
                     IF intents[i].status = "pending" /\ i <= lapsed
                     THEN [intents[i] EXCEPT !.status = "expired"]
                     ELSE intents[i]]
    /\ UNCHANGED <<count, lapsed>>

\* Time goes by: the oldest intent not yet overdue becomes overdue.
Lapse ==
    /\ lapsed < count
    /\ lapsed' = lapsed + 1
    /\ UNCHANGED <<intents, count>>

-----------------------------------------------------------------------------
(* What the table guarantees by itself. *)

TableTypeOK ==
    /\ intents \in [Ids -> Row]
    /\ count \in 0..MaxIntents
    /\ lapsed \in 0..count
    /\ \A i \in Ids : intents[i].status = "absent" <=> i > count

IndexesHold == \A i \in Ids : KeepsIndexes(i, intents[i])

=============================================================================
