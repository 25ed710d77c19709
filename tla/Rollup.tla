------------------------------- MODULE Rollup -------------------------------
(***************************************************************************)
(* The daily rollups: crates/relaykey_app/src/bin/rollup.rs with the       *)
(* statements of crates/relaykey-db/src/queries/metrics.rs and             *)
(* x402_metrics.rs, and the two admin reports that read what they wrote.   *)
(*                                                                         *)
(* A run of the command upserts four tables, one statement after another   *)
(* and without a transaction, while the gateway goes on inserting and      *)
(* other runs may be under way.  A statement sees the rows committed when  *)
(* it starts, and overwrites the table with what it counted when it ends.  *)
(*                                                                         *)
(* Customer, virtual key and partner are one key: the first is a function  *)
(* of the second, and every table here is grouped by all three.  The x402  *)
(* tables are grouped by provider too.  Latencies are left out.            *)
(***************************************************************************)
EXTENDS Naturals, Sequences, FiniteSets

CONSTANTS
    Keys,        \* virtual keys, each with a customer and a partner
    Providers,   \* payment providers
    None,        \* NULL
    Reasons,     \* blocked_reason codes that are observed
    Statuses,    \* upstream statuses that are observed
    EventTypes,  \* event_type values of x402_events that are observed
    Jobs,        \* runs of the command that can overlap
    Ranges,      \* the [--from, --to) ranges observed
    Days,        \* bound: days observed
    MaxRows      \* bound: rows the gateway inserts

ASSUME RollupAssumption ==
    /\ Statuses \subseteq 100..999 /\ None \notin Reasons \cup Statuses
    /\ Days \in Nat \ {0} /\ MaxRows \in Nat
    /\ Ranges \subseteq (1..(Days + 1)) \X (1..(Days + 1))

VARIABLES
    source,      \* committed rows of usage_events, x402_events, payment_intents
    table,       \* the four daily tables: their rows by primary key
    job,         \* the runs of the command
    settled      \* history: source rows that a completed run must have counted

vars == <<source, table, job, settled>>

-----------------------------------------------------------------------------
(* Rows of the source tables.  usage.rs writes a reason for a request that   *)
(* was not forwarded and the status of one that was.                         *)

Outcome == [reason : Reasons, status : {None}] \cup [reason : {None}, status : Statuses]

IntentStatuses == {"pending", "verified", "failed", "expired"}

\* Row n of a table, of a day and key: what it says, and which provider it names.
Row(in, n, d, k, v, what) ==
    [in |-> in, id |-> n, day |-> d, key |-> k, provider |-> v, what |-> what]

\* usage_events names no provider.
UsageEvent(n, d, k, o) == Row("usage_events", n, d, k, None, o)

X402Event(n, d, k, v, e) == Row("x402_events", n, d, k, v, e)

Intent(n, d, k, v, s) == Row("payment_intents", n, d, k, v, s)

-----------------------------------------------------------------------------
(* The four SELECTs. *)

Tables == <<"usage_rollup_daily", "error_rollup_daily",
            "x402_rollup_daily", "x402_error_rollup_daily">>

TableNames == {Tables[i] : i \in 1..Len(Tables)}

Between(o, low, high) == o.status # None /\ o.status \in low..high

\* Mutation: the status is looked at before the reason.
BucketByStatus(o) ==
    CASE o.status = 504 -> "upstream_timeout"
      [] o.status = 502 -> "upstream_bad_gateway"
      [] Between(o, 500, 599) /\ o.status \notin {502, 504} -> "upstream_5xx"
      [] OTHER -> "upstream_4xx"

\* The CASE of rollup_error_daily; the bucket of a blocked request is its reason.
Bucket(o) ==
    IF o.reason # None THEN o.reason
    ELSE CASE o.status = 504 -> "upstream_timeout"
           [] o.status = 502 -> "upstream_bad_gateway"
           [] Between(o, 500, 599) /\ o.status \notin {502, 504} -> "upstream_5xx"
           [] Between(o, 400, 499) -> "upstream_4xx"
           [] OTHER -> "other"

\* The condition of rollup_error_daily.
IsError(o) == o.reason # None \/ o.status = None \/ o.status >= 400

\* The rows that the SELECT for table t reads.
Reads(t, row) ==
    CASE t = "usage_rollup_daily" -> row.in = "usage_events"
      [] t = "error_rollup_daily" -> row.in = "usage_events" /\ IsError(row.what)
      [] t = "x402_rollup_daily" -> row.in = "payment_intents"
      [] t = "x402_error_rollup_daily" -> row.in = "x402_events"

\* GROUP BY, which is the primary key of the table.
Group(t, row) ==
    CASE t = "error_rollup_daily" -> <<row.day, row.key, Bucket(row.what)>>
      [] t = "x402_error_rollup_daily" -> <<row.day, row.key, row.provider, row.what>>
      [] t = "x402_rollup_daily" -> <<row.day, row.key, row.provider>>
      [] t = "usage_rollup_daily" -> <<row.day, row.key>>

Columns(t) ==
    CASE t = "usage_rollup_daily" ->
           {"total", "forwarded", "blocked", "2xx", "3xx", "4xx", "5xx"}
      [] t = "x402_rollup_daily" ->
           {"intents_created", "verified", "failed", "expired", "unpaid"}
      [] OTHER -> {"count"}

\* The FILTER of each count.
InUsageColumn(c, o) ==
    CASE c = "total" -> TRUE
      [] c = "forwarded" -> o.reason = None
      [] c = "blocked" -> o.reason # None
      [] c = "2xx" -> Between(o, 200, 299)
      [] c = "3xx" -> Between(o, 300, 399)
      [] c = "4xx" -> Between(o, 400, 499)
      [] c = "5xx" -> Between(o, 500, 599)

InX402Column(c, s) ==
    \/ c = "intents_created"
    \/ c = "unpaid" /\ s = "pending"
    \/ c = s

Counts(t, c, row) ==
    CASE t = "usage_rollup_daily" -> InUsageColumn(c, row.what)
      [] t = "x402_rollup_daily" -> InX402Column(c, row.what)
      [] OTHER -> TRUE

\* What the SELECT for table t answers, over the rows it sees.
Aggregate(t, rows) ==
    LET read == {row \in rows : Reads(t, row)}
    IN  [g \in {Group(t, row) : row \in read} |->
           [c \in Columns(t) |->
              Cardinality({row \in read : Group(t, row) = g /\ Counts(t, c, row)})]]

\* f, and g where f says nothing.
Over(f, g) == [x \in DOMAIN f \cup DOMAIN g |-> IF x \in DOMAIN f THEN f[x] ELSE g[x]]

\* Mutation: the counts are added to those of an earlier run.
UpsertAdds(t, rows) ==
    LET new == Aggregate(t, rows)
    IN  Over([g \in DOMAIN new |-> IF g \in DOMAIN table[t]
                                   THEN [c \in Columns(t) |-> new[g][c] + table[t][g][c]]
                                   ELSE new[g]], table[t])

\* Mutation: ON CONFLICT DO NOTHING.
UpsertKeeps(t, rows) == Over(table[t], Aggregate(t, rows))

\* INSERT ... ON CONFLICT DO UPDATE SET column = EXCLUDED.column.
Upsert(t, rows) == Over(Aggregate(t, rows), table[t])

-----------------------------------------------------------------------------

NoRun == [at |-> 0, from |-> 1, to |-> 1, seen |-> {}, base |-> {}]

Init ==
    /\ source = {}
    /\ table = [t \in TableNames |-> <<>>]
    /\ job = [r \in Jobs |-> NoRun]
    /\ settled = {}

(* The gateway.  ts is now() when the INSERT starts and the row can be seen from *)
(* its commit on, which may be past midnight: rows of yesterday and of today       *)
(* appear in any order.                                                            *)

Ids(rows) == {row.id : row \in rows}

Insert(row) ==
    /\ source' = source \cup {row}
    /\ UNCHANGED <<table, job, settled>>

InsertSome ==
    LET n == Cardinality(source) + 1
    IN  /\ n <= MaxRows
        /\ \E k \in Keys, d \in 1..Days :
             \/ \E o \in Outcome : Insert(UsageEvent(n, d, k, o))
             \/ \E v \in Providers :
                  \/ \E e \in EventTypes : Insert(X402Event(n, d, k, v, e))
                  \/ Insert(Intent(n, d, k, v, "pending"))

\* mark_payment_intent_verified and _failed look at no status,
\* expire_stale_payment_intents only at pending ones.
SettleIntent(row, status) ==
    /\ row.in = "payment_intents"
    /\ status \in {"verified", "failed"} \/ (status = "expired" /\ row.what = "pending")
    /\ source' = (source \ {row}) \cup {[row EXCEPT !.what = status]}
    /\ UNCHANGED <<table, job, settled>>

-----------------------------------------------------------------------------
(* The command.  at is the statement it is at, and seen what that one saw when it *)
(* started, right after the one before it had ended: what happens in between       *)
(* could as well have happened before that.                                        *)

\* ts >= from and ts < to, for days that start at midnight.
InRange(row, from, to) == from <= row.day /\ row.day < to

\* Mutation: the range is not looked at.
SeesAll(i, from, to) == {row \in source : Reads(Tables[i], row)}

Sees(i, from, to) ==
    {row \in source : Reads(Tables[i], row) /\ InRange(row, from, to)}

\* base: what the run finds, unless an older run is under way and may yet write.
Begin(r, from, to) ==
    /\ job[r].at = 0
    /\ job' = [job EXCEPT ![r] =
         [at |-> 1, from |-> from, to |-> to, seen |-> Sees(1, from, to),
          base |-> IF \A s \in Jobs : job[s].at = 0
                   THEN Ids({row \in source : InRange(row, from, to)}) ELSE {}]]
    /\ UNCHANGED <<source, table, settled>>

\* The statement ends and the next one starts.
Continue(r) ==
    /\ job[r].at \in 1..(Len(Tables) - 1)
    /\ table' = [table EXCEPT ![Tables[job[r].at]] = Upsert(Tables[job[r].at], job[r].seen)]
    /\ job' = [job EXCEPT ![r].at = @ + 1,
                          ![r].seen = Sees(job[r].at + 1, job[r].from, job[r].to)]
    /\ UNCHANGED <<source, settled>>

\* The last statement ends, and what the run found when it began counts from now on.
Complete(r) ==
    LET last == Len(Tables)
    IN  /\ job[r].at = last
        /\ table' = [table EXCEPT ![Tables[last]] = Upsert(Tables[last], job[r].seen)]
        /\ job' = [job EXCEPT ![r] = NoRun]
        /\ settled' = settled \cup job[r].base
        /\ UNCHANGED source

\* A statement fails, or the command is killed.
Stop(r) ==
    /\ job[r].at # 0
    /\ job' = [job EXCEPT ![r] = NoRun]
    /\ UNCHANGED <<source, table, settled>>

Next ==
    \/ InsertSome
    \/ \E row \in source, status \in IntentStatuses : SettleIntent(row, status)
    \/ \E r \in Jobs : \/ \E range \in Ranges : Begin(r, range[1], range[2])
                       \/ Continue(r) \/ Complete(r) \/ Stop(r)

Spec == Init /\ [][Next]_vars

-----------------------------------------------------------------------------
(* Properties. *)

Rows ==
    UNION {{UsageEvent(n, d, k, o) : o \in Outcome}
           \cup {X402Event(n, d, k, v, e) : v \in Providers, e \in EventTypes}
           \cup {Intent(n, d, k, v, s) : v \in Providers, s \in IntentStatuses} :
           n \in 1..MaxRows, d \in 1..Days, k \in Keys}

UniqueIds(rows) == \A x, y \in rows : x.id = y.id => x = y

\* Rows have their own ids, and a run sees only rows of its range.
TypeOK ==
    /\ source \subseteq Rows /\ UniqueIds(source)
    /\ DOMAIN table = TableNames
    /\ \A t \in TableNames : \A g \in DOMAIN table[t] :
         g[1] \in 1..Days /\ g[2] \in Keys /\ table[t][g] \in [Columns(t) -> Nat]
    /\ job \in [Jobs -> [at : 0..Len(Tables), from : 1..(Days + 1), to : 1..(Days + 1),
                         seen : SUBSET Rows, base : SUBSET Ids(source)]]
    /\ \A r \in Jobs : \A row \in job[r].seen : InRange(row, job[r].from, job[r].to)
    /\ settled \subseteq Ids(source)

\* Counts that only grow: rows of the event tables stay as they are, an intent
\* changes its status.
Growing(t, c) == t = "x402_rollup_daily" => c = "intents_created"

\* Rollups can be run again, over the same or overlapping days, after a failure or
\* at the same time: no count ever exceeds the rows there are.
NeverOvercounts ==
    \A t \in TableNames :
        LET due == Aggregate(t, source)
        IN  \A g \in DOMAIN table[t] :
              /\ g \in DOMAIN due
              /\ \A c \in Columns(t) : Growing(t, c) => table[t][g][c] <= due[g][c]

\* The rows with these ids are in table t, as far as its counts keep: those that only
\* grow, and intents that are unpaid still.
Covers(t, ids) ==
    LET due == Aggregate(t, {row \in source : row.id \in ids})
    IN  \A g \in DOMAIN due :
          /\ g \in DOMAIN table[t]
          /\ \A c \in Columns(t) :
               Growing(t, c) \/ c = "unpaid" => table[t][g][c] >= due[g][c]

\* What a run found when it began is in all four tables when it has completed, and
\* stays there: runs that fail half way, that overlap it, or that write counts
\* older than its own (bin/rollup.rs:41) take nothing back, as long as they began
\* after it did. An intent that is unpaid still is reported as unpaid.
CompletedRunCounts == \A t \in TableNames : Covers(t, settled)

-----------------------------------------------------------------------------
(* The inductive invariant. *)

\* Row y is what has become of row x: itself, or the intent after it was settled.
Became(x, y) ==
    /\ x.in = y.in /\ x.id = y.id /\ x.day = y.day /\ x.key = y.key
    /\ x.provider = y.provider
    /\ x.what = y.what \/ (x.in = "payment_intents" /\ y.what # "pending")

\* Ids are given out one after the other, and no row that a run sees is ever deleted.
RowsStay ==
    /\ IsFiniteSet(source) /\ Ids(source) = 1..Cardinality(source)
    /\ \A r \in Jobs :
         /\ IsFiniteSet(job[r].seen) /\ UniqueIds(job[r].seen)
         /\ \A x \in job[r].seen : \E y \in source : Became(x, y)

\* A row that counts, or will when the run that found it completes, is seen by every run
\* under way whose range and statement it belongs to.
BasesSeen ==
    \A r \in Jobs :
        /\ \A y \in source : y.id \in job[r].base => InRange(y, job[r].from, job[r].to)
        /\ job[r].at # 0 => \A y \in source :
             (/\ y.id \in settled \/ \E s \in Jobs : y.id \in job[s].base
              /\ Reads(Tables[job[r].at], y) /\ InRange(y, job[r].from, job[r].to))
               => \E x \in job[r].seen : Became(x, y)

\* What the i-th table has to show: what counts, and what runs found that have written it.
Owed(i) == settled \cup UNION {job[r].base : r \in {s \in Jobs : job[s].at > i}}

OwedIsCounted == \A i \in 1..Len(Tables) : Covers(Tables[i], Owed(i))

RollupInv == TypeOK /\ RowsStay /\ NeverOvercounts /\ BasesSeen /\ OwedIsCounted

=============================================================================
