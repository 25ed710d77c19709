---------------------------- MODULE RollupProofs ----------------------------
(***************************************************************************)
(* Proofs about the daily rollups: no count exceeds the rows there are,    *)
(* and what a completed run found stays counted, for any number of runs,   *)
(* ranges and days, and however inserts, settlements, failing and          *)
(* overlapping runs are interleaved with the four statements.              *)
(***************************************************************************)
EXTENDS AdminReports, TLAPS, FiniteSetTheorems, WellFoundedInduction

-----------------------------------------------------------------------------
(* The four tables. *)

LEMMA TablesAre ==
    /\ Len(Tables) = 4
    /\ Tables[1] = "usage_rollup_daily" /\ Tables[2] = "error_rollup_daily"
    /\ Tables[3] = "x402_rollup_daily" /\ Tables[4] = "x402_error_rollup_daily"
    /\ TableNames = {"usage_rollup_daily", "error_rollup_daily", "x402_rollup_daily",
                     "x402_error_rollup_daily"}
    /\ \A i \in 1..4 : Tables[i] \in TableNames
    /\ \A i, j \in 1..4 : Tables[i] = Tables[j] => i = j
<1>1. /\ Len(Tables) = 4
      /\ Tables[1] = "usage_rollup_daily" /\ Tables[2] = "error_rollup_daily"
      /\ Tables[3] = "x402_rollup_daily" /\ Tables[4] = "x402_error_rollup_daily"
  BY DEF Tables
<1>2. 1..4 = {1, 2, 3, 4}
  OBVIOUS
<1>3. TableNames = {Tables[i] : i \in 1..4}
  BY <1>1 DEF TableNames
<1>4. TableNames = {"usage_rollup_daily", "error_rollup_daily", "x402_rollup_daily",
                     "x402_error_rollup_daily"}
  BY <1>1, <1>2, <1>3
<1>5. \A i, j \in 1..4 : Tables[i] = Tables[j] => i = j
  BY <1>1, <1>2
<1> QED BY <1>1, <1>3, <1>4, <1>5

\* The groups of a SELECT, and the rows it counts in a column of one.
Groups(t, rows) == {Group(t, row) : row \in {x \in rows : Reads(t, x)}}

Matching(t, g, c, rows) ==
    {row \in rows : Reads(t, row) /\ Group(t, row) = g /\ Counts(t, c, row)}

LEMMA AggregateIs ==
    ASSUME NEW t, NEW rows
    PROVE  /\ DOMAIN Aggregate(t, rows) = Groups(t, rows)
           /\ \A g \in Groups(t, rows), c \in Columns(t) :
                Aggregate(t, rows)[g][c] = Cardinality(Matching(t, g, c, rows))
           /\ \A g \in Groups(t, rows) :
                Aggregate(t, rows)[g] =
                  [c \in Columns(t) |-> Cardinality(Matching(t, g, c, rows))]
<1> DEFINE read == {row \in rows : Reads(t, row)}
<1>1. \A g, c : {row \in read : Group(t, row) = g /\ Counts(t, c, row)}
                  = Matching(t, g, c, rows)
  BY DEF Matching
<1>2. Groups(t, rows) = {Group(t, row) : row \in read}
  BY DEF Groups
<1>3. Aggregate(t, rows) =
        [g \in Groups(t, rows) |->
           [c \in Columns(t) |->
              Cardinality({row \in read : Group(t, row) = g /\ Counts(t, c, row)})]]
  BY <1>2 DEF Aggregate
<1> HIDE DEF read
<1> QED BY <1>1, <1>3

-----------------------------------------------------------------------------
(* Rows. *)

\* The rows of the model, one by one.
LEMMA RowsAre ==
    \A row : row \in Rows <=>
        \E n \in 1..MaxRows, d \in 1..Days, k \in Keys :
            \/ \E o \in Outcome : row = UsageEvent(n, d, k, o)
            \/ \E v \in Providers, e \in EventTypes : row = X402Event(n, d, k, v, e)
            \/ \E v \in Providers, s \in IntentStatuses : row = Intent(n, d, k, v, s)
<1> TAKE row
<1> DEFINE F(n, d, k) == {UsageEvent(n, d, k, o) : o \in Outcome}
                            \cup {X402Event(n, d, k, v, e) : v \in Providers, e \in EventTypes}
                            \cup {Intent(n, d, k, v, s) : v \in Providers, s \in IntentStatuses}
           All == {F(n, d, k) : n \in 1..MaxRows, d \in 1..Days, k \in Keys}
<1>1. Rows = UNION All
  BY DEF Rows
<1>2. row \in UNION All
        <=> \E n \in 1..MaxRows, d \in 1..Days, k \in Keys : row \in F(n, d, k)
  <2> HIDE DEF F
  <2> QED OBVIOUS
<1>3. \A n, d, k : row \in F(n, d, k) <=>
        \/ \E o \in Outcome : row = UsageEvent(n, d, k, o)
        \/ \E v \in Providers, e \in EventTypes : row = X402Event(n, d, k, v, e)
        \/ \E v \in Providers, s \in IntentStatuses : row = Intent(n, d, k, v, s)
  OBVIOUS
<1> HIDE DEF F, All
<1> QED BY <1>1, <1>2, <1>3

LEMMA RowTypes ==
    ASSUME NEW row \in Rows
    PROVE  /\ row.id \in 1..MaxRows /\ row.day \in 1..Days /\ row.key \in Keys
           /\ row.in = "payment_intents" => row.what \in IntentStatuses
           /\ row.in = "usage_events" => row.what \in Outcome
BY RowsAre DEF UsageEvent, X402Event, Intent, Row

\* A row that has been settled is a row again.
LEMMA SettledIsRow ==
    ASSUME NEW row \in Rows, row.in = "payment_intents", NEW status \in IntentStatuses
    PROVE  /\ [row EXCEPT !.what = status] \in Rows
           /\ [row EXCEPT !.what = status].what = status
           /\ status # "pending" => Became(row, [row EXCEPT !.what = status])
<1>1. PICK n \in 1..MaxRows, d \in 1..Days, k \in Keys, v \in Providers, s \in IntentStatuses :
        row = Intent(n, d, k, v, s)
  BY RowsAre DEF UsageEvent, X402Event, Row
<1>2. [row EXCEPT !.what = status] = Intent(n, d, k, v, status)
  BY <1>1 DEF Intent, Row
<1> QED BY <1>1, <1>2, RowsAre DEF Intent, Row, Became

LEMMA BecameTransitive ==
    ASSUME NEW x, NEW y, NEW z, Became(x, y), Became(y, z) PROVE Became(x, z)
BY DEF Became

LEMMA BecameReflexive == ASSUME NEW x PROVE Became(x, x)
BY DEF Became

\* What a row has become is read and grouped as it was, and counted as it was where
\* counts only grow; an intent that is unpaid still was so all the time.
LEMMA BecameKeeps ==
    ASSUME NEW x, NEW y, Became(x, y), NEW t \in TableNames
    PROVE  /\ Reads(t, x) <=> Reads(t, y)
           /\ Reads(t, x) => Group(t, x) = Group(t, y)
           /\ \A c \in Columns(t) : Reads(t, x) /\ Growing(t, c) =>
                (Counts(t, c, x) <=> Counts(t, c, y))
           /\ y \in Rows => \A c \in Columns(t) :
                Reads(t, x) /\ c = "unpaid" /\ Counts(t, c, y) => Counts(t, c, x)
<1>1. CASE t = "usage_rollup_daily"
  BY <1>1 DEF Became, Reads, Group, Counts, Columns
<1>2. CASE t = "error_rollup_daily"
  BY <1>2 DEF Became, Reads, Group, Counts, Columns
<1>3. CASE t = "x402_error_rollup_daily"
  BY <1>3 DEF Became, Reads, Group, Counts, Columns
<1>4. CASE t = "x402_rollup_daily"
  <2>1. Reads(t, x) <=> x.in = "payment_intents"
    BY <1>4 DEF Reads
  <2>2. Reads(t, y) <=> y.in = "payment_intents"
    BY <1>4 DEF Reads
  <2>3. /\ Group(t, x) = <<x.day, x.key, x.provider>>
        /\ Group(t, y) = <<y.day, y.key, y.provider>>
    BY <1>4 DEF Group
  <2>4. \A c \in Columns(t) : Growing(t, c) => Counts(t, c, x) /\ Counts(t, c, y)
    BY <1>4 DEF Growing, Counts, InX402Column
  <2>5. ASSUME y \in Rows, Reads(t, x), Counts(t, "unpaid", y) PROVE Counts(t, "unpaid", x)
    <3>1. y.what = "pending"
      BY <1>4, <2>1, <2>5, RowTypes DEF Became, Counts, InX402Column, IntentStatuses
    <3> QED BY <1>4, <3>1 DEF Became, Counts, InX402Column
  <2> QED BY <2>1, <2>2, <2>3, <2>4, <2>5 DEF Became
<1> QED BY <1>1, <1>2, <1>3, <1>4, TablesAre

\* Rows of one group are of one day.
LEMMA GroupIsOfDay ==
    ASSUME NEW t \in TableNames, NEW x, NEW y, Group(t, x) = Group(t, y)
    PROVE  x.day = y.day
<1>1. Group(t, x)[1] = x.day /\ Group(t, y)[1] = y.day
  BY TablesAre DEF Group
<1> QED BY <1>1

\* Counting: rows with ids of their own are no more than rows with the same ids.
LEMMA NoMoreRows ==
    ASSUME NEW A, NEW B, UniqueIds(A), IsFiniteSet(B), \A x \in A : \E y \in B : x.id = y.id
    PROVE  /\ IsFiniteSet(A) /\ Cardinality(A) <= Cardinality(B)
           /\ Cardinality(A) \in Nat /\ Cardinality(B) \in Nat
<1> DEFINE f == [x \in A |-> CHOOSE y \in B : x.id = y.id]
<1>1. \A x \in A : f[x] \in B /\ x.id = f[x].id
  OBVIOUS
<1>2. f \in Injection(A, B)
  <2>1. f \in [A -> B]
    BY <1>1
  <2>2. \A x, y \in A : f[x] = f[y] => x = y
    BY <1>1 DEF UniqueIds
  <2> HIDE DEF f
  <2> QED BY <2>1, <2>2 DEF Injection, IsInjective
<1> HIDE DEF f
<1> QED BY <1>2, FS_Injection, FS_CardinalityType

-----------------------------------------------------------------------------
(* What a table shows of a set of rows, and what it holds of one.            *)

\* Counts that are kept: those that only grow, and intents that are unpaid still.
Kept(t, c) == Growing(t, c) \/ c = "unpaid"

\* Every row is counted.
Shows(tab, t, rows) ==
    \A g \in Groups(t, rows) :
        /\ g \in DOMAIN tab
        /\ \A c \in Columns(t) :
             Kept(t, c) => tab[g][c] >= Cardinality(Matching(t, g, c, rows))

\* Nothing but the rows is counted.
Holds(tab, t, rows) ==
    \A g \in DOMAIN tab :
        /\ g \in Groups(t, rows)
        /\ \A c \in Columns(t) :
             Growing(t, c) => tab[g][c] <= Cardinality(Matching(t, g, c, rows))

\* A table of naturals.
Numbers(tab, t) == \A g \in DOMAIN tab : tab[g] \in [Columns(t) -> Nat]

Those(rows, ids) == {row \in rows : row.id \in ids}

LEMMA ShowsIs ==
    ASSUME NEW tab, NEW t, NEW rows
    PROVE  Shows(tab, t, rows) <=>
             \A g \in DOMAIN Aggregate(t, rows) :
                /\ g \in DOMAIN tab
                /\ \A c \in Columns(t) : Growing(t, c) \/ c = "unpaid" =>
                     tab[g][c] >= Aggregate(t, rows)[g][c]
BY AggregateIs DEF Shows, Kept

LEMMA HoldsIs ==
    ASSUME NEW tab, NEW t, NEW rows
    PROVE  Holds(tab, t, rows) <=>
             \A g \in DOMAIN tab :
                /\ g \in DOMAIN Aggregate(t, rows)
                /\ \A c \in Columns(t) : Growing(t, c) =>
                     tab[g][c] <= Aggregate(t, rows)[g][c]
BY AggregateIs DEF Holds

\* The two counting parts of the invariant, before and after a step.
LEMMA CountingIs ==
    /\ NeverOvercounts <=> \A t \in TableNames : Holds(table[t], t, source)
    /\ NeverOvercounts' <=> \A t \in TableNames : Holds(table'[t], t, source')
    /\ CompletedRunCounts <=> \A t \in TableNames : Shows(table[t], t, Those(source, settled))
    /\ OwedIsCounted <=>
         \A i \in 1..4 : Shows(table[Tables[i]], Tables[i], Those(source, Owed(i)))
    /\ OwedIsCounted' <=>
         \A i \in 1..4 : Shows(table'[Tables[i]], Tables[i], Those(source', Owed(i)'))
<1>1. NeverOvercounts <=> \A t \in TableNames : Holds(table[t], t, source)
  BY HoldsIs DEF NeverOvercounts
<1>2. NeverOvercounts' <=> \A t \in TableNames : Holds(table'[t], t, source')
  BY HoldsIs DEF NeverOvercounts
<1>3. CompletedRunCounts <=> \A t \in TableNames : Shows(table[t], t, Those(source, settled))
  BY ShowsIs DEF CompletedRunCounts, Covers, Those
<1>4. OwedIsCounted <=>
        \A i \in 1..4 : Shows(table[Tables[i]], Tables[i], Those(source, Owed(i)))
  BY ShowsIs, TablesAre DEF OwedIsCounted, Covers, Those
<1>5. OwedIsCounted' <=>
        \A i \in 1..4 : Shows(table'[Tables[i]], Tables[i], Those(source', Owed(i)'))
  BY ShowsIs, TablesAre DEF OwedIsCounted, Covers, Those
<1> QED BY <1>1, <1>2, <1>3, <1>4, <1>5

\* A table that shows rows shows what has become of some of them.
LEMMA ShowsFewer ==
    ASSUME NEW t \in TableNames, NEW tab, Numbers(tab, t), NEW A, IsFiniteSet(A),
           NEW B, B \subseteq Rows, UniqueIds(B), \A y \in B : \E x \in A : Became(x, y),
           Shows(tab, t, A)
    PROVE  Shows(tab, t, B)
<1> SUFFICES ASSUME NEW g \in Groups(t, B)
             PROVE  /\ g \in DOMAIN tab
                    /\ \A c \in Columns(t) :
                         Kept(t, c) => tab[g][c] >= Cardinality(Matching(t, g, c, B))
  BY DEF Shows
<1>1. g \in Groups(t, A)
  <2>1. PICK y \in B : Reads(t, y) /\ Group(t, y) = g
    BY DEF Groups
  <2>2. PICK x \in A : Became(x, y)
    BY <2>1
  <2> QED BY <2>1, <2>2, BecameKeeps DEF Groups
<1>2. g \in DOMAIN tab
  BY <1>1 DEF Shows
<1>3. ASSUME NEW c \in Columns(t), Kept(t, c)
      PROVE  tab[g][c] >= Cardinality(Matching(t, g, c, B))
  <2>1. ASSUME NEW y \in Matching(t, g, c, B)
        PROVE  \E x \in Matching(t, g, c, A) : y.id = x.id
    <3>1. y \in B /\ y \in Rows /\ Reads(t, y) /\ Group(t, y) = g /\ Counts(t, c, y)
      BY DEF Matching
    <3>2. PICK x \in A : Became(x, y)
      BY <3>1
    <3>3. Reads(t, x) /\ Group(t, x) = g /\ Counts(t, c, x)
      BY <1>3, <3>1, <3>2, BecameKeeps DEF Kept
    <3> QED BY <3>2, <3>3 DEF Matching, Became
  <2>2. UniqueIds(Matching(t, g, c, B))
    BY DEF UniqueIds, Matching
  <2>3. IsFiniteSet(Matching(t, g, c, A))
    BY FS_Subset DEF Matching
  <2>4. /\ Cardinality(Matching(t, g, c, B)) <= Cardinality(Matching(t, g, c, A))
        /\ Cardinality(Matching(t, g, c, A)) \in Nat
        /\ Cardinality(Matching(t, g, c, B)) \in Nat
    BY <2>1, <2>2, <2>3, NoMoreRows
  <2>5. tab[g][c] >= Cardinality(Matching(t, g, c, A))
    BY <1>1, <1>3 DEF Shows
  <2>6. tab[g][c] \in Nat
    BY <1>2 DEF Numbers
  <2> QED BY <2>4, <2>5, <2>6
<1> QED BY <1>2, <1>3

\* A table that holds nothing but some rows holds nothing but what has become of them
\* and others.
LEMMA HoldsMore ==
    ASSUME NEW t \in TableNames, NEW tab, Numbers(tab, t), NEW A, UniqueIds(A),
           NEW B, IsFiniteSet(B), \A x \in A : \E y \in B : Became(x, y),
           Holds(tab, t, A)
    PROVE  Holds(tab, t, B)
<1> SUFFICES ASSUME NEW g \in DOMAIN tab
             PROVE  /\ g \in Groups(t, B)
                    /\ \A c \in Columns(t) :
                         Growing(t, c) => tab[g][c] <= Cardinality(Matching(t, g, c, B))
  BY DEF Holds
<1>1. g \in Groups(t, B)
  <2>1. PICK x \in A : Reads(t, x) /\ Group(t, x) = g
    BY DEF Groups, Holds
  <2>2. PICK y \in B : Became(x, y)
    BY <2>1
  <2> QED BY <2>1, <2>2, BecameKeeps DEF Groups
<1>2. ASSUME NEW c \in Columns(t), Growing(t, c)
      PROVE  tab[g][c] <= Cardinality(Matching(t, g, c, B))
  <2>1. ASSUME NEW x \in Matching(t, g, c, A)
        PROVE  \E y \in Matching(t, g, c, B) : x.id = y.id
    <3>1. x \in A /\ Reads(t, x) /\ Group(t, x) = g /\ Counts(t, c, x)
      BY DEF Matching
    <3>2. PICK y \in B : Became(x, y)
      BY <3>1
    <3>3. Reads(t, y) /\ Group(t, y) = g /\ Counts(t, c, y)
      BY <1>2, <3>1, <3>2, BecameKeeps
    <3> QED BY <3>2, <3>3 DEF Matching, Became
  <2>2. UniqueIds(Matching(t, g, c, A))
    BY DEF UniqueIds, Matching
  <2>3. IsFiniteSet(Matching(t, g, c, B))
    BY FS_Subset DEF Matching
  <2>4. /\ Cardinality(Matching(t, g, c, A)) <= Cardinality(Matching(t, g, c, B))
        /\ Cardinality(Matching(t, g, c, A)) \in Nat
        /\ Cardinality(Matching(t, g, c, B)) \in Nat
    BY <2>1, <2>2, <2>3, NoMoreRows
  <2>5. tab[g][c] <= Cardinality(Matching(t, g, c, A))
    BY <1>2 DEF Holds
  <2>6. tab[g][c] \in Nat
    BY DEF Numbers
  <2> QED BY <2>4, <2>5, <2>6
<1> QED BY <1>1, <1>2

-----------------------------------------------------------------------------
(* A statement: the rows it saw are counted anew, the other groups stay.     *)

\* A statement writes naturals, for days and keys that there are.
LEMMA AggregateTypes ==
    ASSUME NEW t \in TableNames, NEW rows, rows \subseteq Rows, IsFiniteSet(rows)
    PROVE  /\ Numbers(Aggregate(t, rows), t)
           /\ \A g \in DOMAIN Aggregate(t, rows) : g[1] \in 1..Days /\ g[2] \in Keys
<1> SUFFICES ASSUME NEW g \in DOMAIN Aggregate(t, rows)
             PROVE  /\ Aggregate(t, rows)[g] \in [Columns(t) -> Nat]
                    /\ g[1] \in 1..Days /\ g[2] \in Keys
  BY DEF Numbers
<1>1. g \in Groups(t, rows)
  BY AggregateIs
<1>2. PICK row \in rows : Reads(t, row) /\ Group(t, row) = g
  BY <1>1 DEF Groups
<1>3. g[1] = row.day /\ g[2] = row.key
  BY <1>2, TablesAre DEF Group
<1>4. \A c : Cardinality(Matching(t, g, c, rows)) \in Nat
  <2> TAKE c
  <2>1. IsFiniteSet(Matching(t, g, c, rows))
    BY FS_Subset DEF Matching
  <2> QED BY <2>1, FS_CardinalityType
<1>5. Aggregate(t, rows)[g] = [c \in Columns(t) |-> Cardinality(Matching(t, g, c, rows))]
  BY <1>1, AggregateIs
<1>6. Aggregate(t, rows)[g] \in [Columns(t) -> Nat]
  BY <1>4, <1>5
<1> QED BY <1>2, <1>3, <1>6, RowTypes

LEMMA OverNumbers ==
    ASSUME NEW t, NEW f, NEW h, Numbers(f, t), Numbers(h, t)
    PROVE  Numbers(Over(f, h), t)
BY DEF Numbers, Over

\* A statement whose rows have all become rows of src counts nothing but those.
LEMMA UpsertHolds ==
    ASSUME NEW t \in TableNames, NEW tab, NEW src, IsFiniteSet(src), Holds(tab, t, src),
           NEW seen, seen \subseteq Rows, IsFiniteSet(seen), UniqueIds(seen),
           \A x \in seen : \E y \in src : Became(x, y)
    PROVE  Holds(Over(Aggregate(t, seen), tab), t, src)
<1>1. Numbers(Aggregate(t, seen), t)
  BY AggregateTypes
<1>2. Holds(Aggregate(t, seen), t, seen)
  <2>1. \A g \in DOMAIN Aggregate(t, seen), c \in Columns(t) :
          Aggregate(t, seen)[g][c] \in Nat
    BY <1>1 DEF Numbers
  <2> QED BY <2>1, HoldsIs
<1>3. Holds(Aggregate(t, seen), t, src)
  BY <1>1, <1>2, HoldsMore
<1> DEFINE new == Aggregate(t, seen)
<1>4. Holds(new, t, src)
  BY <1>3
<1> HIDE DEF new
<1>5. Holds(Over(new, tab), t, src)
  <2>1. ASSUME NEW g \in DOMAIN Over(new, tab)
        PROVE  \/ g \in DOMAIN new /\ Over(new, tab)[g] = new[g]
               \/ g \in DOMAIN tab /\ Over(new, tab)[g] = tab[g]
    BY DEF Over
  <2> QED BY <1>4, <2>1 DEF Holds
<1> QED BY <1>5 DEF new

\* A statement that sees what it must of the rows A, which the table showed before, and
\* of the rows B of its range, leaves a table that shows both: a group it writes is one
\* of a day in its range, and any other has no row of B.
LEMMA UpsertShows ==
    ASSUME NEW t \in TableNames, NEW tab, Numbers(tab, t),
           NEW A, IsFiniteSet(A), Shows(tab, t, A), NEW B,
           A \cup B \subseteq Rows, UniqueIds(A \cup B),
           NEW from, NEW to,
           NEW seen, seen \subseteq Rows, IsFiniteSet(seen),
           \A x \in seen : InRange(x, from, to),
           \A y \in B : InRange(y, from, to),
           \A y \in A \cup B : Reads(t, y) /\ InRange(y, from, to) =>
             \E x \in seen : Became(x, y)
    PROVE  Shows(Over(Aggregate(t, seen), tab), t, A \cup B)
<1> DEFINE C == A \cup B
           new == Aggregate(t, seen)
<1> SUFFICES ASSUME NEW g \in Groups(t, C)
             PROVE  /\ g \in DOMAIN Over(new, tab)
                    /\ \A c \in Columns(t) :
                         Kept(t, c) => Over(new, tab)[g][c] >= Cardinality(Matching(t, g, c, C))
  BY DEF Shows
<1>1. CASE g \in Groups(t, seen)
  <2>1. g \in DOMAIN new /\ g \in DOMAIN Over(new, tab) /\ Over(new, tab)[g] = new[g]
    <3>1. g \in DOMAIN new
      BY <1>1, AggregateIs
    <3> HIDE DEF new
    <3> QED BY <3>1 DEF Over
  <2>2. ASSUME NEW c \in Columns(t), Kept(t, c)
        PROVE  new[g][c] >= Cardinality(Matching(t, g, c, C))
    <3>1. ASSUME NEW y \in Matching(t, g, c, C)
          PROVE  \E x \in Matching(t, g, c, seen) : y.id = x.id
      <4>1. y \in C /\ y \in Rows /\ Reads(t, y) /\ Group(t, y) = g /\ Counts(t, c, y)
        BY DEF Matching
      <4>2. PICK z \in seen : Reads(t, z) /\ Group(t, z) = g
        BY <1>1 DEF Groups
      <4>3. y.day = z.day
        BY <4>1, <4>2, GroupIsOfDay
      <4>4. InRange(y, from, to)
        BY <4>2, <4>3 DEF InRange
      <4>5. PICK x \in seen : Became(x, y)
        BY <4>1, <4>4
      <4>6. Reads(t, x) /\ Group(t, x) = g /\ Counts(t, c, x)
        BY <2>2, <4>1, <4>5, BecameKeeps DEF Kept
      <4> QED BY <4>5, <4>6 DEF Matching, Became
    <3>2. UniqueIds(Matching(t, g, c, C))
      BY DEF UniqueIds, Matching
    <3>3. IsFiniteSet(Matching(t, g, c, seen))
      BY FS_Subset DEF Matching
    <3>4. /\ Cardinality(Matching(t, g, c, C)) <= Cardinality(Matching(t, g, c, seen))
          /\ Cardinality(Matching(t, g, c, seen)) \in Nat
          /\ Cardinality(Matching(t, g, c, C)) \in Nat
      BY <3>1, <3>2, <3>3, NoMoreRows
    <3>5. new[g][c] = Cardinality(Matching(t, g, c, seen))
      BY <1>1, AggregateIs
    <3> HIDE DEF C, new
    <3> QED BY <3>4, <3>5
  <2> QED BY <2>1, <2>2
<1>2. CASE g \notin Groups(t, seen)
  <2>1. \A y \in C : Reads(t, y) /\ Group(t, y) = g => y \in A
    BY <1>2, BecameKeeps DEF Groups
  <2>2. g \in Groups(t, A)
    BY <2>1 DEF Groups
  <2>3. \A c : Matching(t, g, c, C) = Matching(t, g, c, A)
    BY <2>1 DEF Matching
  <2>4. g \in DOMAIN tab
    BY <2>2 DEF Shows
  <2>5. g \notin DOMAIN new
    BY <1>2, AggregateIs
  <2>6. g \in DOMAIN Over(new, tab) /\ Over(new, tab)[g] = tab[g]
    <3> HIDE DEF new
    <3> QED BY <2>4, <2>5 DEF Over
  <2> HIDE DEF C, new
  <2> QED BY <2>2, <2>3, <2>6 DEF Shows
<1> QED BY <1>1, <1>2

-----------------------------------------------------------------------------
(* The invariant. *)

\* What the invariant says of a run.
LEMMA JobTypes ==
    ASSUME TypeOK, RowsStay, NEW r \in Jobs
    PROVE  /\ job[r].at \in 0..4
           /\ job[r].from \in 1..(Days + 1) /\ job[r].to \in 1..(Days + 1)
           /\ job[r].seen \subseteq Rows /\ job[r].base \subseteq Ids(source)
           /\ IsFiniteSet(job[r].seen) /\ UniqueIds(job[r].seen)
           /\ \A x \in job[r].seen : InRange(x, job[r].from, job[r].to)
           /\ \A x \in job[r].seen : \E y \in source : Became(x, y)
BY TablesAre DEF TypeOK, RowsStay

LEMMA NumbersIs ==
    ASSUME TypeOK, NEW t \in TableNames
    PROVE  Numbers(table[t], t)
BY DEF TypeOK, Numbers

\* Only ids of rows are owed.
LEMMA OwedAreIds ==
    ASSUME TypeOK, RowsStay, NEW i
    PROVE  Owed(i) \subseteq Ids(source)
<1>1. settled \subseteq Ids(source)
  BY DEF TypeOK
<1> QED BY <1>1, JobTypes DEF Owed

LEMMA IdsOf ==
    ASSUME NEW rows, NEW y
    PROVE  /\ y \in rows => y.id \in Ids(rows)
           /\ \A n \in Ids(rows) : \E x \in rows : x.id = n
BY DEF Ids

LEMMA InitRollupInv == Init => RollupInv
<1> SUFFICES ASSUME Init PROVE RollupInv
  OBVIOUS
<1> USE RollupAssumption
<1>1. source = {} /\ settled = {} /\ (\A r \in Jobs : job[r] = NoRun)
  BY DEF Init
<1>2. \A t \in TableNames : DOMAIN table[t] = {}
  BY DEF Init
<1>3. Ids(source) = {} /\ Cardinality(source) = 0 /\ IsFiniteSet({})
  BY <1>1, FS_EmptySet DEF Ids
<1>4. TypeOK
  <2>1. NoRun \in [at : 0..Len(Tables), from : 1..(Days + 1), to : 1..(Days + 1),
                   seen : SUBSET Rows, base : SUBSET Ids(source)]
    BY TablesAre DEF NoRun
  <2>2. job \in [Jobs -> [at : 0..Len(Tables), from : 1..(Days + 1), to : 1..(Days + 1),
                          seen : SUBSET Rows, base : SUBSET Ids(source)]]
    BY <2>1 DEF Init
  <2>3. DOMAIN table = TableNames
    BY DEF Init
  <2> QED BY <1>1, <1>2, <2>2, <2>3 DEF TypeOK, UniqueIds, NoRun
<1>5. RowsStay
  <2>1. IsFiniteSet(source)
    BY <1>1, <1>3, FS_Subset
  <2>2. Ids(source) = 1..Cardinality(source)
    <3>1. 1..0 = {}
      OBVIOUS
    <3> QED BY <1>3, <3>1
  <2>3. ASSUME NEW r \in Jobs
        PROVE  IsFiniteSet(job[r].seen) /\ job[r].seen = {}
    <3>1. job[r].seen = {}
      BY <1>1 DEF NoRun
    <3> QED BY <1>3, <3>1, FS_Subset
  <2> QED BY <2>1, <2>2, <2>3 DEF RowsStay, UniqueIds
<1>6. NeverOvercounts
  BY <1>2 DEF NeverOvercounts
<1>7. BasesSeen
  BY <1>1 DEF BasesSeen, NoRun
<1>8. OwedIsCounted
  <2>1. \A i \in 1..4 : Groups(Tables[i], Those(source, Owed(i))) = {}
    BY <1>1 DEF Groups, Those
  <2> QED BY <2>1, CountingIs DEF Shows
<1> QED BY <1>4, <1>5, <1>6, <1>7, <1>8 DEF RollupInv

-----------------------------------------------------------------------------
(* The gateway's steps.                                                      *)

\* Rows are added, or become other rows: nothing the tables hold or show is lost.
LEMMA SourceChanges ==
    ASSUME RollupInv, source' \subseteq Rows, UniqueIds(source'), IsFiniteSet(source'),
           Ids(source') = 1..Cardinality(source'), Ids(source) \subseteq Ids(source'),
           \A x \in source : \E y \in source' : Became(x, y),
           \A y \in source' : y.id \in Ids(source) => \E x \in source : Became(x, y),
           UNCHANGED <<table, job, settled>>
    PROVE  RollupInv'
<1> USE DEF RollupInv
<1>1. TypeOK'
  BY DEF TypeOK
<1>2. RowsStay'
  <2>1. ASSUME NEW r \in Jobs, NEW x \in job[r].seen
        PROVE  \E z \in source' : Became(x, z)
    <3>1. PICK y \in source : Became(x, y)
      BY JobTypes
    <3> QED BY <3>1, BecameTransitive
  <2> QED BY <2>1 DEF RowsStay
<1>3. NeverOvercounts'
  <2>1. ASSUME NEW t \in TableNames PROVE Holds(table[t], t, source')
    <3>1. Holds(table[t], t, source) /\ Numbers(table[t], t) /\ UniqueIds(source)
      BY CountingIs, NumbersIs DEF TypeOK
    <3> QED BY <3>1, HoldsMore
  <2> QED BY <2>1, CountingIs
<1>4. BasesSeen'
  <2>1. ASSUME NEW r \in Jobs, NEW y \in source', y.id \in job[r].base
        PROVE  InRange(y, job[r].from, job[r].to)
    <3>1. PICK x \in source : Became(x, y)
      BY <2>1, JobTypes
    <3>2. InRange(x, job[r].from, job[r].to)
      BY <2>1, <3>1 DEF BasesSeen, Became
    <3> QED BY <3>1, <3>2 DEF InRange, Became
  <2>2. ASSUME NEW r \in Jobs, job[r].at # 0, NEW y \in source',
               y.id \in settled \/ \E s \in Jobs : y.id \in job[s].base,
               Reads(Tables[job[r].at], y), InRange(y, job[r].from, job[r].to)
        PROVE  \E x \in job[r].seen : Became(x, y)
    <3>1. y.id \in Ids(source)
      BY <2>2, JobTypes DEF TypeOK
    <3>2. PICK x \in source : Became(x, y)
      BY <3>1
    <3>3. x.id = y.id /\ x.day = y.day
      BY <3>2 DEF Became
    <3>4. Tables[job[r].at] \in TableNames
      BY <2>2, JobTypes, TablesAre
    <3>5. Reads(Tables[job[r].at], x)
      BY <2>2, <3>2, <3>4, BecameKeeps
    <3>6. InRange(x, job[r].from, job[r].to)
      BY <2>2, <3>3 DEF InRange
    <3>7. PICK z \in job[r].seen : Became(z, x)
      BY <2>2, <3>3, <3>5, <3>6 DEF BasesSeen
    <3> QED BY <3>2, <3>7, BecameTransitive
  <2> QED BY <2>1, <2>2 DEF BasesSeen
<1>5. OwedIsCounted'
  <2>1. ASSUME NEW i \in 1..4
        PROVE  Shows(table[Tables[i]], Tables[i], Those(source', Owed(i)))
    <3>1. /\ Tables[i] \in TableNames /\ Numbers(table[Tables[i]], Tables[i])
          /\ Shows(table[Tables[i]], Tables[i], Those(source, Owed(i)))
      BY CountingIs, NumbersIs, TablesAre
    <3>2. IsFiniteSet(Those(source, Owed(i)))
      BY FS_Subset DEF Those, RowsStay
    <3>3. Those(source', Owed(i)) \subseteq Rows /\ UniqueIds(Those(source', Owed(i)))
      BY DEF Those, UniqueIds
    <3>4. ASSUME NEW y \in Those(source', Owed(i))
          PROVE  \E x \in Those(source, Owed(i)) : Became(x, y)
      <4>1. y \in source' /\ y.id \in Owed(i) /\ y.id \in Ids(source)
        BY OwedAreIds DEF Those
      <4>2. PICK x \in source : Became(x, y)
        BY <4>1
      <4> QED BY <4>1, <4>2 DEF Those, Became
    <3> QED BY <3>1, <3>2, <3>3, <3>4, ShowsFewer
  <2>2. \A i : Owed(i)' = Owed(i)
    BY DEF Owed
  <2> QED BY <2>1, <2>2, CountingIs
<1> QED BY <1>1, <1>2, <1>3, <1>4, <1>5

\* An inserted row has an id of its own.
LEMMA InsertKeeps ==
    ASSUME RollupInv, InsertSome PROVE RollupInv'
<1> DEFINE n == Cardinality(source) + 1
<1>1. /\ source \subseteq Rows /\ UniqueIds(source) /\ IsFiniteSet(source)
      /\ Ids(source) = 1..Cardinality(source) /\ Cardinality(source) \in Nat
  BY FS_CardinalityType DEF RollupInv, TypeOK, RowsStay
<1>2. n \in 1..MaxRows
  BY <1>1, RollupAssumption DEF InsertSome
<1>3. PICK row \in Rows : row.id = n /\ Insert(row)
  <2>1. PICK k \in Keys, d \in 1..Days :
          \/ \E o \in Outcome : Insert(UsageEvent(n, d, k, o))
          \/ \E v \in Providers, e \in EventTypes : Insert(X402Event(n, d, k, v, e))
          \/ \E v \in Providers : Insert(Intent(n, d, k, v, "pending"))
    BY DEF InsertSome
  <2> HIDE DEF n
  <2>2. CASE \E o \in Outcome : Insert(UsageEvent(n, d, k, o))
    <3>1. PICK o \in Outcome : Insert(UsageEvent(n, d, k, o))
      BY <2>2
    <3>2. UsageEvent(n, d, k, o) \in Rows /\ UsageEvent(n, d, k, o).id = n
      BY <1>2, RowsAre DEF UsageEvent, Row
    <3> QED BY <3>1, <3>2
  <2>3. CASE \E v \in Providers, e \in EventTypes : Insert(X402Event(n, d, k, v, e))
    <3>1. PICK v \in Providers, e \in EventTypes : Insert(X402Event(n, d, k, v, e))
      BY <2>3
    <3>2. X402Event(n, d, k, v, e) \in Rows /\ X402Event(n, d, k, v, e).id = n
      BY <1>2, RowsAre DEF X402Event, Row
    <3> QED BY <3>1, <3>2
  <2>4. CASE \E v \in Providers : Insert(Intent(n, d, k, v, "pending"))
    <3>1. PICK v \in Providers : Insert(Intent(n, d, k, v, "pending"))
      BY <2>4
    <3>2. Intent(n, d, k, v, "pending") \in Rows /\ Intent(n, d, k, v, "pending").id = n
      BY <1>2, RowsAre DEF Intent, IntentStatuses, Row
    <3> QED BY <3>1, <3>2
  <2> QED BY <2>1, <2>2, <2>3, <2>4
<1>4. source' = source \cup {row} /\ UNCHANGED <<table, job, settled>>
  BY <1>3 DEF Insert
<1>5. n \notin Ids(source) /\ row \notin source
  BY <1>1, <1>3 DEF Ids
<1>6. IsFiniteSet(source') /\ Cardinality(source') = n
  BY <1>1, <1>4, <1>5, FS_AddElement
<1>7. Ids(source') = Ids(source) \cup {n}
  BY <1>3, <1>4 DEF Ids
<1>8. Ids(source') = 1..Cardinality(source')
  BY <1>1, <1>6, <1>7
<1>9. UniqueIds(source')
  BY <1>1, <1>3, <1>4, <1>5 DEF UniqueIds, Ids
<1>10. \A x \in source : \E y \in source' : Became(x, y)
  BY <1>4, BecameReflexive
<1>11. \A y \in source' : y.id \in Ids(source) => \E x \in source : Became(x, y)
  BY <1>3, <1>4, <1>5, BecameReflexive
<1> HIDE DEF n
<1> QED BY <1>1, <1>3, <1>4, <1>6, <1>7, <1>8, <1>9, <1>10, <1>11, SourceChanges

\* A settled intent keeps its id, day and key, and is not pending any more.
LEMMA SettleKeeps ==
    ASSUME RollupInv, NEW row \in source, NEW status \in IntentStatuses,
           SettleIntent(row, status)
    PROVE  RollupInv'
<1> DEFINE new == [row EXCEPT !.what = status]
           rest == source \ {row}
<1>1. /\ source \subseteq Rows /\ UniqueIds(source) /\ IsFiniteSet(source)
      /\ Ids(source) = 1..Cardinality(source) /\ Cardinality(source) \in Nat
  BY FS_CardinalityType DEF RollupInv, TypeOK, RowsStay
<1>2. /\ row.in = "payment_intents" /\ status # "pending"
      /\ source' = rest \cup {new} /\ UNCHANGED <<table, job, settled>>
  BY DEF SettleIntent
<1>3. new \in Rows /\ Became(row, new)
  BY <1>1, <1>2, SettledIsRow
<1>4. new.id = row.id
  BY <1>3 DEF Became
<1> HIDE DEF new
<1>5. new \notin rest
  BY <1>1, <1>4 DEF UniqueIds
<1>6. IsFiniteSet(rest) /\ Cardinality(rest) = Cardinality(source) - 1
  BY <1>1, FS_RemoveElement
<1>7. IsFiniteSet(source') /\ Cardinality(source') = Cardinality(source)
  <2> HIDE DEF rest
  <2>1. IsFiniteSet(rest \cup {new}) /\ Cardinality(rest \cup {new}) = Cardinality(rest) + 1
    BY <1>5, <1>6, FS_AddElement
  <2> QED BY <1>1, <1>2, <1>6, <2>1
<1>8. Ids(source') = Ids(source)
  BY <1>2, <1>4 DEF Ids
<1>9. UniqueIds(source')
  BY <1>1, <1>2, <1>4 DEF UniqueIds
<1>10. \A x \in source : \E y \in source' : Became(x, y)
  BY <1>2, <1>3, BecameReflexive
<1>11. \A y \in source' : \E x \in source : Became(x, y)
  BY <1>2, <1>3, BecameReflexive
<1>12. source' \subseteq Rows
  BY <1>1, <1>2, <1>3
<1> HIDE DEF rest
<1> QED BY <1>1, <1>2, <1>7, <1>8, <1>9, <1>10, <1>11, <1>12, SourceChanges

-----------------------------------------------------------------------------
(* The steps of a run.                                                       *)

\* What Sees answers: rows as they are, all of those in the range that are read.
LEMMA SeesIs ==
    ASSUME TypeOK, RowsStay, NEW i, NEW from, NEW to
    PROVE  /\ Sees(i, from, to) \subseteq source /\ Sees(i, from, to) \subseteq Rows
           /\ IsFiniteSet(Sees(i, from, to)) /\ UniqueIds(Sees(i, from, to))
           /\ \A x \in Sees(i, from, to) : InRange(x, from, to)
           /\ \A x \in Sees(i, from, to) : \E y \in source : Became(x, y)
           /\ \A y \in source : Reads(Tables[i], y) /\ InRange(y, from, to) =>
                \E x \in Sees(i, from, to) : Became(x, y)
<1>1. Sees(i, from, to) \subseteq source
  BY DEF Sees
<1>2. IsFiniteSet(Sees(i, from, to))
  BY <1>1, FS_Subset DEF RowsStay
<1>3. UniqueIds(Sees(i, from, to))
  BY <1>1 DEF TypeOK, UniqueIds
<1>4. \A y \in source : Reads(Tables[i], y) /\ InRange(y, from, to) =>
        \E x \in Sees(i, from, to) : Became(x, y)
  BY BecameReflexive DEF Sees
<1>5. \A x \in Sees(i, from, to) : InRange(x, from, to)
  BY DEF Sees
<1> QED BY <1>1, <1>2, <1>3, <1>4, <1>5, BecameReflexive DEF TypeOK

\* The table parts of the invariant survive a statement, and the table it wrote shows
\* what was found by its run too.
Writes(r) ==
    /\ table' = [table EXCEPT ![Tables[job[r].at]] = Upsert(Tables[job[r].at], job[r].seen)]
    /\ UNCHANGED source

WrittenBy(r, i) ==
    /\ DOMAIN table' = TableNames
    /\ \A t \in TableNames : \A g \in DOMAIN table'[t] :
         g[1] \in 1..Days /\ g[2] \in Keys /\ table'[t][g] \in [Columns(t) -> Nat]
    /\ NeverOvercounts'
    /\ \A j \in 1..4 : j # i =>
         Shows(table'[Tables[j]], Tables[j], Those(source, Owed(j)))
    /\ Shows(table'[Tables[i]], Tables[i],
             Those(source, Owed(i)) \cup Those(source, job[r].base))

LEMMA StatementEnds ==
    ASSUME RollupInv, NEW r \in Jobs, NEW i \in 1..4, job[r].at = i, Writes(r)
    PROVE  WrittenBy(r, i)
<1> DEFINE w == Tables[i]
           seen == job[r].seen
<1>1. TypeOK /\ RowsStay /\ BasesSeen
  BY DEF RollupInv
<1>2. w \in TableNames
  BY TablesAre
<1>3. /\ DOMAIN table' = TableNames
      /\ table'[w] = Over(Aggregate(w, seen), table[w])
      /\ \A t \in TableNames : t # w => table'[t] = table[t]
      /\ UNCHANGED source
  BY <1>1, <1>2 DEF TypeOK, Upsert, Writes
<1>4. /\ seen \subseteq Rows /\ IsFiniteSet(seen) /\ UniqueIds(seen)
      /\ \A x \in seen : InRange(x, job[r].from, job[r].to)
      /\ \A x \in seen : \E y \in source : Became(x, y)
  BY <1>1, JobTypes
<1>5. Numbers(table[w], w)
  BY <1>1, <1>2, NumbersIs
<1>6. \A t \in TableNames : \A g \in DOMAIN table'[t] :
        g[1] \in 1..Days /\ g[2] \in Keys /\ table'[t][g] \in [Columns(t) -> Nat]
  <2>1. \A g \in DOMAIN table'[w] :
          g[1] \in 1..Days /\ g[2] \in Keys /\ table'[w][g] \in [Columns(w) -> Nat]
    <3> DEFINE new == Aggregate(w, seen)
    <3>1. Numbers(new, w) /\ \A g \in DOMAIN new : g[1] \in 1..Days /\ g[2] \in Keys
      BY <1>2, <1>4, AggregateTypes
    <3>2. \A g \in DOMAIN table[w] : g[1] \in 1..Days /\ g[2] \in Keys
      BY <1>1, <1>2 DEF TypeOK
    <3> HIDE DEF new
    <3>3. Numbers(Over(new, table[w]), w)
      BY <1>5, <3>1, OverNumbers
    <3>4. DOMAIN Over(new, table[w]) = DOMAIN new \cup DOMAIN table[w]
      BY DEF Over
    <3>5. table'[w] = Over(new, table[w])
      BY <1>3 DEF new
    <3> HIDE DEF w
    <3> QED BY <3>1, <3>2, <3>3, <3>4, <3>5 DEF Numbers
  <2>2. ASSUME NEW t \in TableNames, t # w
        PROVE  \A g \in DOMAIN table'[t] :
                 g[1] \in 1..Days /\ g[2] \in Keys /\ table'[t][g] \in [Columns(t) -> Nat]
    BY <1>1, <1>3, <2>2 DEF TypeOK
  <2> HIDE DEF w
  <2> QED BY <2>1, <2>2
<1>7. NeverOvercounts'
  <2>1. \A t \in TableNames : Holds(table[t], t, source)
    BY CountingIs DEF RollupInv
  <2>2. Holds(table'[w], w, source)
    BY <1>1, <1>2, <1>3, <1>4, <2>1, UpsertHolds DEF RowsStay
  <2> HIDE DEF w
  <2> QED BY <1>3, <2>1, <2>2, CountingIs
<1>8. \A j \in 1..4 : j # i => Shows(table'[Tables[j]], Tables[j], Those(source, Owed(j)))
  <2> TAKE j \in 1..4
  <2> HAVE j # i
  <2>1. Tables[j] \in TableNames /\ Tables[j] # w
    BY TablesAre
  <2> QED BY <1>3, <2>1, CountingIs DEF RollupInv
<1>9. Shows(table'[w], w, Those(source, Owed(i)) \cup Those(source, job[r].base))
  <2> DEFINE A == Those(source, Owed(i))
             B == Those(source, job[r].base)
  <2>1. Shows(table[w], w, A)
    BY CountingIs DEF RollupInv
  <2>2. A \cup B \subseteq source /\ IsFiniteSet(A)
    BY <1>1, FS_Subset DEF Those, RowsStay
  <2>3. A \cup B \subseteq Rows /\ UniqueIds(A \cup B)
    BY <1>1, <2>2 DEF TypeOK, UniqueIds
  <2>4. \A y \in B : InRange(y, job[r].from, job[r].to)
    BY <1>1 DEF BasesSeen, Those
  <2>5. \A y \in A \cup B : y.id \in settled \/ \E s \in Jobs : y.id \in job[s].base
    BY DEF Those, Owed
  <2>6. \A y \in A \cup B : Reads(w, y) /\ InRange(y, job[r].from, job[r].to) =>
          \E x \in seen : Became(x, y)
    BY <1>1, <2>2, <2>5 DEF BasesSeen
  <2> HIDE DEF A, B, w, seen
  <2>7. Shows(Over(Aggregate(w, seen), table[w]), w, A \cup B)
    BY <1>2, <1>4, <1>5, <2>1, <2>2, <2>3, <2>4, <2>6, UpsertShows
  <2> QED BY <1>3, <2>7 DEF A, B
<1> QED BY <1>3, <1>6, <1>7, <1>8, <1>9 DEF WrittenBy

\* What a run sees and has to see, when nothing but that run changes.
LEMMA RunChanges ==
    ASSUME RollupInv, NEW r \in Jobs, NEW new, job' = [job EXCEPT ![r] = new],
           new \in [at : 0..4, from : 1..(Days + 1), to : 1..(Days + 1),
                    seen : SUBSET Rows, base : SUBSET Ids(source)],
           UNCHANGED source,
           \A x \in new.seen : InRange(x, new.from, new.to),
           IsFiniteSet(new.seen), UniqueIds(new.seen),
           \A x \in new.seen : \E y \in source : Became(x, y),
           \A y \in source : y.id \in new.base => InRange(y, new.from, new.to),
           new.at # 0 => \A y \in source :
             Reads(Tables[new.at], y) /\ InRange(y, new.from, new.to) =>
               \E x \in new.seen : Became(x, y),
           settled' \subseteq settled \cup job[r].base,
           \/ new.base \subseteq job[r].base
           \/ \A s \in Jobs : s # r => job[s].at = 0
    PROVE  /\ job' \in [Jobs -> [at : 0..Len(Tables), from : 1..(Days + 1), to : 1..(Days + 1),
                                 seen : SUBSET Rows, base : SUBSET Ids(source')]]
           /\ \A s \in Jobs : \A row \in job'[s].seen : InRange(row, job'[s].from, job'[s].to)
           /\ settled' \subseteq Ids(source')
           /\ UniqueIds(source') /\ source' \subseteq Rows
           /\ RowsStay' /\ BasesSeen'
<1>1. TypeOK /\ RowsStay /\ BasesSeen
  BY DEF RollupInv
<1>2. /\ \A s \in Jobs : job'[s] = IF s = r THEN new ELSE job[s]
      /\ job'[r] = new
  BY <1>1 DEF TypeOK
<1>3. job' \in [Jobs -> [at : 0..Len(Tables), from : 1..(Days + 1), to : 1..(Days + 1),
                         seen : SUBSET Rows, base : SUBSET Ids(source')]]
  <2>1. Ids(source') = Ids(source)
    OBVIOUS
  <2> QED BY <1>1, <2>1, TablesAre DEF TypeOK
<1>4. \A s \in Jobs : \A row \in job'[s].seen : InRange(row, job'[s].from, job'[s].to)
  BY <1>1, <1>2, JobTypes
<1>5. settled' \subseteq Ids(source')
  BY <1>1, JobTypes DEF TypeOK
<1>6. RowsStay'
  <2>1. ASSUME NEW s \in Jobs
        PROVE  /\ IsFiniteSet(job'[s].seen) /\ UniqueIds(job'[s].seen)
               /\ \A x \in job'[s].seen : \E y \in source : Became(x, y)
    <3>1. CASE s = r
      BY <1>2, <3>1
    <3>2. CASE s # r
      BY <1>1, <1>2, <3>2, JobTypes
    <3> QED BY <3>1, <3>2
  <2>2. IsFiniteSet(source') /\ Ids(source') = 1..Cardinality(source')
    BY <1>1 DEF RowsStay
  <2> QED BY <2>1, <2>2 DEF RowsStay
<1>7. BasesSeen'
  <2>1. ASSUME NEW s \in Jobs, NEW y \in source, y.id \in job'[s].base
        PROVE  InRange(y, job'[s].from, job'[s].to)
    <3>1. CASE s = r
      BY <1>2, <2>1, <3>1
    <3>2. CASE s # r
      BY <1>1, <1>2, <2>1, <3>2 DEF BasesSeen
    <3> QED BY <3>1, <3>2
  <2>2. ASSUME NEW s \in Jobs, job'[s].at # 0, NEW y \in source,
               y.id \in settled' \/ \E q \in Jobs : y.id \in job'[q].base,
               Reads(Tables[job'[s].at], y), InRange(y, job'[s].from, job'[s].to)
        PROVE  \E x \in job'[s].seen : Became(x, y)
    <3>1. CASE s = r
      BY <1>2, <2>2, <3>1
    <3>2. CASE s # r
      <4>1. job'[s] = job[s]
        BY <1>2, <3>2
      <4>2. y.id \in settled \/ \E q \in Jobs : y.id \in job[q].base
        BY <1>2, <2>2, <3>2, <4>1
      <4> QED BY <1>1, <2>2, <4>1, <4>2 DEF BasesSeen
    <3> QED BY <3>1, <3>2
  <2> QED BY <2>1, <2>2 DEF BasesSeen
<1> QED BY <1>1, <1>3, <1>4, <1>5, <1>6, <1>7 DEF TypeOK

\* A run under way at its first statement has written nothing yet.
LEMMA BeginKeeps ==
    ASSUME RollupInv, NEW r \in Jobs, NEW range \in Ranges, Begin(r, range[1], range[2])
    PROVE  RollupInv'
<1> DEFINE from == range[1]
           to == range[2]
           base == IF \A s \in Jobs : job[s].at = 0
                   THEN Ids({row \in source : InRange(row, from, to)}) ELSE {}
           new == [at |-> 1, from |-> from, to |-> to, seen |-> Sees(1, from, to), base |-> base]
<1>1. TypeOK /\ RowsStay
  BY DEF RollupInv
<1>2. /\ job[r].at = 0 /\ job' = [job EXCEPT ![r] = new]
      /\ UNCHANGED <<source, table, settled>>
  BY DEF Begin
<1>3. from \in 1..(Days + 1) /\ to \in 1..(Days + 1)
  BY RollupAssumption
<1>4. base \subseteq Ids(source)
  BY DEF Ids
<1>5. \A y \in source : y.id \in base => InRange(y, from, to)
  BY <1>1 DEF Ids, TypeOK, UniqueIds
<1>6. base = {} \/ \A s \in Jobs : job[s].at = 0
  OBVIOUS
<1>7. /\ new.at = 1 /\ new.from = from /\ new.to = to
      /\ new.seen = Sees(1, from, to) /\ new.base = base
  OBVIOUS
<1> HIDE DEF from, to, base
<1>8. new \in [at : 0..4, from : 1..(Days + 1), to : 1..(Days + 1),
               seen : SUBSET Rows, base : SUBSET Ids(source)]
  BY <1>1, <1>3, <1>4, SeesIs
<1> HIDE DEF new
<1>9. /\ \A x \in new.seen : InRange(x, new.from, new.to)
      /\ IsFiniteSet(new.seen) /\ UniqueIds(new.seen)
      /\ \A x \in new.seen : \E y \in source : Became(x, y)
      /\ \A y \in source : Reads(Tables[new.at], y) /\ InRange(y, new.from, new.to) =>
           \E x \in new.seen : Became(x, y)
  BY <1>1, <1>7, SeesIs
<1>10. TypeOK' /\ RowsStay' /\ BasesSeen'
  <2>1. /\ job' \in [Jobs -> [at : 0..Len(Tables), from : 1..(Days + 1), to : 1..(Days + 1),
                              seen : SUBSET Rows, base : SUBSET Ids(source')]]
        /\ \A s \in Jobs : \A row \in job'[s].seen : InRange(row, job'[s].from, job'[s].to)
        /\ settled' \subseteq Ids(source') /\ UniqueIds(source') /\ source' \subseteq Rows
        /\ RowsStay' /\ BasesSeen'
    BY <1>2, <1>5, <1>6, <1>7, <1>8, <1>9, RunChanges
  <2> QED BY <1>1, <1>2, <2>1 DEF TypeOK
<1>11. NeverOvercounts'
  BY <1>2, CountingIs DEF RollupInv
<1>12. OwedIsCounted'
  <2>1. ASSUME NEW i \in 1..4 PROVE Owed(i)' = Owed(i)
    <3>1. {s \in Jobs : job'[s].at > i} = {s \in Jobs : job[s].at > i}
      BY <1>1, <1>2, <1>7 DEF TypeOK
    <3>2. \A s \in Jobs : job[s].at > i => job'[s] = job[s]
      BY <1>1, <1>2 DEF TypeOK
    <3> QED BY <1>2, <3>1, <3>2 DEF Owed
  <2> QED BY <1>2, <2>1, CountingIs DEF RollupInv
<1> QED BY <1>10, <1>11, <1>12 DEF RollupInv

\* The i-th table now shows what the run found, and the next statement sees the rows as
\* they are.
LEMMA ContinueKeeps ==
    ASSUME RollupInv, NEW r \in Jobs, Continue(r)
    PROVE  RollupInv'
<1> DEFINE sees == Sees(job[r].at + 1, job[r].from, job[r].to)
           new == [job[r] EXCEPT !.at = @ + 1, !.seen = sees]
<1>1. TypeOK /\ RowsStay /\ BasesSeen
  BY DEF RollupInv
<1>2. PICK i \in 1..3 : job[r].at = i
  BY TablesAre DEF Continue
<1>3. job[r] \in [at : 0..4, from : 1..(Days + 1), to : 1..(Days + 1),
                  seen : SUBSET Rows, base : SUBSET Ids(source)]
  BY <1>1, TablesAre DEF TypeOK
<1>4. /\ new.at = i + 1 /\ new.from = job[r].from /\ new.to = job[r].to
      /\ new.seen = Sees(i + 1, job[r].from, job[r].to) /\ new.base = job[r].base
      /\ new \in [at : 0..4, from : 1..(Days + 1), to : 1..(Days + 1),
                  seen : SUBSET Rows, base : SUBSET Ids(source)]
  <2>1. sees \subseteq Rows /\ sees = Sees(i + 1, job[r].from, job[r].to)
    BY <1>1, <1>2, SeesIs
  <2> HIDE DEF sees
  <2>2. job[r].at + 1 \in 0..4 /\ job[r].at + 1 = i + 1
    BY <1>2
  <2>3. /\ new.at = job[r].at + 1 /\ new.from = job[r].from /\ new.to = job[r].to
        /\ new.seen = sees /\ new.base = job[r].base
    BY <1>3
  <2>4. new \in [at : 0..4, from : 1..(Days + 1), to : 1..(Days + 1),
                 seen : SUBSET Rows, base : SUBSET Ids(source)]
    <3> DEFINE N == 0..4
               D == 1..(Days + 1)
               R == SUBSET Rows
               B == SUBSET Ids(source)
    <3>1. job[r] \in [at : N, from : D, to : D, seen : R, base : B]
      BY <1>3
    <3>2. job[r].at + 1 \in N /\ sees \in R
      BY <2>1, <2>2
    <3> HIDE DEF N, D, R, B
    <3>3. new \in [at : N, from : D, to : D, seen : R, base : B]
      BY <3>1, <3>2
    <3> QED BY <3>3 DEF N, D, R, B
  <2> HIDE DEF new
  <2> QED BY <2>1, <2>2, <2>3, <2>4
<1>5. /\ table' = [table EXCEPT ![Tables[i]] = Upsert(Tables[i], job[r].seen)]
      /\ UNCHANGED <<source, settled>>
  BY <1>2 DEF Continue
<1>6. job' = [job EXCEPT ![r] = new]
  BY <1>1 DEF Continue, TypeOK
<1> HIDE DEF new
<1>7. /\ \A x \in new.seen : InRange(x, new.from, new.to)
      /\ IsFiniteSet(new.seen) /\ UniqueIds(new.seen)
      /\ \A x \in new.seen : \E y \in source : Became(x, y)
      /\ \A y \in source : Reads(Tables[new.at], y) /\ InRange(y, new.from, new.to) =>
           \E x \in new.seen : Became(x, y)
  BY <1>1, <1>4, SeesIs
<1>8. \A y \in source : y.id \in new.base => InRange(y, new.from, new.to)
  BY <1>1, <1>4 DEF BasesSeen
<1>9. WrittenBy(r, i)
  <2>1. Writes(r)
    BY <1>2, <1>5 DEF Writes
  <2> QED BY <1>2, <2>1, StatementEnds
<1>10. /\ job' \in [Jobs -> [at : 0..Len(Tables), from : 1..(Days + 1), to : 1..(Days + 1),
                             seen : SUBSET Rows, base : SUBSET Ids(source')]]
       /\ \A s \in Jobs : \A row \in job'[s].seen : InRange(row, job'[s].from, job'[s].to)
       /\ settled' \subseteq Ids(source') /\ UniqueIds(source') /\ source' \subseteq Rows
       /\ RowsStay' /\ BasesSeen'
  BY <1>4, <1>5, <1>6, <1>7, <1>8, RunChanges
<1>11. OwedIsCounted'
  <2>1. /\ job'[r].at = i + 1 /\ job'[r].base = job[r].base
        /\ \A s \in Jobs : s # r => job'[s] = job[s]
    BY <1>1, <1>4, <1>6 DEF TypeOK
  <2>2. ASSUME NEW j \in 1..4, j # i PROVE Owed(j)' = Owed(j)
    <3>1. \A s \in Jobs : (job'[s].at > j <=> job[s].at > j) /\ job'[s].base = job[s].base
      BY <1>2, <2>1, <2>2
    <3> QED BY <1>5, <3>1 DEF Owed
  <2>3. Owed(i)' = Owed(i) \cup job[r].base
    <3>1. \A s \in Jobs : /\ job'[s].at > i <=> (job[s].at > i \/ s = r)
                          /\ job'[s].base = job[s].base
      BY <1>2, <2>1
    <3> QED BY <1>5, <3>1 DEF Owed
  <2>4. Those(source, Owed(i)') = Those(source, Owed(i)) \cup Those(source, job[r].base)
    BY <2>3 DEF Those
  <2> QED BY <1>5, <1>9, <2>2, <2>4, CountingIs DEF WrittenBy
<1> QED BY <1>9, <1>10, <1>11 DEF RollupInv, TypeOK, WrittenBy

\* What a run found counts once its four tables have been written.
LEMMA CompleteKeeps ==
    ASSUME RollupInv, NEW r \in Jobs, Complete(r)
    PROVE  RollupInv'
<1>1. TypeOK /\ RowsStay /\ BasesSeen
  BY DEF RollupInv
<1>2. /\ job[r].at = 4 /\ job' = [job EXCEPT ![r] = NoRun]
      /\ table' = [table EXCEPT ![Tables[4]] = Upsert(Tables[4], job[r].seen)]
      /\ settled' = settled \cup job[r].base /\ UNCHANGED source
  BY TablesAre DEF Complete
<1>3. /\ NoRun.at = 0 /\ NoRun.seen = {} /\ NoRun.base = {}
      /\ NoRun \in [at : 0..4, from : 1..(Days + 1), to : 1..(Days + 1),
                    seen : SUBSET Rows, base : SUBSET Ids(source)]
  BY RollupAssumption DEF NoRun
<1>4. WrittenBy(r, 4)
  <2>1. Writes(r)
    BY <1>2 DEF Writes
  <2> QED BY <1>2, <2>1, StatementEnds
<1>5. IsFiniteSet(NoRun.seen) /\ UniqueIds(NoRun.seen)
  BY <1>3, FS_EmptySet DEF UniqueIds
<1>6. /\ job' \in [Jobs -> [at : 0..Len(Tables), from : 1..(Days + 1), to : 1..(Days + 1),
                            seen : SUBSET Rows, base : SUBSET Ids(source')]]
      /\ \A s \in Jobs : \A row \in job'[s].seen : InRange(row, job'[s].from, job'[s].to)
      /\ settled' \subseteq Ids(source') /\ UniqueIds(source') /\ source' \subseteq Rows
      /\ RowsStay' /\ BasesSeen'
  BY <1>2, <1>3, <1>5, RunChanges
<1>7. OwedIsCounted'
  <2>1. job'[r].at = 0 /\ \A s \in Jobs : s # r => job'[s] = job[s]
    BY <1>1, <1>2, <1>3 DEF TypeOK
  <2>2. ASSUME NEW j \in 1..4, j # 4 PROVE Owed(j)' = Owed(j)
    <3>1. \A s \in Jobs : job'[s].at > j <=> (job[s].at > j /\ s # r)
      BY <2>1
    <3>2. job[r].at > j
      BY <1>2, <2>2
    <3> QED BY <1>2, <2>1, <3>1, <3>2 DEF Owed
  <2>3. Owed(4)' = Owed(4) \cup job[r].base
    <3>1. \A s \in Jobs : job'[s].at > 4 <=> job[s].at > 4
      BY <1>2, <2>1
    <3>2. \A s \in Jobs : job[s].at > 4 => job'[s] = job[s]
      BY <1>2, <2>1
    <3> QED BY <1>2, <3>1, <3>2 DEF Owed
  <2>4. Those(source, Owed(4)') = Those(source, Owed(4)) \cup Those(source, job[r].base)
    BY <2>3 DEF Those
  <2> QED BY <1>2, <1>4, <2>2, <2>4, CountingIs DEF WrittenBy
<1> QED BY <1>4, <1>6, <1>7 DEF RollupInv, TypeOK, WrittenBy

\* A run that stops leaves the tables as they are, and is owed nothing any more.
LEMMA StopKeeps ==
    ASSUME RollupInv, NEW r \in Jobs, Stop(r)
    PROVE  RollupInv'
<1>1. TypeOK /\ RowsStay /\ BasesSeen
  BY DEF RollupInv
<1>2. job' = [job EXCEPT ![r] = NoRun] /\ UNCHANGED <<source, table, settled>>
  BY DEF Stop
<1>3. /\ NoRun.at = 0 /\ NoRun.seen = {} /\ NoRun.base = {}
      /\ NoRun \in [at : 0..4, from : 1..(Days + 1), to : 1..(Days + 1),
                    seen : SUBSET Rows, base : SUBSET Ids(source)]
  BY RollupAssumption DEF NoRun
<1>4. IsFiniteSet(NoRun.seen) /\ UniqueIds(NoRun.seen)
  BY <1>3, FS_EmptySet DEF UniqueIds
<1>5. /\ job' \in [Jobs -> [at : 0..Len(Tables), from : 1..(Days + 1), to : 1..(Days + 1),
                            seen : SUBSET Rows, base : SUBSET Ids(source')]]
      /\ \A s \in Jobs : \A row \in job'[s].seen : InRange(row, job'[s].from, job'[s].to)
      /\ settled' \subseteq Ids(source') /\ UniqueIds(source') /\ source' \subseteq Rows
      /\ RowsStay' /\ BasesSeen'
  BY <1>2, <1>3, <1>4, RunChanges
<1>6. NeverOvercounts'
  BY <1>2, CountingIs DEF RollupInv
<1>7. OwedIsCounted'
  <2>1. ASSUME NEW i \in 1..4
        PROVE  Shows(table[Tables[i]], Tables[i], Those(source, Owed(i)'))
    <3>1. job'[r].at = 0 /\ \A s \in Jobs : s # r => job'[s] = job[s]
      BY <1>1, <1>2, <1>3 DEF TypeOK
    <3>2. Owed(i)' \subseteq Owed(i)
      BY <1>2, <3>1 DEF Owed
    <3>3. /\ Tables[i] \in TableNames /\ Numbers(table[Tables[i]], Tables[i])
          /\ Shows(table[Tables[i]], Tables[i], Those(source, Owed(i)))
      BY <1>1, CountingIs, NumbersIs, TablesAre DEF RollupInv
    <3>4. /\ Those(source, Owed(i)') \subseteq Those(source, Owed(i))
          /\ Those(source, Owed(i)) \subseteq source
      BY <3>2 DEF Those
    <3>5. /\ IsFiniteSet(Those(source, Owed(i)))
          /\ Those(source, Owed(i)') \subseteq Rows /\ UniqueIds(Those(source, Owed(i)'))
      BY <1>1, <3>4, FS_Subset DEF TypeOK, RowsStay, UniqueIds
    <3>6. \A y \in Those(source, Owed(i)') : \E x \in Those(source, Owed(i)) : Became(x, y)
      BY <3>4, BecameReflexive
    <3> QED BY <3>3, <3>5, <3>6, ShowsFewer
  <2> QED BY <1>2, <2>1, CountingIs
<1> QED BY <1>1, <1>2, <1>5, <1>6, <1>7 DEF RollupInv, TypeOK

LEMMA NextRollupInv == RollupInv /\ [Next]_vars => RollupInv'
<1> SUFFICES ASSUME RollupInv, [Next]_vars PROVE RollupInv'
  OBVIOUS
<1>1. CASE InsertSome
  BY <1>1, InsertKeeps
<1>2. ASSUME NEW row \in source, NEW status \in IntentStatuses, SettleIntent(row, status)
      PROVE  RollupInv'
  BY <1>2, SettleKeeps
<1>3. ASSUME NEW r \in Jobs, NEW range \in Ranges, Begin(r, range[1], range[2])
      PROVE  RollupInv'
  BY <1>3, BeginKeeps
<1>4. ASSUME NEW r \in Jobs, Continue(r) PROVE RollupInv'
  BY <1>4, ContinueKeeps
<1>5. ASSUME NEW r \in Jobs, Complete(r) PROVE RollupInv'
  BY <1>5, CompleteKeeps
<1>6. ASSUME NEW r \in Jobs, Stop(r) PROVE RollupInv'
  BY <1>6, StopKeeps
<1>7. CASE UNCHANGED vars
  <2>1. UNCHANGED <<source, table, job, settled>>
    BY <1>7 DEF vars
  <2>2. TypeOK' /\ RowsStay' /\ BasesSeen'
    BY <2>1 DEF RollupInv, TypeOK, RowsStay, BasesSeen
  <2>3. \A i : Owed(i)' = Owed(i)
    BY <2>1 DEF Owed
  <2>4. NeverOvercounts' /\ OwedIsCounted'
    BY <2>1, <2>3, CountingIs DEF RollupInv
  <2> QED BY <2>2, <2>4 DEF RollupInv
<1> QED BY <1>1, <1>2, <1>3, <1>4, <1>5, <1>6, <1>7 DEF Next

-----------------------------------------------------------------------------
(* Theorems. *)

THEOREM RollupInvariance == Spec => []RollupInv
BY InitRollupInv, NextRollupInv, PTL DEF Spec

\* Rows keep their own ids, the tables hold counts of days and keys there are, and a
\* statement only ever sees rows of its range.
THEOREM RollupTypeCorrect == Spec => []TypeOK
<1>1. RollupInv => TypeOK
  BY DEF RollupInv
<1> QED BY <1>1, RollupInvariance, PTL

\* However often days are rolled up again, by runs that fail or overlap, and whatever is
\* inserted or settled meanwhile, no count exceeds the rows there are.
THEOREM CountsNeverExceed == Spec => []NeverOvercounts
<1>1. RollupInv => NeverOvercounts
  BY DEF RollupInv
<1> QED BY <1>1, RollupInvariance, PTL

\* What a run found when it began is in all four tables once it has completed, and no
\* later, failing or overlapping run takes it back.
THEOREM CompletedRunsCount == Spec => []CompletedRunCounts
<1>1. RollupInv => CompletedRunCounts
  <2> SUFFICES ASSUME RollupInv, NEW i \in 1..4
               PROVE  Shows(table[Tables[i]], Tables[i], Those(source, settled))
    BY CountingIs, TablesAre DEF TableNames
  <2>1. TypeOK /\ RowsStay
    BY DEF RollupInv
  <2>2. /\ Tables[i] \in TableNames /\ Numbers(table[Tables[i]], Tables[i])
        /\ Shows(table[Tables[i]], Tables[i], Those(source, Owed(i)))
    BY <2>1, CountingIs, NumbersIs, TablesAre DEF RollupInv
  <2>3. /\ Those(source, settled) \subseteq Those(source, Owed(i))
        /\ Those(source, Owed(i)) \subseteq source
    BY DEF Those, Owed
  <2>4. /\ IsFiniteSet(Those(source, Owed(i)))
        /\ Those(source, settled) \subseteq Rows /\ UniqueIds(Those(source, settled))
    BY <2>1, <2>3, FS_Subset DEF TypeOK, RowsStay, UniqueIds
  <2>5. \A y \in Those(source, settled) : \E x \in Those(source, Owed(i)) : Became(x, y)
    BY <2>3, BecameReflexive
  <2> QED BY <2>2, <2>4, <2>5, ShowsFewer
<1> QED BY <1>1, RollupInvariance, PTL

-----------------------------------------------------------------------------
(* Sums of counts. *)

LEMMA LeastNumber ==
    ASSUME NEW T \in SUBSET Nat, T # {}
    PROVE  \E x \in T : \A y \in T : x <= y
<1>1. PICK x \in T : \A y \in T : <<y, x>> \notin OpToRel(<, Nat)
  BY NatLessThanWellFounded, WFMin
<1>2. \A y \in T : ~(y < x)
  BY <1>1 DEF OpToRel
<1> QED BY <1>2

\* All that the elements of s count.
AllOf(ev, s) == UNION {ev[e] : e \in s}

\* Each counts a finite set, and no two the same thing.
Apart(ev, E) == /\ \A e \in E : IsFiniteSet(ev[e])
                /\ \A e, f \in E : e # f => ev[e] \cap ev[f] = {}

\* One element less, one set less to count.
LEMMA OneLess ==
    ASSUME NEW E, IsFiniteSet(E), NEW ev, Apart(ev, E)
    PROVE  \A s \in SUBSET E : \A x \in s :
             /\ Cardinality(AllOf(ev, s)) = Cardinality(ev[x]) + Cardinality(AllOf(ev, s \ {x}))
             /\ Cardinality(s \ {x}) < Cardinality(s)
             /\ Cardinality(s) \in Nat /\ Cardinality(s \ {x}) \in Nat
<1> SUFFICES ASSUME NEW s \in SUBSET E, NEW x \in s
             PROVE  /\ Cardinality(AllOf(ev, s)) =
                         Cardinality(ev[x]) + Cardinality(AllOf(ev, s \ {x}))
                    /\ Cardinality(s \ {x}) < Cardinality(s)
                    /\ Cardinality(s) \in Nat /\ Cardinality(s \ {x}) \in Nat
  OBVIOUS
<1> DEFINE rest == {ev[e] : e \in s \ {x}}
<1>1. IsFiniteSet(s) /\ IsFiniteSet(s \ {x})
  BY FS_Subset
<1>2. /\ Cardinality(s) \in Nat /\ Cardinality(s \ {x}) = Cardinality(s) - 1
      /\ Cardinality(s \ {x}) \in Nat
  BY <1>1, FS_RemoveElement, FS_CardinalityType
<1>3. IsFiniteSet(rest)
  <2> DEFINE f == [e \in s \ {x} |-> ev[e]]
  <2>1. f \in Surjection(s \ {x}, rest)
    BY DEF Surjection
  <2> HIDE DEF f, rest
  <2> QED BY <1>1, <2>1, FS_Surjection
<1>4. IsFiniteSet(UNION rest)
  <2>1. \A r \in rest : IsFiniteSet(r)
    BY DEF Apart
  <2> HIDE DEF rest
  <2> QED BY <1>3, <2>1, FS_UNION
<1>5. IsFiniteSet(ev[x])
  BY DEF Apart
<1>6. AllOf(ev, s) = ev[x] \cup UNION rest /\ AllOf(ev, s \ {x}) = UNION rest
  BY DEF AllOf
<1>7. ev[x] \cap UNION rest = {}
  BY DEF Apart
<1> HIDE DEF rest
<1>8. Cardinality(ev[x] \cup UNION rest) = Cardinality(ev[x]) + Cardinality(UNION rest)
  <2>1. Cardinality(ev[x] \cap UNION rest) = 0
    BY <1>7, FS_EmptySet
  <2>2. Cardinality(ev[x]) \in Nat /\ Cardinality(UNION rest) \in Nat
    BY <1>4, <1>5, FS_CardinalityType
  <2>3. Cardinality(ev[x] \cup UNION rest) =
          Cardinality(ev[x]) + Cardinality(UNION rest) - Cardinality(ev[x] \cap UNION rest)
    BY <1>4, <1>5, FS_Union
  <2> QED BY <2>1, <2>2, <2>3
<1>9. Cardinality(AllOf(ev, s)) = Cardinality(ev[x]) + Cardinality(UNION rest)
  BY <1>6, <1>8
<1>10. Cardinality(s \ {x}) < Cardinality(s)
  BY <1>2
<1> QED BY <1>1, <1>2, <1>6, <1>9, <1>10

\* The sum over a set, each element of which counts a set of its own, is the size of all
\* those sets.
LEMMA CountsAddUp ==
    ASSUME NEW E, IsFiniteSet(E), NEW ev, Apart(ev, E),
           NEW f, DOMAIN f = E, \A e \in E : f[e] = Cardinality(ev[e])
    PROVE  SumFunction(f) = Cardinality(AllOf(ev, E))
<1> DEFINE next(F, s) ==
             IF s = {} THEN 0 ELSE f[CHOOSE x \in s : TRUE] + F[s \ {CHOOSE x \in s : TRUE}]
           size == [s \in SUBSET E |-> Cardinality(AllOf(ev, s))]
<1>0. \A s \in SUBSET E : \A x \in s :
        /\ Cardinality(AllOf(ev, s)) =
             f[x] + Cardinality(AllOf(ev, s \ {x}))
        /\ Cardinality(s \ {x}) < Cardinality(s)
        /\ Cardinality(s) \in Nat /\ Cardinality(s \ {x}) \in Nat
  <2>1. \A s \in SUBSET E : \A x \in s : f[x] = Cardinality(ev[x])
    OBVIOUS
  <2>2. \A s \in SUBSET E : \A x \in s :
          /\ Cardinality(AllOf(ev, s)) = Cardinality(ev[x]) + Cardinality(AllOf(ev, s \ {x}))
          /\ Cardinality(s \ {x}) < Cardinality(s)
          /\ Cardinality(s) \in Nat /\ Cardinality(s \ {x}) \in Nat
    BY OneLess
  <2> QED BY <2>1, <2>2
<1>1. SumFunction(f) = (CHOOSE F : F = [s \in SUBSET E |-> next(F, s)])[E]
  BY DEF SumFunction, SumFunctionOnSet, FoldFunctionOnSet, MapThenFoldSet
<1>2. \A s \in SUBSET E : size[s] = next(size, s)
  <2> SUFFICES ASSUME NEW s \in SUBSET E PROVE size[s] = next(size, s)
    OBVIOUS
  <2>1. CASE s = {}
    <3>1. AllOf(ev, s) = {}
      BY <2>1 DEF AllOf
    <3>2. size[s] = 0
      BY <3>1, FS_EmptySet
    <3> HIDE DEF size
    <3> QED BY <2>1, <3>2
  <2>2. CASE s # {}
    <3>1. PICK x \in s : x = CHOOSE y \in s : TRUE
      BY <2>2
    <3>2. Cardinality(AllOf(ev, s)) =
            f[x] + Cardinality(AllOf(ev, s \ {x}))
      BY <1>0
    <3>3. s \ {x} \in SUBSET E
      OBVIOUS
    <3>4. size[s] = f[x] + size[s \ {x}]
      BY <3>2, <3>3
    <3> HIDE DEF size
    <3> QED BY <2>2, <3>1, <3>4
  <2> QED BY <2>1, <2>2
<1>3. size = [s \in SUBSET E |-> next(size, s)]
  BY <1>2
<1>4. ASSUME NEW F, F = [s \in SUBSET E |-> next(F, s)]
      PROVE  \A s \in SUBSET E : F[s] = size[s]
  <2> DEFINE wrong == {s \in SUBSET E : F[s] # size[s]}
             sizes == {Cardinality(s) : s \in wrong}
  <2> SUFFICES ASSUME wrong # {} PROVE FALSE
    OBVIOUS
  <2>1. \A s \in SUBSET E : F[s] = next(F, s)
    BY <1>4
  <2>2. sizes \subseteq Nat
    <3>1. \A s \in wrong : Cardinality(s) \in Nat
      <4> SUFFICES ASSUME NEW s \in wrong PROVE Cardinality(s) \in Nat
        OBVIOUS
      <4>1. s \subseteq E
        OBVIOUS
      <4> QED BY <4>1, FS_Subset, FS_CardinalityType
    <3> HIDE DEF wrong
    <3> QED BY <3>1
  <2>3. sizes # {}
    <3> HIDE DEF wrong
    <3> QED OBVIOUS
  <2>4. PICK n \in sizes : \A m \in sizes : n <= m
    <3> HIDE DEF sizes
    <3> QED BY <2>2, <2>3, LeastNumber
  <2>5. PICK s \in wrong : Cardinality(s) = n
    OBVIOUS
  <2>6. s \in SUBSET E /\ F[s] # size[s]
    OBVIOUS
  <2> HIDE DEF size
  <2>7. s # {}
    BY <1>2, <2>1, <2>6
  <2>8. PICK x \in s : x = CHOOSE y \in s : TRUE
    BY <2>7
  <2>9. /\ Cardinality(s \ {x}) < Cardinality(s)
        /\ Cardinality(s) \in Nat /\ Cardinality(s \ {x}) \in Nat
    BY <1>0, <2>6
  <2>10. s \ {x} \in wrong
    <3>1. s \ {x} \in SUBSET E
      BY <2>6
    <3>2. F[s] = f[x] + F[s \ {x}] /\ size[s] = f[x] + size[s \ {x}]
      BY <1>2, <2>1, <2>6, <2>7, <2>8
    <3> QED BY <2>6, <3>1, <3>2
  <2>11. Cardinality(s \ {x}) \in sizes
    BY <2>10
  <2> HIDE DEF wrong, sizes
  <2> QED BY <2>2, <2>4, <2>5, <2>9, <2>11
<1> DEFINE iter == CHOOSE F : F = [s \in SUBSET E |-> next(F, s)]
<1>5. iter = [s \in SUBSET E |-> next(iter, s)]
  <2> HIDE DEF size, next
  <2> QED BY <1>3
<1>6. iter[E] = size[E]
  <2> HIDE DEF iter, size, next
  <2> QED BY <1>4, <1>5
<1> QED BY <1>1, <1>6

-----------------------------------------------------------------------------
(* A day at rest. *)

\* The table of a day at rest has the groups of the rows of that day, and the counts
\* that only grow are theirs.
LEMMA RestIsExact ==
    ASSUME RollupInv, CompletedRunCounts, NEW t \in TableNames,
           NEW d, AtRest(d), NEW row \in source, Reads(t, row), row.day = d
    PROVE  /\ Group(t, row) \in DOMAIN table[t]
           /\ \A c \in Columns(t) : Growing(t, c) =>
                table[t][Group(t, row)][c] = Cardinality(Matching(t, Group(t, row), c, source))
<1> DEFINE g == Group(t, row)
           counted == Those(source, settled)
<1>1. Shows(table[t], t, counted) /\ Holds(table[t], t, source)
  BY CountingIs DEF RollupInv
<1>2. row \in counted
  BY DEF AtRest, Those
<1>3. g \in Groups(t, counted)
  BY <1>2 DEF Groups
<1>4. g \in DOMAIN table[t]
  BY <1>1, <1>3 DEF Shows
<1>5. \A c : Matching(t, g, c, counted) = Matching(t, g, c, source)
  <2>1. \A x \in source : Group(t, x) = g => x \in counted
    <3> SUFFICES ASSUME NEW x \in source, Group(t, x) = g PROVE x \in counted
      OBVIOUS
    <3>1. x.day = d
      BY GroupIsOfDay
    <3> QED BY <3>1 DEF AtRest, Those
  <2>2. counted \subseteq source
    BY DEF Those
  <2> HIDE DEF g, counted
  <2> QED BY <2>1, <2>2 DEF Matching
<1>6. \A c : Cardinality(Matching(t, g, c, source)) \in Nat
  <2> TAKE c
  <2>1. IsFiniteSet(Matching(t, g, c, source))
    BY FS_Subset DEF Matching, RollupInv, RowsStay
  <2> QED BY <2>1, FS_CardinalityType
<1>7. \A c \in Columns(t) : table[t][g][c] \in Nat
  BY <1>4, NumbersIs DEF RollupInv, Numbers
<1> HIDE DEF g, counted
<1>8. \A c \in Columns(t) : Growing(t, c) =>
        table[t][g][c] = Cardinality(Matching(t, g, c, source))
  <2> TAKE c \in Columns(t)
  <2> HAVE Growing(t, c)
  <2>1. table[t][g][c] >= Cardinality(Matching(t, g, c, source))
    BY <1>1, <1>3, <1>5 DEF Shows, Kept
  <2>2. table[t][g][c] <= Cardinality(Matching(t, g, c, source))
    BY <1>1, <1>4 DEF Holds
  <2> QED BY <1>6, <1>7, <2>1, <2>2
<1> QED BY <1>4, <1>8 DEF g

\* usage_rollup_daily is grouped by day and key, x402_rollup_daily by the provider too.
LEMMA DayAndKey ==
    ASSUME NEW row
    PROVE  /\ Group("usage_rollup_daily", row) = <<row.day, row.key>>
           /\ \A d, k : Group("usage_rollup_daily", row) = <<d, k>>
                            <=> row.day = d /\ row.key = k
<1>1. Group("usage_rollup_daily", row) = <<row.day, row.key>>
  BY DEF Group
<1>2. \A a, b, d, k : <<a, b>> = <<d, k>> <=> a = d /\ b = k
  OBVIOUS
<1> QED BY <1>1, <1>2

LEMMA DayKeyAndProvider ==
    ASSUME NEW row
    PROVE  Group("x402_rollup_daily", row) = <<row.day, row.key, row.provider>>
BY DEF Group

\* Requests are all counted, and each as forwarded or as blocked.
LEMMA ColumnsSplit ==
    \A o : /\ InUsageColumn("total", o)
           /\ InUsageColumn("forwarded", o) <=> o.reason = None
           /\ InUsageColumn("blocked", o) <=> o.reason # None
BY DEF InUsageColumn

\* What the usage report counts in a column is what happened that day.
LEMMA UsageColumn ==
    ASSUME RollupInv, CompletedRunCounts, NEW d \in 1..Days, AtRest(d),
           NEW u \in AdminUsage(d, d + 1)
    PROVE  \A c \in Columns("usage_rollup_daily") :
             u.usage[c] = Cardinality({x \in source : /\ x.in = "usage_events" /\ x.day = d
                                                      /\ x.key = u.key
                                                      /\ InUsageColumn(c, x.what)})
<1> DEFINE usage == "usage_rollup_daily"
<1>1. usage \in TableNames
  BY TablesAre
<1>2. PICK g \in DOMAIN table[usage] :
        /\ d <= g[1] /\ g[1] < d + 1
        /\ u = [day |-> g[1], key |-> g[2], usage |-> table[usage][g], x402 |-> X402Counts(g[1], g[2])]
  BY DEF AdminUsage, DailyRows, InDays
<1>3. g[1] = d
  BY <1>1, <1>2 DEF RollupInv, TypeOK
<1>4. PICK row \in source : Reads(usage, row) /\ Group(usage, row) = g
  BY <1>1, CountingIs DEF RollupInv, Holds, Groups
<1>5. g = <<row.day, row.key>>
  BY <1>4, DayAndKey
<1>6. row.day = d /\ g = <<d, u.key>> /\ u.usage = table[usage][g]
  BY <1>2, <1>3, <1>5
<1>7. \A c \in Columns(usage) : u.usage[c] = Cardinality(Matching(usage, g, c, source))
  BY <1>1, <1>4, <1>6, RestIsExact DEF Growing
<1>8. \A c : Matching(usage, g, c, source) =
               {x \in source : /\ x.in = "usage_events" /\ x.day = d /\ x.key = u.key
                               /\ InUsageColumn(c, x.what)}
  <2>1. \A x : Reads(usage, x) <=> x.in = "usage_events"
    BY DEF Reads
  <2>2. \A x : Group(usage, x) = g <=> x.day = d /\ x.key = u.key
    <3> TAKE x
    <3>1. \A a, k : Group(usage, x) = <<a, k>> <=> x.day = a /\ x.key = k
      BY DayAndKey
    <3> QED BY <1>6, <3>1
  <2>3. \A x, c : Counts(usage, c, x) <=> InUsageColumn(c, x.what)
    BY DEF Counts
  <2> QED BY <2>1, <2>2, <2>3 DEF Matching
<1> QED BY <1>7, <1>8

\* The intents that the usage report counts, over all providers, are those of the day.
LEMMA X402Column ==
    ASSUME RollupInv, CompletedRunCounts, NEW d \in 1..Days, AtRest(d), NEW k
    PROVE  X402Counts(d, k)["intents_created"] =
             Cardinality({x \in source : x.in = "payment_intents" /\ x.day = d /\ x.key = k})
<1> DEFINE t == "x402_rollup_daily"
           c == "intents_created"
           intents == {x \in source : x.in = "payment_intents" /\ x.day = d /\ x.key = k}
           found == {g \in DOMAIN table[t] : g[1] = d /\ g[2] = k}
           ev == [g \in found |-> Matching(t, g, c, source)]
           f == [g \in found |-> table[t][g][c]]
           group == [x \in intents |-> Group(t, x)]
<1>1. t \in TableNames /\ c \in Columns(t) /\ Growing(t, c)
  BY TablesAre DEF Columns, Growing
<1>2. IsFiniteSet(source) /\ IsFiniteSet(intents)
  BY FS_Subset DEF RollupInv, RowsStay
<1>3. \A x : /\ Reads(t, x) <=> x.in = "payment_intents"
             /\ Counts(t, c, x)
             /\ Group(t, x)[1] = x.day /\ Group(t, x)[2] = x.key
  BY DayKeyAndProvider DEF Reads, Counts, InX402Column
<1>4. \A x \in intents : Group(t, x) \in found
  <2> TAKE x \in intents
  <2>1. x \in source /\ Reads(t, x) /\ x.day = d /\ x.key = k
    BY <1>3
  <2> HIDE DEF t, intents
  <2>2. Group(t, x) \in DOMAIN table[t]
    BY <1>1, <2>1, RestIsExact
  <2> QED BY <1>3, <2>1, <2>2
<1>5. \A g \in found : \E x \in intents : Group(t, x) = g
  <2> TAKE g \in found
  <2>1. PICK x \in source : Reads(t, x) /\ Group(t, x) = g
    BY <1>1, CountingIs DEF RollupInv, Holds, Groups
  <2> QED BY <1>3, <2>1
<1>6. \A g \in found : f[g] = Cardinality(ev[g])
  <2> TAKE g \in found
  <2>1. PICK x \in intents : Group(t, x) = g
    BY <1>5
  <2>2. x \in source /\ Reads(t, x) /\ x.day = d
    BY <1>3
  <2>3. f[g] = table[t][g][c] /\ ev[g] = Matching(t, g, c, source)
    OBVIOUS
  <2> HIDE DEF t, c, ev, f
  <2> QED BY <1>1, <2>1, <2>2, <2>3, RestIsExact
<1>7. \A g \in found : ev[g] = {x \in intents : Group(t, x) = g}
  <2> TAKE g \in found
  <2>1. \A x \in source : Reads(t, x) /\ Group(t, x) = g => x \in intents
    BY <1>3
  <2>2. ev[g] = Matching(t, g, c, source)
    OBVIOUS
  <2>3. intents \subseteq source /\ \A x \in intents : Reads(t, x)
    BY <1>3
  <2> HIDE DEF t, c, ev, intents, found
  <2> QED BY <1>3, <2>1, <2>2, <2>3 DEF Matching
<1>8. IsFiniteSet(found)
  <2>1. group \in Surjection(intents, found)
    <3> HIDE DEF intents, found, t
    <3> QED BY <1>4, <1>5 DEF Surjection
  <2> HIDE DEF group, intents, found
  <2> QED BY <1>2, <2>1, FS_Surjection
<1>9. X402Counts(d, k)[c] = SumFunction(f)
  BY <1>1 DEF X402Counts
<1>10. DOMAIN f = found
  OBVIOUS
<1> HIDE DEF t, c, intents, found, ev, f, group
<1>11. Apart(ev, found)
  <2>1. \A g \in found : ev[g] \subseteq intents
    BY <1>7
  <2>2. \A g \in found : IsFiniteSet(ev[g])
    BY <1>2, <2>1, FS_Subset
  <2>3. \A g, h \in found : g # h => ev[g] \cap ev[h] = {}
    BY <1>7
  <2> QED BY <2>2, <2>3 DEF Apart
<1>12. AllOf(ev, found) = intents
  <2>1. \A x \in intents : x \in ev[Group(t, x)]
    BY <1>4, <1>7
  <2>2. \A g \in found : ev[g] \subseteq intents
    BY <1>7
  <2> QED BY <1>4, <2>1, <2>2 DEF AllOf
<1>13. SumFunction(f) = Cardinality(AllOf(ev, found))
  BY <1>6, <1>8, <1>10, <1>11, CountsAddUp
<1> QED BY <1>9, <1>12, <1>13 DEF c, intents

\* What the usage report says of a day at rest is what happened that day.
THEOREM UsageAtRestAgrees == Spec => []UsageAtRest
<1>1. ASSUME RollupInv, CompletedRunCounts, NEW d \in 1..Days, AtRest(d)
      PROVE  /\ \A u \in AdminUsage(d, d + 1) :
                  /\ u.day = d
                  /\ \E row \in source : row.in = "usage_events" /\ row.day = d /\ row.key = u.key
                  /\ u.usage["total"] =
                       Cardinality({row \in source : row.in = "usage_events"
                                                     /\ row.day = d /\ row.key = u.key})
                  /\ u.usage["forwarded"] + u.usage["blocked"] = u.usage["total"]
                  /\ u.x402["intents_created"] =
                       Cardinality({row \in source : row.in = "payment_intents"
                                                     /\ row.day = d /\ row.key = u.key})
             /\ \A row \in source : row.in = "usage_events" /\ row.day = d =>
                  \E u \in AdminUsage(d, d + 1) : u.key = row.key
  <2> DEFINE usage == "usage_rollup_daily"
             x402 == "x402_rollup_daily"
  <2>1. usage \in TableNames /\ x402 \in TableNames
    BY TablesAre
  <2>2. IsFiniteSet(source) /\ TypeOK
    BY <1>1 DEF RollupInv, RowsStay
  <2>3. ASSUME NEW u \in AdminUsage(d, d + 1)
        PROVE  /\ u.day = d
               /\ \E row \in source : row.in = "usage_events" /\ row.day = d /\ row.key = u.key
               /\ u.usage["total"] =
                    Cardinality({row \in source : row.in = "usage_events"
                                                  /\ row.day = d /\ row.key = u.key})
               /\ u.usage["forwarded"] + u.usage["blocked"] = u.usage["total"]
               /\ u.x402["intents_created"] =
                    Cardinality({row \in source : row.in = "payment_intents"
                                                  /\ row.day = d /\ row.key = u.key})
    <3>1. PICK g \in DOMAIN table[usage] :
            /\ d <= g[1] /\ g[1] < d + 1
            /\ u = [day |-> g[1], key |-> g[2], usage |-> table[usage][g], x402 |-> X402Counts(g[1], g[2])]
      BY DEF AdminUsage, DailyRows, InDays
    <3>2. g[1] = d
      BY <2>1, <2>2, <3>1 DEF TypeOK
    <3>3. PICK row \in source : Reads(usage, row) /\ Group(usage, row) = g
      BY <1>1, <2>1, CountingIs DEF RollupInv, Holds, Groups
    <3>4. row.in = "usage_events" /\ g = <<row.day, row.key>>
      BY <3>3, DayAndKey DEF Reads
    <3>5. /\ row.day = d /\ row.key = g[2] /\ g = <<d, g[2]>>
          /\ u.day = d /\ u.key = g[2] /\ u.usage = table[usage][g] /\ u.x402 = X402Counts(d, g[2])
      BY <3>1, <3>2, <3>4
    <3> DEFINE In(c) == {x \in source : /\ x.in = "usage_events" /\ x.day = d
                                        /\ x.key = u.key /\ InUsageColumn(c, x.what)}
    <3>6. \A c \in Columns(usage) : u.usage[c] = Cardinality(In(c))
      BY <1>1, UsageColumn
    <3>8. u.usage["total"] =
            Cardinality({x \in source : x.in = "usage_events" /\ x.day = d /\ x.key = u.key})
      <4>1. In("total") =
              {x \in source : x.in = "usage_events" /\ x.day = d /\ x.key = u.key}
        BY ColumnsSplit
      <4> QED BY <3>6, <4>1 DEF Columns
    <3>9. u.usage["forwarded"] + u.usage["blocked"] = u.usage["total"]
      <4> DEFINE all == In("total")
                 fwd == In("forwarded")
                 blk == In("blocked")
      <4>1. all = fwd \cup blk /\ fwd \cap blk = {}
        BY ColumnsSplit
      <4>2. IsFiniteSet(fwd) /\ IsFiniteSet(blk)
        BY <2>2, FS_Subset
      <4>3. /\ u.usage["total"] = Cardinality(all)
            /\ u.usage["forwarded"] = Cardinality(fwd)
            /\ u.usage["blocked"] = Cardinality(blk)
        BY <3>6 DEF Columns
      <4> HIDE DEF all, fwd, blk
      <4>4. Cardinality(fwd \cup blk) = Cardinality(fwd) + Cardinality(blk)
        <5>1. Cardinality(fwd \cap blk) = 0
          BY <4>1, FS_EmptySet
        <5>2. Cardinality(fwd) \in Nat /\ Cardinality(blk) \in Nat
          BY <4>2, FS_CardinalityType
        <5>3. Cardinality(fwd \cup blk) =
                Cardinality(fwd) + Cardinality(blk) - Cardinality(fwd \cap blk)
          BY <4>2, FS_Union
        <5> QED BY <5>1, <5>2, <5>3
      <4> QED BY <4>1, <4>3, <4>4
    <3>10. u.x402["intents_created"] =
             Cardinality({x \in source : x.in = "payment_intents" /\ x.day = d /\ x.key = u.key})
      <4>1. X402Counts(d, u.key)["intents_created"] =
              Cardinality({x \in source : x.in = "payment_intents" /\ x.day = d /\ x.key = u.key})
        BY <1>1, X402Column
      <4> QED BY <3>5, <4>1
    <3> QED BY <3>4, <3>5, <3>8, <3>9, <3>10
  <2>4. ASSUME NEW row \in source, row.in = "usage_events", row.day = d
        PROVE  \E u \in AdminUsage(d, d + 1) : u.key = row.key
    <3>1. Group(usage, row) = <<d, row.key>>
      BY <2>4, DayAndKey
    <3>2. <<d, row.key>> \in DOMAIN table[usage]
      BY <1>1, <2>1, <2>4, <3>1, RestIsExact DEF Reads
    <3> DEFINE g == <<d, row.key>>
    <3>3. [day |-> g[1], key |-> g[2], usage |-> table[usage][g], x402 |-> X402Counts(g[1], g[2])]
            \in AdminUsage(d, d + 1)
      BY <3>2 DEF AdminUsage, DailyRows, InDays
    <3> QED BY <3>3
  <2> QED BY <2>3, <2>4
<1>2. RollupInv /\ CompletedRunCounts => UsageAtRest
  <2> SUFFICES ASSUME RollupInv, CompletedRunCounts PROVE UsageAtRest
    OBVIOUS
  <2>1. ASSUME NEW d \in 1..Days, AtRest(d)
        PROVE  {u.key : u \in AdminUsage(d, d + 1)} =
                 {row.key : row \in {x \in source : x.in = "usage_events" /\ x.day = d}}
    <3> DEFINE U == AdminUsage(d, d + 1)
    <3>1. \A u \in U : \E row \in source :
            row.in = "usage_events" /\ row.day = d /\ row.key = u.key
      BY <1>1, <2>1
    <3>2. \A row \in source : row.in = "usage_events" /\ row.day = d =>
            \E u \in U : u.key = row.key
      BY <1>1, <2>1
    <3> HIDE DEF U
    <3>3. {u.key : u \in U} =
            {row.key : row \in {x \in source : x.in = "usage_events" /\ x.day = d}}
      BY <3>1, <3>2
    <3> QED BY <3>3 DEF U
  <2>2. ASSUME NEW d \in 1..Days, AtRest(d), NEW u \in AdminUsage(d, d + 1)
        PROVE  LET n == Cardinality({row \in source : row.in = "usage_events"
                                                       /\ row.day = d /\ row.key = u.key})
               IN  /\ u.day = d
                   /\ u.usage["total"] = n
                   /\ u.usage["forwarded"] + u.usage["blocked"] = n
                   /\ u.x402["intents_created"] =
                        Cardinality({row \in source : row.in = "payment_intents"
                                                      /\ row.day = d /\ row.key = u.key})
    BY <1>1, <2>2
  <2> QED BY <2>1, <2>2 DEF UsageAtRest
<1> QED BY <1>2, RollupInvariance, CompletedRunsCount, PTL

-----------------------------------------------------------------------------
(* The error report of a day at rest. *)

\* The requests of a day and key that are errors in one of some buckets.
ErrorsIn(d, k, buckets) ==
    {row \in source : /\ row.in = "usage_events" /\ IsError(row.what)
                      /\ row.day = d /\ row.key = k /\ Bucket(row.what) \in buckets}

\* The row of the report for a day, key and bucket.
ReportRow(d, k, b) ==
    [day |-> d, key |-> k, bucket |-> b, provider |-> None, source |-> "gateway",
     count |-> table["error_rollup_daily"][<<d, k, b>>]["count"]]

LEMMA ReportRowIs ==
    \A d, k, b : /\ ReportRow(d, k, b).bucket = b
                 /\ ReportRow(d, k, b).count = table["error_rollup_daily"][<<d, k, b>>]["count"]
BY DEF ReportRow

\* A row of the report of a day at rest counts the events of its bucket.
LEMMA ErrorRow ==
    ASSUME RollupInv, CompletedRunCounts, NEW d \in 1..Days, AtRest(d), NEW k, NEW buckets
    PROVE  \A e \in Errors(k, d, buckets) : \E b \in buckets :
             /\ e = ReportRow(d, k, b)
             /\ table["error_rollup_daily"][<<d, k, b>>]["count"]
                  = Cardinality(ErrorsIn(d, k, {b}))
             /\ \E row \in ErrorsIn(d, k, buckets) : Bucket(row.what) = b
<1> SUFFICES ASSUME NEW e \in Errors(k, d, buckets)
             PROVE  \E b \in buckets :
                      /\ e = ReportRow(d, k, b)
                      /\ table["error_rollup_daily"][<<d, k, b>>]["count"]
                           = Cardinality(ErrorsIn(d, k, {b}))
                      /\ \E row \in ErrorsIn(d, k, buckets) : Bucket(row.what) = b
  OBVIOUS
<1> DEFINE t == "error_rollup_daily"
           b == e.bucket
<1>1. t \in TableNames
  BY TablesAre
<1>2. e \in AdminErrors(d, d + 1) /\ e.source = "gateway" /\ e.key = k /\ b \in buckets
  BY DEF Errors
<1>3. e \in GatewayErrors(d, d + 1)
  BY <1>2 DEF AdminErrors, X402Errors
<1>4. PICK g \in DOMAIN table[t] :
        /\ d <= g[1] /\ g[1] < d + 1
        /\ e = [day |-> g[1], key |-> g[2], bucket |-> g[3], provider |-> None,
                source |-> "gateway", count |-> table[t][g]["count"]]
  BY <1>3 DEF GatewayErrors, DailyRows, InDays
<1>5. g[1] = d
  BY <1>1, <1>4 DEF RollupInv, TypeOK
<1>6. PICK row \in source : Reads(t, row) /\ Group(t, row) = g
  BY <1>1, CountingIs DEF RollupInv, Holds, Groups
<1>7. g = <<row.day, row.key, Bucket(row.what)>>
  BY <1>6 DEF Group
<1>8. /\ row.day = d /\ row.key = k /\ Bucket(row.what) = b
      /\ g = <<d, k, b>> /\ e = ReportRow(d, k, b)
  BY <1>2, <1>4, <1>5, <1>7 DEF ReportRow
<1>9. table[t][g]["count"] = Cardinality(Matching(t, g, "count", source))
  BY <1>1, <1>6, <1>8, RestIsExact DEF Columns, Growing
<1>10. Matching(t, g, "count", source) = ErrorsIn(d, k, {b})
  <2>1. \A x : Group(t, x) = g <=> x.day = d /\ x.key = k /\ Bucket(x.what) = b
    <3> TAKE x
    <3>1. Group(t, x) = <<x.day, x.key, Bucket(x.what)>>
      BY DEF Group
    <3> QED BY <1>8, <3>1
  <2>2. \A x : Reads(t, x) <=> x.in = "usage_events" /\ IsError(x.what)
    BY DEF Reads
  <2>3. \A x : Counts(t, "count", x)
    BY DEF Counts
  <2> HIDE DEF t, b
  <2> QED BY <2>1, <2>2, <2>3 DEF Matching, ErrorsIn
<1>11. row \in ErrorsIn(d, k, buckets)
  BY <1>2, <1>6, <1>8 DEF Reads, ErrorsIn
<1> HIDE DEF b
<1> QED BY <1>2, <1>8, <1>9, <1>10, <1>11

\* Every bucket with an event has a row.
LEMMA RowOfError ==
    ASSUME RollupInv, CompletedRunCounts, NEW d \in 1..Days, AtRest(d), NEW k, NEW buckets
    PROVE  \A row \in ErrorsIn(d, k, buckets) :
             ReportRow(d, k, Bucket(row.what)) \in Errors(k, d, buckets)
<1> SUFFICES ASSUME NEW row \in ErrorsIn(d, k, buckets)
             PROVE  ReportRow(d, k, Bucket(row.what)) \in Errors(k, d, buckets)
  OBVIOUS
<1> DEFINE t == "error_rollup_daily"
           g == <<d, k, Bucket(row.what)>>
<1>1. t \in TableNames
  BY TablesAre
<1>2. /\ row \in source /\ Reads(t, row) /\ row.day = d /\ Group(t, row) = g
      /\ Bucket(row.what) \in buckets
  BY DEF ErrorsIn, Reads, Group
<1>3. g \in DOMAIN table[t]
  BY <1>1, <1>2, RestIsExact
<1>4. [day |-> g[1], key |-> g[2], bucket |-> g[3], provider |-> None, source |-> "gateway",
       count |-> table[t][g]["count"]] \in GatewayErrors(d, d + 1)
  <2>1. g \in DailyRows(t, d, d + 1)
    BY <1>3 DEF DailyRows, InDays
  <2> HIDE DEF g
  <2> QED BY <2>1 DEF GatewayErrors
<1>5. ReportRow(d, k, Bucket(row.what)) \in GatewayErrors(d, d + 1)
  BY <1>4 DEF ReportRow
<1>6. /\ ReportRow(d, k, Bucket(row.what)).source = "gateway"
      /\ ReportRow(d, k, Bucket(row.what)).key = k
      /\ ReportRow(d, k, Bucket(row.what)).bucket = Bucket(row.what)
  BY DEF ReportRow
<1> QED BY <1>2, <1>5, <1>6 DEF Errors, AdminErrors

\* The sum over buckets of the error report is the number of errors in those buckets.
LEMMA BucketsAddUp ==
    ASSUME RollupInv, CompletedRunCounts, NEW d \in 1..Days, AtRest(d), NEW k, NEW buckets
    PROVE  SumCounts(Errors(k, d, buckets)) = Cardinality(ErrorsIn(d, k, buckets))
<1> DEFINE E == Errors(k, d, buckets)
           events == ErrorsIn(d, k, buckets)
           ev == [e \in E |-> ErrorsIn(d, k, {e.bucket})]
           f == [row \in events |-> ReportRow(d, k, Bucket(row.what))]
<1>1. \A e \in E : \E b \in buckets :
        /\ e = ReportRow(d, k, b)
        /\ table["error_rollup_daily"][<<d, k, b>>]["count"] = Cardinality(ErrorsIn(d, k, {b}))
        /\ \E row \in events : Bucket(row.what) = b
  BY ErrorRow
<1>2. \A row \in events : ReportRow(d, k, Bucket(row.what)) \in E
  BY RowOfError
<1>3. \A e \in E : /\ e.bucket \in buckets /\ e = ReportRow(d, k, e.bucket)
                   /\ e.count = Cardinality(ErrorsIn(d, k, {e.bucket}))
  <2> TAKE e \in E
  <2> HIDE DEF E, events
  <2>1. PICK b \in buckets :
          /\ e = ReportRow(d, k, b)
          /\ table["error_rollup_daily"][<<d, k, b>>]["count"] = Cardinality(ErrorsIn(d, k, {b}))
    BY <1>1
  <2>2. e.bucket = b /\ e.count = table["error_rollup_daily"][<<d, k, b>>]["count"]
    BY <2>1 DEF ReportRow
  <2> QED BY <2>1, <2>2
<1>4. /\ IsFiniteSet(source) /\ IsFiniteSet(events)
      /\ \A b : ErrorsIn(d, k, {b}) \subseteq source
  BY FS_Subset DEF RollupInv, RowsStay, ErrorsIn
<1>5. IsFiniteSet(E)
  <2>1. f \in Surjection(events, E)
    <3> HIDE DEF E, events
    <3> QED BY <1>1, <1>2 DEF Surjection
  <2> HIDE DEF f, E, events
  <2> QED BY <1>4, <2>1, FS_Surjection
<1>6. Apart(ev, E)
  <2>1. \A e \in E : IsFiniteSet(ev[e])
    <3> TAKE e \in E
    <3>1. ErrorsIn(d, k, {e.bucket}) \subseteq source
      BY <1>4
    <3> QED BY <1>4, <3>1, FS_Subset
  <2>2. \A e1, e2 \in E : e1 # e2 => e1.bucket # e2.bucket
    BY <1>3
  <2>3. \A a, b : a # b => ErrorsIn(d, k, {a}) \cap ErrorsIn(d, k, {b}) = {}
    BY DEF ErrorsIn
  <2>4. \A e1, e2 \in E : e1 # e2 => ev[e1] \cap ev[e2] = {}
    BY <2>2, <2>3
  <2> HIDE DEF E, ev
  <2> QED BY <2>1, <2>4 DEF Apart
<1>7. \A e \in E : e.count = Cardinality(ev[e])
  BY <1>3
<1>8. AllOf(ev, E) = events
  <2>1. \A b \in buckets : ErrorsIn(d, k, {b}) \subseteq events
    BY DEF ErrorsIn
  <2>2. \A e \in E : ev[e] \subseteq events
    BY <1>3, <2>1
  <2>3. \A row \in events : \E e \in E : row \in ev[e]
    <3> TAKE row \in events
    <3>1. row \in ErrorsIn(d, k, {Bucket(row.what)})
      BY DEF ErrorsIn
    <3>2. ev[ReportRow(d, k, Bucket(row.what))] = ErrorsIn(d, k, {Bucket(row.what)})
      BY <1>2, ReportRowIs
    <3> QED BY <1>2, <3>1, <3>2
  <2> HIDE DEF E, ev, events
  <2> QED BY <2>2, <2>3 DEF AllOf
<1> HIDE DEF E, ev, f, events
<1>9. SumCounts(E) = Cardinality(AllOf(ev, E))
  <2> DEFINE counts == [e \in E |-> e.count]
  <2>1. DOMAIN counts = E /\ \A e \in E : counts[e] = Cardinality(ev[e])
    BY <1>7
  <2>2. SumCounts(E) = SumFunction(counts)
    BY DEF SumCounts
  <2> HIDE DEF counts
  <2> QED BY <1>5, <1>6, <2>1, <2>2, CountsAddUp
<1> QED BY <1>8, <1>9 DEF E, events

\* Which requests are in which buckets: a reason is one of the blocked buckets, and a
\* status from 400 to 599 one of the upstream buckets, whichever status it is.
LEMMA BucketsAre ==
    ASSUME NEW o \in Outcome
    PROVE  /\ (IsError(o) /\ Bucket(o) \in Reasons) <=> o.reason # None
           /\ (IsError(o) /\ Bucket(o) \in UpstreamBuckets)
                <=> (InUsageColumn("4xx", o) \/ InUsageColumn("5xx", o))
           /\ ~(InUsageColumn("4xx", o) /\ InUsageColumn("5xx", o))
<1>1. \/ o.reason \in Reasons /\ o.reason # None /\ o.status = None
      \/ o.reason = None /\ o.status \in Statuses /\ o.status # None /\ o.status \in 100..999
  <2>1. CASE o \in [reason : Reasons, status : {None}]
    BY <2>1, RollupAssumption
  <2>2. CASE o \in [reason : {None}, status : Statuses]
    <3>1. o.reason = None /\ o.status \in Statuses
      BY <2>2
    <3>2. Statuses \subseteq 100..999 /\ None \notin Statuses
      BY RollupAssumption
    <3>3. o.status \in 100..999
      BY <3>1, <3>2
    <3>4. o.status # None
      BY <3>1, <3>2
    <3> QED BY <3>1, <3>3, <3>4
  <2> QED BY <2>1, <2>2 DEF Outcome
<1>2. /\ InUsageColumn("4xx", o) <=> Between(o, 400, 499)
      /\ InUsageColumn("5xx", o) <=> Between(o, 500, 599)
  BY DEF InUsageColumn
<1>3. CASE o.reason # None
  <2>1. o.reason \in Reasons /\ o.status = None /\ Bucket(o) = o.reason
    BY <1>1, <1>3 DEF Bucket
  <2> QED BY <1>2, <1>3, <2>1, BucketsAssumption DEF IsError, Between
<1>4. CASE o.reason = None
  <2>1. o.status \in 100..999 /\ o.status # None
    BY <1>1, <1>4
  <2>2. CASE o.status \in 400..499
    <3>1. Bucket(o) = "upstream_4xx"
      BY <1>4, <2>1, <2>2 DEF Bucket, Between
    <3> QED BY <1>2, <1>4, <2>1, <2>2, <3>1, BucketsAssumption
            DEF IsError, Between, UpstreamBuckets
  <2>3. CASE o.status \in 500..599
    <3>1. Bucket(o) \in {"upstream_timeout", "upstream_bad_gateway", "upstream_5xx"}
      BY <1>4, <2>1, <2>3 DEF Bucket, Between
    <3> QED BY <1>2, <1>4, <2>1, <2>3, <3>1, BucketsAssumption
            DEF IsError, Between, UpstreamBuckets
  <2>4. CASE o.status \notin 400..499 /\ o.status \notin 500..599
    <3>1. Bucket(o) = "other"
      BY <1>4, <2>1, <2>4 DEF Bucket, Between
    <3> QED BY <1>2, <1>4, <2>1, <2>4, <3>1, BucketsAssumption
            DEF IsError, Between, UpstreamBuckets
  <2> QED BY <2>2, <2>3, <2>4
<1> QED BY <1>3, <1>4

\* The two reports of a day at rest agree on what was blocked and on what failed upstream,
\* though different statements count them, at different moments.
THEOREM ErrorsAtRestAgree == Spec => []ErrorsAtRest
<1>1. ASSUME RollupInv, CompletedRunCounts, NEW d \in 1..Days, AtRest(d),
             NEW u \in AdminUsage(d, d + 1)
      PROVE  /\ u.usage["blocked"] = SumCounts(Errors(u.key, d, Reasons))
             /\ u.usage["4xx"] + u.usage["5xx"] = SumCounts(Errors(u.key, d, UpstreamBuckets))
  <2> DEFINE In(c) == {x \in source : /\ x.in = "usage_events" /\ x.day = d
                                      /\ x.key = u.key /\ InUsageColumn(c, x.what)}
             failed == ErrorsIn(d, u.key, UpstreamBuckets)
  <2>1. /\ u.usage["blocked"] = Cardinality(In("blocked"))
        /\ u.usage["4xx"] = Cardinality(In("4xx"))
        /\ u.usage["5xx"] = Cardinality(In("5xx"))
    BY <1>1, UsageColumn DEF Columns
  <2>2. IsFiniteSet(source) /\ source \subseteq Rows
    BY <1>1 DEF RollupInv, RowsStay, TypeOK
  <2>3. \A x \in source : x.in = "usage_events" => x.what \in Outcome
    BY <2>2, RowTypes
  <2>4. In("blocked") = ErrorsIn(d, u.key, Reasons)
    <3>1. \A x \in source : x.in = "usage_events" =>
            (InUsageColumn("blocked", x.what)
               <=> IsError(x.what) /\ Bucket(x.what) \in Reasons)
      BY <2>3, BucketsAre, ColumnsSplit
    <3> QED BY <3>1 DEF ErrorsIn
  <2>5. failed = In("4xx") \cup In("5xx") /\ In("4xx") \cap In("5xx") = {}
    <3>1. \A x \in source : x.in = "usage_events" =>
            /\ (InUsageColumn("4xx", x.what) \/ InUsageColumn("5xx", x.what))
                 <=> (IsError(x.what) /\ Bucket(x.what) \in UpstreamBuckets)
            /\ ~(InUsageColumn("4xx", x.what) /\ InUsageColumn("5xx", x.what))
      BY <2>3, BucketsAre
    <3> QED BY <3>1 DEF ErrorsIn
  <2>6. IsFiniteSet(In("4xx")) /\ IsFiniteSet(In("5xx"))
    BY <2>2, FS_Subset
  <2>7. SumCounts(Errors(u.key, d, Reasons)) = Cardinality(ErrorsIn(d, u.key, Reasons))
    BY <1>1, BucketsAddUp
  <2>8. SumCounts(Errors(u.key, d, UpstreamBuckets)) = Cardinality(failed)
    BY <1>1, BucketsAddUp
  <2> HIDE DEF In, failed
  <2>9. Cardinality(failed) = Cardinality(In("4xx")) + Cardinality(In("5xx"))
    <3>1. Cardinality(In("4xx") \cap In("5xx")) = 0
      BY <2>5, FS_EmptySet
    <3>2. Cardinality(In("4xx")) \in Nat /\ Cardinality(In("5xx")) \in Nat
      BY <2>6, FS_CardinalityType
    <3>3. Cardinality(In("4xx") \cup In("5xx")) =
            Cardinality(In("4xx")) + Cardinality(In("5xx"))
              - Cardinality(In("4xx") \cap In("5xx"))
      BY <2>6, FS_Union
    <3> QED BY <2>5, <3>1, <3>2, <3>3
  <2> QED BY <2>1, <2>4, <2>7, <2>8, <2>9
<1>2. RollupInv /\ CompletedRunCounts => ErrorsAtRest
  BY <1>1 DEF ErrorsAtRest
<1> QED BY <1>2, RollupInvariance, CompletedRunsCount, PTL

=============================================================================
