------------------------- MODULE PolicyCacheProofs -------------------------
(***************************************************************************)
(* Proofs about PolicyCache: the cache's invariant, and from it how stale  *)
(* a policy can be, for any life of an entry, bound on a load, number of   *)
(* requests and number of updates.                                         *)
(***************************************************************************)
EXTENDS PolicyCache, TLAPS

LEMMA Constants ==
    /\ Ttl \in Nat /\ Ttl > 0 /\ MaxDelay \in Nat
    /\ MaxVersion \in Nat /\ MaxVersion > 0 /\ MaxClock \in Nat
  BY CacheAssumption

LEMMA InitCacheInv == Init => CacheInv
  <1> SUFFICES ASSUME Init PROVE CacheInv
    OBVIOUS
  <1> USE Constants
  <1>1. TypeOK
    BY DEF Init, TypeOK, NoLoad, NoPolicy, Steps, Versions, Never
  <1>2. EntryOK /\ CurrentOK
    BY DEF Init, EntryOK, CurrentOK, Replaced, Never, NoPolicy, Versions
  <1>3. \A p \in Slots : LoadOK(p)
    BY DEF Init, LoadOK, NoLoad
  <1> QED
    BY <1>1, <1>2, <1>3 DEF CacheInv

-----------------------------------------------------------------------------
(* What a step needs of the invariant, one lemma per action. *)

\* A load moves on and nothing else changes: only its own knowledge is at stake.
LEMMA LoadMoves ==
    ASSUME CacheInv, NEW p \in Slots,
           NEW l \in [step : Steps, version : 0..MaxVersion, since : Nat,
                      cached : BOOLEAN],
           load' = [load EXCEPT ![p] = l],
           UNCHANGED <<clock, row, retiredAt>>, UNCHANGED entry,
           l.step = "fill" => l.version # NoPolicy, LoadOK(p)'
    PROVE  CacheInv'
  <1> USE Constants
  <1>1. TypeOK'
    BY DEF CacheInv, TypeOK
  <1>2. EntryOK' /\ CurrentOK'
    BY DEF CacheInv, EntryOK, CurrentOK, Replaced
  <1>3. \A q \in Slots : LoadOK(q)'
    <2> TAKE q \in Slots
    <2>1. CASE q = p
      BY <2>1
    <2>2. CASE q # p
      <3>1. load'[q] = load[q]
        BY <2>2 DEF CacheInv, TypeOK
      <3> QED
        BY <3>1 DEF CacheInv, LoadOK, Answers, Replaced
    <2> QED
      BY <2>1, <2>2
  <1> QED
    BY <1>1, <1>2, <1>3 DEF CacheInv

LEMMA StartKeeps ==
    ASSUME CacheInv, NEW p \in Slots, Start(p)
    PROVE  CacheInv'
  <1> USE Constants
  <1> DEFINE l == [step |-> "get", version |-> NoPolicy, since |-> clock,
                   cached |-> FALSE]
  <1>a. clock \in Nat
    BY DEF CacheInv, TypeOK
  <1>1. /\ load' = [load EXCEPT ![p] = l]
        /\ l \in [step : Steps, version : 0..MaxVersion, since : Nat, cached : BOOLEAN]
        /\ l.step = "get" /\ l.since = clock /\ l.cached = FALSE
    BY <1>a DEF Start, NoPolicy, Steps
  <1>2. load'[p] = l /\ clock' = clock /\ clock \in Nat
    BY <1>1 DEF CacheInv, TypeOK, Start
  <1>3. LoadOK(p)'
    <2> HIDE DEF l
    <2> QED
      BY <1>1, <1>2 DEF LoadOK, Answers
  <1> QED
    BY <1>1, <1>3, LoadMoves DEF Start

LEMMA HitKeeps ==
    ASSUME CacheInv, NEW p \in Slots, Hit(p)
    PROVE  CacheInv'
  <1> USE Constants
  <1> DEFINE l == [load[p] EXCEPT !.step = "answer", !.version = entry.version,
                                  !.cached = TRUE]
  <1>1. /\ load' = [load EXCEPT ![p] = l]
        /\ l \in [step : Steps, version : 0..MaxVersion, since : Nat, cached : BOOLEAN]
        /\ l.step = "answer" /\ l.version = entry.version /\ l.cached = TRUE
        /\ l.since = load[p].since
    BY DEF Hit, CacheInv, TypeOK, Steps
  <1>2. load'[p] = l
    BY <1>1 DEF CacheInv, TypeOK
  <1>3. /\ load[p].since \in Nat /\ load[p].since <= clock
        /\ clock <= load[p].since + MaxDelay /\ clock \in Nat
        /\ clock' = clock /\ retiredAt' = retiredAt
    BY DEF Hit, CacheInv, TypeOK, LoadOK
  <1>4. \A v \in Versions : entry.version = v /\ Replaced(v) =>
          /\ retiredAt[v] \in Nat /\ entry.expiresAt \in Nat
          /\ load[p].since < retiredAt[v] + MaxDelay + Ttl
    BY <1>3 DEF Hit, Live, CacheInv, EntryOK, TypeOK, Replaced
  <1>5. LoadOK(p)'
    BY <1>1, <1>2, <1>3, <1>4 DEF LoadOK, Answers, Replaced
  <1> QED
    BY <1>1, <1>5, LoadMoves DEF Hit

LEMMA MissKeeps ==
    ASSUME CacheInv, NEW p \in Slots, Miss(p)
    PROVE  CacheInv'
  <1> USE Constants
  <1> DEFINE l == [load[p] EXCEPT !.step = "fetch"]
  <1>1. /\ load' = [load EXCEPT ![p] = l]
        /\ l \in [step : Steps, version : 0..MaxVersion, since : Nat, cached : BOOLEAN]
        /\ l.step = "fetch" /\ l.cached = load[p].cached /\ l.since = load[p].since
    BY DEF Miss, Goto, CacheInv, TypeOK, Steps
  <1>2. load'[p] = l
    BY <1>1 DEF CacheInv, TypeOK
  <1>3. LoadOK(p)'
    BY <1>1, <1>2 DEF Miss, CacheInv, LoadOK, Answers
  <1> QED
    BY <1>1, <1>3, LoadMoves DEF Miss

\* The version in the table has not been replaced.
LEMMA FetchKeeps ==
    ASSUME CacheInv, NEW p \in Slots, Fetch(p)
    PROVE  CacheInv'
  <1> USE Constants
  <1> DEFINE l == [load[p] EXCEPT !.step = IF row = NoPolicy THEN "answer" ELSE "fill",
                                  !.version = row]
  <1>1. /\ load' = [load EXCEPT ![p] = l]
        /\ l \in [step : Steps, version : 0..MaxVersion, since : Nat, cached : BOOLEAN]
        /\ l.step = (IF row = NoPolicy THEN "answer" ELSE "fill")
        /\ l.cached = load[p].cached /\ l.since = load[p].since /\ l.version = row
    BY DEF Fetch, CacheInv, TypeOK, Steps
  <1>2. load'[p] = l
    BY <1>1 DEF CacheInv, TypeOK
  <1>3. \A v \in Versions : row = v => ~Replaced(v)
    BY DEF CacheInv, CurrentOK, Versions, NoPolicy
  <1>4. LoadOK(p)'
    BY <1>1, <1>2, <1>3 DEF Fetch, CacheInv, LoadOK, Answers, Replaced
  <1> QED
    BY <1>1, <1>4, LoadMoves DEF Fetch

LEMMA ForgetKeeps ==
    ASSUME CacheInv, NEW p \in Slots, FetchFails(p) \/ Finish(p)
    PROVE  CacheInv'
  <1> USE Constants
  <1>1. NoLoad \in [step : Steps, version : 0..MaxVersion, since : Nat, cached : BOOLEAN]
    BY DEF NoLoad, NoPolicy, Steps
  <1>2. load' = [load EXCEPT ![p] = NoLoad] /\ UNCHANGED <<clock, row, entry, retiredAt>>
    BY DEF FetchFails, Finish
  <1>3. load'[p] = NoLoad
    BY <1>2 DEF CacheInv, TypeOK
  <1>4. LoadOK(p)'
    BY <1>3 DEF LoadOK, NoLoad
  <1> QED
    BY <1>1, <1>2, <1>4, LoadMoves DEF NoLoad

\* The entry's life starts within MaxDelay of the load that read its version.
LEMMA FillKeeps ==
    ASSUME CacheInv, NEW p \in Slots, Fill(p)
    PROVE  CacheInv'
  <1> USE Constants
  <1> DEFINE l == [load[p] EXCEPT !.step = "answer"]
  <1>1. /\ load' = [load EXCEPT ![p] = l]
        /\ l \in [step : Steps, version : 0..MaxVersion, since : Nat, cached : BOOLEAN]
        /\ l.step = "answer" /\ l.version = load[p].version
        /\ l.cached = load[p].cached /\ l.since = load[p].since
    BY DEF Fill, Goto, CacheInv, TypeOK, Steps
  <1>2. load'[p] = l
    BY <1>1 DEF CacheInv, TypeOK
  <1>3. /\ load[p].step = "fill" /\ load[p].version \in 1..MaxVersion
        /\ ~load[p].cached
        /\ load[p].since \in Nat /\ load[p].since <= clock /\ clock \in Nat
        /\ clock <= load[p].since + MaxDelay
        /\ \A v \in Versions : load[p].version = v /\ Replaced(v) =>
             load[p].since <= retiredAt[v] /\ retiredAt[v] \in Nat
    BY DEF Fill, CacheInv, TypeOK, LoadOK, Replaced, NoPolicy
  <1>4. LoadOK(p)'
    BY <1>1, <1>2, <1>3 DEF Fill, LoadOK, Answers, Replaced, NoPolicy, Versions
  <1>5. CASE UNCHANGED entry
    BY <1>1, <1>4, <1>5, LoadMoves DEF Fill
  <1>6. CASE entry' = [version |-> load[p].version, expiresAt |-> clock + Ttl]
    <2>1. TypeOK'
      BY <1>1, <1>3, <1>6 DEF Fill, CacheInv, TypeOK
    <2>2. EntryOK'
      BY <1>3, <1>6 DEF Fill, EntryOK, Replaced
    <2>3. CurrentOK'
      BY DEF Fill, CacheInv, CurrentOK, Replaced
    <2>4. \A q \in Slots : LoadOK(q)'
      <3> TAKE q \in Slots
      <3>1. CASE q = p
        BY <1>4, <3>1
      <3>2. CASE q # p
        <4>1. load'[q] = load[q]
          BY <3>2, <1>1 DEF CacheInv, TypeOK
        <4> QED
          BY <4>1 DEF Fill, CacheInv, LoadOK, Answers, Replaced
      <3> QED
        BY <3>1, <3>2
    <2> QED
      BY <2>1, <2>2, <2>3, <2>4 DEF CacheInv
  <1> QED
    BY <1>5, <1>6 DEF Fill

\* A version is replaced now: what has read it began earlier, and an entry of it
\* lives a life from now at most.
LEMMA ReplaceKeeps ==
    ASSUME CacheInv, NEW w \in 0..MaxVersion, Replace(w)
    PROVE  CacheInv'
  <1> USE Constants
  <1>1. /\ row \in Versions /\ clock \in Nat /\ row' = w /\ ~Replaced(row)
        /\ w = NoPolicy \/ w = row + 1
        /\ UNCHANGED <<clock, entry, load>>
        /\ retiredAt' = [retiredAt EXCEPT ![row] = clock]
    BY DEF Replace, CacheInv, TypeOK, CurrentOK, Replaced, NoPolicy, Versions
  <1>2. TypeOK'
    BY <1>1 DEF CacheInv, TypeOK
  <1>3. \A v \in Versions : /\ Replaced(v)' <=> Replaced(v) \/ v = row
                            /\ retiredAt'[v] = IF v = row THEN clock ELSE retiredAt[v]
    BY <1>1 DEF Replaced, Never, CacheInv, TypeOK
  <1>4. EntryOK'
    BY <1>1, <1>3 DEF CacheInv, EntryOK, TypeOK
  <1>5. CurrentOK'
    <2> SUFFICES ASSUME NEW v \in Versions, Replaced(v)'
                 PROVE  retiredAt'[v] <= clock' /\ (row' # NoPolicy => v < row')
      BY DEF CurrentOK
    <2>1. retiredAt'[v] <= clock'
      BY <1>1, <1>3 DEF CacheInv, CurrentOK
    <2>2. row' # NoPolicy => v < row'
      BY <1>1, <1>3 DEF CacheInv, CurrentOK, Versions, NoPolicy
    <2> QED
      BY <2>1, <2>2
  <1>6. \A p \in Slots : LoadOK(p)'
    <2> SUFFICES ASSUME NEW p \in Slots, load[p].step # "idle" PROVE LoadOK(p)'
      BY <1>1 DEF LoadOK
    <2>1. load[p].since \in Nat /\ load[p].since <= clock /\ LoadOK(p)
      BY DEF CacheInv, TypeOK, LoadOK
    <2>2. load'[p] = load[p] /\ clock' = clock /\ row # NoPolicy
      BY <1>1 DEF Versions, NoPolicy
    <2>3. ASSUME NEW v \in Versions, Replaced(v)'
          PROVE  /\ load[p].step = "fill" /\ load[p].version = v =>
                      load[p].since <= retiredAt'[v]
                 /\ Answers(p, v) =>
                      IF load[p].cached
                      THEN load[p].since < retiredAt'[v] + MaxDelay + Ttl
                      ELSE load[p].since <= retiredAt'[v]
      <3>1. CASE v = row
        BY <1>1, <1>3, <2>1, <3>1
      <3>2. CASE v # row
        BY <1>3, <2>1, <2>3, <3>2 DEF LoadOK
      <3> QED
        BY <3>1, <3>2
    <2> QED
      BY <2>1, <2>2, <2>3 DEF LoadOK, Answers
  <1> QED
    BY <1>2, <1>4, <1>5, <1>6 DEF CacheInv

LEMMA TickKeeps ==
    ASSUME CacheInv, Tick
    PROVE  CacheInv'
  <1> USE Constants
  <1>1. clock' = clock + 1 /\ clock \in Nat /\ UNCHANGED <<row, entry, load, retiredAt>>
    BY DEF Tick, CacheInv, TypeOK
  <1>2. TypeOK'
    BY <1>1 DEF CacheInv, TypeOK
  <1>3. EntryOK' /\ CurrentOK'
    BY <1>1 DEF CacheInv, TypeOK, EntryOK, CurrentOK, Replaced
  <1>4. \A p \in Slots : LoadOK(p)'
    <2> SUFFICES ASSUME NEW p \in Slots, load[p].step # "idle" PROVE LoadOK(p)'
      BY <1>1 DEF LoadOK
    <2>1. load[p].since \in Nat /\ clock - load[p].since < MaxDelay
      BY DEF Tick, CacheInv, TypeOK
    <2> QED
      BY <1>1, <2>1 DEF CacheInv, LoadOK, Answers, Replaced
  <1> QED
    BY <1>2, <1>3, <1>4 DEF CacheInv

LEMMA CacheInvKept == CacheInv /\ [Next]_vars => CacheInv'
  <1> SUFFICES ASSUME CacheInv, [Next]_vars PROVE CacheInv'
    OBVIOUS
  <1>1. ASSUME NEW p \in Slots,
               \/ Start(p) \/ Hit(p) \/ Miss(p) \/ Fetch(p)
               \/ FetchFails(p) \/ Fill(p) \/ Finish(p)
        PROVE  CacheInv'
    BY <1>1, StartKeeps, HitKeeps, MissKeeps, FetchKeeps, ForgetKeeps, FillKeeps
  <1>2. ASSUME NEW v \in 0..MaxVersion, Replace(v) PROVE CacheInv'
    BY <1>2, ReplaceKeeps
  <1>3. CASE Tick
    BY <1>3, TickKeeps
  <1>4. CASE UNCHANGED vars
    BY <1>4 DEF vars, CacheInv, TypeOK, EntryOK, CurrentOK, LoadOK, Answers, Replaced
  <1> QED
    BY <1>1, <1>2, <1>3, <1>4 DEF Next

-----------------------------------------------------------------------------

\* The invariant of the cache (policies/cache.rs:23) holds in every state.
THEOREM CacheInvariance == Spec => []CacheInv
  BY InitCacheInv, CacheInvKept, PTL DEF Spec

\* No load returns a policy later than one life of an entry and two loads after
\* it was replaced (policies/cache.rs:57).
THEOREM StalenessIsBounded == Spec => []StalenessBounded
  <1>1. CacheInv => StalenessBounded
    <2> SUFFICES ASSUME CacheInv, NEW p \in Slots, NEW v \in Versions,
                        Answers(p, v), Replaced(v)
                 PROVE  clock < retiredAt[v] + Ttl + 2 * MaxDelay
      BY DEF StalenessBounded, Replaced
    <2>1. load[p].since \in Nat /\ retiredAt[v] \in Nat /\ clock \in Nat
      BY DEF CacheInv, TypeOK, Replaced
    <2>2. /\ clock <= load[p].since + MaxDelay
          /\ \/ load[p].since < retiredAt[v] + MaxDelay + Ttl
             \/ load[p].since <= retiredAt[v]
      BY DEF CacheInv, LoadOK, Answers
    <2> QED
      BY <2>1, <2>2, Constants
  <1> QED
    BY <1>1, CacheInvariance, PTL

\* A load that the cache did not answer returns what the table held meanwhile
\* (policies/cache.rs:26, 21).
THEOREM FallbacksAreCurrent == Spec => []FallbackIsCurrent
  <1>1. CacheInv => FallbackIsCurrent
    <2> SUFFICES ASSUME CacheInv, NEW p \in Slots, load[p].step = "answer",
                        ~load[p].cached
                 PROVE  IF load[p].version = NoPolicy THEN row = NoPolicy
                        ELSE retiredAt[load[p].version] = Never
                             \/ retiredAt[load[p].version] >= load[p].since
      BY DEF FallbackIsCurrent
    <2>1. LoadOK(p) /\ load[p].version \in 0..MaxVersion
          /\ load[p].since \in Nat
      BY DEF CacheInv, TypeOK
    <2>2. load[p].version # NoPolicy => load[p].version \in Versions
      BY <2>1, Constants DEF NoPolicy, Versions
    <2>3. \A v \in Versions : retiredAt[v] \in Nat \cup {Never}
      BY DEF CacheInv, TypeOK
    <2> QED
      BY <2>1, <2>2, <2>3 DEF LoadOK, Answers, Replaced, Never
  <1> QED
    BY <1>1, CacheInvariance, PTL

=============================================================================
