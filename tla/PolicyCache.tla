---------------------------- MODULE PolicyCache ----------------------------
(***************************************************************************)
(* The policy cache: load_policy_bundle in                                 *)
(* crates/relaykey_app/src/policies/cache.rs, for one policy and any       *)
(* number of requests that load it at once.                                *)
(*                                                                         *)
(* A load reads Redis, then the database, then writes Redis, with an await *)
(* before each, and nothing removes the entry when the row changes.  The   *)
(* row itself is changed by operators: no statement of the program does.   *)
(* Its versions are numbered, and version 0 stands for what is no policy:  *)
(* a row that was removed, an entry that does not decode.                  *)
(***************************************************************************)
EXTENDS Integers

CONSTANTS
    Ttl,        \* POLICY_CACHE_TTL_SECS
    MaxDelay,   \* TimeoutLayer: no load takes longer than this
    Slots,      \* requests that load the policy at once
    MaxVersion, \* bound: versions of the row
    MaxClock    \* bound: time observed

ASSUME CacheAssumption ==
    /\ Ttl \in Nat \ {0} /\ MaxDelay \in Nat
    /\ MaxVersion \in Nat \ {0} /\ MaxClock \in Nat

VARIABLES
    clock,
    row,        \* the version in table policies
    entry,      \* the Redis key rk:policy:{id}
    load,       \* the load each slot is in
    retiredAt   \* history: when each version was replaced

vars == <<clock, row, entry, load, retiredAt>>

Versions == 1..MaxVersion

NoPolicy == 0

\* A version that has not been replaced.
Never == -1

NoLoad == [step |-> "idle", version |-> NoPolicy, since |-> 0, cached |-> FALSE]

\* The entry may have been written by a release whose PolicyRow was another.
Init ==
    /\ clock = 0
    /\ row = 1
    /\ entry \in [version : {NoPolicy}, expiresAt : {0, Ttl}]
    /\ load = [p \in Slots |-> NoLoad]
    /\ retiredAt = [v \in Versions |-> Never]

-----------------------------------------------------------------------------
(* load_policy_bundle. *)

Goto(p, step) == load' = [load EXCEPT ![p].step = step]

Start(p) ==
    /\ load[p].step = "idle"
    /\ load' = [load EXCEPT ![p] = [step |-> "get", version |-> NoPolicy,
                                    since |-> clock, cached |-> FALSE]]
    /\ UNCHANGED <<clock, row, entry, retiredAt>>

Live == clock < entry.expiresAt

\* Mutation: a hit renews the entry.
HitRenews(p) ==
    /\ load[p].step = "get"
    /\ Live /\ entry.version # NoPolicy
    /\ load' = [load EXCEPT ![p].step = "answer", ![p].version = entry.version,
                            ![p].cached = TRUE]
    /\ entry' = [entry EXCEPT !.expiresAt = clock + Ttl]
    /\ UNCHANGED <<clock, row, retiredAt>>

\* GET, and an entry that decodes.
Hit(p) ==
    /\ load[p].step = "get"
    /\ Live /\ entry.version # NoPolicy
    /\ load' = [load EXCEPT ![p].step = "answer", ![p].version = entry.version,
                            ![p].cached = TRUE]
    /\ UNCHANGED <<clock, row, entry, retiredAt>>

\* No entry, one that does not decode, or no answer from Redis.
Miss(p) ==
    /\ load[p].step = "get"
    /\ Goto(p, "fetch")
    /\ UNCHANGED <<clock, row, entry, retiredAt>>

\* Mutation: that there is no such row is cached too.
FetchCachesNone(p) ==
    /\ load[p].step = "fetch"
    /\ load' = [load EXCEPT ![p].step = "fill", ![p].version = row]
    /\ UNCHANGED <<clock, row, entry, retiredAt>>

\* get_policy_by_id.
Fetch(p) ==
    /\ load[p].step = "fetch"
    /\ load' = [load EXCEPT ![p].step = IF row = NoPolicy THEN "answer" ELSE "fill",
                            ![p].version = row]
    /\ UNCHANGED <<clock, row, entry, retiredAt>>

\* Mutation: a database error is taken for a missing row.
FetchErrorIsNone(p) ==
    /\ load[p].step = "fetch"
    /\ Goto(p, "answer")
    /\ UNCHANGED <<clock, row, entry, retiredAt>>

FetchFails(p) ==
    /\ load[p].step = "fetch"
    /\ load' = [load EXCEPT ![p] = NoLoad]
    /\ UNCHANGED <<clock, row, entry, retiredAt>>

\* SET EX, whatever the entry holds by now; its errors are ignored.
Fill(p) ==
    /\ load[p].step = "fill"
    /\ \/ entry' = [version |-> load[p].version, expiresAt |-> clock + Ttl]
       \/ UNCHANGED entry
    /\ Goto(p, "answer")
    /\ UNCHANGED <<clock, row, retiredAt>>

\* The load returns its policy to require_virtual_key, or the request is dropped.
Finish(p) ==
    /\ load[p].step # "idle"
    /\ load' = [load EXCEPT ![p] = NoLoad]
    /\ UNCHANGED <<clock, row, entry, retiredAt>>

-----------------------------------------------------------------------------
(* Operators change the row, and time passes. *)

Replace(v) ==
    /\ row # NoPolicy
    /\ v \in {NoPolicy, row + 1} \cap 0..MaxVersion
    /\ row' = v
    /\ retiredAt' = [retiredAt EXCEPT ![row] = clock]
    /\ UNCHANGED <<clock, entry, load>>

Tick ==
    /\ clock < MaxClock
    /\ \A p \in Slots : load[p].step # "idle" => clock - load[p].since < MaxDelay
    /\ clock' = clock + 1
    /\ UNCHANGED <<row, entry, load, retiredAt>>

Next ==
    \/ \E p \in Slots : \/ Start(p) \/ Hit(p) \/ Miss(p) \/ Fetch(p)
                        \/ FetchFails(p) \/ Fill(p) \/ Finish(p)
    \/ \E v \in 0..MaxVersion : Replace(v)
    \/ Tick

Spec == Init /\ [][Next]_vars

-----------------------------------------------------------------------------
(* Properties. *)

Steps == {"idle", "get", "fetch", "fill", "answer"}

\* Row, entry and loads in their ranges; only a policy is ever on its way to
\* the cache.
TypeOK ==
    /\ clock \in Nat /\ row \in 0..MaxVersion
    /\ entry \in [version : 0..MaxVersion, expiresAt : Nat]
    /\ load \in [Slots -> [step : Steps, version : 0..MaxVersion, since : Nat,
                           cached : BOOLEAN]]
    /\ retiredAt \in [Versions -> Nat \cup {Never}]
    /\ \A p \in Slots : load[p].step = "fill" => load[p].version # NoPolicy

Answers(p, v) == load[p].step = "answer" /\ load[p].version = v

\* A policy that was replaced or removed stops governing requests: however
\* fills, updates and expiries interleave, also when a slow fill writes an old
\* version over a newer one (cache.rs:57), no load returns a version later than
\* one life of an entry and two loads after it was replaced.
StalenessBounded ==
    \A p \in Slots, v \in Versions :
        Answers(p, v) /\ retiredAt[v] # Never =>
            clock < retiredAt[v] + Ttl + 2 * MaxDelay

\* cache.rs:26 "fall back to DB on any redis error": a load the cache did not
\* answer returns what the table held during the load, and says that there is
\* no policy (cache.rs:21) only if there is none, not when the database failed.
FallbackIsCurrent ==
    \A p \in Slots :
        load[p].step = "answer" /\ ~load[p].cached =>
            IF load[p].version = NoPolicy THEN row = NoPolicy
            ELSE retiredAt[load[p].version] = Never
                 \/ retiredAt[load[p].version] >= load[p].since

-----------------------------------------------------------------------------
(* The inductive invariant. *)

Replaced(v) == retiredAt[v] # Never

\* An entry of a replaced version ends a load and a life after the replacement:
\* the fill that wrote it read the table no earlier than its load began.
EntryOK ==
    /\ entry.expiresAt <= clock + Ttl
    /\ \A v \in Versions : entry.version = v /\ Replaced(v) =>
         entry.expiresAt <= retiredAt[v] + MaxDelay + Ttl

\* What a load has read was current since it began, or live in the cache.
LoadOK(p) ==
    load[p].step # "idle" =>
        /\ load[p].since <= clock /\ clock <= load[p].since + MaxDelay
        /\ \A v \in Versions :
             /\ load[p].step = "fill" /\ load[p].version = v /\ Replaced(v) =>
                  load[p].since <= retiredAt[v]
             /\ Answers(p, v) /\ Replaced(v) =>
                  IF load[p].cached THEN load[p].since < retiredAt[v] + MaxDelay + Ttl
                  ELSE load[p].since <= retiredAt[v]
        /\ load[p].step = "answer" /\ ~load[p].cached /\ load[p].version = NoPolicy =>
             row = NoPolicy
        /\ load[p].step \in {"get", "fetch", "fill"} => ~load[p].cached

CurrentOK ==
    \A v \in Versions : Replaced(v) =>
        retiredAt[v] <= clock /\ (row # NoPolicy => v < row)

CacheInv == TypeOK /\ EntryOK /\ CurrentOK /\ \A p \in Slots : LoadOK(p)

=============================================================================
