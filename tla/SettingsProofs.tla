--------------------------- MODULE SettingsProofs ---------------------------
(***************************************************************************)
(* Proofs about what operators set: the two matchers agree about any list  *)
(* as far as they have to; the most specific layer of the payment gate's   *)
(* settings decides, and an override reaches the requests of its scope     *)
(* only, for any default, any maps of overrides and any requests.          *)
(***************************************************************************)
EXTENDS Settings, AllowlistProofs

-----------------------------------------------------------------------------
(* The allowlist. *)

ListTyped == list \in SUBSET Seq(Tokens)

LEMMA ListStaysTyped == Spec => []ListTyped
<1>1. Init => ListTyped
  BY DEF Init, ListTyped
<1>2. ListTyped /\ [Next]_vars => ListTyped'
  BY SettingsAssumption DEF ListTyped, Next, List, Override, Lose, vars
<1> QED BY <1>1, <1>2, PTL DEF Spec

\* Whatever operators list together with its decoded form, the handler (proxy.rs 48-89)
\* refuses no path that enforce_allowlist (allowlist.rs 8-46) has let through, however
\* either is escaped; and where a star stands only at the end, behind a slash, and
\* the path has no escapes, they let through the same.
THEOREM AllowlistReadingsAgree == Spec => []AllowlistsAgree
<1>1. ASSUME ListTyped PROVE AllowlistsAgree
  <2> SUFFICES ASSUME NEW tail \in Tails
               PROVE  /\ ListedDecoded(list) /\ MiddlewareAllows(list, tail) =>
                           HandlerAllows(list, tail)
                      /\ list # {} /\ (\A pat \in list : Plain(pat)) /\ Decoded(tail) = tail =>
                           (HandlerAllows(list, tail) <=> MiddlewareAllows(list, tail))
    BY DEF AllowlistsAgree
  <2>1. tail \in Seq(Tokens) /\ list \in SUBSET Seq(Tokens)
    BY <1>1, SettingsAssumption DEF ListTyped
  <2>2. ListedDecoded(list) /\ MiddlewareAllows(list, tail) => HandlerAllows(list, tail)
    BY <2>1, HandlerAgrees
  <2>3. ASSUME list # {}, \A pat \in list : Plain(pat), Decoded(tail) = tail
        PROVE  HandlerAllows(list, tail) <=> MiddlewareAllows(list, tail)
    <3>1. \A pat \in list : HasStar(pat) => EndsWith(pat, Glob)
      BY <2>3 DEF Plain
    <3> QED BY <2>1, <2>3, <3>1, PlainListsAgree
  <2> QED BY <2>2, <2>3
<1> QED BY <1>1, ListStaysTyped, PTL

-----------------------------------------------------------------------------
(* Layers. *)

\* There is one first layer to set a field.
LEMMA FirstIsUnique ==
    ASSUME NEW layers, NEW f, NEW i \in 1..4, FirstToSet(layers, i, f)
    PROVE  (CHOOSE j \in 1..4 : FirstToSet(layers, j, f)) = i
<1>1. ASSUME NEW j \in 1..4, FirstToSet(layers, j, f) PROVE j = i
  <2>1. CASE j < i
    <3>1. j \in 1..(i - 1)
      BY <2>1
    <3> QED BY <1>1, <3>1 DEF FirstToSet
  <2>2. CASE i < j
    <3>1. i \in 1..(j - 1)
      BY <2>2
    <3> QED BY <1>1, <3>1 DEF FirstToSet
  <2> QED BY <2>1, <2>2
<1> QED BY <1>1

\* A default sets every field.
LEMMA DefaultIsWhole ==
    ASSUME NEW e, GlobalDefault(e) # None PROVE DOMAIN GlobalDefault(e) = Fields
<1>1. GlobalDefault(e) =
        [enabled |-> TRUE, is_internal |-> FALSE, is_free |-> FALSE,
         requires_payment |-> TRUE, terms |-> e.terms,
         provider |-> IF e.provider = None THEN "noop" ELSE e.provider,
         path_prefixes |-> {}]
  BY DEF GlobalDefault
<1> QED BY <1>1 DEF Fields

\* Merging one over the other (config.rs 61-82), four layers deep, takes each field from
\* the first layer that sets it.
LEMMA MergedIsLayered ==
    ASSUME NEW e, NEW r, GlobalDefault(e) # None, NEW f \in Fields
    PROVE  Merged(e, r)[f] =
             Layers(e, r)[CHOOSE i \in 1..4 : FirstToSet(Layers(e, r), i, f)][f]
<1> DEFINE layers == Layers(e, r)
<1> DEFINE vk == OverrideFor(e.keys, r.vk)
<1> DEFINE customer == OverrideFor(e.customers, r.customer)
<1> DEFINE partner == OverrideFor(e.partners, r.partner)
<1> DEFINE default == GlobalDefault(e)
<1> DEFINE chosen == CHOOSE i \in 1..4 : FirstToSet(layers, i, f)
<1>1. /\ layers[1] = vk /\ layers[2] = customer /\ layers[3] = partner
      /\ layers[4] = default
  BY DEF Layers
<1>2. Merged(e, r)[f] = IF f \in DOMAIN vk THEN vk[f]
                        ELSE IF f \in DOMAIN customer THEN customer[f]
                        ELSE IF f \in DOMAIN partner THEN partner[f] ELSE default[f]
  BY DEF Merged, Merge
<1>3. f \in DOMAIN default
  BY DefaultIsWhole
<1> HIDE DEF layers, vk, customer, partner, default
<1>4. CASE f \in DOMAIN vk
  <2>1. FirstToSet(layers, 1, f)
    BY <1>1, <1>4 DEF FirstToSet
  <2>2. chosen = 1
    BY <2>1, FirstIsUnique
  <2> QED BY <1>1, <1>2, <1>4, <2>2 DEF layers
<1>5. CASE f \notin DOMAIN vk /\ f \in DOMAIN customer
  <2>1. FirstToSet(layers, 2, f)
    BY <1>1, <1>5 DEF FirstToSet
  <2>2. chosen = 2
    BY <2>1, FirstIsUnique
  <2> QED BY <1>1, <1>2, <1>5, <2>2 DEF layers
<1>6. CASE f \notin DOMAIN vk /\ f \notin DOMAIN customer /\ f \in DOMAIN partner
  <2>1. FirstToSet(layers, 3, f)
    <3>1. \A j \in 1..2 : f \notin DOMAIN layers[j]
      BY <1>1, <1>6
    <3> QED BY <1>1, <1>6, <3>1 DEF FirstToSet
  <2>2. chosen = 3
    BY <2>1, FirstIsUnique
  <2> QED BY <1>1, <1>2, <1>6, <2>2 DEF layers
<1>7. CASE f \notin DOMAIN vk /\ f \notin DOMAIN customer /\ f \notin DOMAIN partner
  <2>1. FirstToSet(layers, 4, f)
    <3>1. \A j \in 1..3 : f \notin DOMAIN layers[j]
      BY <1>1, <1>7
    <3> QED BY <1>1, <1>3, <3>1 DEF FirstToSet
  <2>2. chosen = 4
    BY <2>1, FirstIsUnique
  <2> QED BY <1>1, <1>2, <1>7, <2>2 DEF layers
<1> QED BY <1>4, <1>5, <1>6, <1>7

\* So resolve_x402_config (config.rs 133-169) is what its layers say.
LEMMA ResolutionLayered == ASSUME NEW e, NEW r PROVE Layered(e, r)
<1>1. CASE GlobalDefault(e) = None
  BY <1>1 DEF Layered, Resolve
<1>2. CASE GlobalDefault(e) # None
  <2> DEFINE cfg == [f \in Fields |->
                      Layers(e, r)[CHOOSE i \in 1..4 : FirstToSet(Layers(e, r), i, f)][f]]
  <2>1. Merged(e, r) = [f \in Fields |-> Merged(e, r)[f]]
    BY DEF Merged, Merge
  <2>2. Merged(e, r) = cfg
    BY <1>2, <2>1, MergedIsLayered
  <2>3. Resolve(e, r) = Finalize(Merged(e, r), r.path)
    BY <1>2 DEF Resolve
  <2> QED BY <1>2, <2>2, <2>3 DEF Layered, Finalize
<1> QED BY <1>1, <1>2

\* Whatever operators set, a request is gated on the terms of the most specific scope
\* that says anything about them (config.rs 133-169).
THEOREM ResolutionsAreLayered == Spec => []ResolutionIsLayered
<1>1. ResolutionIsLayered
  BY ResolutionLayered DEF ResolutionIsLayered
<1> QED BY <1>1, PTL

-----------------------------------------------------------------------------
(* Scopes. *)

EnvTyped == DOMAIN env = {"enabled", "terms", "provider"} \cup Scopes

LEMMA EnvStaysTyped == Spec => []EnvTyped
<1>1. Init => EnvTyped
  BY SettingsAssumption DEF Init, EnvTyped
<1>2. EnvTyped /\ [Next]_vars => EnvTyped'
  BY DEF EnvTyped, Next, List, Override, Lose, vars
<1> QED BY <1>1, <1>2, PTL DEF Spec

\* An override is a function of its entry.
LEMMA SameEntrySameOverride ==
    ASSUME NEW m1, NEW m2, NEW id, Entry(m1, id) = Entry(m2, id)
    PROVE  OverrideFor(m1, id) = OverrideFor(m2, id)
<1>1. CASE m1 # None /\ id \in DOMAIN m1
  <2>1. Entry(m1, id) = {m1[id]}
    BY <1>1 DEF Entry
  <2>2. m2 # None /\ id \in DOMAIN m2 /\ m2[id] = m1[id]
    BY <2>1 DEF Entry
  <2> QED BY <1>1, <2>2 DEF OverrideFor
<1>2. CASE ~(m1 # None /\ id \in DOMAIN m1)
  <2>1. ~(m2 # None /\ id \in DOMAIN m2)
    BY <1>2 DEF Entry
  <2> QED BY <1>2, <2>1 DEF OverrideFor
<1> QED BY <1>1, <1>2

LEMMA SameEntriesSameResult ==
    ASSUME NEW r, env'.enabled = env.enabled, env'.terms = env.terms,
           env'.provider = env.provider,
           \A scope \in Scopes : Entry(env'[scope], IdOf(scope, r)) = Entry(env[scope], IdOf(scope, r))
    PROVE  Resolve(env', r) = Resolve(env, r)
<1>1. GlobalDefault(env') = GlobalDefault(env)
  BY DEF GlobalDefault
<1>2. /\ Entry(env'["partners"], r.partner) = Entry(env["partners"], r.partner)
      /\ Entry(env'["customers"], r.customer) = Entry(env["customers"], r.customer)
      /\ Entry(env'["keys"], r.vk) = Entry(env["keys"], r.vk)
  BY DEF Scopes, IdOf
<1>3. /\ OverrideFor(env'.partners, r.partner) = OverrideFor(env.partners, r.partner)
      /\ OverrideFor(env'.customers, r.customer) = OverrideFor(env.customers, r.customer)
      /\ OverrideFor(env'.keys, r.vk) = OverrideFor(env.keys, r.vk)
  BY <1>2, SameEntrySameOverride
<1>4. Merged(env', r) = Merged(env, r)
  BY <1>1, <1>3 DEF Merged
<1> QED BY <1>1, <1>4 DEF Resolve

\* No edit of a map touches the default, so what changes for a request is an entry of
\* its own partner, customer or virtual key.
LEMMA StepIsScoped == ASSUME EnvTyped, [Next]_vars PROVE [ScopedStep]_vars
<1>1. env'.enabled = env.enabled /\ env'.terms = env.terms /\ env'.provider = env.provider
  BY DEF EnvTyped, Next, List, Override, Lose, vars, Scopes
<1>2. ASSUME NEW r \in Callers, Resolve(env', r) # Resolve(env, r)
      PROVE  \E scope \in Scopes :
               Entry(env'[scope], IdOf(scope, r)) # Entry(env[scope], IdOf(scope, r))
  BY <1>1, <1>2, SameEntriesSameResult
<1> QED BY <1>2 DEF ScopedStep

\* An override for one scope changes nothing for anybody else (config.rs 50-55).
THEOREM EditsAreScoped == Spec => OverridesAreScoped
BY EnvStaysTyped, StepIsScoped, PTL DEF Spec, OverridesAreScoped

=============================================================================
