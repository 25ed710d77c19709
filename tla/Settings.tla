------------------------------ MODULE Settings ------------------------------
(***************************************************************************)
(* What the allowlist and the settings of the payment gate mean while      *)
(* operators edit them: Allowlist and X402Config over lists and            *)
(* environments built up edit by edit. An environment is read anew for     *)
(* every request; an edit of it is a restart of the process.               *)
(***************************************************************************)
EXTENDS Allowlist, X402Config

CONSTANTS
    Patterns,      \* patterns that operators list
    Tails,         \* paths that are requested behind /proxy/{partner}
    Defaults,      \* environments to begin with
    Ids,           \* partners, customers and virtual keys with overrides
    Overrides,     \* settings operators give them
    Callers,       \* requests: partner, customer, virtual key and full path
    MaxEdits       \* bound: edits observed

\* The three maps of overrides.
Scopes == {"partners", "customers", "keys"}

ASSUME SettingsAssumption ==
    /\ Patterns \subseteq Seq(Tokens) /\ Tails \subseteq Seq(Tokens)
    /\ \A tail \in Tails : Len(tail) > 0 /\ tail[1] = "/"
    /\ \A override \in Overrides : DOMAIN override \subseteq Fields
    /\ \A e \in Defaults :
         DOMAIN e = {"enabled", "terms", "provider"} \cup Scopes /\ e.enabled \in BOOLEAN
    /\ MaxEdits \in Nat

VARIABLES
    list,          \* endpoint_allowlist of a policy
    env,           \* the environment of the process
    edits

vars == <<list, env, edits>>

Init ==
    /\ list = {}
    /\ env \in Defaults
    /\ edits = 0

Edit == edits < MaxEdits /\ edits' = edits + 1

List(pat) ==
    /\ Edit
    /\ list' = list \cup {pat}
    /\ UNCHANGED env

\* The map with a new entry for id, or with that entry replaced.
WithEntry(map, id, override) ==
    IF map = None THEN [x \in {id} |-> override]
    ELSE [x \in DOMAIN map \cup {id} |-> IF x = id THEN override ELSE map[x]]

Override(scope, id, override) ==
    /\ Edit
    /\ env' = [env EXCEPT ![scope] = WithEntry(@, id, override)]
    /\ UNCHANGED list

\* The map is removed, or no longer parses.
Lose(scope) ==
    /\ Edit
    /\ env' = [env EXCEPT ![scope] = None]
    /\ UNCHANGED list

Next ==
    \/ \E pat \in Patterns : List(pat)
    \/ \E scope \in Scopes :
         \/ \E id \in Ids[scope], override \in Overrides : Override(scope, id, override)
         \/ Lose(scope)

Spec == Init /\ [][Next]_vars

-----------------------------------------------------------------------------
(* Properties. *)

\* No stars, or a slash and a star at the end, where both matchers look first.
Plain(pat) == HasStar(pat) => EndsWith(pat, Glob)

\* Two matchers written apart read one list: they disagree on an empty list and on
\* a star within a pattern (allowlist.rs:39, proxy.rs:48), and one of them sees the
\* path as it was sent, the other decoded (allowlist.rs:31, proxy.rs:107).  If with every
\* pattern its decoded form is listed, the handler lets through whatever the middleware
\* does: no request pays its way through limits and gate to be refused by the
\* other reading of the list.  On plain lists and paths without escapes they agree.
AllowlistsAgree ==
    \A tail \in Tails :
        /\ ListedDecoded(list) /\ MiddlewareAllows(list, tail) => HandlerAllows(list, tail)
        /\ list # {} /\ (\A pat \in list : Plain(pat)) /\ Decoded(tail) = tail =>
             (HandlerAllows(list, tail) <=> MiddlewareAllows(list, tail))

\* The settings for a request, the most specific first.
Layers(e, r) ==
    <<OverrideFor(e.keys, r.vk), OverrideFor(e.customers, r.customer),
      OverrideFor(e.partners, r.partner), GlobalDefault(e)>>

FirstToSet(layers, i, f) ==
    f \in DOMAIN layers[i] /\ \A j \in 1..(i - 1) : f \notin DOMAIN layers[j]

Layered(e, r) ==
    IF GlobalDefault(e) = None THEN Resolve(e, r) = None
    ELSE LET layers == Layers(e, r)
             cfg == [f \in Fields |->
                      layers[CHOOSE i \in 1..4 : FirstToSet(layers, i, f)][f]]
         IN  Resolve(e, r) = IF Charges(cfg, r.path) THEN cfg ELSE None

\* Four layers of partial settings, merged one over the other field by field: a
\* gated request is gated on the terms of the most specific scope that says
\* anything about them, and nothing is gated in an environment without a default.
ResolutionIsLayered == \A r \in Callers : Layered(env, r)

IdOf(scope, r) ==
    CASE scope = "partners" -> r.partner
      [] scope = "customers" -> r.customer
      [] scope = "keys" -> r.vk

Entry(map, id) == IF map # None /\ id \in DOMAIN map THEN {map[id]} ELSE {}

ScopedStep ==
    \A r \in Callers : Resolve(env', r) # Resolve(env, r) =>
        \E scope \in Scopes :
            Entry(env'[scope], IdOf(scope, r)) # Entry(env[scope], IdOf(scope, r))

\* An override for one partner, customer or virtual key changes what is asked of
\* their requests and of nobody else's, whatever the other maps hold, and so does
\* the loss of a map (config.rs:52).
OverridesAreScoped == [][ScopedStep]_vars

=============================================================================
