----------------------------- MODULE X402Config -----------------------------
(***************************************************************************)
(* Which requests are gated: resolve_x402_config in                        *)
(* crates/relaykey_app/src/x402/config.rs.                                 *)
(*                                                                         *)
(* The settings come from the process environment: a default, and three    *)
(* maps of overrides, for partners, customers and virtual keys.  An        *)
(* override is a function on the fields it sets.  Amount, currency,        *)
(* facilitator and recipient are merged alike and are the one field terms. *)
(***************************************************************************)
EXTENDS Paths

CONSTANTS
    None,          \* a variable that is not set, a map that does not parse
    Registered     \* providers that build_router registers

Fields == {"enabled", "is_internal", "is_free", "requires_payment",
           "provider", "terms", "path_prefixes"}

\* global_default.
GlobalDefault(e) ==
    IF ~e.enabled \/ e.terms = None THEN None
    ELSE [enabled |-> TRUE, is_internal |-> FALSE, is_free |-> FALSE,
          requires_payment |-> TRUE, terms |-> e.terms,
          provider |-> IF e.provider = None THEN "noop" ELSE e.provider,
          path_prefixes |-> {}]

Merge(base, override) ==
    [f \in Fields |-> IF f \in DOMAIN override THEN override[f] ELSE base[f]]

\* Mutation: the entry of another one is taken where there is none.
OverrideForAny(map, id) ==
    IF map = None THEN <<>>
    ELSE IF id \in DOMAIN map THEN map[id] ELSE map[CHOOSE x \in DOMAIN map : TRUE]

\* A map that is not set or has no entry overrides nothing.
OverrideFor(map, id) ==
    IF map = None THEN <<>> ELSE IF id \in DOMAIN map THEN map[id] ELSE <<>>

\* matches_path_prefix: any path that starts so, also within a name.
MatchesPathPrefix(path, prefixes) == \E prefix \in prefixes : StartsWith(path, prefix)

\* finalize_config.
Charges(cfg, path) ==
    /\ cfg.enabled
    /\ ~cfg.is_internal
    /\ ~cfg.is_free
    /\ cfg.requires_payment
    /\ cfg.path_prefixes = {} \/ MatchesPathPrefix(path, cfg.path_prefixes)

Finalize(cfg, path) == IF Charges(cfg, path) THEN cfg ELSE None

\* Mutation: the customer's settings win over the virtual key's.
MergedCustomerLast(e, r) ==
    Merge(Merge(Merge(GlobalDefault(e),
                      OverrideFor(e.partners, r.partner)),
                OverrideFor(e.keys, r.vk)),
          OverrideFor(e.customers, r.customer))

\* Partner, then customer, then virtual key.
Merged(e, r) ==
    Merge(Merge(Merge(GlobalDefault(e),
                      OverrideFor(e.partners, r.partner)),
                OverrideFor(e.customers, r.customer)),
          OverrideFor(e.keys, r.vk))

Resolve(e, r) == IF GlobalDefault(e) = None THEN None ELSE Finalize(Merged(e, r), r.path)

=============================================================================
