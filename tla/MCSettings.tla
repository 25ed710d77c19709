----------------------------- MODULE MCSettings -----------------------------
(* Instances of Settings small enough for TLC. *)
EXTENDS Settings, TLC

CONSTANTS partner, acme, other, key1, key2, terms1, terms2

Strings(tokens, n) == UNION {[1..k -> tokens] : k \in 1..n}

MCTokens == {"/", "v", "*", "%2F", "%76"}

\* Escapes of a slash and of a name.
MCDecode == [t \in MCTokens |-> CASE t = "%2F" -> "/" [] t = "%76" -> "v" [] OTHER -> t]

\* All patterns and paths of up to three tokens, and those of four without escapes
\* that begin with a slash.
MCPatterns ==
    Strings(MCTokens, 3) \cup {s \in Strings({"/", "v", "*"}, 4) : s[1] = "/"}

MCTails == {s \in MCPatterns : s[1] = "/"}

MCDefaults ==
    {[enabled |-> on, terms |-> terms, provider |-> None,
      partners |-> partners, customers |-> None, keys |-> None] :
     on \in BOOLEAN, terms \in {None, terms1},
     partners \in {None, partner :> [is_free |-> TRUE, terms |-> terms2]}}

MCIds == [partners |-> {partner}, customers |-> {acme, other}, keys |-> {key1}]

\* Overrides of one field or two.
MCOverrides ==
    {<<>>, "is_free" :> TRUE, "is_free" :> FALSE, "enabled" :> FALSE,
     "path_prefixes" :> {<<"/", "proxy", "/", partner, "/", "w">>},
     [terms |-> terms2, is_internal |-> TRUE], "requires_payment" :> FALSE,
     [is_internal |-> FALSE, provider |-> "stub"]}

\* Requests of two customers and two keys, of whom one has no override.
MCCallers ==
    {[partner |-> partner, customer |-> acme, vk |-> key1,
      path |-> <<"/", "proxy", "/", partner, "/", "v">>],
     [partner |-> partner, customer |-> acme, vk |-> key2,
      path |-> <<"/", "proxy", "/", partner, "/", "w">>],
     [partner |-> partner, customer |-> other, vk |-> key2,
      path |-> <<"/", "proxy", "/", partner, "/", "v">>]}

=============================================================================
