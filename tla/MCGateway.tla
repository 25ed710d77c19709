----------------------------- MODULE MCGateway -----------------------------
(* Instances of Gateway small enough for TLC. *)
EXTENDS Gateway, TLC

CONSTANTS s1, s2, partner, acme, key1, terms1

\* An escape of w.
MCDecode == [token \in Tokens |-> IF token = "%77" THEN "w" ELSE token]

\* /v, which must be paid for, and /w, which the client escapes.
MCRequests == {<<"/", "v">>, <<"/", "%77">>}

\* The third has no limits, and a list that is refused once the path is decoded.
MCPolicies ==
    {[list |-> {<<"/", "v", "/", "*">>}, rps |-> TRUE, quota |-> TRUE],
     [list |-> {<<"/", "%77">>, <<"/", "w">>}, rps |-> FALSE, quota |-> TRUE],
     [list |-> {<<"/", "%77">>}, rps |-> FALSE, quota |-> FALSE]}

\* Payment for /v of this partner.
MCEnv ==
    [enabled |-> TRUE, terms |-> terms1, provider |-> None,
     partners |-> partner :> [path_prefixes |-> {<<"/", "proxy", "/", partner, "/", "v">>}],
     customers |-> None, keys |-> None]

MCCaller == [partner |-> partner, customer |-> acme, vk |-> key1]

MCSymmetry == Permutations(Slots)

=============================================================================
