------------------------------- MODULE MCParts -------------------------------
(* Small instances of the parts that share no state.                       *)
EXTENDS Parts

\* set_tier_policy accepts a downgrade to any tier: a lower one, a higher one and the
\* tier of the policy itself.
MCTierPolicies ==
    [allowed_roles : {{"basic"}, {"admin"}}, allowed_tenants : {{"acme"}, {}},
     downgrade_tier : Tiers \cup {NoTier}]

\* The ids of the default checklist and one of the deployment.
MCIds == {"HC-001", "HC-002", "HC-003", "HC-004", "HC-005", "HC-006", "own"}

\* Bytes at the edges of a digit; digits of both cases and two characters that are none.
MCEncodedBytes == {0, 9, 10, 16, 171, 255}
MCOthers == {"0", "A", "a", "g", " "}

\* Digits and the separator of what is hashed.
MCHashedBytes == (48 .. 57) \cup {124}
==============================================================================
