--------------------------- MODULE MCRuleCatalog ---------------------------
(***************************************************************************)
(* RuleCatalog with two rule sets in two tenants and three versions.       *)
(***************************************************************************)
EXTENDS RuleCatalog, MCRuleModel

CONSTANTS s1, s2, v1, v2, v3

MCSetIds == {s1, s2}
MCVersionIds == {v1, v2, v3}

MCCalls ==
    Create({"user1", "user2", "guest"}, {T1, T2}, {"code", NoValue}, {"one"})
    \cup Update({"user1", "user2"}, {T1, T2}, {s1, s2}, {"two"},
                {"active", "disabled"}, 0 .. 2)
    \cup Draft({"user1", "service"}, {T1, T2}, {s1, s2},
               {"plain", "spaced", "swapped", "broken"}, MCKeys,
               {1, 2})
    \cup Publish({"user2", "service"}, {T1, T2}, {s1, s2}, {v1, v2, v3},
                 1 .. 4, {1, 2})

Symm == Permutations({s1, s2}) \cup Permutations({v1, v2, v3})
=============================================================================
