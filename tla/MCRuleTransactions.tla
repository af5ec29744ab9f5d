------------------------ MODULE MCRuleTransactions ------------------------
(***************************************************************************)
(* Instances of RuleTransactions.  WriteCalls puts every pair of           *)
(* operations of one tenant on one rule set, with failures, repetitions    *)
(* and invalid arguments, among the calls of another tenant that uses the  *)
(* same identifiers and the same code; QueueCalls is for three requests at *)
(* a time that queue for the same rows.                                    *)
(***************************************************************************)
EXTENDS RuleTransactions, MCRuleModel

CONSTANTS s1, s2, v1, v2, w1, w2, w3

OneSet == {s1}
TwoSets == {s1, s2}
TwoVersions == {v1, v2}
TwoWorkers == {w1, w2}
ThreeWorkers == {w1, w2, w3}

WriteCalls ==
    Create({"user1"}, {T1}, {"code"}, {"one"})
    \cup Create({"user2"}, {T1, T2}, {"code"}, {"one"})
    \cup Update({"user1"}, {T1}, {s1}, {"two"}, {"active", "disabled"}, {1})
    \cup Update({"user2"}, {T2}, {s1}, {"two"}, {"disabled", NoValue}, {1})
    \cup Draft({"user1"}, {T1}, {s1}, {"plain", "swapped"}, {"k1"}, {1})
    \cup Draft({"user1"}, {T1}, {s1}, {"plain", "broken"}, {"k2"}, {1})
    \cup Publish({"user1"}, {T1}, {s1}, {v1, v2}, {1, 2}, {1})
    \cup Publish({"service"}, {T2}, {s1}, {v1}, {1}, {1})

QueueCalls ==
    Create({"user1"}, {T1}, {"code"}, {"one"})
    \cup Update({"user1"}, {T1}, {s1}, {"two"}, {"active"}, {1})
    \cup Draft({"user1"}, {T1}, {s1}, {"plain"}, {"k1"}, {1})
    \cup Publish({"user1"}, {T1}, {s1}, {v1}, {1}, {1})

AllSymmetric ==
    Permutations({v1, v2}) \cup Permutations({w1, w2})
=============================================================================
