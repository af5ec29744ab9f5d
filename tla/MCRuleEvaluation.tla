------------------------- MODULE MCRuleEvaluation -------------------------
(***************************************************************************)
(* RuleEvaluation with two replicas and a reader on one rule set whose     *)
(* two versions get published one after the other.                         *)
(***************************************************************************)
EXTENDS RuleEvaluation, MCRuleModel

CONSTANTS s1, v1, v2, p1, p2, r1

MCSetIds == {s1}
MCVersionIds == {v1, v2}
MCReplicas == {p1, p2}
MCReaders == {r1}

MCCalls ==
    Create({"user1"}, {T1}, {"code"}, {"one"})
    \cup Update({"user1"}, {T1}, {s1}, {"two"}, {"active"}, {1})
    \cup Draft({"user1"}, {T1}, {s1}, {"plain"}, {"k1"}, {1})
    \cup Draft({"user1"}, {T1}, {s1}, {"other"}, {"k2"}, {1})
    \cup Publish({"user1"}, {T1}, {s1}, {v1, v2}, {1, 2}, {1})

MCQueries ==
    [kind : {"evaluate"}, actor : {"user1"}, scope : {T1},
     set : {s1}, code : {NoValue}, number : {0, 1}]
    \cup [kind : {"evaluate"}, actor : {"user2"}, scope : {T2},
          set : {s1}, code : {NoValue}, number : {0}]
    \cup [kind : {"getRuleSet"}, actor : {"user1"}, scope : {T1},
          set : {NoValue}, code : {"code"}, number : {0}]

Symm == Permutations({v1, v2}) \cup Permutations({p1, p2})
=============================================================================
