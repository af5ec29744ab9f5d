-------------------------- MODULE ServiceRequests --------------------------
(***************************************************************************)
(* What a request makes the service do besides writing: calls of an        *)
(* upstream, the loops of the rule engine and the pages of a list.  They   *)
(* share no variable; each of them has a specification of its own, and     *)
(* here they are together.                                                 *)
(***************************************************************************)
EXTENDS OutboundClient, Sequences

CONSTANTS
    Definitions, Outcomes, Inputs, MaxRules, MaxItems,      \* of module RuleEngine
    Ranks, Statuses, NoFilter, DefaultSize, MaxSize, Asked  \* of module RuleQueries

VARIABLES
    phase, def, turn, issues, program, batch, item, expired, results,
    table, query, pc, total, items, seen, old

engineVars == <<phase, def, turn, issues, program, batch, item, expired, results>>
listVars == <<table, query, pc, total, items, seen, old>>

Engine == INSTANCE RuleEngine WITH i <- turn
Lists == INSTANCE RuleQueries

ASSUME LoopAssumption == Engine!EngineAssumption
ASSUME ListAssumption == Lists!QueriesAssumption

(* Every part moves on its own.                                            *)
RequestsSpec == Spec /\ Engine!Spec /\ Lists!Spec
-----------------------------------------------------------------------------
(* The type invariants of the parts.                                       *)
RequestTypes == ClientTypeOK /\ Engine!EngineTypeOK /\ Lists!QueryTypeOK

(* CompileDefinition and BatchEvaluate answer for the whole definition and *)
(* the whole batch, in order.                                              *)
AnswerFaithful == Engine!AnswerFaithful

(* The pages of ListRuleSets and ListRuleVersions add up to the list.      *)
ListsSound == Lists!ListsSound
=============================================================================
