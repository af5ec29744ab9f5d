----------------------------- MODULE MCRequests -----------------------------
(***************************************************************************)
(* The parts of ServiceRequests, one per behaviour: each behaviour moves   *)
(* one of them, "part", and the others stay in one of their initial states.*)
(***************************************************************************)
EXTENDS ServiceRequests

VARIABLE part

(* Definitions of up to three rules: defects in all combinations in two    *)
(* rules, sound definitions of three rules, and one rule too many.         *)
R(name, cond, obj) == [name |-> name, cond |-> cond, obj |-> obj]

SomeRules ==
    { R(name, cond, TRUE) : name \in {"a", "b", ""}, cond \in {"fine", "size", "type"} }
    \cup { R("a", "expression", TRUE), R("b", "program", FALSE) }

MCDefinitions ==
    [rules : UNION {[1..k -> SomeRules] : k \in 0..2}, defaultObj : BOOLEAN]
    \cup { [rules |-> <<R("a", "fine", TRUE), R("b", "fine", TRUE), R("c", "fine", TRUE)>>,
            defaultObj |-> TRUE],
           [rules |-> [k \in 1..4 |-> R("a", "fine", TRUE)], defaultObj |-> TRUE] }

(* Items that are evaluated, by programs of up to three rules, and items   *)
(* that one or two checks, or the facts, are against.                      *)
Sound(says) == [checks |-> [k \in 1..5 |-> "ok"], facts |-> TRUE, says |-> says]

Against(it, codes) ==
    {[it EXCEPT !.checks[k] = v] : k \in 1..5, v \in codes}

MCInputs ==
    LET sound == {Sound(s) : s \in [1..1 -> Outcomes] \cup [1..2 -> Outcomes]
                                   \cup [1..3 -> {"true", "false"}]}
        matching == Sound(<<"true">>)
        factless == [matching EXCEPT !.facts = FALSE]
        some == {"forbidden", "internal"}
        twice == UNION {Against(it, some) : it \in Against(matching, some) \cup {factless}}
        possible(it) == \A k \in 1..5 : it.checks[k] \in {"ok"} \cup Engine!Refusals[k]
    IN  {it \in sound \cup {factless} \cup Against(matching, Engine!Verdict) \cup twice : possible(it)}

MCInit ==
    /\ part \in {"call", "engine", "list"}
    /\ Init
    /\ part # "call" =>
          /\ policy = [transport |-> "http", attempts |-> 1, breaking |-> FALSE, threshold |-> 1]
          /\ \A c \in Calls : ~call[c].repeatable /\ ~call[c].keyed
    /\ Engine!Init
    /\ part # "engine" => phase = "decode"
    /\ part # "engine" \/ phase = "batch" => def = [rules |-> <<>>, defaultObj |-> TRUE]
    /\ Lists!Init /\ (part # "list" => table = <<>> /\ query.filter = NoFilter /\ query.asked = 0)

MCNext ==
    \/ part = "call" /\ Next /\ UNCHANGED <<part, engineVars, listVars>>
    \/ part = "engine" /\ Engine!Next /\ UNCHANGED <<part, vars, listVars>>
    \/ part = "list" /\ Lists!Next /\ UNCHANGED <<part, vars, engineVars>>

allVars == <<part, vars, engineVars, listVars>>

(* The fairness of OutboundClient, while it is the part that moves.        *)
MCSpec ==
    /\ MCInit /\ [][MCNext]_allVars
    /\ \A c \in Calls : WF_vars(part = "call" /\ Progress(c))
=============================================================================
