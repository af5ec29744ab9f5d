----------------------------- MODULE RuleEngine -----------------------------
(***************************************************************************)
(* The loops of two calls: CompileDefinition, over the rules of a new      *)
(* definition, and BatchEvaluate, over items that each have a tenant, a    *)
(* rule set, a version and a compiled definition of their own.  What CEL   *)
(* says of an expression, or returns for the facts, is given; so is what   *)
(* the checks and reads of Service.Evaluate answer for an item.            *)
(***************************************************************************)
EXTENDS Naturals, Sequences, FiniteSets

CONSTANTS
    Definitions,   \* decoded definitions
    Outcomes,      \* what conditions return: "true", "false", "error", "other"
    Inputs,        \* items of a batch
    MaxRules, MaxItems

(* name "" is blank; cond says what is wrong with the condition, if        *)
(* anything; obj: the result is a JSON object.                             *)
Rule == [name : STRING, obj : BOOLEAN,
         cond : {"fine", "size", "expression", "type", "program"}]

(* How each check of Service.Evaluate may refuse an item, in their order:  *)
(* authorize, verifyApplication, the rule set and its status, the version  *)
(* and its status, compiledDefinition.                                     *)
Refusals == << {"unauthorized", "forbidden"}, {"invalid", "forbidden", "unavailable"},
               {"notFound", "conflict", "internal"}, {"notFound", "conflict", "internal"},
               {"internal"} >>

Verdict == {"ok", "unauthorized", "forbidden", "invalid", "unavailable",
            "notFound", "conflict", "internal"}

(* says: what each condition of the item's own program returns.            *)
Item == [checks : [1..5 -> Verdict], facts : BOOLEAN, says : Seq(Outcomes)]

EngineAssumption ==
    /\ MaxRules \in Nat /\ MaxItems \in Nat
    /\ Definitions \subseteq [rules : Seq(Rule), defaultObj : BOOLEAN]
    /\ Outcomes \subseteq {"true", "false", "error", "other"}
    /\ Inputs \subseteq Item
    /\ \A it \in Inputs :
          /\ Len(it.says) \in 1..MaxRules
          /\ \A k \in 1..5 : it.checks[k] \in {"ok"} \cup Refusals[k]

(* What an issue may say.                                                  *)
Codes == {"json", "required", "duplicate", "size", "result", "count", "default",
          "expression", "type", "program"}

VARIABLES
    phase,    \* where the request is
    def,      \* the definition: rules and whether its default is an object
    i,        \* index of the loop over rules; 0: the item is not looked up yet
    issues,   \* <<index, code>>; index 0 for the definition itself
    program,  \* indices of the compiled rules, in order
    batch,    \* the items of the request
    item,     \* index of the loop over items
    expired,  \* the deadline of the request has passed
    results   \* what BatchEvaluate has for the items so far

vars == <<phase, def, i, issues, program, batch, item, expired, results>>

N == Len(def.rules)

Init ==
    /\ phase \in {"decode", "batch"} /\ def \in Definitions
    /\ i = 1 /\ issues = {} /\ program = <<>>
    /\ batch = <<>> /\ item = 1 /\ expired = FALSE /\ results = <<>>
-----------------------------------------------------------------------------
(* Compiling                                                               *)

(* One JSON value of known fields and a bounded size, or nothing else is   *)
(* looked at.                                                              *)
Decode ==
    /\ phase = "decode"
    /\ \/ phase' = "shape" /\ UNCHANGED issues
       \/ phase' = "rejected" /\ issues' = {<<0, "json">>}
    /\ UNCHANGED <<def, i, program, batch, item, expired, results>>

(* Faulty: a repeated name is accepted.                                    *)
NameIssueBlankOnly(k) == IF def.rules[k].name = "" THEN {<<k, "required">>} ELSE {}

NameIssue(k) ==
    IF def.rules[k].name = "" THEN {<<k, "required">>}
    ELSE IF \E j \in 1..k - 1 : def.rules[j].name = def.rules[k].name
         THEN {<<k, "duplicate">>}
    ELSE {}

ShapeIssues(k) ==
    NameIssue(k)
    \cup (IF def.rules[k].cond = "size" THEN {<<k, "size">>} ELSE {})
    \cup (IF def.rules[k].obj THEN {} ELSE {<<k, "result">>})

WholeIssues ==
    (IF N \in 1..MaxRules THEN {} ELSE {<<0, "count">>})
    \cup (IF def.defaultObj THEN {} ELSE {<<0, "default">>})

(* validateShape looks at every rule before anything is compiled.          *)
validateShape ==
    /\ phase = "shape"
    /\ IF i <= N
       THEN issues' = issues \cup ShapeIssues(i) /\ i' = i + 1 /\ UNCHANGED phase
       ELSE /\ issues' = issues \cup WholeIssues
            /\ i' = 1
            /\ phase' = IF issues' = {} THEN "compile" ELSE "rejected"
    /\ UNCHANGED <<def, program, batch, item, expired, results>>

(* Faulty: the loop ends at the first bad condition.                       *)
CompileRuleStopping ==
    /\ phase = "compile"
    /\ IF i <= N
       THEN IF def.rules[i].cond = "fine"
            THEN program' = Append(program, i) /\ i' = i + 1 /\ UNCHANGED <<issues, phase>>
            ELSE /\ issues' = issues \cup {<<i, def.rules[i].cond>>}
                 /\ phase' = "rejected" /\ UNCHANGED <<program, i>>
       ELSE /\ phase' = IF issues = {} THEN "ready" ELSE "rejected"
            /\ UNCHANGED <<issues, program, i>>
    /\ UNCHANGED <<def, batch, item, expired, results>>

(* A bad condition is an issue, and the loop goes on.                      *)
CompileRule ==
    /\ phase = "compile"
    /\ IF i <= N
       THEN /\ i' = i + 1
            /\ IF def.rules[i].cond = "fine"
               THEN program' = Append(program, i) /\ UNCHANGED issues
               ELSE issues' = issues \cup {<<i, def.rules[i].cond>>} /\ UNCHANGED program
            /\ UNCHANGED phase
       ELSE /\ phase' = IF issues = {} THEN "ready" ELSE "rejected"
            /\ UNCHANGED <<issues, program, i>>
    /\ UNCHANGED <<def, batch, item, expired, results>>
-----------------------------------------------------------------------------
(* Evaluating a batch.                                                     *)

(* Faulty: the limit counts the items from zero.                           *)
BatchEvaluateOneMore ==
    /\ phase = "batch"
    /\ \E size \in 0..MaxItems + 1 :
          IF size # 0
          THEN batch' \in [1..size -> Inputs] /\ phase' = "evaluate"
          ELSE batch' = <<>> /\ phase' = "refused"
    /\ item' = 1 /\ i' = 0
    /\ UNCHANGED <<def, issues, program, expired, results>>

(* An empty or an oversized batch is refused as a whole.                   *)
BatchEvaluate ==
    /\ phase = "batch"
    /\ \E size \in 0..MaxItems + 1 :
          IF size \in 1..MaxItems
          THEN batch' \in [1..size -> Inputs] /\ phase' = "evaluate"
          ELSE batch' = <<>> /\ phase' = "refused"
    /\ item' = 1 /\ i' = 0
    /\ UNCHANGED <<def, issues, program, expired, results>>

(* Faulty: the first error ends the batch.                                 *)
ConcludeStopping(res) ==
    /\ results' = Append(results, [index |-> item - 1, res |-> res])
    /\ item' = item + 1 /\ i' = 0
    /\ phase' = IF item = Len(batch) \/ res.err # "none" THEN "answered" ELSE phase

(* The result of the item; the loop over items goes on whatever it is.     *)
Conclude(res) ==
    /\ results' = Append(results, [index |-> item - 1, res |-> res])
    /\ item' = item + 1 /\ i' = 0
    /\ phase' = IF item = Len(batch) THEN "answered" ELSE phase

Error(code) == [err |-> code, matched |-> 0]
Match(k) == [err |-> "none", matched |-> k]

(* The item at hand passes the checks before the k-th.                     *)
Passes(k) == \A j \in 1..k - 1 : batch[item].checks[j] = "ok"

(* What a passed deadline makes of the checks that call somebody: the      *)
(* verifier is unavailable, a query fails.                                 *)
CutShort ==
    \/ Passes(2) /\ batch[item].checks[2] # "invalid" /\ Conclude(Error("unavailable"))
    \/ Passes(3) /\ Conclude(Error("internal"))

(* The checks and reads of an item; the first that refuses it is its error.*)
LookUp ==
    /\ phase = "evaluate" /\ i = 0
    /\ \/ expired /\ CutShort
       \/ \E k \in 1..5 : /\ Passes(k) /\ batch[item].checks[k] # "ok"
                          /\ Conclude(Error(batch[item].checks[k]))
       \/ Passes(6) /\ i' = 1 /\ UNCHANGED <<results, item, phase>>
    /\ UNCHANGED <<def, issues, program, batch, expired>>

Says == batch[item].says
Facts == i > 1 \/ batch[item].facts

(* Faulty: an error in a condition counts as "does not match".             *)
EvaluateLenient ==
    /\ phase = "evaluate" /\ i > 0
    /\ \/ expired /\ i <= Len(Says) /\ Conclude(Error("internal"))
       \/ ~Facts /\ Conclude(Error("invalid"))
       \/ Facts /\ i > Len(Says) /\ Conclude(Match(0))
       \/ Facts /\ i <= Len(Says) /\ Says[i] = "true" /\ Conclude(Match(i))
       \/ /\ Facts /\ i <= Len(Says) /\ Says[i] # "true"
          /\ i' = i + 1 /\ UNCHANGED <<results, item, phase>>
    /\ UNCHANGED <<def, issues, program, batch, expired>>

(* One turn of the loop over the rules.  A passed deadline may show before *)
(* the facts are decoded and inside a condition; an error, or a value that *)
(* is no boolean, ends the item.                                           *)
Evaluate ==
    /\ phase = "evaluate" /\ i > 0
    /\ \/ expired /\ i <= Len(Says) /\ Conclude(Error("internal"))
       \/ ~Facts /\ Conclude(Error("invalid"))
       \/ Facts /\ i > Len(Says) /\ Conclude(Match(0))
       \/ /\ Facts /\ i <= Len(Says) /\ Says[i] \in {"error", "other"}
          /\ Conclude(Error("internal"))
       \/ Facts /\ i <= Len(Says) /\ Says[i] = "true" /\ Conclude(Match(i))
       \/ /\ Facts /\ i <= Len(Says) /\ Says[i] = "false"
          /\ i' = i + 1 /\ UNCHANGED <<results, item, phase>>
    /\ UNCHANGED <<def, issues, program, batch, expired>>

Expire ==
    /\ phase = "evaluate" /\ ~expired
    /\ expired' = TRUE
    /\ UNCHANGED <<phase, def, i, issues, program, batch, item, results>>

Next ==
    \/ Decode \/ validateShape \/ CompileRule
    \/ BatchEvaluate \/ LookUp \/ Evaluate \/ Expire

Spec == Init /\ [][Next]_vars
-----------------------------------------------------------------------------
(* Types of the loops' variables, and the bounds of their indices.         *)
EngineTypeOK ==
    /\ phase \in {"decode", "shape", "compile", "ready", "rejected",
                  "batch", "refused", "evaluate", "answered"}
    /\ i \in 0..(IF phase = "evaluate" THEN Len(batch[item].says) ELSE N) + 1
    /\ issues \subseteq (0..N) \X Codes
    /\ program \in Seq(1..N) /\ item \in 1..MaxItems + 1
    /\ \A k \in DOMAIN results : results[k].res.matched \in 0..Len(batch[k].says)

(* ValidateRuleVersion reports every defect of the shape of a definition   *)
(* that can be decoded or, when the shape is right, every condition that   *)
(* does not compile, not only the first.                                   *)
AllIssuesReported ==
    phase = "rejected" /\ issues # {<<0, "json">>} =>
        LET shape == WholeIssues \cup UNION {ShapeIssues(k) : k \in 1..N}
            bad == {<<k, def.rules[k].cond>> : k \in {k \in 1..N : def.rules[k].cond # "fine"}}
        IN  issues = IF shape # {} THEN shape ELSE bad

(* A definition that compiles has one program per rule, in the order of the*)
(* rules, under distinct names.                                            *)
ProgramMirrorsDefinition ==
    phase = "ready" =>
        /\ program = [k \in 1..N |-> k]
        /\ \A j, k \in 1..N : def.rules[j].name = def.rules[k].name => j = k

Least(S) == CHOOSE j \in S : \A m \in S : j <= m

(* What Service.Evaluate answers an item by itself and in time: the error  *)
(* of the first check that refuses it, or of facts that are none, or the   *)
(* first rule that matches (README.md:32), unless a condition fails before.*)
Alone(it) ==
    LET refused == {k \in 1..5 : it.checks[k] # "ok"}
        decisive == {j \in 1..Len(it.says) : it.says[j] # "false"}
    IN  IF refused # {} THEN Error(it.checks[Least(refused)])
        ELSE IF ~it.facts THEN Error("invalid")
        ELSE IF decisive = {} THEN Match(0)
        ELSE IF it.says[Least(decisive)] = "true" THEN Match(Least(decisive))
        ELSE Error("internal")

(* An answered batch has a result for each item, at the index of the item, *)
(* and it is what the item is answered alone, however many others fail     *)
(* before it; only a passed deadline may turn it into an error.            *)
BatchComplete ==
    /\ phase = "answered" => Len(results) = Len(batch)
    /\ \A k \in DOMAIN results :
          /\ results[k].index = k - 1
          /\ \/ results[k].res = Alone(batch[k])
             \/ expired /\ results[k].res.err \in {"internal", "unavailable"}

(* The three loops together: what they report is the whole truth about the *)
(* definition and the batch, never the part of it that came first.         *)
AnswerFaithful ==
    /\ AllIssuesReported
    /\ ProgramMirrorsDefinition
    /\ BatchComplete
=============================================================================
