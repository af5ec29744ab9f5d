----------------------------- MODULE MCAdmission -----------------------------
(***************************************************************************)
(* Two concurrent requests over either transport, of a user with           *)
(* permissions, one without, and the service account, under the            *)
(* configurations that differ in what the middleware does.                 *)
(***************************************************************************)
EXTENDS Admission, TLC

CONSTANTS a1, a2

MCRequests == {a1, a2}
MCUsers == {"alice", "bob"}

Base(via, op, cred) ==
    [via |-> via, op |-> op, cred |-> cred, method |-> "POST", origin |-> "none",
     json |-> TRUE, key |-> "none"]

MCQueries ==
    { Base(via, call[1], call[2]) :
          via \in {"http", "grpc"},
          call \in {<<"listSets", "alice">>, <<"listSets", "bob">>, <<"evaluateBatch", Psk>>,
                    <<"evaluate", "alice">>} }
    \cup { Base("http", "version", "none"), Base("grpc", "version", "none"),
           [Base("http", "listSets", "alice") EXCEPT !.key = "ok"],
           [Base("grpc", "listSets", "alice") EXCEPT !.key = "malformed"],
           [Base("http", "getSet", "bad") EXCEPT !.json = FALSE],
           [Base("http", "getSet", "none") EXCEPT !.origin = "allowed", !.method = "OPTIONS"] }

Evaluations == {"evaluate", "evaluateBatch"}

Plain ==
    [cors |-> TRUE, psk |-> TRUE, pskPaths |-> Evaluations, pskMethods |-> Evaluations,
     skipPaths |-> {"version"}, skipMethods |-> {"version"}, authz |-> TRUE,
     limit |-> TRUE, failOpen |-> FALSE]

MCConfigs ==
    { Plain,
      [Plain EXCEPT !.authz = FALSE, !.skipPaths = {"version", "listSets", "evaluate"},
                    !.skipMethods = {"version", "listSets", "evaluate"}],
      [Plain EXCEPT !.psk = FALSE, !.failOpen = TRUE] }

Perms(ops) == UNION {ruleGRPCRequirement(op) : op \in ops}
MCGrants ==
    ({"alice"} \X Perms(RuleOps)) \cup ({Psk} \X Perms(Evaluations))

Symm == Permutations(MCRequests)
=============================================================================
