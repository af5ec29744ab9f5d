------------------------------ MODULE Admission ------------------------------
(***************************************************************************)
(* What happens to a request before and after its handler: the HTTP        *)
(* middleware and the gRPC interceptors, in their order.  Requests run     *)
(* concurrently and share the buckets of the rate limiter in Redis.        *)
(***************************************************************************)
EXTENDS Integers, Sequences, FiniteSets

CONSTANTS
    Requests,   \* request goroutines
    Users,      \* subjects with a valid bearer token
    Queries,    \* what clients send
    Configs,    \* configurations of the service
    Grants,     \* <<subject, requirement>> pairs the authorizer allows
    Burst,      \* size of a user's bucket
    Nobody, Psk \* no identity; the service account behind the shared key

RuleOps == {"createSet", "updateSet", "getSet", "listSets", "createVersion",
            "validateVersion", "publishVersion", "getVersion", "listVersions",
            "evaluate", "evaluateBatch"}

(* "version" is the operation without a credential: the version over HTTP, *)
(* the health check over gRPC.                                             *)
Ops == RuleOps \cup {"version", "me"}

(* cred is the user whose valid token is sent, Psk, "bad" or "none".       *)
Query ==
    [via : {"http", "grpc"}, op : Ops, cred : Users \cup {Psk, "bad", "none"},
     method : {"POST", "OPTIONS"}, origin : {"none", "allowed", "other"},
     json : BOOLEAN, key : {"none", "ok", "malformed"}]

Config ==
    [cors : BOOLEAN, psk : BOOLEAN, pskPaths : SUBSET Ops, pskMethods : SUBSET Ops,
     skipPaths : SUBSET Ops, skipMethods : SUBSET Ops, authz : BOOLEAN,
     limit : BOOLEAN, failOpen : BOOLEAN]

ASSUME AdmissionAssumption ==
    /\ Nobody \notin Users /\ Psk \notin Users /\ Nobody # Psk
    /\ Burst \in Nat /\ IsFiniteSet(Requests)
    /\ Queries \subseteq Query /\ Queries # {} /\ Configs \subseteq Config

VARIABLES
    cfg,     \* never changes
    req,     \* the requests
    bucket,  \* tokens left of each user
    used     \* history: handler runs of each user that no refill paid for yet

vars == <<cfg, req, bucket, used>>

(* Faulty: the user's bucket is asked before the user is known.            *)
HTTPChainLimitFirst == <<"key", "cors", "json", "ip", "api", "user", "authn", "authz",
                         "idempotency", "handler">>

HTTPChain == <<"key", "cors", "json", "ip", "api", "authn", "authz", "user",
               "idempotency", "handler">>

GRPCChain == <<"key", "authn", "authz", "idempotency", "handler">>

Chain(via) == IF via = "http" THEN HTTPChain ELSE GRPCChain

Subjects == Users \cup {Nobody, Psk}

(* Errors of package apperror, and answers middleware writes itself.       *)
AppCodes == {"invalid", "notFound", "timeout", "tooMany", "unauthorized", "forbidden",
             "conflict", "inProgress", "unavailable", "internal"}
Codes == AppCodes \cup {"pending", "ok", "mediaType", "preflight"}

(* Who may have answered.                                                  *)
Answerers == {"none", "key", "cors", "json", "ip", "api", "authn", "authz", "user",
              "idempotency", "handler", "timeout", "recovery"}

RequestState ==
    [q : Queries, pos : 0..11, subj : Subjects, code : Codes, by : Answerers,
     late : BOOLEAN, cut : BOOLEAN, ran : BOOLEAN, answers : 0..2]

(* pos 0: no request; 11: done.                                            *)
Done == 11
Begun(q) ==
    [q |-> q, pos |-> 1, subj |-> Nobody, code |-> "pending", by |-> "none",
     late |-> FALSE, cut |-> FALSE, ran |-> FALSE, answers |-> 0]

Init ==
    /\ cfg \in Configs
    /\ req = [r \in Requests |-> [Begun(CHOOSE q \in Queries : TRUE) EXCEPT !.pos = 0]]
    /\ bucket = [s \in Subjects |-> Burst]
    /\ used = [s \in Subjects |-> 0]

Stage(r) ==
    LET chain == Chain(req[r].q.via)
    IN  IF req[r].pos \in DOMAIN chain THEN chain[req[r].pos] ELSE "none"
-----------------------------------------------------------------------------
(* What each stage may answer; "next" lets the request through.            *)

IdempotencyKey(q) == IF q.key = "malformed" THEN {"invalid"} ELSE {"next"}

CORS(q) ==
    IF ~cfg.cors \/ q.origin = "none" THEN {"next"}
    ELSE IF q.origin = "other" THEN {"forbidden"}
    ELSE IF q.method = "OPTIONS" THEN {"preflight"}
    ELSE {"next"}

RequireJSON(q) == IF q.method = "POST" /\ ~q.json THEN {"mediaType"} ELSE {"next"}

(* The buckets of addresses and routes are anybody's.                      *)
SharedLimit == IF cfg.limit THEN {"next", "tooMany", "unavailable"} ELSE {"next"}

(* Faulty: exempt routes come before the routes of the shared key.         *)
AuthenticationSkipFirst(q) ==
    IF q.op \in cfg.skipPaths THEN Nobody
    ELSE IF cfg.psk /\ q.op \in cfg.pskPaths
         THEN IF q.cred = Psk THEN Psk ELSE "reject"
    ELSE IF q.cred \in Users THEN q.cred ELSE "reject"

(* Who the caller is, or "reject".                                         *)
Authentication(q) ==
    IF cfg.psk /\ q.op \in cfg.pskPaths
    THEN IF q.cred = Psk THEN Psk ELSE "reject"
    ELSE IF q.op \in cfg.skipPaths THEN Nobody
    ELSE IF q.cred \in Users THEN q.cred ELSE "reject"

(* Faulty: gRPC knows no exempt methods.                                   *)
authenticateGRPCNoSkip(q) ==
    IF cfg.psk /\ q.op \in cfg.pskMethods
    THEN IF q.cred = Psk THEN Psk ELSE "reject"
    ELSE IF q.cred \in Users THEN q.cred ELSE "reject"

authenticateGRPC(q) ==
    IF cfg.psk /\ q.op \in cfg.pskMethods
    THEN IF q.cred = Psk THEN Psk ELSE "reject"
    ELSE IF q.op \in cfg.skipMethods THEN Nobody
    ELSE IF q.cred \in Users THEN q.cred ELSE "reject"

Identity(q) == IF q.via = "http" THEN Authentication(q) ELSE authenticateGRPC(q)

(* The permission a route needs; {} if it needs none.                      *)
ruleHTTPRequirement(op) ==
    CASE op = "createSet" -> {<<"rule.set", "create">>}
      [] op = "updateSet" -> {<<"rule.set", "update">>}
      [] op = "getSet" -> {<<"rule.set", "read">>}
      [] op = "listSets" -> {<<"rule.set", "list">>}
      [] op = "createVersion" -> {<<"rule.version", "create">>}
      [] op = "validateVersion" -> {<<"rule.version", "validate">>}
      [] op = "publishVersion" -> {<<"rule.version", "publish">>}
      [] op = "getVersion" -> {<<"rule.version", "read">>}
      [] op = "listVersions" -> {<<"rule.version", "list">>}
      [] op \in {"evaluate", "evaluateBatch"} -> {<<"rule.evaluation", "execute">>}
      [] OTHER -> {}

ruleGRPCRequirement(op) ==
    CASE op = "createSet" -> {<<"rule.set", "create">>}
      [] op = "updateSet" -> {<<"rule.set", "update">>}
      [] op = "getSet" -> {<<"rule.set", "read">>}
      [] op = "listSets" -> {<<"rule.set", "list">>}
      [] op = "createVersion" -> {<<"rule.version", "create">>}
      [] op = "validateVersion" -> {<<"rule.version", "validate">>}
      [] op = "publishVersion" -> {<<"rule.version", "publish">>}
      [] op = "getVersion" -> {<<"rule.version", "read">>}
      [] op = "listVersions" -> {<<"rule.version", "list">>}
      [] op \in {"evaluate", "evaluateBatch"} -> {<<"rule.evaluation", "execute">>}
      [] OTHER -> {}

Needed(q) ==
    IF q.via = "http" THEN ruleHTTPRequirement(q.op) ELSE ruleGRPCRequirement(q.op)

(* The authorizer may be unable to decide.  Nobody has no permission.      *)
Authorization(q, subj) ==
    IF ~cfg.authz \/ Needed(q) = {} THEN {"next"}
    ELSE {"unavailable"} \cup
         (IF \A p \in Needed(q) : <<subj, p>> \in Grants THEN {"next"} ELSE {"forbidden"})

(* Whoever waits for the database or the engine when the deadline passes   *)
(* gets an error that is not of package apperror, and translate makes it   *)
(* an internal one; the application check makes it an unavailable one.     *)
(* A batch answers with an error per item; a caller nobody authenticated   *)
(* is refused by the service itself.                                       *)
ServiceCodes(op, subj, cut) ==
    IF op \notin RuleOps THEN {"ok"}
    ELSE IF op = "evaluateBatch" THEN {"ok", "invalid"}
    ELSE IF subj = Nobody THEN {"invalid", "unauthorized"}
    ELSE IF cut THEN {"internal", "unavailable"}
    ELSE {"ok", "invalid", "notFound", "conflict", "forbidden", "unavailable", "internal"}

(* Module IdempotencyGate: the request may run, is refused, or is given    *)
(* what a handler has answered to the same request of the same subject,    *)
(* with the status it had.                                                 *)
Idempotency(q, subj) ==
    IF q.key = "ok"
    THEN {"next", "inProgress", "conflict", "unavailable", "invalid"}
         \cup UNION {ServiceCodes(q.op, subj, cut) : cut \in BOOLEAN}
    ELSE {"next"}

Verdicts(r) ==
    LET q == req[r].q
    IN  CASE Stage(r) = "key" -> IdempotencyKey(q)
          [] Stage(r) = "cors" -> CORS(q)
          [] Stage(r) = "json" -> RequireJSON(q)
          [] Stage(r) \in {"ip", "api"} -> SharedLimit
          [] Stage(r) = "authn" -> {IF Identity(q) = "reject" THEN "unauthorized" ELSE "next"}
          [] Stage(r) = "authz" -> Authorization(q, req[r].subj)
          [] Stage(r) = "idempotency" -> Idempotency(q, req[r].subj)
          [] OTHER -> {}
-----------------------------------------------------------------------------
Set(r, s) == req' = [req EXCEPT ![r] = s]

Arrive(r, q) ==
    /\ req[r].pos \in {0, Done}
    /\ Set(r, Begun(q))
    /\ UNCHANGED <<cfg, bucket, used>>

Timed(r) == req[r].q.via = "http" /\ Stage(r) \notin {"none", "key", "cors"}

(* Timeout: the deadline of the context passes; nobody is interrupted.  If *)
(* it passes earlier, the stages answer as above or let the request on.    *)
Deadline(r) ==
    /\ Timed(r) /\ Stage(r) = "handler" /\ ~req[r].late
    /\ Set(r, [req[r] EXCEPT !.late = TRUE])
    /\ UNCHANGED <<cfg, bucket, used>>

(* Faulty: Timeout writes whenever the deadline has passed.                *)
TimeoutWritesAlways(r, wrote) == Timed(r) /\ req[r].late

(* An answer (or none) is on its way out through the middleware: after the *)
(* deadline Timeout writes one, if nothing was written.                    *)
TimeoutWrites(r, wrote) == Timed(r) /\ req[r].late /\ wrote = 0

Leave(r, code) ==
    LET wrote == IF code = "silent" THEN 0 ELSE 1
        more == TimeoutWrites(r, wrote)
    IN  Set(r, [req[r] EXCEPT !.pos = Done,
                   !.code = IF more THEN "timeout" ELSE code,
                   !.by = IF more THEN "timeout" ELSE Stage(r),
                   !.answers = IF more THEN wrote + 1 ELSE wrote])

Pass(r) ==
    /\ "next" \in Verdicts(r)
    /\ Set(r, [req[r] EXCEPT !.pos = @ + 1,
                  !.subj = IF Stage(r) = "authn" THEN Identity(req[r].q) ELSE @])
    /\ UNCHANGED <<cfg, bucket, used>>

Answer(r) ==
    /\ \E code \in Verdicts(r) \ {"next"} : Leave(r, code)
    /\ UNCHANGED <<cfg, bucket, used>>

(* The user's own bucket.  Without a subject, or a limiter, nothing is     *)
(* counted; without Redis the configuration decides.                       *)
LimitUser(r) ==
    LET s == req[r].subj
        through == [req[r] EXCEPT !.pos = @ + 1]
    IN  /\ Stage(r) = "user"
        /\ \/ (~cfg.limit \/ s = Nobody \/ cfg.failOpen) /\ Set(r, through) /\ UNCHANGED bucket
           \/ cfg.limit /\ s # Nobody /\ ~cfg.failOpen /\ Leave(r, "unavailable") /\ UNCHANGED bucket
           \/ cfg.limit /\ s # Nobody /\ bucket[s] = 0 /\ Leave(r, "tooMany") /\ UNCHANGED bucket
           \/ cfg.limit /\ s # Nobody /\ bucket[s] > 0 /\ Set(r, through)
              /\ bucket' = [bucket EXCEPT ![s] = @ - 1]
        /\ UNCHANGED <<cfg, used>>

(* Requests of s between the limiter and their handler.                    *)
Underway(s) ==
    {r \in Requests : /\ req[r].q.via = "http" /\ req[r].subj = s /\ ~req[r].ran
                      /\ Stage(r) \in {"idempotency", "handler"}}

Refill(s) ==
    /\ bucket[s] < Burst
    /\ bucket' = [bucket EXCEPT ![s] = @ + 1]
    /\ used' = [used EXCEPT ![s] = IF @ + Cardinality(Underway(s)) > 0 THEN @ - 1 ELSE @]
    /\ UNCHANGED <<cfg, req>>

(* Every handler binds its JSON, calls the service and answers once.       *)
Invoke(r) ==
    /\ Stage(r) = "handler" /\ ~req[r].ran
    /\ Set(r, [req[r] EXCEPT !.ran = TRUE])
    /\ used' = [used EXCEPT ![req[r].subj] =
                   IF /\ req[r].q.via = "http" /\ cfg.limit /\ ~cfg.failOpen
                      /\ req[r].subj # Nobody /\ @ <= Burst
                   THEN @ + 1 ELSE @]
    /\ UNCHANGED <<cfg, bucket>>

Interrupt(r) ==
    /\ Stage(r) = "handler" /\ req[r].ran /\ req[r].late /\ ~req[r].cut
    /\ Set(r, [req[r] EXCEPT !.cut = TRUE])
    /\ UNCHANGED <<cfg, bucket, used>>

Handle(r) ==
    /\ Stage(r) = "handler" /\ req[r].ran
    /\ \E code \in ServiceCodes(req[r].q.op, req[r].subj, req[r].cut) : Leave(r, code)
    /\ UNCHANGED <<cfg, bucket, used>>

(* A panic unwinds to Recovery, past Timeout and the idempotency gate.     *)
Panic(r) ==
    /\ Stage(r) = "handler" /\ req[r].ran
    /\ Set(r, [req[r] EXCEPT !.pos = Done, !.code = "internal", !.by = "recovery",
                  !.answers = 1])
    /\ UNCHANGED <<cfg, bucket, used>>

Next ==
    \/ \E r \in Requests :
          \/ \E q \in Queries : Arrive(r, q)
          \/ Deadline(r) \/ Pass(r) \/ Answer(r) \/ LimitUser(r)
          \/ Invoke(r) \/ Interrupt(r) \/ Handle(r) \/ Panic(r)
    \/ \E s \in Subjects : Refill(s)

Spec == Init /\ [][Next]_vars
-----------------------------------------------------------------------------
(* The status of an answer over HTTP, and of a handler's error over gRPC.  *)
HTTPStatus(code) ==
    CASE code = "ok" -> 200 [] code = "preflight" -> 204
      [] code = "invalid" -> 400 [] code = "unauthorized" -> 401
      [] code = "forbidden" -> 403 [] code = "notFound" -> 404
      [] code \in {"conflict", "inProgress"} -> 409
      [] code = "mediaType" -> 415 [] code = "tooMany" -> 429
      [] code = "internal" -> 500 [] code = "unavailable" -> 503
      [] code = "timeout" -> 504

(* Faulty: a conflict is not in the table.                                 *)
ruleErrorNoConflict(code) ==
    CASE code = "ok" -> "OK" [] code = "invalid" -> "InvalidArgument"
      [] code = "notFound" -> "NotFound" [] code = "unauthorized" -> "Unauthenticated"
      [] code = "forbidden" -> "PermissionDenied" [] code = "inProgress" -> "Aborted"
      [] code = "unavailable" -> "Unavailable" [] code = "timeout" -> "DeadlineExceeded"
      [] code = "tooMany" -> "ResourceExhausted" [] OTHER -> "Internal"

ruleError(code) ==
    CASE code = "ok" -> "OK" [] code = "invalid" -> "InvalidArgument"
      [] code = "notFound" -> "NotFound" [] code = "unauthorized" -> "Unauthenticated"
      [] code = "forbidden" -> "PermissionDenied"
      [] code \in {"conflict", "inProgress"} -> "Aborted"
      [] code = "unavailable" -> "Unavailable" [] code = "timeout" -> "DeadlineExceeded"
      [] code = "tooMany" -> "ResourceExhausted" [] OTHER -> "Internal"

(* The status of an answer over gRPC: a handler's error goes through       *)
(* ruleError, the interceptors of the service set theirs themselves.       *)
GRPCStatus(e) ==
    CASE e.by = "key" -> "InvalidArgument" [] e.by = "authn" -> "Unauthenticated"
      [] e.by = "recovery" -> "Internal" [] e.by = "handler" -> ruleError(e.code)

(* The pairs that say the same to a client, as gRPC's codes define them.   *)
SameMeaning ==
    { <<200, "OK">>, <<400, "InvalidArgument">>, <<401, "Unauthenticated">>,
      <<403, "PermissionDenied">>, <<404, "NotFound">>, <<409, "Aborted">>,
      <<429, "ResourceExhausted">>, <<500, "Internal">>, <<503, "Unavailable">>,
      <<504, "DeadlineExceeded">> }
-----------------------------------------------------------------------------
(* Types of the requests, the configuration, the buckets and the history.  *)
AdmissionTypeOK ==
    /\ cfg \in Config
    /\ req \in [Requests -> RequestState]
    /\ bucket \in [Subjects -> 0..Burst]
    /\ used \in [Subjects -> -Cardinality(Requests)..Burst + 1]

(* Every request that leaves the server was answered exactly once, whatever*)
(* refused it, panicked or ran past its deadline.                          *)
OneAnswer ==
    \A r \in Requests : req[r].pos = Done => req[r].answers = 1 /\ req[r].code # "pending"

(* A handler of a rule operation runs only for a caller whom the authorizer*)
(* grants what the other transport would ask for, and every caller runs    *)
(* under the identity of its own credential.                               *)
HandlerIsEntitled ==
    \A r \in Requests : req[r].ran =>
        LET q == req[r].q  s == req[r].subj
        IN  /\ cfg.authz => \A p \in ruleHTTPRequirement(q.op) \cup ruleGRPCRequirement(q.op) :
                                <<s, p>> \in Grants
            /\ s = q.cred \/ (s = Nobody /\ q.op \in cfg.skipPaths \cup cfg.skipMethods)
            /\ cfg.psk /\ q.op \in cfg.pskPaths \cap cfg.pskMethods => s = Psk

(* With the same routes configured, a caller that one transport refuses for*)
(* its credential or its permissions does not reach the handler of the same*)
(* operation over the other.                                               *)
RefusedAlike ==
    cfg.pskPaths = cfg.pskMethods /\ cfg.skipPaths = cfg.skipMethods =>
        \A r, s \in Requests :
            LET p == req[r].q  q == req[s].q
            IN  /\ p.via # q.via /\ p.op = q.op /\ p.cred = q.cred
                /\ req[r].by \in {"authn", "authz"} /\ req[r].code # "unavailable"
                => ~req[s].ran

(* The same error means the same over both transports, whoever of the      *)
(* service's own interceptors and handlers answers with it.                *)
AnswersCorrespond ==
    \A r, s \in Requests :
        /\ req[r].pos = Done /\ req[r].q.via = "http"
        /\ req[s].pos = Done /\ req[s].q.via = "grpc"
        /\ req[s].by \in {"key", "authn", "handler", "recovery"}
        /\ req[r].code = req[s].code
        => <<HTTPStatus(req[r].code), GRPCStatus(req[s])>> \in SameMeaning

(* HTTP and gRPC are two doors of one service: the chains of middleware    *)
(* and of interceptors, written separately, refuse alike and answer alike. *)
TransportsAgree == RefusedAlike /\ AnswersCorrespond

(* A user never gets more HTTP handlers run than the bucket held and was   *)
(* refilled with, if the limiter is on and does not fail open.             *)
UserBurstBound ==
    cfg.limit /\ ~cfg.failOpen => \A s \in Users \cup {Psk} : used[s] <= Burst
=============================================================================
