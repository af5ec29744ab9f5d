-------------------------- MODULE AdmissionProofs ---------------------------
(***************************************************************************)
(* Proofs about Admission: any number of concurrent requests, any users,   *)
(* grants, configurations and size of a bucket.                            *)
(***************************************************************************)
EXTENDS Admission, FiniteSetTheorems, TLAPS

(* Where the chain of a request finds out who is calling, and its end.     *)
AuthnAt(q) == IF q.via = "http" THEN 6 ELSE 2
HandlerAt(q) == IF q.via = "http" THEN 10 ELSE 5

(* Who the middleware takes the sender of each query for.                  *)
Identities == [q \in Queries |-> Identity(q)]

(* The progress e of a request under configuration c, who taking callers   *)
(* for what they are: what has let it through and what has refused it.     *)
InPlace(e) ==
    /\ e.pos \in (0..HandlerAt(e.q)) \cup {Done}
    /\ e.pos # Done => e.code = "pending"
    /\ e.pos = Done => e.code # "pending" /\ e.answers = 1
    /\ e.ran => e.pos \in {HandlerAt(e.q), Done}
    /\ e.q.via = "grpc" => e.code \notin {"mediaType", "preflight"}

LetThrough(e, c, who) ==
    /\ e.ran \/ e.pos \in AuthnAt(e.q) + 1..HandlerAt(e.q) =>
          who[e.q] # "reject" /\ e.subj = who[e.q]
    /\ e.ran \/ e.pos \in AuthnAt(e.q) + 2..HandlerAt(e.q) =>
          (c.authz => \A p \in Needed(e.q) : <<e.subj, p>> \in Grants)

RefusedFor(e, c, who) ==
    /\ e.pos # Done => e.by = "none"
    /\ e.by = "authn" => who[e.q] = "reject"
    /\ e.by = "authz" /\ e.code # "unavailable" =>
          c.authz /\ \E p \in Needed(e.q) : <<who[e.q], p>> \notin Grants
    /\ e.by = "key" => e.code = "invalid"
    /\ e.by = "authn" => e.code = "unauthorized"
    /\ e.by = "recovery" => e.code = "internal"

Orderly(e, c, who) == InPlace(e) /\ LetThrough(e, c, who) /\ RefusedFor(e, c, who)

(* Tokens, requests on their way to the handler and handler runs that are  *)
(* not paid for yet never exceed the bucket.                               *)
WithinBudget ==
    cfg.limit /\ ~cfg.failOpen =>
        \A s \in Users \cup {Psk} : bucket[s] + Cardinality(Underway(s)) + used[s] <= Burst

OrderInv == AdmissionTypeOK /\ \A r \in Requests : Orderly(req[r], cfg, Identities)

AdmissionInv == OrderInv /\ WithinBudget
-----------------------------------------------------------------------------
(* Where a request is in its chain.                                        *)
LEMMA Stages ==
    ASSUME OrderInv, NEW r \in Requests
    PROVE  /\ req[r].pos \in {0, Done} => Stage(r) = "none"
           /\ req[r].q.via = "http" =>
                 /\ req[r].pos \in 0..11
                 /\ req[r].pos = 1 => Stage(r) = "key"
                 /\ req[r].pos = 2 => Stage(r) = "cors"
                 /\ req[r].pos = 3 => Stage(r) = "json"
                 /\ req[r].pos = 4 => Stage(r) = "ip"
                 /\ req[r].pos = 5 => Stage(r) = "api"
                 /\ req[r].pos = 6 => Stage(r) = "authn"
                 /\ req[r].pos = 7 => Stage(r) = "authz"
                 /\ req[r].pos = 8 => Stage(r) = "user"
                 /\ req[r].pos = 9 => Stage(r) = "idempotency"
                 /\ req[r].pos = 10 => Stage(r) = "handler"
           /\ req[r].q.via # "http" =>
                 /\ req[r].pos \in 0..5 \cup {Done}
                 /\ req[r].pos = 1 => Stage(r) = "key"
                 /\ req[r].pos = 2 => Stage(r) = "authn"
                 /\ req[r].pos = 3 => Stage(r) = "authz"
                 /\ req[r].pos = 4 => Stage(r) = "idempotency"
                 /\ req[r].pos = 5 => Stage(r) = "handler"
<1>1. InPlace(req[r])
  BY DEF OrderInv, Orderly
<1>2. CASE req[r].q.via = "http"
  BY <1>1, <1>2 DEF InPlace, HandlerAt, Done, Stage, Chain, HTTPChain
<1>3. CASE req[r].q.via # "http"
  BY <1>1, <1>3 DEF InPlace, HandlerAt, Done, Stage, Chain, GRPCChain
<1>4. QED
  BY <1>2, <1>3

LEMMA BegunTyped ==
    ASSUME NEW q \in Queries
    PROVE  /\ Begun(q) \in RequestState
           /\ Begun(q).q = q /\ Begun(q).pos = 1 /\ Begun(q).subj = Nobody
           /\ Begun(q).code = "pending" /\ Begun(q).by = "none" /\ ~Begun(q).ran
BY DEF Begun, RequestState, Codes, AppCodes, Subjects, Answerers

LEMMA AdmissionInit == Init => AdmissionInv
<1> SUFFICES ASSUME Init PROVE AdmissionInv
  OBVIOUS
<1> DEFINE q == CHOOSE q \in Queries : TRUE
<1>1. q \in Queries
  BY AdmissionAssumption
<1> HIDE DEF q
<1>2. \A r \in Requests : req[r] = [Begun(q) EXCEPT !.pos = 0]
  BY DEF Init, q
<1> DEFINE e == [Begun(q) EXCEPT !.pos = 0]
<1>3. /\ e \in RequestState /\ e.pos = 0 /\ e.code = "pending" /\ ~e.ran
      /\ e.by = "none" /\ e.q = q /\ e.subj = Nobody
  BY <1>1, BegunTyped DEF RequestState
<1> HIDE DEF e
<1>4. Orderly(e, cfg, Identities)
  BY <1>3 DEF Orderly, InPlace, LetThrough, RefusedFor, AuthnAt, HandlerAt, Done
<1>5. AdmissionTypeOK
  <2>1. req \in [Requests -> RequestState]
    BY <1>3 DEF Init, e, q
  <2>2. cfg \in Config
    BY AdmissionAssumption DEF Init
  <2>3. Cardinality(Requests) \in Nat
    BY AdmissionAssumption, FS_CardinalityType
  <2>4. bucket \in [Subjects -> 0..Burst] /\ used \in [Subjects -> -Cardinality(Requests)..Burst + 1]
    BY <2>3, AdmissionAssumption DEF Init
  <2>5. QED
    BY <2>1, <2>2, <2>4 DEF AdmissionTypeOK
<1>6. WithinBudget
  <2>1. ASSUME NEW r \in Requests PROVE Stage(r) = "none"
    <3>1. req[r].pos = 0
      BY <1>2, <1>3 DEF e
    <3>2. 0 \notin DOMAIN HTTPChain /\ 0 \notin DOMAIN GRPCChain
      BY DEF HTTPChain, GRPCChain
    <3>3. QED
      BY <3>1, <3>2 DEF Stage, Chain
  <2>2. \A s \in Subjects : Underway(s) = {} /\ bucket[s] = Burst /\ used[s] = 0
    BY <2>1 DEF Underway, Init
  <2>3. QED
    BY <2>2, FS_EmptySet, AdmissionAssumption DEF WithinBudget, Subjects
<1>7. QED
  BY <1>2, <1>4, <1>5, <1>6 DEF AdmissionInv, OrderInv, e

(* The configuration never changes, and with it who a caller is.           *)
LEMMA SameIdentities ==
    ASSUME cfg' = cfg
    PROVE  Identities' = Identities
BY DEF Identities, Identity, Authentication, authenticateGRPC

(* A step that leaves the record e for request r.                          *)
LEMMA SetOrderly ==
    ASSUME OrderInv, NEW r \in Requests, NEW e \in RequestState, Set(r, e),
           Orderly(e, cfg, Identities), cfg' = cfg
    PROVE  /\ req' \in [Requests -> RequestState]
           /\ \A x \in Requests : Orderly(req'[x], cfg', Identities')
<1>1. req' \in [Requests -> RequestState]
  BY DEF Set, OrderInv, AdmissionTypeOK
<1>2. \A x \in Requests : req'[x] = IF x = r THEN e ELSE req[x]
  BY DEF Set, OrderInv, AdmissionTypeOK
<1>3. \A x \in Requests : Orderly(req'[x], cfg, Identities)
  BY <1>2 DEF OrderInv
<1>4. QED
  BY <1>1, <1>3, SameIdentities

(* How a request e ends with an answer.                                    *)
Ended(e, code, by) == [e EXCEPT !.pos = Done, !.code = code, !.by = by, !.answers = 1]

(* Every code but "silent", which nothing uses, answers at once.           *)
LEMMA LeaveAnswers ==
    ASSUME OrderInv, NEW r \in Requests, NEW code \in Codes, Leave(r, code)
    PROVE  Set(r, Ended(req[r], code, Stage(r)))
<1>1. code # "silent"
  BY DEF Codes, AppCodes
<1>2. QED
  BY <1>1 DEF Leave, TimeoutWrites, Ended

(* What the service answers, now or when it was stored.                    *)
LEMMA CodesServed ==
    ASSUME NEW op, NEW subj, NEW cut \in BOOLEAN
    PROVE  ServiceCodes(op, subj, cut) \subseteq Codes \ {"pending", "mediaType", "preflight"}
BY DEF ServiceCodes, Codes, AppCodes

(* The verdicts of every stage are codes, or let the request on.           *)
LEMMA VerdictsTyped ==
    ASSUME NEW r \in Requests
    PROVE  Verdicts(r) \subseteq Codes \cup {"next"}
<1> DEFINE q == req[r].q
<1>1. /\ IdempotencyKey(q) \subseteq Codes \cup {"next"}
      /\ CORS(q) \subseteq Codes \cup {"next"}
      /\ RequireJSON(q) \subseteq Codes \cup {"next"}
      /\ SharedLimit \subseteq Codes \cup {"next"}
      /\ Idempotency(q, req[r].subj) \subseteq Codes \cup {"next"}
  BY CodesServed DEF IdempotencyKey, CORS, RequireJSON, SharedLimit, Idempotency, Codes, AppCodes
<1>2. Authorization(q, req[r].subj) \subseteq Codes \cup {"next"}
  BY DEF Authorization, Codes, AppCodes
<1>3. {IF Identity(q) = "reject" THEN "unauthorized" ELSE "next"} \subseteq Codes \cup {"next"}
  BY DEF Codes, AppCodes
<1>4. QED
  BY <1>1, <1>2, <1>3 DEF Verdicts
(* Which verdicts let a request past the stages that ask who it is, and    *)
(* what a refusal says of it.                                              *)
LEMMA AuthVerdicts ==
    ASSUME NEW r \in Requests, req[r] \in RequestState
    PROVE  /\ Stage(r) \in {"none", "user", "handler"} => Verdicts(r) = {}
           /\ Stage(r) = "authn" =>
                 Verdicts(r) = {IF Identities[req[r].q] = "reject" THEN "unauthorized" ELSE "next"}
           /\ Stage(r) = "authz" /\ "next" \in Verdicts(r) /\ cfg.authz =>
                 \A p \in Needed(req[r].q) : <<req[r].subj, p>> \in Grants
           /\ Stage(r) = "authz" /\ "forbidden" \in Verdicts(r) =>
                 cfg.authz /\ \E p \in Needed(req[r].q) : <<req[r].subj, p>> \notin Grants
           /\ Stage(r) = "authz" => Verdicts(r) \subseteq {"next", "unavailable", "forbidden"}
           /\ Stage(r) = "key" => Verdicts(r) \subseteq {"next", "invalid"}
           /\ "pending" \notin Verdicts(r)
           /\ Verdicts(r) \cap {"mediaType", "preflight"} # {} => Stage(r) \in {"cors", "json"}
<1> DEFINE q == req[r].q
<1>1. req[r].q \in Queries
  BY DEF RequestState
<1>2. Stage(r) \in {"none", "user", "handler"} => Verdicts(r) = {}
  BY DEF Verdicts
<1>3. Stage(r) = "authn" =>
        Verdicts(r) = {IF Identities[req[r].q] = "reject" THEN "unauthorized" ELSE "next"}
  BY <1>1 DEF Verdicts, Identities
<1>4. Stage(r) = "authz" /\ "next" \in Verdicts(r) /\ cfg.authz =>
        \A p \in Needed(req[r].q) : <<req[r].subj, p>> \in Grants
  BY DEF Verdicts, Authorization
<1>5. /\ IdempotencyKey(q) \subseteq {"next", "invalid"}
      /\ SharedLimit \cap {"pending", "mediaType", "preflight"} = {}
      /\ Idempotency(q, req[r].subj) \cap {"pending", "mediaType", "preflight"} = {}
      /\ "pending" \notin CORS(q) /\ "pending" \notin RequireJSON(q)
  BY CodesServed DEF IdempotencyKey, SharedLimit, Idempotency, CORS, RequireJSON
<1>6. /\ Authorization(q, req[r].subj) \subseteq {"next", "unavailable", "forbidden"}
      /\ "forbidden" \in Authorization(q, req[r].subj) =>
            cfg.authz /\ \E p \in Needed(q) : <<req[r].subj, p>> \notin Grants
  BY DEF Authorization
<1>7. QED
  BY <1>2, <1>3, <1>4, <1>5, <1>6 DEF Verdicts

LEMMA EndedTyped ==
    ASSUME NEW e \in RequestState, NEW code \in Codes, NEW by \in Answerers
    PROVE  LET x == Ended(e, code, by)
           IN  /\ x \in RequestState /\ x.q = e.q /\ x.pos = Done /\ x.code = code
               /\ x.by = by /\ x.answers = 1 /\ x.ran = e.ran /\ x.subj = e.subj
<1> DEFINE a == [e EXCEPT !.pos = Done]
           b == [a EXCEPT !.code = code]
           c == [b EXCEPT !.by = by]
           x == [c EXCEPT !.answers = 1]
<1>1. /\ a \in RequestState /\ a.q = e.q /\ a.pos = Done /\ a.ran = e.ran /\ a.subj = e.subj
  BY DEF RequestState, Done
<1> HIDE DEF a
<1>2. /\ b \in RequestState /\ b.q = a.q /\ b.pos = a.pos /\ b.ran = a.ran /\ b.subj = a.subj
      /\ b.code = code
  BY <1>1 DEF RequestState
<1> HIDE DEF b
<1>3. /\ c \in RequestState /\ c.q = b.q /\ c.pos = b.pos /\ c.ran = b.ran /\ c.subj = b.subj
      /\ c.code = b.code /\ c.by = by
  BY <1>2 DEF RequestState
<1> HIDE DEF c
<1>4. /\ x \in RequestState /\ x.q = c.q /\ x.pos = c.pos /\ x.ran = c.ran /\ x.subj = c.subj
      /\ x.code = c.code /\ x.by = c.by /\ x.answers = 1
  BY <1>3 DEF RequestState
<1>5. QED
  BY <1>1, <1>2, <1>3, <1>4 DEF a, b, c, Ended

(* The stages of the chains.                                               *)
LEMMA StageTyped == \A r \in Requests : Stage(r) \in Answerers
<1> SUFFICES ASSUME NEW r \in Requests PROVE Stage(r) \in Answerers
  OBVIOUS
<1>1. /\ \A i \in DOMAIN HTTPChain : HTTPChain[i] \in Answerers
      /\ \A i \in DOMAIN GRPCChain : GRPCChain[i] \in Answerers
  BY DEF HTTPChain, GRPCChain, Answerers
<1>2. QED
  BY <1>1 DEF Stage, Chain, Answerers

LEMMA StageNames == \A r \in Requests : Stage(r) # "recovery"
<1>1. /\ \A i \in DOMAIN HTTPChain : HTTPChain[i] # "recovery"
      /\ \A i \in DOMAIN GRPCChain : GRPCChain[i] # "recovery"
  BY DEF HTTPChain, GRPCChain
<1>2. QED
  BY <1>1 DEF Stage, Chain

(* A request leaves with a code that its own stages account for.           *)
LEMMA LeaveOrderly ==
    ASSUME OrderInv, NEW r \in Requests, NEW code \in Codes \ {"pending"}, Leave(r, code),
           Stage(r) # "none", Stage(r) # "recovery",
           req[r].pos # Done,
           req[r].q.via = "grpc" => code \notin {"mediaType", "preflight"},
           Stage(r) = "key" => code = "invalid",
           Stage(r) = "authn" => code = "unauthorized" /\ Identities[req[r].q] = "reject",
           Stage(r) = "authz" /\ code # "unavailable" =>
              cfg.authz /\ \E p \in Needed(req[r].q) : <<Identities[req[r].q], p>> \notin Grants,
           cfg' = cfg
    PROVE  /\ req' \in [Requests -> RequestState]
           /\ \A x \in Requests : Orderly(req'[x], cfg', Identities')
<1> DEFINE e == Ended(req[r], code, Stage(r))
<1>0. req[r] \in RequestState /\ Orderly(req[r], cfg, Identities)
  BY DEF OrderInv, AdmissionTypeOK
<1>1. Set(r, e)
  BY LeaveAnswers
<1>2. /\ e \in RequestState /\ e.q = req[r].q /\ e.pos = Done /\ e.code = code /\ e.answers = 1
      /\ e.by = Stage(r) /\ e.ran = req[r].ran /\ e.subj = req[r].subj
  BY <1>0, StageTyped, EndedTyped
<1> HIDE DEF e
<1>3. HandlerAt(e.q) \in {5, 10} /\ AuthnAt(e.q) \in {2, 6} /\ Done = 11
  BY DEF HandlerAt, AuthnAt, Done
<1>4. InPlace(e) /\ RefusedFor(e, cfg, Identities)
  BY <1>2 DEF InPlace, RefusedFor
<1>5. LetThrough(e, cfg, Identities)
  BY <1>0, <1>2, <1>3 DEF Orderly, LetThrough
<1>6. QED
  BY <1>1, <1>2, <1>4, <1>5, SetOrderly DEF Orderly

(* The chains in numbers.                                                  *)
LEMMA ChainNumbers ==
    /\ Done = 11
    /\ \A q : HandlerAt(q) \in {5, 10} /\ AuthnAt(q) \in {2, 6}
    /\ \A q : q.via = "http" => HandlerAt(q) = 10 /\ AuthnAt(q) = 6
    /\ \A q : q.via # "http" => HandlerAt(q) = 5 /\ AuthnAt(q) = 2
BY DEF HandlerAt, AuthnAt, Done

(* The stages by what they have let through.                               *)
LEMMA StagePlaces ==
    ASSUME OrderInv, NEW r \in Requests
    PROVE  LET e == req[r]
           IN  /\ e \in RequestState /\ Orderly(e, cfg, Identities)
               /\ Stage(r) = "none" <=> e.pos \in {0, Done}
               /\ Stage(r) = "authn" <=> e.pos = AuthnAt(e.q)
               /\ Stage(r) = "authz" <=> e.pos = AuthnAt(e.q) + 1
               /\ Stage(r) = "handler" <=> e.pos = HandlerAt(e.q)
               /\ Stage(r) \in {"cors", "json"} => e.q.via = "http"
               /\ Stage(r) = "user" <=> e.q.via = "http" /\ e.pos = 8
               /\ e.q.via = "http" => (Stage(r) = "idempotency" <=> e.pos = 9)
<1>1. req[r] \in RequestState /\ Orderly(req[r], cfg, Identities)
  BY DEF OrderInv, AdmissionTypeOK
<1>2. CASE req[r].q.via = "http"
  <2>1. req[r].pos \in {0, 1, 2, 3, 4, 5, 6, 7, 8, 9, 10, 11}
    BY <1>2, Stages
  <2>2. QED
    BY <1>1, <1>2, <2>1, Stages, ChainNumbers
<1>3. CASE req[r].q.via # "http"
  <2>1. req[r].pos \in {0, 1, 2, 3, 4, 5, 11}
    BY <1>3, Stages DEF Done
  <2>2. QED
    BY <1>1, <1>3, <2>1, Stages, ChainNumbers
<1>4. QED
  BY <1>2, <1>3

LEMMA ArriveOrderly ==
    ASSUME OrderInv, NEW r \in Requests, NEW q \in Queries, Arrive(r, q)
    PROVE  /\ req' \in [Requests -> RequestState]
           /\ \A x \in Requests : Orderly(req'[x], cfg', Identities')
<1>1. Orderly(Begun(q), cfg, Identities)
  BY BegunTyped, ChainNumbers DEF Orderly, InPlace, LetThrough, RefusedFor
<1>2. QED
  BY <1>1, BegunTyped, SetOrderly DEF Arrive

LEMMA FlagOrderly ==
    ASSUME OrderInv, NEW r \in Requests, Deadline(r) \/ Invoke(r) \/ Interrupt(r)
    PROVE  /\ req' \in [Requests -> RequestState]
           /\ \A x \in Requests : Orderly(req'[x], cfg', Identities')
<1>1. /\ req[r] \in RequestState /\ Orderly(req[r], cfg, Identities) /\ cfg' = cfg
      /\ req[r].pos = HandlerAt(req[r].q)
  BY StagePlaces DEF Deadline, Invoke, Interrupt
<1>2. CASE Deadline(r)
  <2> DEFINE e == [req[r] EXCEPT !.late = TRUE]
  <2>1. /\ e \in RequestState /\ e.q = req[r].q /\ e.pos = req[r].pos /\ e.code = req[r].code
        /\ e.ran = req[r].ran /\ e.subj = req[r].subj /\ e.answers = req[r].answers
        /\ e.by = req[r].by
    BY <1>1 DEF RequestState
  <2> HIDE DEF e
  <2>2. Orderly(e, cfg, Identities)
    BY <1>1, <2>1 DEF Orderly, InPlace, LetThrough, RefusedFor
  <2>3. Set(r, e)
    BY <1>2 DEF Deadline, e
  <2>4. QED
    BY <1>1, <2>1, <2>2, <2>3, SetOrderly
<1>3. CASE Invoke(r)
  <2> DEFINE e == [req[r] EXCEPT !.ran = TRUE]
  <2>1. /\ e \in RequestState /\ e.q = req[r].q /\ e.pos = req[r].pos /\ e.code = req[r].code
        /\ e.ran /\ e.subj = req[r].subj /\ e.answers = req[r].answers
        /\ e.by = req[r].by
    BY <1>1 DEF RequestState
  <2> HIDE DEF e
  <2>2. Orderly(e, cfg, Identities)
    <3>1. InPlace(e) /\ RefusedFor(e, cfg, Identities)
      BY <1>1, <2>1, ChainNumbers DEF Orderly, InPlace, RefusedFor
    <3>2. HandlerAt(e.q) \in AuthnAt(e.q) + 2..HandlerAt(e.q) /\ HandlerAt(e.q) \in AuthnAt(e.q) + 1..HandlerAt(e.q)
      BY ChainNumbers
    <3>3. LetThrough(e, cfg, Identities)
      BY <1>1, <2>1, <3>2 DEF Orderly, LetThrough
    <3>4. QED
      BY <3>1, <3>3 DEF Orderly
  <2>3. Set(r, e)
    BY <1>3 DEF Invoke, e
  <2>4. QED
    BY <1>1, <2>1, <2>2, <2>3, SetOrderly
<1>4. CASE Interrupt(r)
  <2> DEFINE e == [req[r] EXCEPT !.cut = TRUE]
  <2>1. /\ e \in RequestState /\ e.q = req[r].q /\ e.pos = req[r].pos /\ e.code = req[r].code
        /\ e.ran = req[r].ran /\ e.subj = req[r].subj /\ e.answers = req[r].answers
        /\ e.by = req[r].by
    BY <1>1 DEF RequestState
  <2> HIDE DEF e
  <2>2. Orderly(e, cfg, Identities)
    BY <1>1, <2>1 DEF Orderly, InPlace, LetThrough, RefusedFor
  <2>3. Set(r, e)
    BY <1>4 DEF Interrupt, e
  <2>4. QED
    BY <1>1, <2>1, <2>2, <2>3, SetOrderly
<1>5. QED
  BY <1>2, <1>3, <1>4

(* Who is known when the chain has found out.                              *)
LEMMA IdentityTyped ==
    ASSUME NEW q \in Queries
    PROVE  Identities[q] = Identity(q) /\ (Identity(q) # "reject" => Identity(q) \in Subjects)
BY DEF Identities, Identity, Authentication, authenticateGRPC, Subjects

LEMMA PassOrderly ==
    ASSUME OrderInv, NEW r \in Requests, Pass(r)
    PROVE  /\ req' \in [Requests -> RequestState]
           /\ \A x \in Requests : Orderly(req'[x], cfg', Identities')
<1> DEFINE who == IF Stage(r) = "authn" THEN Identity(req[r].q) ELSE req[r].subj
           e == [req[r] EXCEPT !.pos = @ + 1, !.subj = who]
<1>1. /\ req[r] \in RequestState /\ Orderly(req[r], cfg, Identities) /\ cfg' = cfg
      /\ req[r].q \in Queries /\ req[r].pos \in 0..11 /\ req[r].subj \in Subjects
  BY StagePlaces DEF Pass, RequestState
<1>2. Set(r, e)
  BY DEF Pass
<1>3. /\ Stage(r) \notin {"none", "user", "handler"}
      /\ Stage(r) = "authn" => Identities[req[r].q] # "reject"
      /\ Stage(r) = "authz" /\ cfg.authz => \A p \in Needed(req[r].q) : <<req[r].subj, p>> \in Grants
  BY <1>1, AuthVerdicts DEF Pass
<1>4. /\ req[r].pos \notin {0, Done} /\ req[r].pos # HandlerAt(req[r].q) /\ ~req[r].ran
      /\ req[r].pos \in 0..HandlerAt(req[r].q)
  BY <1>1, <1>3, StagePlaces DEF Orderly, InPlace
<1>5. /\ who \in Subjects
      /\ req[r].pos = AuthnAt(req[r].q) => who = Identities[req[r].q] /\ who # "reject"
      /\ req[r].pos # AuthnAt(req[r].q) => who = req[r].subj
  BY <1>1, <1>3, IdentityTyped, StagePlaces
<1> HIDE DEF who
<1>6. /\ e \in RequestState /\ e.q = req[r].q /\ e.pos = req[r].pos + 1 /\ e.code = req[r].code
      /\ e.ran = req[r].ran /\ e.subj = who /\ e.answers = req[r].answers
      /\ e.by = req[r].by
  <2> DEFINE a == [req[r] EXCEPT !.pos = req[r].pos + 1]
  <2>1. req[r].pos + 1 \in 0..11
    BY <1>1, <1>4, ChainNumbers
  <2>2. /\ a \in RequestState /\ a.q = req[r].q /\ a.pos = req[r].pos + 1 /\ a.code = req[r].code
        /\ a.ran = req[r].ran /\ a.answers = req[r].answers /\ a.by = req[r].by
    BY <1>1, <2>1 DEF RequestState
  <2>3. e = [a EXCEPT !.subj = who]
    BY DEF a
  <2> HIDE DEF a, e
  <2>4. QED
    BY <1>5, <2>2, <2>3 DEF RequestState
<1> HIDE DEF e
<1>7. InPlace(e)
  BY <1>1, <1>4, <1>6, ChainNumbers DEF Orderly, InPlace
<1>8. RefusedFor(e, cfg, Identities)
  BY <1>1, <1>4, <1>6 DEF Orderly, InPlace, RefusedFor
<1>9. LetThrough(e, cfg, Identities)
  <2>1. ASSUME e.pos \in AuthnAt(e.q) + 1..HandlerAt(e.q)
        PROVE  Identities[e.q] # "reject" /\ e.subj = Identities[e.q]
    <3>1. CASE req[r].pos = AuthnAt(req[r].q)
      BY <1>5, <1>6, <3>1
    <3>2. CASE req[r].pos # AuthnAt(req[r].q)
      <4>1. req[r].pos \in AuthnAt(req[r].q) + 1..HandlerAt(req[r].q)
        BY <1>1, <1>4, <1>6, <2>1, <3>2, ChainNumbers
      <4>2. QED
        BY <1>1, <1>5, <1>6, <3>2, <4>1 DEF Orderly, LetThrough
    <3>3. QED
      BY <3>1, <3>2
  <2>2. ASSUME e.pos \in AuthnAt(e.q) + 2..HandlerAt(e.q), cfg.authz
        PROVE  \A p \in Needed(e.q) : <<e.subj, p>> \in Grants
    <3>1. req[r].pos # AuthnAt(req[r].q)
      BY <1>6, <2>2, ChainNumbers
    <3>2. CASE req[r].pos = AuthnAt(req[r].q) + 1
      BY <1>3, <1>5, <1>6, <2>2, <3>1, <3>2, StagePlaces
    <3>3. CASE req[r].pos # AuthnAt(req[r].q) + 1
      <4>1. req[r].pos \in AuthnAt(req[r].q) + 2..HandlerAt(req[r].q)
        BY <1>1, <1>4, <1>6, <2>2, <3>1, <3>3, ChainNumbers
      <4>2. QED
        BY <1>1, <1>5, <1>6, <2>2, <3>1, <4>1 DEF Orderly, LetThrough
    <3>4. QED
      BY <3>2, <3>3
  <2>3. QED
    BY <1>4, <1>6, <2>1, <2>2 DEF LetThrough
<1>10. QED
  BY <1>1, <1>2, <1>6, <1>7, <1>8, <1>9, SetOrderly DEF Orderly
LEMMA AnswerOrderly ==
    ASSUME OrderInv, NEW r \in Requests, Answer(r) \/ Handle(r)
    PROVE  /\ req' \in [Requests -> RequestState]
           /\ \A x \in Requests : Orderly(req'[x], cfg', Identities')
<1>1. req[r] \in RequestState /\ Orderly(req[r], cfg, Identities) /\ cfg' = cfg
  BY StagePlaces DEF Answer, Handle
<1>2. ASSUME NEW code \in Verdicts(r) \ {"next"}, Leave(r, code)
      PROVE  /\ req' \in [Requests -> RequestState]
             /\ \A x \in Requests : Orderly(req'[x], cfg', Identities')
  <2>1. code \in Codes \ {"pending"} /\ Stage(r) \notin {"none", "user", "handler"}
    BY <1>1, <1>2, VerdictsTyped, AuthVerdicts
  <2>2. req[r].pos # Done
    BY <2>1, StagePlaces
  <2>3. req[r].q.via = "grpc" => code \notin {"mediaType", "preflight"}
    BY <1>1, <1>2, AuthVerdicts, StagePlaces
  <2>4. /\ Stage(r) = "key" => code = "invalid"
        /\ Stage(r) = "authn" => code = "unauthorized" /\ Identities[req[r].q] = "reject"
    BY <1>1, <1>2, AuthVerdicts
  <2>5. Stage(r) = "authz" /\ code # "unavailable" =>
          cfg.authz /\ \E p \in Needed(req[r].q) : <<Identities[req[r].q], p>> \notin Grants
    <3>1. Stage(r) = "authz" => req[r].subj = Identities[req[r].q]
      <4>1. Stage(r) = "authz" => req[r].pos \in AuthnAt(req[r].q) + 1..HandlerAt(req[r].q)
        BY StagePlaces, ChainNumbers
      <4>2. QED
        BY <1>1, <4>1 DEF Orderly, LetThrough
    <3>2. QED
      BY <1>1, <1>2, <3>1, AuthVerdicts
  <2>6. QED
    BY <1>1, <1>2, <2>1, <2>2, <2>3, <2>4, <2>5, StageNames, LeaveOrderly
<1>3. CASE Handle(r)
  <2>1. PICK code \in ServiceCodes(req[r].q.op, req[r].subj, req[r].cut) : Leave(r, code)
    BY <1>3 DEF Handle
  <2>2. code \in Codes \ {"pending", "mediaType", "preflight"}
    BY <1>1, <2>1, CodesServed DEF RequestState
  <2>3. Stage(r) = "handler" /\ req[r].pos # Done
    BY <1>3, StagePlaces, ChainNumbers DEF Handle
  <2>4. QED
    BY <1>1, <2>1, <2>2, <2>3, LeaveOrderly
<1>4. QED
  BY <1>2, <1>3 DEF Answer

LEMMA PanicOrderly ==
    ASSUME OrderInv, NEW r \in Requests, Panic(r)
    PROVE  /\ req' \in [Requests -> RequestState]
           /\ \A x \in Requests : Orderly(req'[x], cfg', Identities')
<1> DEFINE e == Ended(req[r], "internal", "recovery")
<1>1. /\ req[r] \in RequestState /\ Orderly(req[r], cfg, Identities) /\ cfg' = cfg
      /\ req[r].pos = HandlerAt(req[r].q) /\ req[r].ran /\ Set(r, e)
  BY StagePlaces DEF Panic, Ended
<1>2. "internal" \in Codes /\ "recovery" \in Answerers
  BY DEF Codes, AppCodes, Answerers
<1>3. /\ e \in RequestState /\ e.q = req[r].q /\ e.pos = Done /\ e.code = "internal"
      /\ e.by = "recovery"
      /\ e.answers = 1 /\ e.ran = req[r].ran /\ e.subj = req[r].subj
  <2>1. req[r] \in RequestState
    BY <1>1
  <2>2. PICK code \in Codes, by \in Answerers : code = "internal" /\ by = "recovery"
    BY <1>2
  <2>3. e = Ended(req[r], code, by)
    BY <2>2
  <2> HIDE DEF e
  <2>4. QED
    BY <2>1, <2>2, <2>3, EndedTyped
<1> HIDE DEF e
<1>4. InPlace(e) /\ RefusedFor(e, cfg, Identities)
  BY <1>3 DEF InPlace, RefusedFor
<1>5. LetThrough(e, cfg, Identities)
  BY <1>1, <1>3 DEF Orderly, LetThrough
<1>6. QED
  BY <1>1, <1>3, <1>4, <1>5, SetOrderly DEF Orderly

LEMMA LimitOrderly ==
    ASSUME OrderInv, NEW r \in Requests, LimitUser(r)
    PROVE  /\ req' \in [Requests -> RequestState]
           /\ \A x \in Requests : Orderly(req'[x], cfg', Identities')
<1> DEFINE e == [req[r] EXCEPT !.pos = @ + 1]
<1>1. /\ req[r] \in RequestState /\ Orderly(req[r], cfg, Identities) /\ cfg' = cfg
      /\ req[r].q.via = "http" /\ req[r].pos = 8 /\ ~req[r].ran /\ req[r].code = "pending"
      /\ Stage(r) = "user"
  <2>1. Stage(r) = "user" /\ cfg' = cfg
    BY DEF LimitUser
  <2>2. QED
    BY <2>1, StagePlaces, ChainNumbers DEF Orderly, InPlace
<1>2. Set(r, e) \/ Leave(r, "unavailable") \/ Leave(r, "tooMany")
  BY DEF LimitUser
<1>3. CASE Set(r, e)
  <2>1. /\ e \in RequestState /\ e.q = req[r].q /\ e.pos = 9 /\ e.code = req[r].code
        /\ e.ran = req[r].ran /\ e.subj = req[r].subj /\ e.by = req[r].by
    BY <1>1 DEF RequestState
  <2> HIDE DEF e
  <2>2. InPlace(e) /\ RefusedFor(e, cfg, Identities)
    BY <1>1, <2>1, ChainNumbers DEF Orderly, InPlace, RefusedFor
  <2>3. LetThrough(e, cfg, Identities)
    <3>1. 8 \in AuthnAt(e.q) + 1..HandlerAt(e.q) /\ 8 \in AuthnAt(e.q) + 2..HandlerAt(e.q)
      BY <1>1, <2>1, ChainNumbers
    <3>2. QED
      BY <1>1, <2>1, <3>1 DEF Orderly, LetThrough
  <2>4. QED
    BY <1>1, <1>3, <2>1, <2>2, <2>3, SetOrderly DEF Orderly
<1>4. CASE Leave(r, "unavailable") \/ Leave(r, "tooMany")
  <2>1. {"unavailable", "tooMany"} \subseteq Codes \ {"pending"}
    BY DEF Codes, AppCodes
  <2>2. QED
    BY <1>1, <1>4, <2>1, ChainNumbers, LeaveOrderly
<1>5. QED
  BY <1>2, <1>3, <1>4
-----------------------------------------------------------------------------
(* Whether a request with progress e is under way to a handler for s, and  *)
(* which of the requests in f are.                                         *)
OnItsWay(e, s) == e.q.via = "http" /\ e.subj = s /\ ~e.ran /\ e.pos \in {9, 10}
Way(f, s) == {r \in Requests : OnItsWay(f[r], s)}

LEMMA UnderwayIsWay == OrderInv => \A s : Underway(s) = Way(req, s)
<1> SUFFICES ASSUME OrderInv, NEW s PROVE Underway(s) = Way(req, s)
  OBVIOUS
<1>1. ASSUME NEW r \in Requests
      PROVE  req[r].q.via = "http" =>
                (Stage(r) \in {"idempotency", "handler"} <=> req[r].pos \in {9, 10})
  BY StagePlaces, ChainNumbers
<1>2. QED
  BY <1>1 DEF Underway, Way, OnItsWay

LEMMA WaysCounted ==
    ASSUME NEW f, NEW s
    PROVE  /\ IsFiniteSet(Way(f, s)) /\ Cardinality(Way(f, s)) \in Nat
           /\ Cardinality(Way(f, s)) <= Cardinality(Requests) /\ Cardinality(Requests) \in Nat
<1>1. Way(f, s) \subseteq Requests
  BY DEF Way
<1>2. QED
  BY <1>1, AdmissionAssumption, FS_Subset, FS_CardinalityType

(* How the number of requests under way changes when r makes a step.       *)
LEMMA WayStep ==
    ASSUME NEW f, NEW g, NEW r \in Requests, NEW s, \A x \in Requests \ {r} : g[x] = f[x]
    PROVE  /\ (OnItsWay(g[r], s) <=> OnItsWay(f[r], s)) =>
                  Cardinality(Way(g, s)) = Cardinality(Way(f, s))
           /\ OnItsWay(g[r], s) /\ ~OnItsWay(f[r], s) =>
                  Cardinality(Way(g, s)) = Cardinality(Way(f, s)) + 1
           /\ ~OnItsWay(g[r], s) /\ OnItsWay(f[r], s) =>
                  Cardinality(Way(g, s)) = Cardinality(Way(f, s)) - 1
<1>1. ASSUME OnItsWay(g[r], s) <=> OnItsWay(f[r], s)
      PROVE  Way(g, s) = Way(f, s)
  BY <1>1 DEF Way
<1>2. ASSUME OnItsWay(g[r], s), ~OnItsWay(f[r], s)
      PROVE  Cardinality(Way(g, s)) = Cardinality(Way(f, s)) + 1
  <2>1. Way(g, s) = Way(f, s) \cup {r} /\ r \notin Way(f, s)
    BY <1>2 DEF Way
  <2>2. QED
    BY <2>1, WaysCounted, FS_AddElement
<1>3. ASSUME ~OnItsWay(g[r], s), OnItsWay(f[r], s)
      PROVE  Cardinality(Way(g, s)) = Cardinality(Way(f, s)) - 1
  <2>1. Way(g, s) = Way(f, s) \ {r} /\ r \in Way(f, s)
    BY <1>3 DEF Way
  <2>2. QED
    BY <2>1, WaysCounted, FS_RemoveElement
<1>4. QED
  BY <1>1, <1>2, <1>3

(* The same for a step of the model.                                       *)
LEMMA RequestStep ==
    ASSUME NEW r \in Requests, NEW s, \A x \in Requests \ {r} : req'[x] = req[x]
    PROVE  /\ (OnItsWay(req'[r], s) <=> OnItsWay(req[r], s)) =>
                  Cardinality(Way(req', s)) = Cardinality(Way(req, s))
           /\ OnItsWay(req'[r], s) /\ ~OnItsWay(req[r], s) =>
                  Cardinality(Way(req', s)) = Cardinality(Way(req, s)) + 1
           /\ ~OnItsWay(req'[r], s) /\ OnItsWay(req[r], s) =>
                  Cardinality(Way(req', s)) = Cardinality(Way(req, s)) - 1
<1>1. (OnItsWay(req'[r], s) <=> OnItsWay(req[r], s)) =>
         Cardinality(Way(req', s)) = Cardinality(Way(req, s))
  BY DEF Way
<1>2. OnItsWay(req'[r], s) /\ ~OnItsWay(req[r], s) =>
         Cardinality(Way(req', s)) = Cardinality(Way(req, s)) + 1
  BY WayStep
<1>3. ~OnItsWay(req'[r], s) /\ OnItsWay(req[r], s) =>
         Cardinality(Way(req', s)) = Cardinality(Way(req, s)) - 1
  BY WayStep
<1>4. QED
  BY <1>1, <1>2, <1>3

(* WithinBudget in terms of the state: tokens b, requests f, runs u.       *)
Budgeted(c, b, f, u) ==
    c.limit /\ ~c.failOpen =>
        \A s \in Users \cup {Psk} : b[s] + Cardinality(Way(f, s)) + u[s] <= Burst

LEMMA BudgetForm == OrderInv => (WithinBudget <=> Budgeted(cfg, bucket, req, used))
BY UnderwayIsWay DEF WithinBudget, Budgeted

(* Numbers of the state, as integers.                                      *)
LEMMA Numbers ==
    ASSUME OrderInv, NEW s \in Subjects
    PROVE  /\ bucket[s] \in 0..Burst /\ used[s] \in -Cardinality(Requests)..Burst + 1
           /\ Cardinality(Way(req, s)) \in 0..Cardinality(Requests)
           /\ Cardinality(Requests) \in Nat /\ Burst \in Nat
BY WaysCounted, AdmissionAssumption DEF OrderInv, AdmissionTypeOK

(* A step of r takes no more requests to their way than were there.        *)
LEMMA QuietBudget ==
    ASSUME OrderInv, Budgeted(cfg, bucket, req, used), NEW r \in Requests,
           \A x \in Requests \ {r} : req'[x] = req[x], cfg' = cfg,
           UNCHANGED <<bucket, used>>,
           cfg.limit /\ ~cfg.failOpen =>
              \A s \in Users \cup {Psk} : OnItsWay(req'[r], s) => OnItsWay(req[r], s)
    PROVE  Budgeted(cfg', bucket', req', used')
<1> SUFFICES ASSUME cfg.limit /\ ~cfg.failOpen, NEW s \in Users \cup {Psk}
             PROVE  bucket'[s] + Cardinality(Way(req', s)) + used'[s] <= Burst
  BY DEF Budgeted
<1>1. bucket[s] + Cardinality(Way(req, s)) + used[s] <= Burst
  BY DEF Budgeted
<1>2. \/ Cardinality(Way(req', s)) = Cardinality(Way(req, s))
      \/ Cardinality(Way(req', s)) = Cardinality(Way(req, s)) - 1
  <2>1. \/ OnItsWay(req'[r], s) <=> OnItsWay(req[r], s)
        \/ ~OnItsWay(req'[r], s) /\ OnItsWay(req[r], s)
    BY Zenon
  <2>2. /\ (OnItsWay(req'[r], s) <=> OnItsWay(req[r], s)) =>
               Cardinality(Way(req', s)) = Cardinality(Way(req, s))
        /\ ~OnItsWay(req'[r], s) /\ OnItsWay(req[r], s) =>
               Cardinality(Way(req', s)) = Cardinality(Way(req, s)) - 1
    BY WayStep, SMT
  <2>3. QED
    BY <2>1, <2>2, Zenon
<1>3. s \in Subjects
  BY DEF Subjects
<1>4. QED
  BY <1>1, <1>2, <1>3, Numbers

(* Requests before the limiter and after the end are on no way.            *)
LEMMA MovesBudget ==
    ASSUME OrderInv, Budgeted(cfg, bucket, req, used), NEW r \in Requests,
           \/ \E q \in Queries : Arrive(r, q)
           \/ Deadline(r) \/ Pass(r) \/ Answer(r) \/ Interrupt(r) \/ Handle(r) \/ Panic(r)
    PROVE  Budgeted(cfg', bucket', req', used')
<1>1. req[r] \in RequestState /\ Orderly(req[r], cfg, Identities) /\ UNCHANGED <<cfg, bucket, used>>
  BY StagePlaces DEF Arrive, Deadline, Pass, Answer, Interrupt, Handle, Panic
<1>2. ASSUME NEW e, Set(r, e), \A s \in Users \cup {Psk} : OnItsWay(e, s) => OnItsWay(req[r], s)
      PROVE  Budgeted(cfg', bucket', req', used')
  <2>1. req'[r] = e /\ \A x \in Requests \ {r} : req'[x] = req[x]
    BY <1>2 DEF Set, OrderInv, AdmissionTypeOK
  <2>2. QED
    BY <1>1, <1>2, <2>1, QuietBudget
<1>3. ASSUME NEW e, Set(r, e), e.pos \in {1, Done}
      PROVE  Budgeted(cfg', bucket', req', used')
  BY <1>2, <1>3 DEF OnItsWay, Done
<1>4. ASSUME NEW q \in Queries, Arrive(r, q) PROVE Budgeted(cfg', bucket', req', used')
  BY <1>3, <1>4, BegunTyped DEF Arrive
<1>5. CASE Deadline(r)
  <2> DEFINE e == [req[r] EXCEPT !.late = TRUE]
  <2>1. e.q = req[r].q /\ e.subj = req[r].subj /\ e.ran = req[r].ran /\ e.pos = req[r].pos
    BY <1>1 DEF RequestState
  <2> HIDE DEF e
  <2>2. \A s : OnItsWay(e, s) => OnItsWay(req[r], s)
    BY <2>1 DEF OnItsWay
  <2>3. QED
    BY <1>2, <1>5, <2>2 DEF Deadline, e
<1>6. CASE Interrupt(r)
  <2> DEFINE e == [req[r] EXCEPT !.cut = TRUE]
  <2>1. e.q = req[r].q /\ e.subj = req[r].subj /\ e.ran = req[r].ran /\ e.pos = req[r].pos
    BY <1>1 DEF RequestState
  <2> HIDE DEF e
  <2>2. \A s : OnItsWay(e, s) => OnItsWay(req[r], s)
    BY <2>1 DEF OnItsWay
  <2>3. QED
    BY <1>2, <1>6, <2>2 DEF Interrupt, e
<1>7. CASE Pass(r)
  <2> DEFINE who == IF Stage(r) = "authn" THEN Identity(req[r].q) ELSE req[r].subj
             e == [req[r] EXCEPT !.pos = @ + 1, !.subj = who]
  <2>1. Set(r, e)
    BY <1>7 DEF Pass
  <2>2. Stage(r) \notin {"none", "user", "handler"}
    BY <1>1, <1>7, AuthVerdicts DEF Pass
  <2>3. Stage(r) = "idempotency" => who = req[r].subj
    OBVIOUS
  <2> HIDE DEF who
  <2>4. e.q = req[r].q /\ e.subj = who /\ e.ran = req[r].ran /\ e.pos = req[r].pos + 1
    BY <1>1 DEF RequestState
  <2> HIDE DEF e
  <2>5. req[r].pos \in 0..11
    BY <1>1 DEF RequestState
  <2>6. e.q.via = "http" /\ e.pos \in {9, 10} => req[r].pos = 9
    BY <2>2, <2>4, <2>5, StagePlaces, ChainNumbers
  <2>7. \A s : OnItsWay(e, s) => OnItsWay(req[r], s)
    BY <2>3, <2>4, <2>6, StagePlaces DEF OnItsWay
  <2>8. QED
    BY <1>2, <2>1, <2>7
<1>8. ASSUME NEW code \in Codes, Leave(r, code) PROVE Budgeted(cfg', bucket', req', used')
  <2>1. Set(r, Ended(req[r], code, Stage(r)))
    BY <1>8, LeaveAnswers
  <2>2. QED
    BY <1>1, <1>3, <2>1, StageTyped, EndedTyped
<1>9. CASE Answer(r)
  BY <1>8, <1>9, VerdictsTyped DEF Answer
<1>10. CASE Handle(r)
  <2>1. ServiceCodes(req[r].q.op, req[r].subj, req[r].cut) \subseteq Codes
    BY <1>1, CodesServed DEF RequestState
  <2>2. QED
    BY <1>8, <1>10, <2>1 DEF Handle
<1>11. CASE Panic(r)
  <2>1. "internal" \in Codes /\ "recovery" \in Answerers
    BY DEF Codes, AppCodes, Answerers
  <2>2. Set(r, Ended(req[r], "internal", "recovery"))
    BY <1>11 DEF Panic, Ended
  <2>3. QED
    BY <1>1, <1>3, <2>1, <2>2, EndedTyped
<1>12. QED
  BY <1>4, <1>5, <1>6, <1>7, <1>9, <1>10, <1>11
(* A token is taken for each request the limiter lets on its way.          *)
LEMMA LimitBudget ==
    ASSUME OrderInv, Budgeted(cfg, bucket, req, used), NEW r \in Requests, LimitUser(r)
    PROVE  bucket' \in [Subjects -> 0..Burst] /\ Budgeted(cfg', bucket', req', used')
<1> DEFINE s == req[r].subj
           e == [req[r] EXCEPT !.pos = @ + 1]
<1>1. /\ req[r] \in RequestState /\ s \in Subjects /\ cfg' = cfg /\ used' = used
      /\ req[r].q.via = "http" /\ req[r].pos = 8 /\ bucket \in [Subjects -> 0..Burst]
  <2>1. Stage(r) = "user" /\ cfg' = cfg /\ used' = used
    BY DEF LimitUser
  <2>2. QED
    BY <2>1, StagePlaces DEF RequestState, OrderInv, AdmissionTypeOK
<1>2. \A x : ~OnItsWay(req[r], x)
  BY <1>1 DEF OnItsWay
<1>3. ASSUME NEW f, Set(r, f)
      PROVE  req'[r] = f /\ \A x \in Requests \ {r} : req'[x] = req[x]
  BY <1>3 DEF Set, OrderInv, AdmissionTypeOK
<1>4. e.q = req[r].q /\ e.subj = s /\ e.ran = req[r].ran /\ e.pos = 9
  BY <1>1 DEF RequestState
<1>5. ASSUME ~cfg.limit \/ s = Nobody \/ cfg.failOpen, Set(r, e), UNCHANGED bucket
      PROVE  bucket' \in [Subjects -> 0..Burst] /\ Budgeted(cfg', bucket', req', used')
  <2>1. cfg.limit /\ ~cfg.failOpen => \A x \in Users \cup {Psk} : ~OnItsWay(e, x)
    BY <1>4, <1>5, AdmissionAssumption DEF OnItsWay
  <2> HIDE DEF e
  <2>2. QED
    BY <1>1, <1>3, <1>5, <2>1, QuietBudget
<1>6. ASSUME NEW code \in Codes, Leave(r, code), UNCHANGED bucket
      PROVE  bucket' \in [Subjects -> 0..Burst] /\ Budgeted(cfg', bucket', req', used')
  <2> DEFINE f == Ended(req[r], code, Stage(r))
  <2>1. Set(r, f) /\ f.pos = Done
    BY <1>1, <1>6, LeaveAnswers, StageTyped, EndedTyped
  <2> HIDE DEF f
  <2>2. \A x : ~OnItsWay(f, x)
    BY <2>1 DEF OnItsWay, Done
  <2>3. QED
    BY <1>1, <1>3, <1>6, <2>1, <2>2, QuietBudget
<1>7. ASSUME cfg.limit, s # Nobody, bucket[s] > 0, Set(r, e),
             bucket' = [bucket EXCEPT ![s] = @ - 1]
      PROVE  bucket' \in [Subjects -> 0..Burst] /\ Budgeted(cfg', bucket', req', used')
  <2>1. bucket' \in [Subjects -> 0..Burst]
    BY <1>1, <1>7, AdmissionAssumption
  <2>2. ASSUME cfg.limit /\ ~cfg.failOpen, NEW x \in Users \cup {Psk}
        PROVE  bucket'[x] + Cardinality(Way(req', x)) + used'[x] <= Burst
    <3>1. bucket[x] + Cardinality(Way(req, x)) + used[x] <= Burst /\ x \in Subjects
      BY <2>2 DEF Budgeted, Subjects
    <3>2. OnItsWay(req'[r], x) <=> x = s /\ ~req[r].ran
      BY <1>1, <1>3, <1>4, <1>7 DEF OnItsWay
    <3>3. \A y \in Requests \ {r} : req'[y] = req[y]
      BY <1>3, <1>7
    <3>4. ~OnItsWay(req[r], x)
      BY <1>2, Zenon
    <3>5. /\ (OnItsWay(req'[r], x) <=> OnItsWay(req[r], x)) =>
                 Cardinality(Way(req', x)) = Cardinality(Way(req, x))
          /\ OnItsWay(req'[r], x) /\ ~OnItsWay(req[r], x) =>
                 Cardinality(Way(req', x)) = Cardinality(Way(req, x)) + 1
      BY <3>3, RequestStep
    <3>6. CASE x = s
      <4>1. bucket'[x] = bucket[x] - 1
        BY <1>1, <1>7, <3>1, <3>6
      <4>2. \/ Cardinality(Way(req', x)) = Cardinality(Way(req, x))
            \/ Cardinality(Way(req', x)) = Cardinality(Way(req, x)) + 1
        BY <3>4, <3>5, Zenon
      <4>3. QED
        BY <1>1, <3>1, <4>1, <4>2, Numbers
    <3>7. CASE x # s
      <4>1. bucket'[x] = bucket[x]
        BY <1>1, <1>7, <3>1, <3>7
      <4>2. Cardinality(Way(req', x)) = Cardinality(Way(req, x))
        BY <3>2, <3>7, <3>4, <3>5, Zenon
      <4>3. QED
        BY <1>1, <3>1, <4>1, <4>2
    <3>8. QED
      BY <3>6, <3>7
  <2>3. QED
    BY <1>1, <2>1, <2>2 DEF Budgeted
<1>8. "unavailable" \in Codes /\ "tooMany" \in Codes
  BY DEF Codes, AppCodes
<1> HIDE DEF e
<1>9. QED
  BY <1>5, <1>6, <1>7, <1>8 DEF LimitUser, e

(* A handler that runs was on its way: one goes over to the other count.   *)
LEMMA InvokeBudget ==
    ASSUME OrderInv, Budgeted(cfg, bucket, req, used), NEW r \in Requests, Invoke(r)
    PROVE  /\ used' \in [Subjects -> -Cardinality(Requests)..Burst + 1]
           /\ Budgeted(cfg', bucket', req', used')
<1> DEFINE s == req[r].subj
           e == [req[r] EXCEPT !.ran = TRUE]
           counts == /\ req[r].q.via = "http" /\ cfg.limit /\ ~cfg.failOpen
                     /\ s # Nobody /\ used[s] <= Burst
<1>1. /\ req[r] \in RequestState /\ s \in Subjects /\ cfg' = cfg /\ bucket' = bucket
      /\ req[r].pos = HandlerAt(req[r].q) /\ ~req[r].ran
      /\ used \in [Subjects -> -Cardinality(Requests)..Burst + 1]
  BY StagePlaces DEF Invoke, RequestState, OrderInv, AdmissionTypeOK
<1>2. used' = [used EXCEPT ![s] = IF counts THEN @ + 1 ELSE @]
  BY DEF Invoke
<1>3. Cardinality(Requests) \in Nat /\ Burst \in Nat
  BY AdmissionAssumption, FS_CardinalityType
<1>4. used' \in [Subjects -> -Cardinality(Requests)..Burst + 1]
  BY <1>1, <1>2, <1>3
<1>5. e.ran
  BY <1>1 DEF RequestState
<1>6. req'[r] = e /\ \A x \in Requests \ {r} : req'[x] = req[x]
  BY DEF Invoke, Set, OrderInv, AdmissionTypeOK
<1>7. ASSUME cfg.limit /\ ~cfg.failOpen, NEW x \in Users \cup {Psk}
      PROVE  bucket'[x] + Cardinality(Way(req', x)) + used'[x] <= Burst
  <2>1. bucket[x] + Cardinality(Way(req, x)) + used[x] <= Burst /\ x \in Subjects
    BY <1>7 DEF Budgeted, Subjects
  <2>2. ~OnItsWay(req'[r], x)
    BY <1>5, <1>6 DEF OnItsWay
  <2>3. OnItsWay(req[r], x) <=> req[r].q.via = "http" /\ x = s
    BY <1>1, ChainNumbers DEF OnItsWay
  <2>4. CASE req[r].q.via = "http" /\ x = s
    <3>1. Cardinality(Way(req', x)) = Cardinality(Way(req, x)) - 1
      BY <1>6, <2>2, <2>3, <2>4, WayStep, SMT
    <3>2. used'[x] \in {used[x], used[x] + 1}
      BY <1>1, <1>2, <2>1, <2>4
    <3>3. QED
      BY <1>1, <2>1, <3>1, <3>2, Numbers
  <2>5. CASE ~(req[r].q.via = "http" /\ x = s)
    <3>1. Cardinality(Way(req', x)) = Cardinality(Way(req, x))
      BY <1>6, <2>2, <2>3, <2>5, WayStep, SMT
    <3>2. used'[x] = used[x]
      BY <1>1, <1>2, <2>1, <2>5
    <3>3. QED
      BY <1>1, <2>1, <3>1, <3>2
  <2>6. QED
    BY <2>4, <2>5
<1>8. QED
  BY <1>1, <1>4, <1>7 DEF Budgeted

(* A refill pays for a run or a request under way, if there is one.        *)
LEMMA RefillBudget ==
    ASSUME OrderInv, Budgeted(cfg, bucket, req, used), NEW s \in Subjects, Refill(s)
    PROVE  /\ bucket' \in [Subjects -> 0..Burst]
           /\ used' \in [Subjects -> -Cardinality(Requests)..Burst + 1]
           /\ Budgeted(cfg', bucket', req', used')
<1>1. /\ bucket \in [Subjects -> 0..Burst] /\ cfg' = cfg /\ req' = req
      /\ used \in [Subjects -> -Cardinality(Requests)..Burst + 1]
  BY DEF Refill, OrderInv, AdmissionTypeOK
<1>2. /\ bucket[s] < Burst /\ bucket' = [bucket EXCEPT ![s] = @ + 1]
      /\ used' = [used EXCEPT ![s] = IF @ + Cardinality(Way(req, s)) > 0 THEN @ - 1 ELSE @]
  <2>1. Underway(s) = Way(req, s)
    BY UnderwayIsWay
  <2>2. /\ bucket[s] < Burst /\ bucket' = [bucket EXCEPT ![s] = @ + 1]
        /\ used' = [used EXCEPT ![s] = IF @ + Cardinality(Underway(s)) > 0 THEN @ - 1 ELSE @]
    BY DEF Refill
  <2>3. QED
    BY <2>1, <2>2
<1>3. /\ Cardinality(Way(req, s)) \in 0..Cardinality(Requests)
      /\ Cardinality(Requests) \in Nat /\ Burst \in Nat
  BY Numbers
<1>4. bucket' \in [Subjects -> 0..Burst] /\ used' \in [Subjects -> -Cardinality(Requests)..Burst + 1]
  BY <1>1, <1>2, <1>3
<1>5. ASSUME cfg.limit /\ ~cfg.failOpen, NEW x \in Users \cup {Psk}
      PROVE  bucket'[x] + Cardinality(Way(req', x)) + used'[x] <= Burst
  <2>1. bucket[x] + Cardinality(Way(req, x)) + used[x] <= Burst /\ x \in Subjects
    BY <1>5 DEF Budgeted, Subjects
  <2>2. CASE x = s
    BY <1>1, <1>2, <1>3, <2>1, <2>2
  <2>3. CASE x # s
    BY <1>1, <1>2, <2>1, <2>3
  <2>4. QED
    BY <2>2, <2>3
<1>6. QED
  BY <1>1, <1>4, <1>5 DEF Budgeted
-----------------------------------------------------------------------------
LEMMA AdmissionStep == AdmissionInv /\ [Next]_vars => AdmissionInv'
<1> SUFFICES ASSUME AdmissionInv, [Next]_vars PROVE AdmissionInv'
  OBVIOUS
<1>1. OrderInv /\ Budgeted(cfg, bucket, req, used) /\ AdmissionTypeOK
  BY BudgetForm DEF AdmissionInv, OrderInv
<1>2. (OrderInv => (WithinBudget <=> Budgeted(cfg, bucket, req, used)))'
  BY BudgetForm, PTL
<1>3. SUFFICES OrderInv' /\ Budgeted(cfg', bucket', req', used')
  BY <1>2 DEF AdmissionInv
<1>4. CASE UNCHANGED vars
  <2>1. AdmissionTypeOK'
    BY <1>1, <1>4 DEF vars, AdmissionTypeOK
  <2>2. \A r \in Requests : Orderly(req'[r], cfg', Identities')
    BY <1>1, <1>4, SameIdentities DEF vars, OrderInv
  <2>3. QED
    BY <1>1, <1>4, <2>1, <2>2 DEF vars, OrderInv
<1>5. ASSUME /\ req' \in [Requests -> RequestState]
             /\ \A x \in Requests : Orderly(req'[x], cfg', Identities'),
             cfg' = cfg, bucket' \in [Subjects -> 0..Burst],
             used' \in [Subjects -> -Cardinality(Requests)..Burst + 1]
      PROVE  OrderInv'
  BY <1>1, <1>5 DEF OrderInv, AdmissionTypeOK
<1>6. ASSUME NEW r \in Requests,
             \/ \E q \in Queries : Arrive(r, q)
             \/ Deadline(r) \/ Pass(r) \/ Answer(r) \/ Interrupt(r) \/ Handle(r) \/ Panic(r)
      PROVE  OrderInv' /\ Budgeted(cfg', bucket', req', used')
  <2>1. UNCHANGED <<cfg, bucket, used>>
    BY <1>6 DEF Arrive, Deadline, Pass, Answer, Interrupt, Handle, Panic
  <2>2. /\ req' \in [Requests -> RequestState]
        /\ \A x \in Requests : Orderly(req'[x], cfg', Identities')
    BY <1>1, <1>6, ArriveOrderly, FlagOrderly, PassOrderly, AnswerOrderly, PanicOrderly
  <2>3. OrderInv'
    BY <1>1, <1>5, <2>1, <2>2 DEF AdmissionTypeOK
  <2>4. QED
    BY <1>1, <1>6, <2>3, MovesBudget
<1>7. ASSUME NEW r \in Requests, LimitUser(r)
      PROVE  OrderInv' /\ Budgeted(cfg', bucket', req', used')
  <2>1. UNCHANGED <<cfg, used>>
    BY <1>7 DEF LimitUser
  <2>2. QED
    BY <1>1, <1>5, <1>7, <2>1, LimitOrderly, LimitBudget DEF AdmissionTypeOK
<1>8. ASSUME NEW r \in Requests, Invoke(r)
      PROVE  OrderInv' /\ Budgeted(cfg', bucket', req', used')
  <2>1. UNCHANGED <<cfg, bucket>>
    BY <1>8 DEF Invoke
  <2>2. QED
    BY <1>1, <1>5, <1>8, <2>1, FlagOrderly, InvokeBudget DEF AdmissionTypeOK
<1>9. ASSUME NEW s \in Subjects, Refill(s)
      PROVE  OrderInv' /\ Budgeted(cfg', bucket', req', used')
  <2>1. UNCHANGED <<cfg, req>>
    BY <1>9 DEF Refill
  <2>2. \A r \in Requests : Orderly(req'[r], cfg', Identities')
    BY <1>1, <2>1, SameIdentities DEF OrderInv
  <2>3. QED
    BY <1>1, <1>5, <1>9, <2>1, <2>2, RefillBudget DEF AdmissionTypeOK
<1>10. QED
  BY <1>4, <1>6, <1>7, <1>8, <1>9 DEF Next

(* The types hold, for any number of requests and users.                   *)
THEOREM AdmissionTyped == Spec => []AdmissionTypeOK
<1>1. AdmissionInv => AdmissionTypeOK
  BY DEF AdmissionInv, OrderInv
<1>2. QED
  BY <1>1, AdmissionInit, AdmissionStep, PTL DEF Spec

(* Every request is answered once: by the stage that refuses it, by its    *)
(* handler, by Timeout or by Recovery (middleware.go, server.go).          *)
THEOREM AnswersOnce == Spec => []OneAnswer
<1>1. AdmissionInv => OneAnswer
  BY DEF AdmissionInv, OrderInv, Orderly, InPlace, OneAnswer
<1>2. QED
  BY <1>1, AdmissionInit, AdmissionStep, PTL DEF Spec

(* No handler runs for a caller without the permission, whatever the       *)
(* configuration exempts and whichever transport it came by (auth, authz). *)
THEOREM HandlersEntitled == Spec => []HandlerIsEntitled
<1>1. AdmissionInv => HandlerIsEntitled
  <2> SUFFICES ASSUME AdmissionInv, NEW r \in Requests, req[r].ran
               PROVE  LET q == req[r].q  s == req[r].subj
                      IN  /\ cfg.authz =>
                               \A p \in ruleHTTPRequirement(q.op) \cup ruleGRPCRequirement(q.op) :
                                  <<s, p>> \in Grants
                          /\ s = q.cred \/ (s = Nobody /\ q.op \in cfg.skipPaths \cup cfg.skipMethods)
                          /\ cfg.psk /\ q.op \in cfg.pskPaths \cap cfg.pskMethods => s = Psk
    BY DEF HandlerIsEntitled
  <2> DEFINE q == req[r].q  s == req[r].subj
  <2>1. q \in Queries /\ Orderly(req[r], cfg, Identities)
    BY DEF AdmissionInv, OrderInv, AdmissionTypeOK, RequestState
  <2>2. s = Identity(q) /\ s # "reject"
    BY <2>1, IdentityTyped DEF Orderly, LetThrough
  <2>3. cfg.authz => \A p \in Needed(q) : <<s, p>> \in Grants
    BY <2>1 DEF Orderly, LetThrough
  <2>4. ruleHTTPRequirement(q.op) = ruleGRPCRequirement(q.op)
    BY DEF ruleHTTPRequirement, ruleGRPCRequirement
  <2>5. cfg.authz =>
          \A p \in ruleHTTPRequirement(q.op) \cup ruleGRPCRequirement(q.op) : <<s, p>> \in Grants
    BY <2>3, <2>4 DEF Needed
  <2>6. /\ s = q.cred \/ (s = Nobody /\ q.op \in cfg.skipPaths \cup cfg.skipMethods)
        /\ cfg.psk /\ q.op \in cfg.pskPaths \cap cfg.pskMethods => s = Psk
    BY <2>2 DEF Identity, Authentication, authenticateGRPC
  <2>7. QED
    BY <2>5, <2>6
<1>2. QED
  BY <1>1, AdmissionInit, AdmissionStep, PTL DEF Spec

(* The two chains refuse the same callers and answer with codes that mean  *)
(* the same (middleware.go and server.go, written separately).             *)
THEOREM DoorsAgree == Spec => []TransportsAgree
<1>1. AdmissionInv => RefusedAlike
  <2> SUFFICES ASSUME AdmissionInv, cfg.pskPaths = cfg.pskMethods, cfg.skipPaths = cfg.skipMethods,
                      NEW r \in Requests, NEW s \in Requests,
                      req[r].q.op = req[s].q.op, req[r].q.cred = req[s].q.cred,
                      req[r].by \in {"authn", "authz"}, req[r].code # "unavailable",
                      req[s].ran
               PROVE  FALSE
    BY DEF RefusedAlike
  <2>1. /\ req[r].q \in Queries /\ Orderly(req[r], cfg, Identities)
        /\ req[s].q \in Queries /\ Orderly(req[s], cfg, Identities)
    BY DEF AdmissionInv, OrderInv, AdmissionTypeOK, RequestState
  <2>2. Identity(req[r].q) = Identity(req[s].q)
    BY DEF Identity, Authentication, authenticateGRPC
  <2>3. Needed(req[r].q) = Needed(req[s].q)
    BY DEF Needed, ruleHTTPRequirement, ruleGRPCRequirement
  <2>4. Identities[req[r].q] = Identities[req[s].q]
    BY <2>1, <2>2, IdentityTyped
  <2>5. /\ Identities[req[s].q] # "reject" /\ req[s].subj = Identities[req[s].q]
        /\ cfg.authz => \A p \in Needed(req[s].q) : <<req[s].subj, p>> \in Grants
    BY <2>1 DEF Orderly, LetThrough
  <2>6. QED
    BY <2>1, <2>3, <2>4, <2>5 DEF Orderly, RefusedFor
<1>2. AdmissionInv => AnswersCorrespond
  <2> SUFFICES ASSUME AdmissionInv, NEW r \in Requests, NEW s \in Requests,
                      req[s].pos = Done, req[s].q.via = "grpc", req[r].code = req[s].code,
                      req[s].by \in {"key", "authn", "handler", "recovery"}
               PROVE  <<HTTPStatus(req[r].code), GRPCStatus(req[s])>> \in SameMeaning
    BY DEF AnswersCorrespond
  <2> DEFINE c == req[s].code
  <2>1. c \in Codes \ {"pending", "mediaType", "preflight"}
    BY DEF AdmissionInv, OrderInv, AdmissionTypeOK, RequestState, Orderly, InPlace
  <2>2. GRPCStatus(req[s]) = ruleError(c)
    <3>1. /\ req[s].by = "key" => c = "invalid"
          /\ req[s].by = "authn" => c = "unauthorized"
          /\ req[s].by = "recovery" => c = "internal"
      BY DEF AdmissionInv, OrderInv, Orderly, RefusedFor
    <3>2. /\ ruleError("invalid") = "InvalidArgument"
          /\ ruleError("unauthorized") = "Unauthenticated"
          /\ ruleError("internal") = "Internal"
      BY DEF ruleError
    <3>3. /\ req[s].by = "key" => GRPCStatus(req[s]) = "InvalidArgument"
          /\ req[s].by = "authn" => GRPCStatus(req[s]) = "Unauthenticated"
          /\ req[s].by = "recovery" => GRPCStatus(req[s]) = "Internal"
          /\ req[s].by = "handler" => GRPCStatus(req[s]) = ruleError(c)
      BY DEF GRPCStatus
    <3> HIDE DEF c
    <3>4. QED
      BY <3>1, <3>2, <3>3
  <2> HIDE DEF c
  <2>3. <<HTTPStatus(c), ruleError(c)>> \in SameMeaning
    BY <2>1 DEF HTTPStatus, ruleError, SameMeaning, Codes, AppCodes
  <2>4. QED
    BY <2>2, <2>3 DEF c
<1>3. AdmissionInv => TransportsAgree
  BY <1>1, <1>2 DEF TransportsAgree
<1>4. QED
  BY <1>3, AdmissionInit, AdmissionStep, PTL DEF Spec

(* The limiter's promise to every user, for any bucket and any number of   *)
(* requests that pass it at the same time (RateLimitUser).                 *)
THEOREM BurstHolds == Spec => []UserBurstBound
<1>1. AdmissionInv => UserBurstBound
  <2> SUFFICES ASSUME AdmissionInv, cfg.limit, ~cfg.failOpen, NEW s \in Users \cup {Psk}
               PROVE  used[s] <= Burst
    BY DEF UserBurstBound
  <2>1. OrderInv /\ Budgeted(cfg, bucket, req, used) /\ s \in Subjects
    BY BudgetForm DEF AdmissionInv, Subjects
  <2>2. bucket[s] + Cardinality(Way(req, s)) + used[s] <= Burst
    BY <2>1 DEF Budgeted
  <2>3. QED
    BY <2>1, <2>2, Numbers
<1>2. QED
  BY <1>1, AdmissionInit, AdmissionStep, PTL DEF Spec
=============================================================================
