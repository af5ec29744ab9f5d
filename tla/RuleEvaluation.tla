-------------------------- MODULE RuleEvaluation --------------------------
(***************************************************************************)
(* The read path: Evaluate and GetRuleSet read the rule set in one         *)
(* statement and the version it points at in another, without a            *)
(* transaction, while the catalogue changes; Evaluate then takes the       *)
(* compiled definition from the cache of its replica or compiles it.  The  *)
(* catalogue is the atomic one of RuleCatalog, which RuleTransactions      *)
(* implements; its writes also feed the cache of the replica they ran on,  *)
(* in a step of its own after the commit.                                  *)
(***************************************************************************)
EXTENDS RuleCatalog

CONSTANTS
    Replicas,   \* processes of the service
    Readers,    \* goroutines that serve reads
    Queries,    \* the reads clients make
    MaxStoring  \* bound: Store calls of a replica that wait to run

VARIABLES
    compiled,   \* sync.Map of each replica: checksum -> text it was made of
    storing,    \* Store calls that follow a commit and have not run yet
    eval        \* the read each reader serves

readVars == <<compiled, storing, eval>>
allVars == <<sets, versions, events, compiled, storing, eval>>

(* A read: Evaluate names a version number, or 0 for the published one;    *)
(* the rule set is named by its identifier or, when that is blank, by its  *)
(* code.                                                                   *)
Query ==
    [kind : {"evaluate", "getRuleSet"}, actor : Actors, scope : Scopes,
     set : SetIds \cup {Blank}, code : Codes \cup {Blank}, number : Nat]

ASSUME QueryAssumption == Queries \subseteq Query /\ MaxStoring \in Nat

ReadPCs == {"idle", "readSet", "readVersion", "load", "store", "run"}

ReadCodes == {"ok", "forbidden", "unavailable", "notFound", "conflict",
              "invalid", "internal"}

(* None is neither a program nor an answer.                                *)
ASSUME ReadAssumption == None \notin Texts \cup ReadCodes

(* since is a history variable: the rule set as it was when the read began.*)
Read ==
    [pc : ReadPCs, at : Replicas \cup {None}, query : Queries \cup {None},
     since : RuleSet \cup {None}, id : SetIds \cup {None},
     set : RuleSet \cup {None}, ver : RuleVersion \cup {None},
     program : Texts \cup {None},
     out : ReadCodes \cup {None}]

NoRead ==
    [pc |-> "idle", at |-> None, query |-> None, since |-> None,
     id |-> None, set |-> None, ver |-> None, program |-> None, out |-> None]

EmptyCache == [k \in Texts |-> None]

EvalInit ==
    /\ Init
    /\ compiled = [p \in Replicas |-> EmptyCache]
    /\ storing = [p \in Replicas |-> {}]
    /\ eval = [r \in Readers |-> NoRead]
-----------------------------------------------------------------------------
(* Writes on a replica *)

EditAt(p, c) ==
    /\ CreateRuleSet(c) \/ UpdateRuleSet(c)
    /\ UNCHANGED readVars

(* The Store that follows a commit whose answer arrived.                   *)
WillStore(p, sum, text) ==
    /\ Cardinality(storing[p]) < MaxStoring
    /\ storing' = [storing EXCEPT ![p] = @ \cup {[sum |-> sum, text |-> text]}]

(* Faulty: the definition is stored even if the transaction failed.        *)
DraftAtAlways(p, c) ==
    /\ CreateRuleVersion(c) \/ UNCHANGED vars
    /\ c.op = "createRuleVersion" /\ Admissible(c)
    /\ WillStore(p, Checksum(c.text), c.text)
    /\ UNCHANGED <<compiled, eval>>

DraftAt(p, c) ==
    /\ CreateRuleVersion(c)
    /\ WillStore(p, Checksum(c.text), c.text) \/ UNCHANGED storing
    /\ UNCHANGED <<compiled, eval>>

(* A repeated idempotency key: nothing is written, but the definition of   *)
(* the request is stored under the checksum of the existing version.       *)
RedraftAt(p, c) ==
    /\ c.op = "createRuleVersion" /\ Admissible(c)
    /\ HasSet(sets, c.scope, c.set)
    /\ \E v \in WithKey(versions, c.scope, c.set, c.key) :
          /\ versions[v].sum = Checksum(c.text)
          /\ WillStore(p, versions[v].sum, c.text)
    /\ UNCHANGED <<sets, versions, events, compiled, eval>>

PublishAt(p, c) ==
    /\ PublishRuleVersion(c)
    /\ \/ WillStore(p, versions[c.ver].sum, versions[c.ver].def)
       \/ UNCHANGED storing
    /\ UNCHANGED <<compiled, eval>>

StoreCompiled(p) ==
    /\ \E e \in storing[p] :
          /\ compiled' = [compiled EXCEPT ![p][e.sum] = e.text]
          /\ storing' = [storing EXCEPT ![p] = @ \ {e}]
    /\ UNCHANGED <<sets, versions, events, eval>>
-----------------------------------------------------------------------------
(* Reads *)

Proceed(r, e) ==
    /\ eval' = [eval EXCEPT ![r] = e]
    /\ UNCHANGED <<sets, versions, events, storing>>

(* The answer leaves the replica with what e has read.                     *)
Reply(r, e, code) ==
    Proceed(r, [e EXCEPT !.pc = "idle", !.at = None, !.program = None,
                         !.out = code])

Finish(r, code) == Reply(r, eval[r], code)

(* Faulty: the query by identifier does not restrict the tenant.           *)
MatchingAnyTenant(q) ==
    {s \in Stored(sets) :
        IF q.set = Blank
        THEN sets[s].scope = q.scope /\ sets[s].code = q.code
        ELSE s = q.set}

Matching(q) ==
    {s \in Stored(sets) :
        /\ sets[s].scope = q.scope
        /\ IF q.set = Blank THEN sets[s].code = q.code ELSE s = q.set}

(* authorize, then the application service, which may refuse or be down.   *)
BeginRead(r, p, q) ==
    /\ eval[r].pc = "idle"
    /\ \/ /\ Authorized(q.actor, q.scope.tenant)
          /\ \E row \in {sets[s] : s \in Matching(q)} \cup {None} :
                /\ row = None <=> Matching(q) = {}
                /\ Proceed(r, [NoRead EXCEPT !.pc = "readSet", !.at = p,
                                 !.query = q, !.since = row])
       \/ \E code \in {"forbidden", "unavailable"} :
             /\ Authorized(q.actor, q.scope.tenant) \/ code = "forbidden"
             /\ Proceed(r, [NoRead EXCEPT !.out = code])
    /\ UNCHANGED compiled

(* The first statement.  Evaluate requires an active rule set; GetRuleSet  *)
(* is done when nothing is published.                                      *)
ReadRuleSet(r) ==
    LET e == eval[r]  q == e.query
    IN  /\ e.pc = "readSet"
        /\ \/ Matching(q) = {} /\ Finish(r, "notFound")
           \/ \E s \in Matching(q) :
                 \/ /\ q.kind = "evaluate" /\ sets[s].status # "active"
                    /\ Finish(r, "conflict")
                 \/ /\ q.kind = "getRuleSet" /\ sets[s].pub = 0
                    /\ Reply(r, [e EXCEPT !.id = s, !.set = sets[s]], "ok")
                 \/ /\ \/ q.kind = "evaluate" /\ sets[s].status = "active"
                       \/ q.kind = "getRuleSet" /\ sets[s].pub # 0
                    /\ Proceed(r, [e EXCEPT !.pc = "readVersion",
                                            !.id = s, !.set = sets[s]])
        /\ UNCHANGED compiled

(* Faulty: version 1 is the default, not the published version.            *)
WantedFirst(e) == IF e.query.number = 0 THEN 1 ELSE e.query.number

Wanted(e) == IF e.query.number = 0 THEN e.set.pub ELSE e.query.number

(* The second statement, by version number.  Only Evaluate checks that the *)
(* version is published.                                                   *)
ReadRuleVersion(r) ==
    LET e == eval[r]
        found == {v \in VersionsOf(versions, e.set.scope, e.id) :
                     versions[v].number = Wanted(e)}
    IN  /\ e.pc = "readVersion"
        /\ \/ found = {} /\ Finish(r, "notFound")
           \/ \E v \in found :
                 IF e.query.kind = "getRuleSet"
                 THEN Reply(r, [e EXCEPT !.ver = versions[v]], "ok")
                 ELSE IF versions[v].status # "published"
                 THEN Finish(r, "conflict")
                 ELSE Proceed(r, [e EXCEPT !.pc = "load",
                                           !.ver = versions[v]])
        /\ UNCHANGED compiled

(* compiledDefinition: a hit is used as it is, a miss compiles the stored  *)
(* text and compares its checksum.                                         *)
LoadCompiled(r) ==
    LET e == eval[r]  hit == compiled[e.at][e.ver.sum]
    IN  /\ e.pc = "load"
        /\ \/ /\ hit # None
              /\ Proceed(r, [e EXCEPT !.pc = "run", !.program = hit])
           \/ /\ hit = None
              /\ IF Publishable(e.ver)
                 THEN Proceed(r, [e EXCEPT !.pc = "store",
                                           !.program = e.ver.def])
                 ELSE Finish(r, "internal")
        /\ UNCHANGED compiled

(* LoadOrStore: the first definition stored under the checksum stays.      *)
LoadOrStore(r) ==
    LET e == eval[r]  hit == compiled[e.at][e.ver.sum]
        kept == IF hit = None THEN e.program ELSE hit
    IN  /\ e.pc = "store"
        /\ compiled' = [compiled EXCEPT ![e.at][e.ver.sum] = kept]
        /\ Proceed(r, [e EXCEPT !.pc = "run", !.program = kept])

(* The program runs on the facts: it answers, or the facts are invalid, or *)
(* a condition fails.                                                      *)
Run(r) ==
    /\ eval[r].pc = "run"
    /\ \E code \in {"ok", "invalid", "internal"} : Finish(r, code)
    /\ UNCHANGED compiled

(* A database error or the deadline.                                       *)
ReadFails(r) ==
    /\ eval[r].pc \in {"readSet", "readVersion"}
    /\ Finish(r, "internal")
    /\ UNCHANGED compiled

(* The process dies: its cache, its pending stores and its reads are gone. *)
Restart(p) ==
    /\ compiled' = [compiled EXCEPT ![p] = EmptyCache]
    /\ storing' = [storing EXCEPT ![p] = {}]
    /\ eval' = [r \in Readers |-> IF eval[r].at = p THEN NoRead ELSE eval[r]]
    /\ UNCHANGED <<sets, versions, events>>

ReadStep(r) ==
    \/ ReadRuleSet(r) \/ ReadRuleVersion(r) \/ LoadCompiled(r)
    \/ LoadOrStore(r) \/ Run(r)

EvalNext ==
    \/ \E p \in Replicas :
          \/ \E c \in Calls : \/ EditAt(p, c) \/ DraftAt(p, c)
                              \/ RedraftAt(p, c) \/ PublishAt(p, c)
          \/ StoreCompiled(p)
          \/ Restart(p)
          \/ \E r \in Readers, q \in Queries : BeginRead(r, p, q)
    \/ \E r \in Readers : ReadStep(r) \/ ReadFails(r)

EvalSpec == EvalInit /\ [][EvalNext]_allVars
-----------------------------------------------------------------------------
(* Properties *)

(* The caches, the pending stores and the reads keep their types, and a    *)
(* read that reaches its program has one.                                  *)
EvalTypeOK ==
    /\ compiled \in [Replicas -> [Texts -> Texts \cup {None}]]
    /\ storing \in [Replicas -> SUBSET [sum : Texts, text : Texts]]
    /\ eval \in [Readers -> Read]
    /\ \A r \in Readers : eval[r].pc = "run" => eval[r].program # None

(* The cache is keyed by content: what a replica holds, or is about to     *)
(* store, under a checksum compiles to exactly that checksum and belongs   *)
(* to a committed version, never to a transaction that rolled back.        *)
CacheBacked ==
    LET Backed(sum, text) ==
            /\ Compiles(text) /\ Checksum(text) = sum
            /\ \E v \in Stored(versions) : versions[v].sum = sum
    IN  \A p \in Replicas :
           /\ \A k \in Texts :
                 compiled[p][k] # None => Backed(k, compiled[p][k])
           /\ \A e \in storing[p] : Backed(e.sum, e.text)

(* Two statements without a transaction are enough: a read that follows    *)
(* the published pointer finds the version, and finds it published, so it  *)
(* ends neither with "not found" nor with "not published", and its program *)
(* is never refused.                                                       *)
PointerNeverDangles ==
    \A r \in Readers :
        LET e == eval[r]
        IN  /\ e.set # None /\ e.set.pub # 0 /\ e.query.number = 0
            => /\ e.out \notin {"notFound", "conflict"}
               /\ e.ver # None => /\ e.ver.status = "published"
                                  /\ e.ver.number = e.set.pub
                                  /\ Publishable(e.ver)

(* Evaluation is deterministic: whichever replica serves it, from a warm   *)
(* or a cold cache, the program that runs is the one whose checksum the    *)
(* published version of the caller's own tenant carries.                   *)
RightProgram ==
    \A r \in Readers :
        LET e == eval[r]
        IN  e.program # None =>
               /\ Checksum(e.program) = e.ver.sum
               /\ e.ver.status = "published"
               /\ e.ver.scope = e.query.scope
               /\ Authorized(e.query.actor, e.ver.scope.tenant)

(* A read of the published version is linearizable: the number it uses was *)
(* current when it began or was published while it ran, so a caller that   *)
(* starts after a publication never gets an older version.                 *)
ReadIsCurrent ==
    \A r \in Readers :
        LET e == eval[r]
        IN  e.ver # None /\ e.query.number = 0 =>
               \/ e.since # None /\ e.ver.number = e.since.pub
               \/ \E v \in events :
                     /\ v.set = e.id /\ v.number = e.ver.number
                     /\ e.since = None \/ v.rev > e.since.version

(* A read without a transaction is as good as one with it: it sees the     *)
(* pointer of a moment of its own, and the version the pointer led to.     *)
ReadsFollowPointer == PointerNeverDangles /\ ReadIsCurrent
=============================================================================
