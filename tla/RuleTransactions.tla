------------------------- MODULE RuleTransactions -------------------------
(***************************************************************************)
(* The write path of the rule service as it runs: concurrent requests, on  *)
(* any replica, that read rows outside a transaction, open one, take row   *)
(* locks statement by statement, and commit, roll back or lose the answer  *)
(* of the commit.  Each action is one SQL statement of the repository with *)
(* the Go code around it.  A request's uncommitted writes live in its own  *)
(* record and reach the tables in one step, Commit.                        *)
(*                                                                         *)
(* The database is external: READ COMMITTED with row locks (PostgreSQL),   *)
(* or InnoDB, whose locking statements read the latest committed row and   *)
(* whose snapshot is taken after FOR UPDATE has been granted.  A writing   *)
(* statement whose WHERE clause no committed row satisfies may return      *)
(* without waiting for a lock.                                             *)
(***************************************************************************)
EXTENDS RuleModel

CONSTANT Workers            \* request goroutines of all the replicas

VARIABLES
    sets, versions,         \* the committed rows
    outbox,                 \* the committed rows of rule_outbox_events
    req                     \* the request each worker runs

tables == <<sets, versions, outbox>>
vars == <<sets, versions, outbox, req>>

(* The envelope in an outbox row: what happened, and the name of the rule  *)
(* set, which is copied from the row that PublishRuleVersion read before   *)
(* its transaction.                                                        *)
OutboxEvent ==
    [scope : Scopes, set : SetIds, ver : VersionIds, number : Nat, rev : Nat,
     name : Names]

Announced(e) ==
    [scope |-> e.scope, set |-> e.set, ver |-> e.ver, number |-> e.number,
     rev |-> e.rev]

Catalog == INSTANCE RuleCatalog
    WITH events <- {Announced(e) : e \in outbox}

ReplyCodes == {"ok", "invalid", "forbidden", "unavailable", "notFound",
               "conflict", "internal"}

PCs == {"idle", "insertSet", "readSet", "updateSet", "lockSet",
        "selectExisting", "selectMax", "insertVersion", "readVersion",
        "publishVersion", "publishSet", "addOutbox", "commit"}

(* A request: where it is, its call and the identifiers of the rows it     *)
(* works on, the Go locals seenSet and seenVer, the uncommitted writes of  *)
(* its transaction, the row locks it holds, and its last answer.  informed *)
(* is a history variable: the revision the client expects was committed    *)
(* when the request arrived.                                               *)
Request ==
    [pc : PCs, call : Calls \cup {None}, set : SetIds \cup {Blank},
     ver : VersionIds \cup {Blank},
     seenSet : RuleSet \cup {None}, seenVer : RuleVersion \cup {None},
     newSet : RuleSet \cup {None}, newVer : RuleVersion \cup {None},
     event : OutboxEvent \cup {None},
     locks : SUBSET (SetIds \cup VersionIds), informed : BOOLEAN,
     out : ReplyCodes \cup {None}]

(* A lock is named by the identifier of its row, and no two UUIDs of the   *)
(* two tables are the same.                                                *)
ASSUME LockAssumption == SetIds \cap VersionIds = {}

(* None is neither an event nor an answer.                                 *)
ASSUME RequestAssumption == None \notin OutboxEvent \cup ReplyCodes

Idle(call, out) ==
    [pc |-> "idle", call |-> call, set |-> Blank, ver |-> Blank,
     seenSet |-> None, seenVer |-> None, newSet |-> None, newVer |-> None,
     event |-> None, locks |-> {}, informed |-> FALSE, out |-> out]

Init ==
    /\ sets = [id \in SetIds |-> None]
    /\ versions = [id \in VersionIds |-> None]
    /\ outbox = {}
    /\ req = [w \in Workers |-> Idle(None, None)]

Become(w, r) == req' = [req EXCEPT ![w] = r]

(* The request ends; only a call that succeeded is remembered.             *)
Answer(w, code) ==
    Become(w, Idle(IF code = "ok" THEN req[w].call ELSE None, code))

(* Faulty: the lookup by idempotency key is a SELECT ... FOR UPDATE too.   *)
NeedsExisting(r) ==
    CASE r.pc \in {"insertSet", "updateSet", "lockSet", "publishSet"} -> {r.set}
      [] r.pc \in {"insertVersion", "publishVersion"} -> {r.ver}
      [] r.pc = "selectExisting" ->
            WithKey(versions, r.call.scope, r.call.set, r.call.key)
      [] OTHER -> {}

(* The rows whose lock the next statement of a request takes.              *)
Needs(r) ==
    CASE r.pc \in {"insertSet", "updateSet", "lockSet", "publishSet"} -> {r.set}
      [] r.pc \in {"insertVersion", "publishVersion"} -> {r.ver}
      [] OTHER -> {}

WaitsOn(w, o) == Needs(req[w]) \cap req[o].locks # {}

(* No other transaction holds a lock that the next statement needs.        *)
Granted(w) == \A o \in Workers \ {w} : ~WaitsOn(w, o)

Locked(r) == r.locks \cup Needs(r)
-----------------------------------------------------------------------------
(* Arrival of a request *)

(* authorize comes first.  CreateRuleSet and UpdateRuleSet then check      *)
(* their arguments before they ask the application service, the other two  *)
(* after.  The application service is external: it may grant, deny or be   *)
(* unavailable at any time.                                                *)
Outcomes(c) ==
    IF ~Authorized(c.actor, c.scope.tenant) THEN {"forbidden"}
    ELSE LET checked == IF ValidRequest(c) THEN {"ok"} ELSE {"invalid"}
             verified == {"forbidden", "unavailable"}
         IN  IF c.op \in {"createRuleSet", "updateRuleSet"}
                THEN IF ValidRequest(c) THEN checked \cup verified
                     ELSE checked
                ELSE checked \cup verified

Refuse(w, c) ==
    /\ req[w].pc = "idle"
    /\ \E code \in Outcomes(c) \ {"ok"} : Become(w, Idle(None, code))
    /\ UNCHANGED tables

FirstStep(op) ==
    CASE op = "createRuleSet" -> "insertSet"
      [] op = "createRuleVersion" -> "lockSet"
      [] op \in {"updateRuleSet", "publishRuleVersion"} -> "readSet"

(* uuid.NewString: an identifier no row and no request in flight uses.     *)
FreshSetIds ==
    {id \in SetIds \ Stored(sets) :
        \A o \in Workers : ~(/\ req[o].pc # "idle"
                             /\ req[o].call.op = "createRuleSet"
                             /\ req[o].set = id)}

FreshVersionIds ==
    {id \in VersionIds \ Stored(versions) :
        \A o \in Workers : ~(/\ req[o].pc # "idle"
                             /\ req[o].call.op = "createRuleVersion"
                             /\ req[o].ver = id)}

Admit(w, c) ==
    /\ req[w].pc = "idle"
    /\ "ok" \in Outcomes(c)
    /\ \E s \in IF c.op = "createRuleSet" THEN FreshSetIds ELSE {c.set},
          v \in IF c.op = "createRuleVersion" THEN FreshVersionIds
                ELSE {c.ver} :
          Become(w, [Idle(c, None) EXCEPT
                       !.pc = FirstStep(c.op), !.set = s, !.ver = v,
                       !.informed = /\ HasSet(sets, c.scope, c.set)
                                    /\ sets[c.set].version >= c.expSet])
    /\ UNCHANGED tables
-----------------------------------------------------------------------------
(* CreateRuleSet *)

(* INSERT INTO rule_sets.  The unique index makes it wait for an insert of *)
(* the same code that is not committed yet; a violation is not translated, *)
(* so the caller gets an internal error.                                   *)
InsertSet(w) ==
    LET r == req[w]  c == r.call
    IN  /\ r.pc = "insertSet"
        /\ \A o \in Workers \ {w} :
              req[o].newSet # None =>
                 \/ req[o].newSet.scope # c.scope
                 \/ req[o].newSet.code # c.code
        /\ Granted(w)
        /\ IF CodeTaken(sets, c.scope, c.code) THEN Answer(w, "internal")
           ELSE Become(w, [r EXCEPT !.pc = "commit", !.newSet = NewSet(c),
                                    !.locks = Locked(r)])
        /\ UNCHANGED tables
-----------------------------------------------------------------------------
(* UpdateRuleSet, and the first read of PublishRuleVersion *)

(* Faulty: the row is looked up by its identifier alone.                   *)
ReadSetAnyScope(w) ==
    LET r == req[w]  c == r.call
    IN  /\ r.pc = "readSet"
        /\ c.op = "updateRuleSet"
        /\ IF c.set \notin Stored(sets) THEN Answer(w, "notFound")
           ELSE Become(w, [r EXCEPT !.pc = "updateSet",
                             !.seenSet = UpdatedSet(sets[c.set], c)])
        /\ UNCHANGED tables

(* GetRuleSet outside the transaction.  UpdateRuleSet then overwrites the  *)
(* fields of its copy, the revision with expected + 1.                     *)
ReadSet(w) ==
    LET r == req[w]  c == r.call
    IN  /\ r.pc = "readSet"
        /\ IF ~HasSet(sets, c.scope, c.set) THEN Answer(w, "notFound")
           ELSE \/ /\ c.op = "updateRuleSet"
                   /\ Become(w, [r EXCEPT !.pc = "updateSet",
                         !.seenSet = [UpdatedSet(sets[c.set], c) EXCEPT
                                        !.version = c.expSet + 1]])
                \/ /\ c.op = "publishRuleVersion"
                   /\ Become(w, [r EXCEPT !.pc = "readVersion",
                                          !.seenSet = sets[c.set]])
        /\ UNCHANGED tables

(* Faulty: the UPDATE has no condition on the revision.                    *)
UpdateSetUnguarded(w) ==
    LET r == req[w]  c == r.call
    IN  /\ r.pc = "updateSet"
        /\ Granted(w)
        /\ Become(w, [r EXCEPT !.pc = "commit",
                        !.newSet = UpdatedSet(sets[c.set], c),
                        !.locks = Locked(r)])
        /\ UNCHANGED tables

(* Faulty: an UPDATE of no row is tried again instead of being answered.   *)
UpdateSetRetried(w) ==
    LET r == req[w]  c == r.call
    IN  /\ r.pc = "updateSet"
        /\ Granted(w)
        /\ sets[c.set].version = c.expSet
        /\ Become(w, [r EXCEPT !.pc = "commit",
                        !.newSet = UpdatedSet(sets[c.set], c),
                        !.locks = Locked(r)])
        /\ UNCHANGED tables

(* UPDATE rule_sets ... WHERE version = expected                           *)
UpdateSet(w) ==
    LET r == req[w]  c == r.call
    IN  /\ r.pc = "updateSet"
        /\ \/ /\ sets[c.set].version # c.expSet
              /\ Answer(w, "conflict")
           \/ /\ Granted(w)
              /\ sets[c.set].version = c.expSet
              /\ Become(w, [r EXCEPT !.pc = "commit",
                              !.newSet = UpdatedSet(sets[c.set], c),
                              !.locks = Locked(r)])
        /\ UNCHANGED tables
-----------------------------------------------------------------------------
(* CreateRuleVersion *)

(* Faulty: the SELECT has no FOR UPDATE.                                   *)
LockSetPlain(w) ==
    LET r == req[w]  c == r.call
    IN  /\ r.pc = "lockSet"
        /\ IF HasSet(sets, c.scope, c.set)
           THEN Become(w, [r EXCEPT !.pc = "selectExisting",
                                    !.seenSet = sets[c.set]])
           ELSE Answer(w, "notFound")
        /\ UNCHANGED tables

(* SELECT version, status FROM rule_sets ... FOR UPDATE                    *)
LockSet(w) ==
    LET r == req[w]  c == r.call
    IN  /\ r.pc = "lockSet"
        /\ \/ /\ ~HasSet(sets, c.scope, c.set)
              /\ Answer(w, "notFound")
           \/ /\ HasSet(sets, c.scope, c.set)
              /\ Granted(w)
              /\ Become(w, [r EXCEPT !.pc = "selectExisting",
                              !.seenSet = sets[c.set],
                              !.locks = Locked(r)])
        /\ UNCHANGED tables

(* The lookup by idempotency key.  A version with the same checksum is the *)
(* answer; otherwise the locked row must have the expected revision.       *)
SelectExisting(w) ==
    LET r == req[w]  c == r.call
        existing == WithKey(versions, c.scope, c.set, c.key)
    IN  /\ r.pc = "selectExisting"
        /\ Granted(w)
        /\ \/ \E v \in existing :
                 IF versions[v].sum # Checksum(c.text)
                 THEN Answer(w, "conflict")
                 ELSE Become(w, [r EXCEPT !.pc = "commit",
                                          !.seenVer = versions[v],
                                          !.locks = Locked(r)])
           \/ /\ existing = {}
              /\ IF \/ r.seenSet.version # c.expSet
                    \/ r.seenSet.status = "disabled"
                 THEN Answer(w, "conflict")
                 ELSE Become(w, [r EXCEPT !.pc = "selectMax",
                                          !.locks = Locked(r)])
        /\ UNCHANGED tables

(* SELECT COALESCE(MAX(version_number),0)+1                                *)
SelectMax(w) ==
    LET r == req[w]  c == r.call
    IN  /\ r.pc = "selectMax"
        /\ Become(w, [r EXCEPT !.pc = "insertVersion",
             !.seenVer = NewVersion(c, NextNumber(versions, c.scope, c.set))])
        /\ UNCHANGED tables

(* A committed version the new row would collide with.                     *)
Collides(row) ==
    \E v \in VersionsOf(versions, row.scope, row.set) :
        versions[v].number = row.number \/ versions[v].key = row.key

(* INSERT INTO rule_versions; a unique violation is an internal error.     *)
InsertVersion(w) ==
    LET r == req[w]
    IN  /\ r.pc = "insertVersion"
        /\ Granted(w)
        /\ IF Collides(r.seenVer) THEN Answer(w, "internal")
           ELSE Become(w, [r EXCEPT !.pc = "commit", !.newVer = r.seenVer,
                                    !.locks = Locked(r)])
        /\ UNCHANGED tables
-----------------------------------------------------------------------------
(* PublishRuleVersion *)

(* GetRuleVersion outside the transaction, the draft and checksum checks,  *)
(* and the assignments to the copies of the two rows.                      *)
ReadVersion(w) ==
    LET r == req[w]  c == r.call
    IN  /\ r.pc = "readVersion"
        /\ IF ~HasVersion(versions, c.scope, c.set, c.ver)
           THEN Answer(w, "notFound")
           ELSE LET row == versions[c.ver]
                IN  IF row.status # "draft" \/ ~Publishable(row)
                    THEN Answer(w, "conflict")
                    ELSE Become(w, [r EXCEPT !.pc = "publishVersion",
                           !.seenVer = [PublishedVersion(row, c) EXCEPT
                                          !.version = c.expVer + 1],
                           !.seenSet = [ActivatedSet(@, row.number, c) EXCEPT
                                          !.version = c.expSet + 1]])
        /\ UNCHANGED tables

(* UPDATE rule_versions ... WHERE status = 'draft' AND version = expected  *)
PublishVersion(w) ==
    LET r == req[w]  c == r.call
        current == /\ versions[c.ver].status = "draft"
                   /\ versions[c.ver].version = c.expVer
    IN  /\ r.pc = "publishVersion"
        /\ \/ /\ ~current
              /\ Answer(w, "conflict")
           \/ /\ Granted(w)
              /\ current
              /\ Become(w, [r EXCEPT !.pc = "publishSet",
                              !.newVer = PublishedVersion(versions[c.ver], c),
                              !.locks = Locked(r)])
        /\ UNCHANGED tables

(* Faulty: the UPDATE has no condition on the revision.                    *)
PublishSetUnguarded(w) ==
    LET r == req[w]  c == r.call
    IN  /\ r.pc = "publishSet"
        /\ Granted(w)
        /\ Become(w, [r EXCEPT !.pc = "addOutbox",
             !.newSet = ActivatedSet(sets[c.set], r.seenVer.number, c),
             !.locks = Locked(r)])
        /\ UNCHANGED tables

(* UPDATE rule_sets ... WHERE version = expected                           *)
PublishSet(w) ==
    LET r == req[w]  c == r.call
    IN  /\ r.pc = "publishSet"
        /\ \/ /\ sets[c.set].version # c.expSet
              /\ Answer(w, "conflict")
           \/ /\ Granted(w)
              /\ sets[c.set].version = c.expSet
              /\ Become(w, [r EXCEPT !.pc = "addOutbox",
                   !.newSet = ActivatedSet(sets[c.set], r.seenVer.number, c),
                   !.locks = Locked(r)])
        /\ UNCHANGED tables

(* Faulty: the event is inserted on the pool, outside the transaction.     *)
AddOutboxOutside(w) ==
    LET r == req[w]  c == r.call
    IN  /\ r.pc = "addOutbox"
        /\ Become(w, [r EXCEPT !.pc = "commit"])
        /\ outbox' = outbox \cup
             {[scope |-> c.scope, set |-> c.set, ver |-> c.ver,
               number |-> r.seenSet.pub, rev |-> r.seenSet.version,
               name |-> r.seenSet.name]}
        /\ UNCHANGED <<sets, versions>>

(* addEvent: the envelope is built from the Go copies, not from the rows   *)
(* the transaction has locked.                                             *)
AddOutbox(w) ==
    LET r == req[w]  c == r.call
    IN  /\ r.pc = "addOutbox"
        /\ Become(w, [r EXCEPT !.pc = "commit",
             !.event = [scope |-> c.scope, set |-> c.set, ver |-> c.ver,
                        number |-> r.seenSet.pub, rev |-> r.seenSet.version,
                        name |-> r.seenSet.name]])
        /\ UNCHANGED tables
-----------------------------------------------------------------------------
(* The end of a transaction *)

(* The writes of the transaction become visible together.                  *)
Apply(r) ==
    /\ sets' = IF r.newSet = None THEN sets
               ELSE [sets EXCEPT ![r.set] = r.newSet]
    /\ versions' = IF r.newVer = None THEN versions
                   ELSE [versions EXCEPT ![r.ver] = r.newVer]
    /\ outbox' = IF r.event = None THEN outbox
                 ELSE outbox \cup {r.event}

(* Faulty: the error of the commit is dropped.                             *)
CommitUnchecked(w) ==
    /\ req[w].pc = "commit"
    /\ Apply(req[w]) \/ UNCHANGED tables
    /\ Answer(w, "ok")

Commit(w) ==
    /\ req[w].pc = "commit"
    /\ Apply(req[w])
    /\ Answer(w, "ok")

(* The commit took effect but its answer was lost or came after the        *)
(* deadline: Within reports an error for a transaction that is durable.    *)
CommitUnacked(w) ==
    /\ req[w].pc = "commit"
    /\ Apply(req[w])
    /\ Answer(w, "internal")

(* A statement or the commit fails, the deadline passes, or the process    *)
(* dies: the database rolls the transaction back and releases its locks.   *)
Fail(w) ==
    /\ req[w].pc # "idle"
    /\ Answer(w, "internal")
    /\ UNCHANGED tables

Step(w) ==
    \/ InsertSet(w) \/ ReadSet(w) \/ UpdateSet(w) \/ LockSet(w)
    \/ SelectExisting(w) \/ SelectMax(w) \/ InsertVersion(w)
    \/ ReadVersion(w) \/ PublishVersion(w) \/ PublishSet(w) \/ AddOutbox(w)
    \/ Commit(w) \/ CommitUnacked(w)

Next ==
    \E w \in Workers :
        \/ \E c \in Calls : Refuse(w, c) \/ Admit(w, c)
        \/ Step(w)
        \/ Fail(w)

Spec == Init /\ [][Next]_vars

(* A goroutine with work to do runs, and the database grants a row lock    *)
(* that is released again and again to a waiter (its lock queues are       *)
(* fair).  Nothing obliges a client to call or a statement to fail.        *)
FairSpec == Spec /\ \A w \in Workers : SF_vars(Step(w))
-----------------------------------------------------------------------------
(* Properties *)

(* Tables, outbox and requests keep their types.                           *)
TypeOK ==
    /\ sets \in [SetIds -> RuleSet \cup {None}]
    /\ versions \in [VersionIds -> RuleVersion \cup {None}]
    /\ outbox \subseteq OutboxEvent
    /\ req \in [Workers -> Request]

(* Every history of concurrent, failing and repeated requests is a history *)
(* of the atomic catalogue.                                                *)
ImplementsCatalog == Catalog!Spec

(* "This prevents two concurrent requests from both missing the key and    *)
(* then racing on either the version number or unique idempotency          *)
(* constraint": the INSERT of CreateRuleVersion never meets a collision,   *)
(* not even with an insert that is still uncommitted.                      *)
NoConstraintRace ==
    \A w \in Workers :
        req[w].pc = "insertVersion" =>
            /\ ~Collides(req[w].seenVer)
            /\ \A o \in Workers \ {w} :
                  req[o].newVer # None =>
                     \/ req[o].newVer.set # req[w].call.set
                     \/ req[o].call.op # "createRuleVersion"

(* What a request that is about to commit tells its caller, and for a      *)
(* publication the consumers of the event, is what the transaction writes, *)
(* although it was read before the transaction without a lock, provided    *)
(* the client had the expected revision from a committed row.              *)
ReplyDescribesCommit ==
    \A w \in Workers :
        LET r == req[w]
        IN  /\ r.pc = "commit" /\ r.informed
            /\ r.call.op \in {"updateRuleSet", "publishRuleVersion"}
            => /\ r.seenSet = r.newSet
               /\ r.event # None => r.event.name = r.newSet.name
               /\ r.seenVer = r.newVer

(* The same without the proviso.                                           *)
EventDescribesCommit ==
    \A w \in Workers :
        LET r == req[w]
        IN  r.pc = "commit" /\ r.event # None =>
               r.event.name = r.newSet.name

(* The version, the revision or the publication with its event that a     *)
(* call asks for is in the tables.                                         *)
TookEffect(c) ==
    \/ /\ c.op = "createRuleSet"
       /\ CodeTaken(sets, c.scope, c.code)
    \/ /\ c.op \in {"updateRuleSet", "publishRuleVersion"}
       /\ HasSet(sets, c.scope, c.set)
       /\ sets[c.set].version > c.expSet
       /\ c.op = "publishRuleVersion" =>
             /\ HasVersion(versions, c.scope, c.set, c.ver)
             /\ versions[c.ver].status = "published"
             /\ \E e \in outbox : e.ver = c.ver /\ e.rev = c.expSet + 1
    \/ /\ c.op = "createRuleVersion"
       /\ \E v \in WithKey(versions, c.scope, c.set, c.key) :
             versions[v].sum = Checksum(c.text)

(* A write that was acknowledged is durable, whatever the other requests   *)
(* do afterwards.                                                          *)
AckedWritesDurable ==
    \A w \in Workers : req[w].out = "ok" => TookEffect(req[w].call)

(* A call takes effect at most once, although a client whose answer was    *)
(* lost sends it again, even while the first one is still running, and     *)
(* exactly once if it was acknowledged: the tables change only by the      *)
(* commit of a call that had not taken effect, and what took effect is     *)
(* never undone.                                                           *)
EffectsHappenOnce ==
    [][/\ AckedWritesDurable'
       /\ \/ UNCHANGED tables
          \/ /\ \E w \in Workers :
                   /\ req[w].pc = "commit" /\ req'[w].pc = "idle"
                   /\ ~TookEffect(req[w].call)
             /\ \A c \in Calls : TookEffect(c) => TookEffect(c)']_vars

(* Optimistic locking: of the writers that expect the same revision of a   *)
(* rule set at most one is told that it succeeded.                         *)
OneWriterPerRevision ==
    \A w, o \in Workers :
        LET c == req[w].call  d == req[o].call
        IN  /\ w # o
            /\ req[w].out = "ok" /\ req[o].out = "ok"
            /\ c.op \in {"updateRuleSet", "publishRuleVersion"}
            /\ d.op \in {"updateRuleSet", "publishRuleVersion"}
            /\ c.set = d.set
            => c.expSet # d.expSet

(* The row locks are always taken in an order that excludes a deadlock: no *)
(* set of requests waits for each other in a circle.                       *)
NoWaitCycle ==
    ~\E S \in (SUBSET Workers) \ {{}} :
        \A w \in S : \E o \in S \ {w} : WaitsOn(w, o)

(* Every stored definition passes the check that PublishRuleVersion makes  *)
(* before it publishes it: the canonical text survives the JSON column.    *)
StoredDefinitionsValidate ==
    \A v \in Stored(versions) : Publishable(versions[v])

(* Every admitted request is answered, although writers wait for locks.    *)
EveryRequestAnswered ==
    \A w \in Workers : req[w].pc # "idle" ~> req[w].pc = "idle"
=============================================================================
