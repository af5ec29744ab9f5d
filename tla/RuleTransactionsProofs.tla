---------------------- MODULE RuleTransactionsProofs ----------------------
(***************************************************************************)
(* Proofs about RuleTransactions, for every number of workers, tenants,    *)
(* rows and calls.  The invariant says of each request, with no other      *)
(* request in sight, what its locals have to do with the committed rows,   *)
(* and of each pair of requests that they keep out of each other's way.    *)
(***************************************************************************)
EXTENDS RuleTransactions, TLAPS
-----------------------------------------------------------------------------
(* The row images the operations build are rows.                           *)
LEMMA ImagesTyped ==
    ASSUME NEW c \in Calls, Admissible(c)
    PROVE  /\ c.op = "createRuleSet" => NewSet(c) \in RuleSet
           /\ \A row \in RuleSet :
                 c.op = "updateRuleSet" => UpdatedSet(row, c) \in RuleSet
           /\ \A n \in Nat :
                 c.op = "createRuleVersion" => NewVersion(c, n) \in RuleVersion
           /\ \A row \in RuleVersion : PublishedVersion(row, c) \in RuleVersion
           /\ \A row \in RuleSet, n \in Nat :
                 ActivatedSet(row, n, c) \in RuleSet
<1>1. c \in Call
  BY CallAssumption
<1>2. c.op = "createRuleSet" => NewSet(c) \in RuleSet
  BY <1>1 DEF Call, Admissible, ValidRequest, ValidCreateRuleSet, NewSet,
              RuleSet, SetStatus
<1>3. \A row \in RuleSet :
         c.op = "updateRuleSet" => UpdatedSet(row, c) \in RuleSet
  <2> SUFFICES ASSUME NEW row \in RuleSet, c.op = "updateRuleSet"
               PROVE  UpdatedSet(row, c) \in RuleSet
    OBVIOUS
  <2>1. c.name \in Names /\ c.status \in SetStatus /\ c.actor \in Actors
    BY <1>1 DEF Call, Admissible, ValidRequest, ValidUpdateRuleSet
  <2>2. row.version + 1 \in Nat
    BY DEF RuleSet
  <2>3. QED
    BY <2>1, <2>2 DEF UpdatedSet, RuleSet
<1>4. \A n \in Nat :
         c.op = "createRuleVersion" => NewVersion(c, n) \in RuleVersion
  BY <1>1, TextAssumption, BlankAssumption
  DEF Call, Admissible, ValidRequest, ValidCreateRuleVersion, NewVersion,
      RuleVersion, VersionStatus, Checksum
<1>5. \A row \in RuleVersion : PublishedVersion(row, c) \in RuleVersion
  <2> SUFFICES ASSUME NEW row \in RuleVersion
               PROVE  PublishedVersion(row, c) \in RuleVersion
    OBVIOUS
  <2>1. row.version + 1 \in Nat
    BY DEF RuleVersion
  <2>2. QED
    BY <1>1, <2>1 DEF Call, PublishedVersion, RuleVersion, VersionStatus
<1>6. \A row \in RuleSet, n \in Nat : ActivatedSet(row, n, c) \in RuleSet
  <2> SUFFICES ASSUME NEW row \in RuleSet, NEW n \in Nat
               PROVE  ActivatedSet(row, n, c) \in RuleSet
    OBVIOUS
  <2>1. row.version + 1 \in Nat
    BY DEF RuleSet
  <2>2. QED
    BY <1>1, <2>1 DEF Call, ActivatedSet, RuleSet, SetStatus
<1>7. QED
  BY <1>2, <1>3, <1>4, <1>5, <1>6
-----------------------------------------------------------------------------
(* The maximum that SelectMax computes over 1 .. n.                        *)
LEMMA MaxOfRange ==
    ASSUME NEW n \in Nat
    PROVE  Max({0} \cup (1 .. n)) = n
<1> DEFINE S == {0} \cup (1 .. n)
<1>1. n \in S /\ \A y \in S : n >= y
  OBVIOUS
<1>2. \A x \in S : (\A y \in S : x >= y) => x = n
  BY <1>1
<1>3. QED
  BY <1>1, <1>2 DEF Max
-----------------------------------------------------------------------------
(* The inductive invariant.  S, V and X are the tables sets, versions and  *)
(* outbox; r is a request.                                                 *)

(* No uncommitted write and no lock.                                       *)
Quiet(r) ==
    r.newSet = None /\ r.newVer = None /\ r.event = None /\ r.locks = {}

(* The row that UpdateRuleSet and PublishRuleVersion expect: a client that *)
(* had the revision from a committed row never expects one of the future.  *)
NotAhead(r, S) ==
    r.informed => /\ HasSet(S, r.call.scope, r.call.set)
                  /\ S[r.call.set].version >= r.call.expSet

(* CreateRuleSet works on an identifier without a row, and from its INSERT *)
(* on no committed row has its code.                                       *)
CreatesSet(r, S) ==
    LET c == r.call
    IN  /\ r.pc \in {"insertSet", "commit"}
        /\ r.set \in SetIds /\ S[r.set] = None
        /\ r.pc = "insertSet" => Quiet(r)
        /\ r.pc = "commit" =>
              /\ r.newSet = NewSet(c) /\ r.newVer = None /\ r.event = None
              /\ r.locks = {r.set}
              /\ ~CodeTaken(S, c.scope, c.code)

(* UpdateRuleSet: the Go copy equals the image its UPDATE would write, as  *)
(* long as the row has the revision that the UPDATE asks for.              *)
UpdatesSet(r, S) ==
    LET c == r.call  row == S[c.set]
    IN  /\ r.pc \in {"readSet", "updateSet", "commit"}
        /\ r.set = c.set /\ r.seenVer = None
        /\ NotAhead(r, S)
        /\ r.pc \in {"readSet", "updateSet"} => Quiet(r)
        /\ r.pc \in {"updateSet", "commit"} => HasSet(S, c.scope, c.set)
        /\ r.pc = "updateSet" /\ r.informed /\ row.version = c.expSet =>
              r.seenSet = UpdatedSet(row, c)
        /\ r.pc = "commit" =>
              /\ row.version = c.expSet
              /\ r.newSet = UpdatedSet(row, c)
              /\ r.newVer = None /\ r.event = None
              /\ r.locks = {c.set}
              /\ r.informed => r.seenSet = r.newSet

(* CreateRuleVersion: from the lock of the rule set on, its row, its keys  *)
(* and its numbers are what the statements before have seen.               *)
CreatesVersion(r, S, V) ==
    LET c == r.call
        next == NewVersion(c, NextNumber(V, c.scope, c.set))
        free == /\ WithKey(V, c.scope, c.set, c.key) = {}
                /\ S[c.set].version = c.expSet
                /\ S[c.set].status # "disabled"
    IN  /\ r.pc \in {"lockSet", "selectExisting", "selectMax",
                     "insertVersion", "commit"}
        /\ r.set = c.set
        /\ r.ver \in VersionIds /\ V[r.ver] = None
        /\ r.newSet = None /\ r.event = None
        /\ r.pc # "commit" => r.newVer = None
        /\ r.pc = "lockSet" => r.locks = {}
        /\ r.pc # "lockSet" => HasSet(S, c.scope, c.set)
        /\ r.pc \in {"selectExisting", "selectMax", "insertVersion"} =>
              r.locks = {c.set}
        /\ r.pc = "selectExisting" => r.seenSet = S[c.set]
        /\ r.pc \in {"selectMax", "insertVersion"} => free
        /\ r.pc = "insertVersion" => r.seenVer = next
        /\ r.pc = "commit" =>
              \/ /\ r.newVer = None /\ r.locks = {c.set}
                 /\ \E v \in WithKey(V, c.scope, c.set, c.key) :
                       V[v].sum = Checksum(c.text)
              \/ /\ free
                 /\ r.newVer = next /\ r.locks = {c.set, r.ver}

(* PublishRuleVersion: what it read without a lock still describes the row *)
(* of the version, and the row of the set if that has the revision which   *)
(* its UPDATE asks for.                                                    *)
PublishesVersion(r, S, V) ==
    LET c == r.call  row == S[c.set]  old == V[c.ver]
        active == ActivatedSet(row, old.number, c)
    IN  /\ r.pc \in {"readSet", "readVersion", "publishVersion",
                     "publishSet", "addOutbox", "commit"}
        /\ r.set = c.set /\ r.ver = c.ver
        /\ NotAhead(r, S)
        /\ r.pc \in {"readSet", "readVersion", "publishVersion"} => Quiet(r)
        /\ r.pc # "readSet" =>
              HasSet(S, c.scope, c.set) /\ r.seenSet \in RuleSet
        /\ r.pc = "readVersion" /\ r.informed /\ row.version = c.expSet =>
              r.seenSet = row
        /\ r.pc \notin {"readSet", "readVersion"} =>
              /\ HasVersion(V, c.scope, c.set, c.ver)
              /\ Publishable(old)
              /\ r.seenVer \in RuleVersion
              /\ r.seenVer.number = old.number
              /\ r.seenSet.pub = old.number
              /\ r.seenSet.version = c.expSet + 1
        /\ r.pc = "publishVersion" /\ old.status = "draft" =>
              r.seenVer = [PublishedVersion(old, c) EXCEPT
                             !.version = c.expVer + 1]
        /\ /\ r.pc \in {"publishVersion", "publishSet"}
           /\ r.informed /\ row.version = c.expSet
           => r.seenSet = active
        /\ r.pc \in {"publishSet", "addOutbox", "commit"} =>
              /\ old.status = "draft" /\ old.version = c.expVer
              /\ r.newVer = PublishedVersion(old, c)
              /\ r.seenVer = r.newVer
        /\ r.pc = "publishSet" =>
              r.newSet = None /\ r.event = None /\ r.locks = {c.ver}
        /\ r.pc \in {"addOutbox", "commit"} =>
              /\ row.version = c.expSet
              /\ r.newSet = active
              /\ r.locks = {c.ver, c.set}
              /\ r.informed => r.seenSet = r.newSet
        /\ r.pc = "addOutbox" => r.event = None
        /\ r.pc = "commit" =>
              r.event = [scope |-> c.scope, set |-> c.set, ver |-> c.ver,
                         number |-> r.seenSet.pub,
                         rev |-> r.seenSet.version,
                         name |-> r.seenSet.name]

(* What an acknowledged call left in the tables.                           *)
Durable(c, S, V, X) ==
    /\ c.op = "createRuleSet" => CodeTaken(S, c.scope, c.code)
    /\ c.op \in {"updateRuleSet", "publishRuleVersion"} =>
          HasSet(S, c.scope, c.set) /\ S[c.set].version > c.expSet
    /\ c.op = "createRuleVersion" =>
          \E v \in WithKey(V, c.scope, c.set, c.key) :
             V[v].sum = Checksum(c.text)
    /\ c.op = "publishRuleVersion" =>
          /\ HasVersion(V, c.scope, c.set, c.ver)
          /\ V[c.ver].status = "published"
          /\ \E e \in X : e.ver = c.ver /\ e.rev = c.expSet + 1

(* A running request works as its operation does.                          *)
Conforms(r, S, V) ==
    /\ r.call.op = "createRuleSet" => CreatesSet(r, S)
    /\ r.call.op = "updateRuleSet" => UpdatesSet(r, S)
    /\ r.call.op = "createRuleVersion" => CreatesVersion(r, S, V)
    /\ r.call.op = "publishRuleVersion" => PublishesVersion(r, S, V)

(* A request on its own.                                                   *)
Sound(r, S, V, X) ==
    /\ r.pc = "idle" => Quiet(r)
    /\ r.pc # "idle" =>
          /\ r.call \in Calls /\ Admissible(r.call)
          /\ r.out = None
          /\ Conforms(r, S, V)
    /\ r.out = "ok" => r.call \in Calls /\ Durable(r.call, S, V, X)

Running(r, op) == r.pc # "idle" /\ r.call.op = op

Wrote(r) ==
    /\ r.out = "ok"
    /\ r.call.op \in {"updateRuleSet", "publishRuleVersion"}

(* Two requests: no lock is held twice, new rows get different identifiers *)
(* and codes, and two acknowledged writers of one rule set expected        *)
(* different revisions.                                                    *)
Apart(r, q) ==
    /\ r.locks \cap q.locks = {}
    /\ Running(r, "createRuleSet") /\ Running(q, "createRuleSet") =>
          /\ r.set # q.set
          /\ r.newSet # None /\ q.newSet # None =>
                r.newSet.scope # q.newSet.scope \/ r.newSet.code # q.newSet.code
    /\ Running(r, "createRuleVersion") /\ Running(q, "createRuleVersion") =>
          r.ver # q.ver
    /\ Wrote(r) /\ Wrote(q) /\ r.call.set = q.call.set =>
          r.call.expSet # q.call.expSet

(* The numbers of a rule set are 1 .. n: the maximum that SelectMax asks   *)
(* for exists, and the next number is unused.                              *)
NumbersRange(V) ==
    \A scope \in Scopes, s \in SetIds :
        \E n \in Nat : Numbers(V, scope, s) = 1 .. n

TxInv ==
    /\ TypeOK
    /\ NumbersRange(versions)
    /\ \A w \in Workers : Sound(req[w], sets, versions, outbox)
    /\ \A w, o \in Workers : w # o => Apart(req[w], req[o])
-----------------------------------------------------------------------------
(* A step of one request that leaves the tables alone                      *)

LEMMA ApartSymmetric ==
    ASSUME NEW r, NEW q, Apart(r, q)
    PROVE  Apart(q, r)
BY DEF Apart

(* It is enough to look at the record the request becomes.                 *)
LEMMA LocalStep ==
    ASSUME TxInv, NEW w \in Workers, NEW r \in Request,
           Become(w, r), UNCHANGED tables,
           Sound(r, sets, versions, outbox),
           \A o \in Workers \ {w} : Apart(r, req[o])
    PROVE  TxInv'
<1>1. /\ req \in [Workers -> Request]
      /\ req' = [req EXCEPT ![w] = r]
      /\ sets' = sets /\ versions' = versions /\ outbox' = outbox
  BY DEF TxInv, TypeOK, Become, tables
<1>2. TypeOK'
  BY <1>1 DEF TxInv, TypeOK
<1>3. ASSUME NEW o \in Workers
      PROVE  Sound(req'[o], sets', versions', outbox')
  <2>1. CASE o = w
    BY <1>1, <2>1
  <2>2. CASE o # w
    BY <1>1, <2>2 DEF TxInv
  <2>3. QED
    BY <2>1, <2>2
<1>4. ASSUME NEW o \in Workers, NEW p \in Workers, o # p
      PROVE  Apart(req'[o], req'[p])
  <2>1. CASE o = w
    BY <1>1, <1>4, <2>1
  <2>2. CASE p = w
    BY <1>1, <1>4, <2>2, ApartSymmetric
  <2>3. CASE o # w /\ p # w
    BY <1>1, <1>4, <2>3 DEF TxInv
  <2>4. QED
    BY <2>1, <2>2, <2>3
<1>5. NumbersRange(versions')
  BY <1>1 DEF TxInv
<1>6. QED
  BY <1>2, <1>3, <1>4, <1>5 DEF TxInv

(* A request that ended without success.                                   *)
LEMMA IdleSound ==
    ASSUME NEW code \in ReplyCodes \ {"ok"}
    PROVE  /\ Idle(None, code) \in Request
           /\ \A S, V, X : Sound(Idle(None, code), S, V, X)
           /\ \A q : Apart(Idle(None, code), q)
<1>1. Idle(None, code) \in Request
  BY DEF Idle, Request, PCs
<1>2. \A S, V, X : Sound(Idle(None, code), S, V, X)
  BY DEF Idle, Sound, Quiet
<1>3. \A q : Apart(Idle(None, code), q)
  BY DEF Idle, Apart, Running, Wrote
<1>4. QED
  BY <1>1, <1>2, <1>3

LEMMA RefusedInv ==
    ASSUME TxInv, NEW w \in Workers, NEW code \in ReplyCodes \ {"ok"},
           Become(w, Idle(None, code)), UNCHANGED tables
    PROVE  TxInv'
BY IdleSound, LocalStep

LEMMA AnsweredInv ==
    ASSUME TxInv, NEW w \in Workers, NEW code \in ReplyCodes \ {"ok"},
           Answer(w, code), UNCHANGED tables
    PROVE  TxInv'
BY RefusedInv DEF Answer

(* The record s of a running request r after one of its statements.        *)
Continues(r, s) ==
    /\ r.pc # "idle" /\ s.pc # "idle"
    /\ s.call = r.call /\ s.set = r.set /\ s.ver = r.ver
    /\ s.informed = r.informed /\ s.out = r.out

(* What the invariant says of the request that takes a step.               *)
LEMMA RequestFacts ==
    ASSUME TxInv, NEW w \in Workers
    PROVE  /\ req[w] \in Request
           /\ Sound(req[w], sets, versions, outbox)
           /\ \A o \in Workers \ {w} : Apart(req[w], req[o])
           /\ sets \in [SetIds -> RuleSet \cup {None}]
           /\ versions \in [VersionIds -> RuleVersion \cup {None}]
BY DEF TxInv, TypeOK

(* A statement of a running request: it takes only locks that nobody else  *)
(* holds, and CreateRuleSet no code that another request has inserted.     *)
LEMMA StatementInv ==
    ASSUME TxInv, NEW w \in Workers, NEW s \in Request,
           Become(w, s), UNCHANGED tables,
           Continues(req[w], s), Conforms(s, sets, versions),
           \/ s.locks \subseteq req[w].locks
           \/ s.locks \subseteq Locked(req[w]) /\ Granted(w),
           \/ s.newSet = req[w].newSet
           \/ req[w].call.op # "createRuleSet"
           \/ \A o \in Workers \ {w} :
                 s.newSet # None /\ req[o].newSet # None =>
                    \/ req[o].newSet.scope # s.newSet.scope
                    \/ req[o].newSet.code # s.newSet.code
    PROVE  TxInv'
<1>1. Sound(s, sets, versions, outbox)
  BY RequestFacts, RequestAssumption DEF Sound, Continues, ReplyCodes
<1>2. ASSUME NEW o \in Workers \ {w}
      PROVE  Apart(s, req[o])
  <2>1. Apart(req[w], req[o]) /\ req[w].out = None
    BY RequestFacts DEF Sound, Continues
  <2>2. s.locks \cap req[o].locks = {}
    BY <2>1 DEF Apart, Locked, Granted, WaitsOn
  <2>3. s.out # "ok"
    BY <2>1, RequestAssumption DEF Continues, ReplyCodes
  <2>4. Running(s, "createRuleSet") /\ Running(req[o], "createRuleSet") =>
           /\ s.set # req[o].set
           /\ s.newSet # None /\ req[o].newSet # None =>
                 \/ s.newSet.scope # req[o].newSet.scope
                 \/ s.newSet.code # req[o].newSet.code
    BY <2>1 DEF Apart, Running, Continues
  <2>5. Running(s, "createRuleVersion") /\ Running(req[o], "createRuleVersion")
        => s.ver # req[o].ver
    BY <2>1 DEF Apart, Running, Continues
  <2>6. QED
    BY <2>2, <2>3, <2>4, <2>5 DEF Apart, Wrote
<1>3. QED
  BY <1>1, <1>2, LocalStep

(* Which request executes a statement.                                     *)
LEMMA WhoIsWhere ==
    ASSUME TxInv, NEW w \in Workers, req[w].pc # "idle"
    PROVE  LET r == req[w]  c == r.call
           IN  /\ c \in Calls /\ c \in Call /\ Admissible(c) /\ r.out = None
               /\ c.scope \in Scopes /\ c.expSet \in Nat /\ c.expVer \in Nat
               /\ r.pc = "insertSet" => c.op = "createRuleSet"
               /\ r.pc = "readSet" =>
                     c.op \in {"updateRuleSet", "publishRuleVersion"}
               /\ r.pc = "updateSet" => c.op = "updateRuleSet"
               /\ r.pc \in {"lockSet", "selectExisting", "selectMax",
                            "insertVersion"} => c.op = "createRuleVersion"
               /\ r.pc \in {"readVersion", "publishVersion", "publishSet",
                            "addOutbox"} => c.op = "publishRuleVersion"
               /\ c.op = "createRuleSet" => CreatesSet(r, sets)
               /\ c.op = "updateRuleSet" => UpdatesSet(r, sets)
               /\ c.op = "createRuleVersion" =>
                     CreatesVersion(r, sets, versions)
               /\ c.op = "publishRuleVersion" =>
                     PublishesVersion(r, sets, versions)
<1> DEFINE r == req[w]
           c == r.call
<1>1. /\ c \in Calls /\ Admissible(c) /\ r.out = None
      /\ Conforms(r, sets, versions)
  BY RequestFacts DEF Sound
<1>2. /\ c \in Call /\ c.op \in Ops
      /\ c.scope \in Scopes /\ c.expSet \in Nat /\ c.expVer \in Nat
  BY <1>1, CallAssumption DEF Call
<1>3. CASE c.op = "createRuleSet"
  BY <1>1, <1>2, <1>3 DEF Conforms, CreatesSet
<1>4. CASE c.op = "updateRuleSet"
  BY <1>1, <1>2, <1>4 DEF Conforms, UpdatesSet
<1>5. CASE c.op = "createRuleVersion"
  BY <1>1, <1>2, <1>5 DEF Conforms, CreatesVersion
<1>6. CASE c.op = "publishRuleVersion"
  BY <1>1, <1>2, <1>6 DEF Conforms, PublishesVersion
<1>7. QED
  BY <1>2, <1>3, <1>4, <1>5, <1>6 DEF Ops
-----------------------------------------------------------------------------
(* Each statement preserves the invariant *)

LEMMA InsertSetInv ==
    ASSUME TxInv, NEW w \in Workers, InsertSet(w)
    PROVE  TxInv'
<1> DEFINE r == req[w]
           c == r.call
           s == [r EXCEPT !.pc = "commit", !.newSet = NewSet(c),
                          !.locks = Locked(r)]
<1>1. CASE Answer(w, "internal")
  BY <1>1, AnsweredInv DEF InsertSet, ReplyCodes
<1>2. CASE Become(w, s) /\ ~CodeTaken(sets, c.scope, c.code)
  <2>1. /\ r \in Request /\ r.pc = "insertSet" /\ c.op = "createRuleSet"
        /\ CreatesSet(r, sets)
    BY RequestFacts, WhoIsWhere DEF InsertSet
  <2>2. /\ Locked(r) = {r.set} /\ r.set \in SetIds
        /\ NewSet(c) \in RuleSet
    BY <2>1, WhoIsWhere, ImagesTyped DEF CreatesSet, Quiet, Locked, Needs
  <2>3. s \in Request
    BY <2>1, <2>2 DEF Request, PCs
  <2>4. /\ Continues(r, s)
        /\ s.pc = "commit" /\ s.newSet = NewSet(c) /\ s.locks = {r.set}
        /\ s.newVer = r.newVer /\ s.event = r.event
    BY <2>1, <2>2 DEF Request, Continues
  <2>5. Conforms(s, sets, versions)
    BY <1>2, <2>1, <2>4 DEF CreatesSet, Quiet, Conforms, Continues
  <2>6. \A o \in Workers \ {w} :
           s.newSet # None /\ req[o].newSet # None =>
              \/ req[o].newSet.scope # s.newSet.scope
              \/ req[o].newSet.code # s.newSet.code
    BY <2>4 DEF InsertSet, NewSet
  <2>7. s.locks \subseteq Locked(r) /\ Granted(w)
    BY <2>2, <2>4 DEF InsertSet
  <2>8. QED
    BY <1>2, <2>3, <2>4, <2>5, <2>6, <2>7, StatementInv DEF InsertSet
<1>3. QED
  BY <1>1, <1>2 DEF InsertSet

LEMMA ReadSetInv ==
    ASSUME TxInv, NEW w \in Workers, ReadSet(w)
    PROVE  TxInv'
<1> DEFINE r == req[w]
           c == r.call
           copy == [UpdatedSet(sets[c.set], c) EXCEPT !.version = c.expSet + 1]
           u == [r EXCEPT !.pc = "updateSet", !.seenSet = copy]
           p == [r EXCEPT !.pc = "readVersion", !.seenSet = sets[c.set]]
<1>1. CASE Answer(w, "notFound")
  BY <1>1, AnsweredInv DEF ReadSet, ReplyCodes
<1>2. /\ r \in Request /\ r.pc = "readSet" /\ c \in Call
      /\ c.op \in {"updateRuleSet", "publishRuleVersion"}
  BY RequestFacts, WhoIsWhere DEF ReadSet
<1>3. HasSet(sets, c.scope, c.set) => sets[c.set] \in RuleSet
  BY RequestFacts, NoneAssumption DEF HasSet, Stored
<1>4. CASE /\ HasSet(sets, c.scope, c.set)
           /\ c.op = "updateRuleSet" /\ Become(w, u)
  <2>1. UpdatedSet(sets[c.set], c) \in RuleSet /\ c.expSet + 1 \in Nat
    BY <1>2, <1>3, <1>4, WhoIsWhere, ImagesTyped
  <2>2. copy \in RuleSet
    BY <2>1 DEF RuleSet
  <2>3. u \in Request
    BY <1>2, <2>2 DEF Request, PCs
  <2>4. /\ Continues(r, u) /\ u.pc = "updateSet" /\ u.seenSet = copy
        /\ u.seenVer = r.seenVer /\ u.newSet = r.newSet /\ u.locks = r.locks
        /\ u.newVer = r.newVer /\ u.event = r.event
    BY <1>2 DEF Request, Continues
  <2>5. sets[c.set].version = c.expSet => copy = UpdatedSet(sets[c.set], c)
    BY <1>3, <1>4 DEF UpdatedSet, RuleSet
  <2>6. Conforms(u, sets, versions)
    BY <1>2, <1>4, <2>4, <2>5, WhoIsWhere
    DEF Conforms, UpdatesSet, NotAhead, Quiet, Continues
  <2>7. QED
    BY <1>4, <2>3, <2>4, <2>6, StatementInv DEF ReadSet
<1>5. CASE /\ HasSet(sets, c.scope, c.set)
           /\ c.op = "publishRuleVersion" /\ Become(w, p)
  <2>1. p \in Request
    BY <1>2, <1>3, <1>5 DEF Request, PCs
  <2>2. /\ Continues(r, p) /\ p.pc = "readVersion" /\ p.seenSet = sets[c.set]
        /\ p.seenVer = r.seenVer /\ p.newSet = r.newSet /\ p.locks = r.locks
        /\ p.newVer = r.newVer /\ p.event = r.event
    BY <1>2 DEF Request, Continues
  <2>3. Conforms(p, sets, versions)
    <3>1. PublishesVersion(r, sets, versions)
      BY <1>2, <1>5, WhoIsWhere
    <3>2. PublishesVersion(p, sets, versions)
      BY <1>2, <1>3, <1>5, <2>2, <3>1
      DEF PublishesVersion, NotAhead, Quiet, Continues
    <3>3. QED
      BY <1>5, <2>2, <3>2 DEF Conforms, Continues
  <2>4. QED
    BY <1>5, <2>1, <2>2, <2>3, StatementInv DEF ReadSet
<1>6. QED
  BY <1>1, <1>4, <1>5 DEF ReadSet

LEMMA UpdateSetInv ==
    ASSUME TxInv, NEW w \in Workers, UpdateSet(w)
    PROVE  TxInv'
<1> DEFINE r == req[w]
           c == r.call
           row == UpdatedSet(sets[c.set], c)
           s == [r EXCEPT !.pc = "commit", !.newSet = row,
                          !.locks = Locked(r)]
<1>1. CASE Answer(w, "conflict")
  BY <1>1, AnsweredInv DEF UpdateSet, ReplyCodes
<1>2. CASE /\ Granted(w) /\ sets[c.set].version = c.expSet
           /\ Become(w, s)
  <2>1. /\ r \in Request /\ r.pc = "updateSet" /\ c.op = "updateRuleSet"
        /\ UpdatesSet(r, sets) /\ HasSet(sets, c.scope, c.set)
    BY RequestFacts, WhoIsWhere DEF UpdateSet, UpdatesSet
  <2>2. c.set \in SetIds /\ sets[c.set] \in RuleSet
    BY <2>1, RequestFacts, NoneAssumption DEF HasSet, Stored
  <2>3. Locked(r) = {c.set} /\ row \in RuleSet
    BY <2>1, <2>2, WhoIsWhere, ImagesTyped
    DEF UpdatesSet, Quiet, Locked, Needs
  <2>4. s \in Request
    BY <2>1, <2>2, <2>3 DEF Request, PCs
  <2>5. /\ Continues(r, s)
        /\ s.pc = "commit" /\ s.newSet = row /\ s.locks = {c.set}
        /\ s.newVer = r.newVer /\ s.event = r.event /\ s.seenVer = r.seenVer
        /\ s.seenSet = r.seenSet
    BY <2>1, <2>3 DEF Request, Continues
  <2>6. Conforms(s, sets, versions)
    BY <1>2, <2>1, <2>5
    DEF UpdatesSet, Quiet, Conforms, Continues, NotAhead
  <2>7. QED
    BY <1>2, <2>1, <2>3, <2>4, <2>5, <2>6, StatementInv DEF UpdateSet
<1>3. QED
  BY <1>1, <1>2 DEF UpdateSet

LEMMA LockSetInv ==
    ASSUME TxInv, NEW w \in Workers, LockSet(w)
    PROVE  TxInv'
<1> DEFINE r == req[w]
           c == r.call
           s == [r EXCEPT !.pc = "selectExisting", !.seenSet = sets[c.set],
                          !.locks = Locked(r)]
<1>1. CASE Answer(w, "notFound")
  BY <1>1, AnsweredInv DEF LockSet, ReplyCodes
<1>2. CASE HasSet(sets, c.scope, c.set) /\ Granted(w) /\ Become(w, s)
  <2>1. /\ r \in Request /\ r.pc = "lockSet" /\ c.op = "createRuleVersion"
        /\ CreatesVersion(r, sets, versions)
    BY RequestFacts, WhoIsWhere DEF LockSet
  <2>2. c.set \in SetIds /\ sets[c.set] \in RuleSet
    BY <1>2, RequestFacts, NoneAssumption DEF HasSet, Stored
  <2>3. Locked(r) = {c.set}
    BY <2>1 DEF CreatesVersion, Locked, Needs
  <2>4. s \in Request
    BY <2>1, <2>2, <2>3 DEF Request, PCs
  <2>5. /\ Continues(r, s)
        /\ s.pc = "selectExisting" /\ s.seenSet = sets[c.set]
        /\ s.locks = {c.set} /\ s.newSet = r.newSet
        /\ s.newVer = r.newVer /\ s.event = r.event
    BY <2>1, <2>3 DEF Request, Continues
  <2>6. Conforms(s, sets, versions)
    BY <1>2, <2>1, <2>5 DEF CreatesVersion, Conforms, Continues
  <2>7. QED
    BY <1>2, <2>3, <2>4, <2>5, <2>6, StatementInv DEF LockSet
<1>3. QED
  BY <1>1, <1>2 DEF LockSet

LEMMA SelectExistingInv ==
    ASSUME TxInv, NEW w \in Workers, SelectExisting(w)
    PROVE  TxInv'
<1> DEFINE r == req[w]
           c == r.call
           existing == WithKey(versions, c.scope, c.set, c.key)
           found(v) == [r EXCEPT !.pc = "commit", !.seenVer = versions[v],
                                 !.locks = Locked(r)]
           free == [r EXCEPT !.pc = "selectMax", !.locks = Locked(r)]
<1>1. CASE Answer(w, "conflict")
  BY <1>1, AnsweredInv DEF SelectExisting, ReplyCodes
<1>2. /\ r \in Request /\ r.pc = "selectExisting"
      /\ c.op = "createRuleVersion" /\ CreatesVersion(r, sets, versions)
      /\ Locked(r) = r.locks
  BY RequestFacts, WhoIsWhere DEF SelectExisting, Locked, Needs
<1>3. ASSUME NEW v \in existing, versions[v].sum = Checksum(c.text),
             Become(w, found(v))
      PROVE  TxInv'
  <2>1. versions[v] \in RuleVersion
    BY RequestFacts, NoneAssumption DEF WithKey, VersionsOf, Stored
  <2>2. found(v) \in Request
    BY <1>2, <2>1 DEF Request, PCs
  <2>3. /\ Continues(r, found(v)) /\ found(v).pc = "commit"
        /\ found(v).locks = r.locks /\ found(v).newSet = r.newSet
        /\ found(v).newVer = r.newVer /\ found(v).event = r.event
    BY <1>2 DEF Request, Continues
  <2>4. CreatesVersion(found(v), sets, versions)
    BY <1>2, <1>3, <2>3 DEF CreatesVersion, Continues
  <2>5. Conforms(found(v), sets, versions)
    BY <1>2, <2>3, <2>4 DEF Conforms, Continues
  <2>6. QED
    BY <1>3, <2>2, <2>3, <2>5, StatementInv DEF SelectExisting
<1>4. CASE /\ existing = {} /\ Become(w, free)
           /\ r.seenSet.version = c.expSet /\ r.seenSet.status # "disabled"
  <2>1. free \in Request
    BY <1>2 DEF Request, PCs
  <2>2. /\ Continues(r, free) /\ free.pc = "selectMax"
        /\ free.locks = r.locks /\ free.newSet = r.newSet
        /\ free.newVer = r.newVer /\ free.event = r.event
    BY <1>2 DEF Request, Continues
  <2>3. CreatesVersion(free, sets, versions)
    BY <1>2, <1>4, <2>2 DEF CreatesVersion, Continues
  <2>4. Conforms(free, sets, versions)
    BY <1>2, <2>2, <2>3 DEF Conforms, Continues
  <2>5. QED
    BY <1>4, <2>1, <2>2, <2>4, StatementInv DEF SelectExisting
<1>5. QED
  BY <1>1, <1>3, <1>4 DEF SelectExisting

(* The number that SelectMax finds is the next one, and nobody has it.     *)
LEMMA NextNumberFree ==
    ASSUME NEW V, NumbersRange(V), NEW scope \in Scopes, NEW set \in SetIds
    PROVE  /\ NextNumber(V, scope, set) \in Nat
           /\ NextNumber(V, scope, set) \notin Numbers(V, scope, set)
           /\ \E n \in Nat : /\ Numbers(V, scope, set) = 1 .. n
                             /\ NextNumber(V, scope, set) = n + 1
<1>1. PICK n \in Nat : Numbers(V, scope, set) = 1 .. n
  BY DEF NumbersRange
<1>2. NextNumber(V, scope, set) = n + 1
  BY <1>1, MaxOfRange DEF NextNumber
<1>3. QED
  BY <1>1, <1>2

LEMMA SelectMaxInv ==
    ASSUME TxInv, NEW w \in Workers, SelectMax(w)
    PROVE  TxInv'
<1> DEFINE r == req[w]
           c == r.call
           row == NewVersion(c, NextNumber(versions, c.scope, c.set))
           s == [r EXCEPT !.pc = "insertVersion", !.seenVer = row]
<1>1. /\ r \in Request /\ r.pc = "selectMax" /\ c.op = "createRuleVersion"
      /\ c \in Calls /\ Admissible(c) /\ c.scope \in Scopes
      /\ CreatesVersion(r, sets, versions)
  BY RequestFacts, WhoIsWhere DEF SelectMax
<1>2. c.set \in SetIds
  BY <1>1, RequestFacts DEF CreatesVersion, HasSet, Stored
<1>3. row \in RuleVersion
  BY <1>1, <1>2, NextNumberFree, ImagesTyped DEF TxInv
<1>4. s \in Request
  BY <1>1, <1>3 DEF Request, PCs
<1>5. /\ Continues(r, s) /\ s.pc = "insertVersion" /\ s.seenVer = row
      /\ s.locks = r.locks /\ s.newSet = r.newSet
      /\ s.newVer = r.newVer /\ s.event = r.event
  BY <1>1 DEF Request, Continues
<1>6. CreatesVersion(s, sets, versions)
  BY <1>1, <1>5 DEF CreatesVersion, Continues
<1>7. Conforms(s, sets, versions)
  BY <1>1, <1>5, <1>6 DEF Conforms, Continues
<1>8. QED
  BY <1>4, <1>5, <1>7, StatementInv DEF SelectMax

LEMMA InsertVersionInv ==
    ASSUME TxInv, NEW w \in Workers, InsertVersion(w)
    PROVE  TxInv'
<1> DEFINE r == req[w]
           c == r.call
           s == [r EXCEPT !.pc = "commit", !.newVer = r.seenVer,
                          !.locks = Locked(r)]
<1>1. CASE Answer(w, "internal")
  BY <1>1, AnsweredInv DEF InsertVersion, ReplyCodes
<1>2. CASE Granted(w) /\ Become(w, s)
  <2>1. /\ r \in Request /\ r.pc = "insertVersion"
        /\ c.op = "createRuleVersion" /\ CreatesVersion(r, sets, versions)
    BY RequestFacts, WhoIsWhere DEF InsertVersion
  <2>2. Locked(r) = {c.set, r.ver} /\ r.ver \in VersionIds /\ c.set \in SetIds
    BY <2>1, RequestFacts DEF CreatesVersion, Locked, Needs, HasSet, Stored
  <2>3. s \in Request
    BY <2>1, <2>2 DEF Request, PCs
  <2>4. /\ Continues(r, s) /\ s.pc = "commit" /\ s.newVer = r.seenVer
        /\ s.locks = {c.set, r.ver} /\ s.newSet = r.newSet
        /\ s.event = r.event
    BY <2>1, <2>2 DEF Request, Continues
  <2>5. CreatesVersion(s, sets, versions)
    BY <2>1, <2>4 DEF CreatesVersion, Continues
  <2>6. Conforms(s, sets, versions)
    BY <2>1, <2>4, <2>5 DEF Conforms, Continues
  <2>7. QED
    BY <1>2, <2>2, <2>3, <2>4, <2>6, StatementInv DEF InsertVersion
<1>3. QED
  BY <1>1, <1>2 DEF InsertVersion

LEMMA ReadVersionInv ==
    ASSUME TxInv, NEW w \in Workers, ReadVersion(w)
    PROVE  TxInv'
<1> DEFINE r == req[w]
           c == r.call
           row == versions[c.ver]
           ver == [PublishedVersion(row, c) EXCEPT !.version = c.expVer + 1]
           active == ActivatedSet(r.seenSet, row.number, c)
           set == [active EXCEPT !.version = c.expSet + 1]
           s == [r EXCEPT !.pc = "publishVersion", !.seenVer = ver,
                          !.seenSet = set]
<1>1. CASE Answer(w, "notFound")
  BY <1>1, AnsweredInv DEF ReadVersion, ReplyCodes
<1>2. CASE Answer(w, "conflict")
  BY <1>2, AnsweredInv DEF ReadVersion, ReplyCodes
<1>3. CASE /\ HasVersion(versions, c.scope, c.set, c.ver)
           /\ row.status = "draft" /\ Publishable(row)
           /\ Become(w, s)
  <2>1. /\ r \in Request /\ r.pc = "readVersion"
        /\ c.op = "publishRuleVersion" /\ c \in Calls /\ Admissible(c)
        /\ c.expSet \in Nat /\ c.expVer \in Nat
        /\ PublishesVersion(r, sets, versions)
    BY RequestFacts, WhoIsWhere DEF ReadVersion
  <2>2. row \in RuleVersion /\ row.number \in Nat /\ r.seenSet \in RuleSet
    BY <1>3, <2>1, RequestFacts, NoneAssumption
    DEF PublishesVersion, HasVersion, Stored, RuleVersion
  <2>3. /\ PublishedVersion(row, c) \in RuleVersion
        /\ active \in RuleSet
        /\ c.expSet + 1 \in Nat /\ c.expVer + 1 \in Nat
    BY <2>1, <2>2, ImagesTyped
  <2>4. ver \in RuleVersion /\ set \in RuleSet
    BY <2>3 DEF RuleVersion, RuleSet
  <2>5. s \in Request
    BY <2>1, <2>4 DEF Request, PCs
  <2>6. /\ Continues(r, s) /\ s.pc = "publishVersion"
        /\ s.seenVer = ver /\ s.seenSet = set /\ s.locks = r.locks
        /\ s.newSet = r.newSet /\ s.newVer = r.newVer /\ s.event = r.event
    BY <2>1 DEF Request, Continues
  <2>7. ver.number = row.number /\ set.pub = row.number
        /\ set.version = c.expSet + 1
    BY <2>2 DEF PublishedVersion, ActivatedSet, RuleVersion, RuleSet
  <2>8. r.informed /\ sets[c.set].version = c.expSet =>
           set = ActivatedSet(sets[c.set], row.number, c)
    BY <2>1, <2>2 DEF PublishesVersion, ActivatedSet, RuleSet
  <2>9. PublishesVersion(s, sets, versions)
    BY <1>3, <2>1, <2>4, <2>6, <2>7, <2>8
    DEF PublishesVersion, NotAhead, Quiet, Continues
  <2>10. Conforms(s, sets, versions)
    BY <2>1, <2>6, <2>9 DEF Conforms, Continues
  <2>11. QED
    BY <1>3, <2>5, <2>6, <2>10, StatementInv DEF ReadVersion
<1>4. QED
  BY <1>1, <1>2, <1>3 DEF ReadVersion

LEMMA PublishVersionInv ==
    ASSUME TxInv, NEW w \in Workers, PublishVersion(w)
    PROVE  TxInv'
<1> DEFINE r == req[w]
           c == r.call
           row == versions[c.ver]
           ver == PublishedVersion(row, c)
           s == [r EXCEPT !.pc = "publishSet", !.newVer = ver,
                          !.locks = Locked(r)]
<1>1. CASE Answer(w, "conflict")
  BY <1>1, AnsweredInv DEF PublishVersion, ReplyCodes
<1>2. CASE /\ Granted(w) /\ Become(w, s)
           /\ row.status = "draft" /\ row.version = c.expVer
  <2>1. /\ r \in Request /\ r.pc = "publishVersion"
        /\ c.op = "publishRuleVersion" /\ c \in Calls /\ Admissible(c)
        /\ PublishesVersion(r, sets, versions)
    BY RequestFacts, WhoIsWhere DEF PublishVersion
  <2>2. row \in RuleVersion /\ c.ver \in VersionIds
    BY <2>1, RequestFacts, NoneAssumption
    DEF PublishesVersion, HasVersion, Stored
  <2>3. ver \in RuleVersion
    BY <2>1, <2>2, ImagesTyped
  <2>4. Locked(r) = {c.ver}
    BY <2>1 DEF PublishesVersion, Quiet, Locked, Needs
  <2>5. s \in Request
    BY <2>1, <2>2, <2>3, <2>4 DEF Request, PCs
  <2>6. /\ Continues(r, s) /\ s.pc = "publishSet"
        /\ s.newVer = ver /\ s.locks = {c.ver}
        /\ s.seenVer = r.seenVer /\ s.seenSet = r.seenSet
        /\ s.newSet = r.newSet /\ s.event = r.event
    BY <2>1, <2>4 DEF Request, Continues
  <2>7. r.seenVer = ver
    BY <1>2, <2>1, <2>2 DEF PublishesVersion, PublishedVersion, RuleVersion
  <2>8. PublishesVersion(s, sets, versions)
    BY <1>2, <2>1, <2>6, <2>7
    DEF PublishesVersion, NotAhead, Quiet, Continues
  <2>9. Conforms(s, sets, versions)
    BY <2>1, <2>6, <2>8 DEF Conforms, Continues
  <2>10. QED
    BY <1>2, <2>4, <2>5, <2>6, <2>9, StatementInv DEF PublishVersion
<1>3. QED
  BY <1>1, <1>2 DEF PublishVersion

LEMMA PublishSetInv ==
    ASSUME TxInv, NEW w \in Workers, PublishSet(w)
    PROVE  TxInv'
<1> DEFINE r == req[w]
           c == r.call
           row == ActivatedSet(sets[c.set], r.seenVer.number, c)
           s == [r EXCEPT !.pc = "addOutbox", !.newSet = row,
                          !.locks = Locked(r)]
<1>1. CASE Answer(w, "conflict")
  BY <1>1, AnsweredInv DEF PublishSet, ReplyCodes
<1>2. CASE /\ Granted(w) /\ Become(w, s)
           /\ sets[c.set].version = c.expSet
  <2>1. /\ r \in Request /\ r.pc = "publishSet"
        /\ c.op = "publishRuleVersion" /\ c \in Calls /\ Admissible(c)
        /\ PublishesVersion(r, sets, versions)
    BY RequestFacts, WhoIsWhere DEF PublishSet
  <2>2. /\ sets[c.set] \in RuleSet /\ c.set \in SetIds
        /\ r.seenVer.number \in Nat
        /\ r.seenVer.number = versions[c.ver].number
        /\ c.ver \in VersionIds
    BY <2>1, RequestFacts, NoneAssumption
    DEF PublishesVersion, HasSet, HasVersion, Stored, RuleVersion
  <2>3. row \in RuleSet
    BY <2>1, <2>2, ImagesTyped
  <2>4. Locked(r) = {c.ver, c.set}
    BY <2>1 DEF PublishesVersion, Locked, Needs
  <2>5. s \in Request
    BY <2>1, <2>2, <2>3, <2>4 DEF Request, PCs
  <2>6. /\ Continues(r, s) /\ s.pc = "addOutbox"
        /\ s.newSet = row /\ s.locks = {c.ver, c.set}
        /\ s.seenVer = r.seenVer /\ s.seenSet = r.seenSet
        /\ s.newVer = r.newVer /\ s.event = r.event
    BY <2>1, <2>4 DEF Request, Continues
  <2>7. PublishesVersion(s, sets, versions)
    BY <1>2, <2>1, <2>2, <2>6
    DEF PublishesVersion, NotAhead, Continues
  <2>8. Conforms(s, sets, versions)
    BY <2>1, <2>6, <2>7 DEF Conforms, Continues
  <2>9. QED
    BY <1>2, <2>1, <2>4, <2>5, <2>6, <2>8, StatementInv DEF PublishSet
<1>3. QED
  BY <1>1, <1>2 DEF PublishSet

LEMMA AddOutboxInv ==
    ASSUME TxInv, NEW w \in Workers, AddOutbox(w)
    PROVE  TxInv'
<1> DEFINE r == req[w]
           c == r.call
           e == [scope |-> c.scope, set |-> c.set, ver |-> c.ver,
                 number |-> r.seenSet.pub, rev |-> r.seenSet.version,
                 name |-> r.seenSet.name]
           s == [r EXCEPT !.pc = "commit", !.event = e]
<1>1. /\ r \in Request /\ r.pc = "addOutbox"
      /\ c.op = "publishRuleVersion" /\ c.scope \in Scopes
      /\ PublishesVersion(r, sets, versions)
  BY RequestFacts, WhoIsWhere DEF AddOutbox
<1>2. c.set \in SetIds /\ c.ver \in VersionIds /\ r.seenSet \in RuleSet
  BY <1>1, RequestFacts DEF PublishesVersion, HasSet, HasVersion, Stored
<1>3. e \in OutboxEvent
  BY <1>1, <1>2 DEF OutboxEvent, RuleSet
<1>4. s \in Request
  BY <1>1, <1>3 DEF Request, PCs
<1>5. /\ Continues(r, s) /\ s.pc = "commit" /\ s.event = e
      /\ s.seenVer = r.seenVer /\ s.seenSet = r.seenSet /\ s.locks = r.locks
      /\ s.newVer = r.newVer /\ s.newSet = r.newSet
  BY <1>1 DEF Request, Continues
<1>6. PublishesVersion(s, sets, versions)
  BY <1>1, <1>5 DEF PublishesVersion, NotAhead, Continues
<1>7. Conforms(s, sets, versions)
  BY <1>1, <1>5, <1>6 DEF Conforms, Continues
<1>8. QED
  BY <1>4, <1>5, <1>7, StatementInv DEF AddOutbox

LEMMA RefuseInv ==
    ASSUME TxInv, NEW w \in Workers, NEW c \in Calls, Refuse(w, c)
    PROVE  TxInv'
<1>1. PICK code \in Outcomes(c) \ {"ok"} : Become(w, Idle(None, code))
  BY DEF Refuse
<1>2. code \in ReplyCodes \ {"ok"}
  BY <1>1 DEF Outcomes, ReplyCodes
<1>3. QED
  BY <1>1, <1>2, RefusedInv DEF Refuse

LEMMA FailInv ==
    ASSUME TxInv, NEW w \in Workers, Fail(w)
    PROVE  TxInv'
BY AnsweredInv DEF Fail, ReplyCodes

(* A call that the checks let pass is admissible, and its identifiers are  *)
(* its own.                                                                *)
LEMMA AdmitInv ==
    ASSUME TxInv, NEW w \in Workers, NEW c \in Calls, Admit(w, c)
    PROVE  TxInv'
<1>1. PICK id \in IF c.op = "createRuleSet" THEN FreshSetIds ELSE {c.set},
           v \in IF c.op = "createRuleVersion" THEN FreshVersionIds
                 ELSE {c.ver} :
         Become(w, [Idle(c, None) EXCEPT
                      !.pc = FirstStep(c.op), !.set = id, !.ver = v,
                      !.informed = /\ HasSet(sets, c.scope, c.set)
                                   /\ sets[c.set].version >= c.expSet])
  BY DEF Admit
<1> DEFINE known == /\ HasSet(sets, c.scope, c.set)
                    /\ sets[c.set].version >= c.expSet
           s == [Idle(c, None) EXCEPT
                   !.pc = FirstStep(c.op), !.set = id, !.ver = v,
                   !.informed = known]
<1>2. Admissible(c)
  BY DEF Admit, Outcomes, Admissible
<1>3. c \in Call /\ c.op \in Ops
  BY CallAssumption DEF Call
<1>4. /\ c.op = "createRuleSet" => id \in FreshSetIds
      /\ c.op # "createRuleSet" => id = c.set
      /\ c.op = "createRuleVersion" => v \in FreshVersionIds
      /\ c.op # "createRuleVersion" => v = c.ver
  BY <1>1
<1>5. /\ s.pc = FirstStep(c.op) /\ s.call = c /\ s.set = id /\ s.ver = v
      /\ s.seenSet = None /\ s.seenVer = None /\ s.newSet = None
      /\ s.newVer = None /\ s.event = None /\ s.locks = {}
      /\ s.informed = known /\ s.out = None
  BY DEF Idle
<1>6. /\ c.op = "createRuleSet" => s.pc = "insertSet"
      /\ c.op = "createRuleVersion" => s.pc = "lockSet"
      /\ c.op \in {"updateRuleSet", "publishRuleVersion"} => s.pc = "readSet"
      /\ s.pc \in PCs /\ s.pc # "idle"
  BY <1>3, <1>5 DEF FirstStep, Ops, PCs
<1>7. s \in Request
  <2>1. id \in SetIds \cup {Blank} /\ v \in VersionIds \cup {Blank}
    BY <1>3, <1>4 DEF Call, FreshSetIds, FreshVersionIds
  <2>2. FirstStep(c.op) \in PCs
    BY <1>5, <1>6
  <2>3. known \in BOOLEAN
    OBVIOUS
  <2>4. QED
    BY <2>1, <2>2, <2>3 DEF Idle, Request
<1>8. Conforms(s, sets, versions)
  <2>1. CASE c.op = "createRuleSet"
    BY <1>4, <1>5, <1>6, <2>1, RequestFacts
    DEF Conforms, CreatesSet, Quiet, FreshSetIds, Stored
  <2>2. CASE c.op = "updateRuleSet"
    BY <1>4, <1>5, <1>6, <2>2 DEF Conforms, UpdatesSet, Quiet, NotAhead
  <2>3. CASE c.op = "createRuleVersion"
    BY <1>4, <1>5, <1>6, <2>3, RequestFacts
    DEF Conforms, CreatesVersion, FreshVersionIds, Stored
  <2>4. CASE c.op = "publishRuleVersion"
    BY <1>4, <1>5, <1>6, <2>4
    DEF Conforms, PublishesVersion, Quiet, NotAhead
  <2>5. QED
    BY <1>3, <2>1, <2>2, <2>3, <2>4 DEF Ops
<1>9. Sound(s, sets, versions, outbox)
  BY <1>2, <1>5, <1>6, <1>8, RequestAssumption DEF Sound, ReplyCodes
<1>10. ASSUME NEW o \in Workers \ {w}
       PROVE  Apart(s, req[o])
  BY <1>4, <1>5, <1>6, RequestAssumption
  DEF Apart, Running, Wrote, FreshSetIds, FreshVersionIds, ReplyCodes
<1>11. QED
  BY <1>1, <1>7, <1>9, <1>10, LocalStep DEF Admit
-----------------------------------------------------------------------------
(* What the commit of one request is for the others.  S, V and X are the   *)
(* tables before it, S2, V2 and X2 those after it.                         *)

SetTable == [SetIds -> RuleSet \cup {None}]

VersionTable == [VersionIds -> RuleVersion \cup {None}]

(* Rule sets stay, with their scope and code; a change raises the revision.*)
SetsMove(S, S2) ==
    /\ S \in SetTable /\ S2 \in SetTable
    /\ \A id \in Stored(S) :
          /\ id \in Stored(S2)
          /\ S2[id].scope = S[id].scope /\ S2[id].code = S[id].code
          /\ S2[id] = S[id] \/ S2[id].version > S[id].version

(* Versions stay; only a draft changes, and only to published.             *)
VersionsMove(V, V2) ==
    /\ V \in VersionTable /\ V2 \in VersionTable
    /\ \A id \in Stored(V) :
          /\ id \in Stored(V2)
          /\ V2[id].scope = V[id].scope /\ V2[id].set = V[id].set
          /\ V2[id].number = V[id].number /\ V2[id].key = V[id].key
          /\ V2[id].def = V[id].def /\ V2[id].sum = V[id].sum
          /\ \/ V2[id] = V[id]
             \/ V[id].status = "draft" /\ V2[id].status = "published"

(* A request that did not commit: the rows it holds stay as they are, a    *)
(* rule set it holds gets no versions, the row it will insert is not there *)
(* and, once it has inserted a rule set, nobody's code becomes its code.   *)
Untouched(r, S, V, S2, V2) ==
    /\ \A id \in r.locks \cap SetIds :
          /\ S2[id] = S[id]
          /\ \A scope : VersionsOf(V2, scope, id) = VersionsOf(V, scope, id)
    /\ \A id \in r.locks \cap VersionIds : V2[id] = V[id]
    /\ Running(r, "createRuleSet") =>
          /\ S2[r.set] = S[r.set]
          /\ r.newSet # None
             /\ CodeTaken(S2, r.newSet.scope, r.newSet.code)
             => CodeTaken(S, r.newSet.scope, r.newSet.code)
    /\ Running(r, "createRuleVersion") => V2[r.ver] = V[r.ver]

(* Rows that were found are found again.                                   *)
LEMMA StillThere ==
    ASSUME NEW S, NEW S2, SetsMove(S, S2),
           NEW V, NEW V2, VersionsMove(V, V2)
    PROVE  /\ \A scope, id : HasSet(S, scope, id) =>
                 /\ HasSet(S2, scope, id)
                 /\ S[id] \in RuleSet /\ S2[id] \in RuleSet
                 /\ S[id].version \in Nat /\ S2[id].version \in Nat
                 /\ S2[id].version >= S[id].version
                 /\ S2[id] = S[id] \/ S2[id].version > S[id].version
           /\ \A scope, set, id : HasVersion(V, scope, set, id) =>
                 /\ HasVersion(V2, scope, set, id)
                 /\ V[id] \in RuleVersion /\ V2[id] \in RuleVersion
                 /\ V2[id].number = V[id].number
                 /\ V2[id].def = V[id].def /\ V2[id].sum = V[id].sum
                 /\ V2[id].key = V[id].key
                 /\ \/ V2[id] = V[id]
                    \/ V[id].status = "draft" /\ V2[id].status = "published"
           /\ \A scope, code : CodeTaken(S, scope, code) =>
                 CodeTaken(S2, scope, code)
           /\ \A scope, set, key : WithKey(V, scope, set, key)
                 \subseteq WithKey(V2, scope, set, key)
<1>1. ASSUME NEW scope, NEW id, HasSet(S, scope, id)
      PROVE  /\ HasSet(S2, scope, id)
             /\ S[id] \in RuleSet /\ S2[id] \in RuleSet
             /\ S[id].version \in Nat /\ S2[id].version \in Nat
             /\ S2[id].version >= S[id].version
             /\ S2[id] = S[id] \/ S2[id].version > S[id].version
  <2>1. id \in Stored(S) /\ id \in SetIds /\ S[id] \in RuleSet
    BY <1>1 DEF SetsMove, SetTable, HasSet, Stored
  <2>2. HasSet(S2, scope, id) /\ S2[id] \in RuleSet
    BY <1>1, <2>1 DEF SetsMove, SetTable, HasSet, Stored
  <2>3. S[id].version \in Nat /\ S2[id].version \in Nat
    BY <2>1, <2>2 DEF RuleSet
  <2>4. QED
    BY <2>1, <2>2, <2>3 DEF SetsMove
<1>2. ASSUME NEW scope, NEW set, NEW id, HasVersion(V, scope, set, id)
      PROVE  /\ HasVersion(V2, scope, set, id)
             /\ V[id] \in RuleVersion /\ V2[id] \in RuleVersion
  <2>1. id \in Stored(V) /\ id \in VersionIds /\ V[id] \in RuleVersion
    BY <1>2 DEF VersionsMove, VersionTable, HasVersion, Stored
  <2>2. QED
    BY <1>2, <2>1 DEF VersionsMove, VersionTable, HasVersion, Stored
<1>3. \A scope, code : CodeTaken(S, scope, code) => CodeTaken(S2, scope, code)
  BY DEF CodeTaken, SetsMove
<1>4. \A scope, set, key : WithKey(V, scope, set, key)
                              \subseteq WithKey(V2, scope, set, key)
  BY DEF WithKey, VersionsOf, HasVersion, VersionsMove
<1>5. \A scope, set, id : HasVersion(V, scope, set, id) =>
         /\ V2[id].number = V[id].number
         /\ V2[id].def = V[id].def /\ V2[id].sum = V[id].sum
         /\ V2[id].key = V[id].key
         /\ \/ V2[id] = V[id]
            \/ V[id].status = "draft" /\ V2[id].status = "published"
  BY DEF HasVersion, VersionsMove
<1>6. QED
  BY <1>1, <1>2, <1>3, <1>4, <1>5

LEMMA CreatesSetStable ==
    ASSUME NEW r, NEW S, NEW V, NEW S2, NEW V2,
           SetsMove(S, S2), Untouched(r, S, V, S2, V2),
           r.call \in Calls, Admissible(r.call),
           Running(r, "createRuleSet"), CreatesSet(r, S)
    PROVE  CreatesSet(r, S2)
<1>1. r.pc = "commit" => /\ r.newSet # None
                         /\ r.newSet.scope = r.call.scope
                         /\ r.newSet.code = r.call.code
  <2>1. /\ NewSet(r.call).scope = r.call.scope
        /\ NewSet(r.call).code = r.call.code
        /\ NewSet(r.call) # None
    BY ImagesTyped, NoneAssumption DEF NewSet, Running
  <2>2. QED
    BY <2>1 DEF CreatesSet
<1>2. QED
  BY <1>1 DEF CreatesSet, Untouched

LEMMA UpdatesSetStable ==
    ASSUME NEW r, NEW S, NEW V, NEW S2, NEW V2,
           SetsMove(S, S2), VersionsMove(V, V2), Untouched(r, S, V, S2, V2),
           r.call.expSet \in Nat, UpdatesSet(r, S)
    PROVE  UpdatesSet(r, S2)
<1> DEFINE c == r.call
<1>1. NotAhead(r, S2)
  BY StillThere DEF UpdatesSet, NotAhead
<1>2. r.pc \in {"updateSet", "commit"} => HasSet(S2, c.scope, c.set)
  BY StillThere DEF UpdatesSet
<1>3. r.informed /\ S2[c.set].version = c.expSet => S2[c.set] = S[c.set]
  BY StillThere DEF UpdatesSet, NotAhead
<1>4. r.pc = "commit" => S2[c.set] = S[c.set]
  BY DEF UpdatesSet, Untouched, HasSet, Stored, SetsMove, SetTable
<1>5. QED
  BY <1>1, <1>2, <1>3, <1>4 DEF UpdatesSet

LEMMA CreatesVersionStable ==
    ASSUME NEW r, NEW S, NEW V, NEW S2, NEW V2,
           SetsMove(S, S2), VersionsMove(V, V2), Untouched(r, S, V, S2, V2),
           Running(r, "createRuleVersion"), CreatesVersion(r, S, V)
    PROVE  CreatesVersion(r, S2, V2)
<1> DEFINE c == r.call
<1>1. V2[r.ver] = V[r.ver]
  BY DEF Untouched
<1>2. CASE r.pc = "lockSet"
  BY <1>1, <1>2 DEF CreatesVersion
<1>3. CASE r.pc # "lockSet"
  <2>1. c.set \in r.locks /\ c.set \in SetIds /\ HasSet(S, c.scope, c.set)
    BY <1>3 DEF CreatesVersion, HasSet, Stored, SetsMove, SetTable
  <2>2. S2[c.set] = S[c.set] /\ HasSet(S2, c.scope, c.set)
    BY <2>1, StillThere DEF Untouched
  <2>3. VersionsOf(V2, c.scope, c.set) = VersionsOf(V, c.scope, c.set)
    BY <2>1 DEF Untouched
  <2>4. \A v \in VersionsOf(V, c.scope, c.set) :
           /\ V2[v].key = V[v].key /\ V2[v].number = V[v].number
           /\ V2[v].sum = V[v].sum
    BY StillThere DEF VersionsOf
  <2>5. WithKey(V2, c.scope, c.set, c.key) = WithKey(V, c.scope, c.set, c.key)
    BY <2>3, <2>4 DEF WithKey
  <2>6. Numbers(V2, c.scope, c.set) = Numbers(V, c.scope, c.set)
    BY <2>3, <2>4 DEF Numbers
  <2>7. NextNumber(V2, c.scope, c.set) = NextNumber(V, c.scope, c.set)
    BY <2>6 DEF NextNumber
  <2>8. \A v \in WithKey(V, c.scope, c.set, c.key) : V2[v].sum = V[v].sum
    BY <2>4 DEF WithKey
  <2>9. QED
    BY <1>1, <1>3, <2>2, <2>5, <2>7, <2>8 DEF CreatesVersion
<1>4. QED
  BY <1>2, <1>3

LEMMA PublishesVersionStable ==
    ASSUME NEW r, NEW S, NEW V, NEW S2, NEW V2,
           SetsMove(S, S2), VersionsMove(V, V2), Untouched(r, S, V, S2, V2),
           r.call.expSet \in Nat, PublishesVersion(r, S, V)
    PROVE  PublishesVersion(r, S2, V2)
<1> DEFINE c == r.call
<1>1. NotAhead(r, S2)
  BY StillThere DEF PublishesVersion, NotAhead
<1>2. r.pc # "readSet" => HasSet(S2, c.scope, c.set)
  BY StillThere DEF PublishesVersion
<1>3. r.informed /\ S2[c.set].version = c.expSet => S2[c.set] = S[c.set]
  BY StillThere DEF PublishesVersion, NotAhead
<1>4. r.pc \in {"addOutbox", "commit"} => S2[c.set] = S[c.set]
  BY DEF PublishesVersion, Untouched, HasSet, Stored, SetsMove, SetTable
<1>5. r.pc \notin {"readSet", "readVersion"} =>
         /\ HasVersion(V2, c.scope, c.set, c.ver)
         /\ V2[c.ver].number = V[c.ver].number
         /\ Publishable(V2[c.ver])
  BY StillThere DEF PublishesVersion, Publishable
<1>6. r.pc = "publishVersion" /\ V2[c.ver].status = "draft" =>
         V2[c.ver] = V[c.ver]
  BY StillThere DEF PublishesVersion
<1>7. r.pc \in {"publishSet", "addOutbox", "commit"} => V2[c.ver] = V[c.ver]
  BY DEF PublishesVersion, Untouched, HasVersion, Stored, VersionsMove,
         VersionTable
<1>8. CASE r.pc \in {"readSet", "readVersion"}
  BY <1>1, <1>2, <1>3, <1>8 DEF PublishesVersion
<1>9. CASE r.pc = "publishVersion"
  BY <1>1, <1>2, <1>3, <1>5, <1>6, <1>9 DEF PublishesVersion
<1>10. CASE r.pc = "publishSet"
  BY <1>1, <1>2, <1>3, <1>5, <1>7, <1>10 DEF PublishesVersion
<1>11. CASE r.pc \in {"addOutbox", "commit"}
  BY <1>1, <1>2, <1>4, <1>5, <1>7, <1>11 DEF PublishesVersion
<1>12. QED
  BY <1>8, <1>9, <1>10, <1>11 DEF PublishesVersion

LEMMA DurableStable ==
    ASSUME NEW c \in Calls, NEW S, NEW V, NEW X, NEW S2, NEW V2, NEW X2,
           SetsMove(S, S2), VersionsMove(V, V2), X \subseteq X2,
           Durable(c, S, V, X)
    PROVE  Durable(c, S2, V2, X2)
<1>1. c.expSet \in Nat
  BY CallAssumption DEF Call
<1>2. c.op = "createRuleSet" => CodeTaken(S2, c.scope, c.code)
  BY StillThere DEF Durable
<1>3. c.op \in {"updateRuleSet", "publishRuleVersion"} =>
         HasSet(S2, c.scope, c.set) /\ S2[c.set].version > c.expSet
  BY <1>1, StillThere DEF Durable
<1>4. c.op = "createRuleVersion" =>
         \E v \in WithKey(V2, c.scope, c.set, c.key) :
            V2[v].sum = Checksum(c.text)
  BY StillThere DEF Durable, WithKey, VersionsOf
<1>5. c.op = "publishRuleVersion" =>
         /\ HasVersion(V2, c.scope, c.set, c.ver)
         /\ V2[c.ver].status = "published"
         /\ \E e \in X2 : e.ver = c.ver /\ e.rev = c.expSet + 1
  BY StillThere DEF Durable
<1>6. QED
  BY <1>2, <1>3, <1>4, <1>5 DEF Durable

LEMMA SoundStable ==
    ASSUME NEW r, NEW S, NEW V, NEW X, NEW S2, NEW V2, NEW X2,
           SetsMove(S, S2), VersionsMove(V, V2), X \subseteq X2,
           Untouched(r, S, V, S2, V2), Sound(r, S, V, X)
    PROVE  Sound(r, S2, V2, X2)
<1>1. r.out = "ok" => Durable(r.call, S2, V2, X2)
  BY DurableStable DEF Sound
<1>2. r.pc # "idle" => Conforms(r, S2, V2)
  <2> SUFFICES ASSUME r.pc # "idle" PROVE Conforms(r, S2, V2)
    OBVIOUS
  <2>1. Conforms(r, S, V) /\ r.call.expSet \in Nat
    BY CallAssumption DEF Sound, Call
  <2>2. r.call.op = "createRuleSet" => CreatesSet(r, S2)
    BY <2>1, CreatesSetStable DEF Conforms, Running, Sound
  <2>3. r.call.op = "updateRuleSet" => UpdatesSet(r, S2)
    BY <2>1, UpdatesSetStable DEF Conforms
  <2>4. r.call.op = "createRuleVersion" => CreatesVersion(r, S2, V2)
    BY <2>1, CreatesVersionStable DEF Conforms, Running
  <2>5. r.call.op = "publishRuleVersion" => PublishesVersion(r, S2, V2)
    BY <2>1, PublishesVersionStable DEF Conforms
  <2>6. QED
    BY <2>2, <2>3, <2>4, <2>5 DEF Conforms
<1>3. QED
  BY <1>1, <1>2 DEF Sound

(* The tables after the commit of r.                                       *)
SetsAfter(r, S) ==
    IF r.newSet = None THEN S ELSE [S EXCEPT ![r.set] = r.newSet]

VersionsAfter(r, V) ==
    IF r.newVer = None THEN V ELSE [V EXCEPT ![r.ver] = r.newVer]

OutboxAfter(r, X) == IF r.event = None THEN X ELSE X \cup {r.event}

(* How the commit of each operation changes the tables.                    *)
Inserts(r, S, S2) ==
    LET c == r.call
    IN  /\ r.locks = {r.set}
        /\ r.set \in SetIds /\ S[r.set] = None
        /\ ~CodeTaken(S, c.scope, c.code)
        /\ r.newSet = NewSet(c)
        /\ S2 = [S EXCEPT ![r.set] = NewSet(c)]

(* A change of the row of the rule set that the call expects.              *)
Revises(r, row, S, S2) ==
    LET c == r.call
    IN  /\ c.set \in r.locks
        /\ HasSet(S, c.scope, c.set)
        /\ S[c.set].version = c.expSet
        /\ S2 = [S EXCEPT ![c.set] = row]

Drafts(r, S, V, V2) ==
    LET c == r.call
    IN  /\ r.locks = {c.set, r.ver}
        /\ HasSet(S, c.scope, c.set)
        /\ WithKey(V, c.scope, c.set, c.key) = {}
        /\ S[c.set].version = c.expSet /\ S[c.set].status # "disabled"
        /\ r.ver \in VersionIds /\ V[r.ver] = None
        /\ V2 = [V EXCEPT ![r.ver] =
                   NewVersion(c, NextNumber(V, c.scope, c.set))]

Publishes(r, V, V2) ==
    LET c == r.call
    IN  /\ c.ver \in r.locks
        /\ HasVersion(V, c.scope, c.set, c.ver)
        /\ V[c.ver].status = "draft" /\ V[c.ver].version = c.expVer
        /\ Publishable(V[c.ver])
        /\ V2 = [V EXCEPT ![c.ver] = PublishedVersion(V[c.ver], c)]

LEMMA CommitEffect ==
    ASSUME NEW r \in Request, NEW S \in SetTable, NEW V \in VersionTable,
           NEW X, NumbersRange(V), r.pc = "commit", Sound(r, S, V, X)
    PROVE  LET c == r.call
               S2 == SetsAfter(r, S)
               V2 == VersionsAfter(r, V)
               X2 == OutboxAfter(r, X)
           IN  \/ /\ c.op = "createRuleSet"
                  /\ Inserts(r, S, S2) /\ V2 = V /\ X2 = X
               \/ /\ c.op = "updateRuleSet"
                  /\ Revises(r, UpdatedSet(S[c.set], c), S, S2)
                  /\ V2 = V /\ X2 = X
               \/ /\ c.op = "createRuleVersion"
                  /\ \E v \in WithKey(V, c.scope, c.set, c.key) :
                        V[v].sum = Checksum(c.text)
                  /\ S2 = S /\ V2 = V /\ X2 = X
               \/ /\ c.op = "createRuleVersion"
                  /\ Drafts(r, S, V, V2) /\ S2 = S /\ X2 = X
               \/ /\ c.op = "publishRuleVersion"
                  /\ Publishes(r, V, V2)
                  /\ Revises(r, ActivatedSet(S[c.set], V[c.ver].number, c),
                             S, S2)
                  /\ X2 = X \cup {r.event}
                  /\ r.event \in OutboxEvent
                  /\ Announced(r.event) =
                        [scope |-> c.scope, set |-> c.set, ver |-> c.ver,
                         number |-> V[c.ver].number, rev |-> c.expSet + 1]
<1> DEFINE c == r.call
<1>1. /\ c \in Calls /\ c \in Call /\ c.op \in Ops /\ Admissible(c)
      /\ Conforms(r, S, V) /\ c.scope \in Scopes
  BY CallAssumption DEF Sound, Call
<1>2. \A scope, id : HasSet(S, scope, id) => id \in SetIds /\ S[id] \in RuleSet
  BY DEF HasSet, Stored, SetTable
<1>3. \A scope, set, id : HasVersion(V, scope, set, id) =>
         /\ id \in VersionIds /\ V[id] \in RuleVersion /\ V[id].number \in Nat
  BY DEF HasVersion, Stored, VersionTable, RuleVersion
<1>4. CASE c.op = "createRuleSet"
  <2>1. CreatesSet(r, S) /\ NewSet(c) # None
    BY <1>1, <1>4, ImagesTyped, NoneAssumption DEF Conforms
  <2>2. QED
    BY <1>4, <2>1
    DEF CreatesSet, Inserts, SetsAfter, VersionsAfter, OutboxAfter
<1>5. CASE c.op = "updateRuleSet"
  <2>1. UpdatesSet(r, S) /\ HasSet(S, c.scope, c.set)
    BY <1>1, <1>5 DEF Conforms, UpdatesSet
  <2>2. UpdatedSet(S[c.set], c) # None
    BY <1>1, <1>2, <1>5, <2>1, ImagesTyped, NoneAssumption
  <2>3. QED
    BY <1>5, <2>1, <2>2
    DEF UpdatesSet, Revises, SetsAfter, VersionsAfter, OutboxAfter
<1>6. CASE c.op = "createRuleVersion"
  <2>1. CreatesVersion(r, S, V) /\ HasSet(S, c.scope, c.set)
    BY <1>1, <1>6 DEF Conforms, CreatesVersion
  <2>2. NewVersion(c, NextNumber(V, c.scope, c.set)) # None
    BY <1>1, <1>2, <1>6, <2>1, NextNumberFree, ImagesTyped, NoneAssumption
  <2>3. QED
    BY <1>6, <2>1, <2>2
    DEF CreatesVersion, Drafts, SetsAfter, VersionsAfter, OutboxAfter
<1>7. CASE c.op = "publishRuleVersion"
  <2>1. /\ PublishesVersion(r, S, V) /\ HasSet(S, c.scope, c.set)
        /\ HasVersion(V, c.scope, c.set, c.ver)
    BY <1>1, <1>7 DEF Conforms, PublishesVersion
  <2>2. /\ ActivatedSet(S[c.set], V[c.ver].number, c) # None
        /\ PublishedVersion(V[c.ver], c) # None
    BY <1>1, <1>2, <1>3, <2>1, ImagesTyped, NoneAssumption
  <2>3. /\ r.event = [scope |-> c.scope, set |-> c.set, ver |-> c.ver,
                      number |-> V[c.ver].number, rev |-> c.expSet + 1,
                      name |-> r.seenSet.name]
        /\ r.seenSet.name \in Names /\ c.expSet \in Nat
    BY <1>1, <2>1 DEF PublishesVersion, RuleSet, Call
  <2>4. r.event \in OutboxEvent
    BY <1>1, <1>2, <1>3, <2>1, <2>3 DEF OutboxEvent
  <2>5. Announced(r.event) =
                        [scope |-> c.scope, set |-> c.set, ver |-> c.ver,
                         number |-> V[c.ver].number, rev |-> c.expSet + 1]
    BY <2>3 DEF Announced
  <2>6. r.event # None
    BY <2>4, RequestAssumption
  <2>7. QED
    BY <1>7, <2>1, <2>2, <2>4, <2>5, <2>6
    DEF PublishesVersion, Publishes, Revises, SetsAfter, VersionsAfter,
        OutboxAfter
<1>8. QED
  BY <1>1, <1>4, <1>5, <1>6, <1>7 DEF Ops

(* The four changes move the tables as SetsMove and VersionsMove say.      *)
LEMMA InsertsMove ==
    ASSUME NEW r, NEW S \in SetTable, NEW S2, Inserts(r, S, S2),
           NewSet(r.call) \in RuleSet
    PROVE  /\ SetsMove(S, S2)
           /\ Stored(S2) = Stored(S) \cup {r.set}
           /\ S2[r.set] = NewSet(r.call)
           /\ \A id \in SetIds : id # r.set => S2[id] = S[id]
<1>1. S2 \in SetTable
  BY DEF Inserts, SetTable
<1>2. /\ S2[r.set] = NewSet(r.call)
      /\ \A id \in SetIds : id # r.set => S2[id] = S[id]
  BY DEF Inserts, SetTable
<1>3. Stored(S2) = Stored(S) \cup {r.set}
  BY <1>1, <1>2, NoneAssumption DEF Inserts, SetTable, Stored
<1>4. QED
  BY <1>1, <1>2, <1>3 DEF SetsMove, Inserts, Stored, SetTable

LEMMA RevisesMove ==
    ASSUME NEW r, NEW row \in RuleSet, NEW S \in SetTable, NEW S2,
           Revises(r, row, S, S2), r.call.expSet \in Nat,
           row.scope = S[r.call.set].scope, row.code = S[r.call.set].code,
           row.version = S[r.call.set].version + 1
    PROVE  /\ SetsMove(S, S2)
           /\ r.call.set \in SetIds /\ S[r.call.set] # None
           /\ S2[r.call.set] = row
           /\ HasSet(S2, r.call.scope, r.call.set)
           /\ S2[r.call.set].version > r.call.expSet
           /\ \A id \in SetIds : id # r.call.set => S2[id] = S[id]
           /\ \A scope, code : CodeTaken(S2, scope, code)
                                  => CodeTaken(S, scope, code)
<1> DEFINE s == r.call.set
<1>1. /\ s \in SetIds /\ S[s] # None /\ s \in Stored(S)
      /\ S[s].version = r.call.expSet /\ S2 = [S EXCEPT ![s] = row]
      /\ S[s].scope = r.call.scope
  BY DEF Revises, HasSet, Stored, SetTable
<1>2. S2 \in SetTable /\ row # None
  BY <1>1, NoneAssumption DEF SetTable
<1>3. S2[s] = row /\ \A id \in SetIds : id # s => S2[id] = S[id]
  BY <1>1 DEF SetTable
<1>4. Stored(S2) = Stored(S)
  BY <1>1, <1>2, <1>3 DEF SetTable, Stored
<1>5. \A id \in Stored(S) :
         S2[id].scope = S[id].scope /\ S2[id].code = S[id].code
  BY <1>3 DEF Stored, SetTable
<1>6. S2[s].version > S[s].version
  BY <1>1, <1>3
<1>7. SetsMove(S, S2)
  BY <1>2, <1>3, <1>4, <1>5, <1>6 DEF SetsMove, Stored, SetTable
<1>8. \A scope, code : CodeTaken(S2, scope, code) => CodeTaken(S, scope, code)
  BY <1>4, <1>5 DEF CodeTaken
<1>9. QED
  BY <1>1, <1>3, <1>4, <1>5, <1>6, <1>7, <1>8 DEF HasSet

LEMMA DraftsMove ==
    ASSUME NEW r, NEW S \in SetTable, NEW V \in VersionTable, NEW V2,
           NumbersRange(V), Drafts(r, S, V, V2),
           r.call \in Calls, Admissible(r.call),
           r.call.op = "createRuleVersion"
    PROVE  LET c == r.call
           IN  /\ VersionsMove(V, V2) /\ NumbersRange(V2)
               /\ \A id \in VersionIds : id # r.ver => V2[id] = V[id]
               /\ \A scope, set : set # c.set =>
                     VersionsOf(V2, scope, set) = VersionsOf(V, scope, set)
               /\ r.ver \in WithKey(V2, c.scope, c.set, c.key)
               /\ V2[r.ver].sum = Checksum(c.text)
<1> DEFINE c == r.call
           n == NextNumber(V, c.scope, c.set)
           row == NewVersion(c, n)
<1>1. c.set \in SetIds /\ c.scope \in Scopes
  BY CallAssumption DEF Drafts, HasSet, Stored, SetTable, Call
<1>2. row \in RuleVersion /\ row # None
  BY <1>1, NextNumberFree, ImagesTyped, NoneAssumption
<1>3. /\ row.scope = c.scope /\ row.set = c.set /\ row.number = n
      /\ row.key = c.key /\ row.sum = Checksum(c.text)
  BY DEF NewVersion
<1>4. /\ r.ver \in VersionIds /\ V[r.ver] = None
      /\ V2 \in VersionTable
      /\ V2[r.ver] = row
      /\ \A id \in VersionIds : id # r.ver => V2[id] = V[id]
  BY <1>2 DEF Drafts, VersionTable
<1>5. /\ Stored(V2) = Stored(V) \cup {r.ver} /\ r.ver \notin Stored(V)
      /\ \A id \in Stored(V) : V2[id] = V[id]
  BY <1>2, <1>4 DEF Stored, VersionTable
<1>6. VersionsMove(V, V2)
  BY <1>4, <1>5 DEF VersionsMove
<1>7. \A scope, set : scope # c.scope \/ set # c.set =>
         VersionsOf(V2, scope, set) = VersionsOf(V, scope, set)
  BY <1>3, <1>4, <1>5 DEF VersionsOf, HasVersion
<1>8. VersionsOf(V2, c.scope, c.set)
         = VersionsOf(V, c.scope, c.set) \cup {r.ver}
  BY <1>3, <1>4, <1>5 DEF VersionsOf, HasVersion
<1>9. NumbersRange(V2)
  <2> SUFFICES ASSUME NEW scope \in Scopes, NEW set \in SetIds
               PROVE  \E m \in Nat : Numbers(V2, scope, set) = 1 .. m
    BY DEF NumbersRange
  <2>1. \A id \in VersionsOf(V, scope, set) : V2[id] = V[id]
    BY <1>5 DEF VersionsOf
  <2>2. CASE scope # c.scope \/ set # c.set
    <3>1. Numbers(V2, scope, set) = Numbers(V, scope, set)
      BY <1>7, <2>1, <2>2 DEF Numbers
    <3>2. QED
      BY <3>1 DEF NumbersRange
  <2>3. CASE scope = c.scope /\ set = c.set
    <3>1. Numbers(V2, scope, set) = Numbers(V, scope, set) \cup {n}
      BY <1>3, <1>4, <1>8, <2>1, <2>3 DEF Numbers
    <3>2. PICK m \in Nat : Numbers(V, scope, set) = 1 .. m /\ n = m + 1
      BY <1>1, <2>3, NextNumberFree
    <3>3. Numbers(V2, scope, set) = 1 .. (m + 1)
      BY <3>1, <3>2
    <3>4. QED
      BY <3>2, <3>3
  <2>4. QED
    BY <2>2, <2>3
<1>10. r.ver \in WithKey(V2, c.scope, c.set, c.key)
  BY <1>3, <1>4, <1>8 DEF WithKey
<1>11. QED
  BY <1>3, <1>4, <1>6, <1>7, <1>9, <1>10

LEMMA PublishesMove ==
    ASSUME NEW r, NEW V \in VersionTable, NEW V2,
           NumbersRange(V), Publishes(r, V, V2),
           r.call \in Calls, Admissible(r.call)
    PROVE  LET c == r.call
           IN  /\ VersionsMove(V, V2) /\ NumbersRange(V2)
               /\ c.ver \in VersionIds /\ V[c.ver] # None
               /\ \A id \in VersionIds : id # c.ver => V2[id] = V[id]
               /\ \A scope, set :
                     VersionsOf(V2, scope, set) = VersionsOf(V, scope, set)
               /\ HasVersion(V2, c.scope, c.set, c.ver)
               /\ V2[c.ver].status = "published"
<1> DEFINE c == r.call
           old == V[c.ver]
           row == PublishedVersion(old, c)
<1>1. /\ c.ver \in VersionIds /\ old # None /\ old \in RuleVersion
      /\ c.ver \in Stored(V)
  BY DEF Publishes, HasVersion, Stored, VersionTable
<1>2. row \in RuleVersion /\ row # None
  BY <1>1, ImagesTyped, NoneAssumption
<1>3. /\ row.scope = old.scope /\ row.set = old.set /\ row.number = old.number
      /\ row.key = old.key /\ row.def = old.def /\ row.sum = old.sum
      /\ row.status = "published"
  BY <1>1 DEF PublishedVersion, RuleVersion
<1>4. /\ V2 \in VersionTable
      /\ V2[c.ver] = row
      /\ \A id \in VersionIds : id # c.ver => V2[id] = V[id]
  BY <1>1, <1>2 DEF Publishes, VersionTable
<1>5. Stored(V2) = Stored(V)
  BY <1>1, <1>2, <1>4 DEF Stored, VersionTable
<1>6. VersionsMove(V, V2)
  BY <1>3, <1>4, <1>5 DEF VersionsMove, Stored, VersionTable, Publishes
<1>7. \A scope, set : VersionsOf(V2, scope, set) = VersionsOf(V, scope, set)
  BY <1>5, <1>6 DEF VersionsOf, HasVersion, VersionsMove
<1>8. \A scope, set : Numbers(V2, scope, set) = Numbers(V, scope, set)
  <2> SUFFICES ASSUME NEW scope, NEW set
               PROVE  Numbers(V2, scope, set) = Numbers(V, scope, set)
    OBVIOUS
  <2>1. \A id \in VersionsOf(V, scope, set) : V2[id].number = V[id].number
    BY <1>6 DEF VersionsOf, VersionsMove
  <2>2. QED
    BY <1>7, <2>1 DEF Numbers
<1>9. NumbersRange(V2)
  BY <1>8 DEF NumbersRange
<1>10. HasVersion(V2, c.scope, c.set, c.ver)
  BY <1>3, <1>4, <1>5 DEF Publishes, HasVersion
<1>11. QED
  BY <1>1, <1>3, <1>4, <1>6, <1>7, <1>9, <1>10

LEMMA SameTables ==
    /\ \A S \in SetTable : SetsMove(S, S)
    /\ \A V \in VersionTable : VersionsMove(V, V)
BY DEF SetsMove, VersionsMove

(* The commit of r: its call is durable, and no other request is touched.  *)
LEMMA CommitMoves ==
    ASSUME NEW r \in Request, NEW S \in SetTable, NEW V \in VersionTable,
           NEW X, X \subseteq OutboxEvent, NumbersRange(V),
           r.pc = "commit", Sound(r, S, V, X)
    PROVE  LET S2 == SetsAfter(r, S)
               V2 == VersionsAfter(r, V)
               X2 == OutboxAfter(r, X)
           IN  /\ SetsMove(S, S2) /\ VersionsMove(V, V2)
               /\ X \subseteq X2 /\ X2 \subseteq OutboxEvent
               /\ NumbersRange(V2)
               /\ Durable(r.call, S2, V2, X2)
               /\ \A q : Apart(r, q) /\ Sound(q, S, V, X)
                            => Untouched(q, S, V, S2, V2)
<1> DEFINE c == r.call
           S2 == SetsAfter(r, S)
           V2 == VersionsAfter(r, V)
           X2 == OutboxAfter(r, X)
           Goal == /\ SetsMove(S, S2) /\ VersionsMove(V, V2)
                   /\ X \subseteq X2 /\ X2 \subseteq OutboxEvent
                   /\ NumbersRange(V2)
                   /\ Durable(c, S2, V2, X2)
                   /\ \A q : Apart(r, q) /\ Sound(q, S, V, X)
                                => Untouched(q, S, V, S2, V2)
<1> HIDE DEF S2, V2, X2
<1>1. /\ c \in Calls /\ Admissible(c) /\ r.pc # "idle" /\ c.expSet \in Nat
  BY CallAssumption DEF Sound, Call
<1>2. \A q : Sound(q, S, V, X) =>
         /\ Running(q, "createRuleSet") =>
               /\ q.set \in SetIds /\ S[q.set] = None
               /\ q.newSet # None => q.newSet = NewSet(q.call)
         /\ Running(q, "createRuleVersion") =>
               q.ver \in VersionIds /\ V[q.ver] = None
  BY DEF Sound, Conforms, Running, CreatesSet, CreatesVersion, Quiet
<1>3. ASSUME c.op = "createRuleSet", Inserts(r, S, S2), V2 = V, X2 = X
      PROVE  Goal
  <2>1. NewSet(c) \in RuleSet /\ NewSet(c) # None
    BY <1>1, <1>3, ImagesTyped, NoneAssumption
  <2>2. /\ SetsMove(S, S2) /\ VersionsMove(V, V2)
        /\ Stored(S2) = Stored(S) \cup {r.set}
        /\ S2[r.set] = NewSet(c)
        /\ \A id \in SetIds : id # r.set => S2[id] = S[id]
    BY <1>3, <2>1, InsertsMove, SameTables
  <2>3. Durable(c, S2, V2, X2)
    BY <1>3, <2>2 DEF Durable, CodeTaken, NewSet
  <2>4. ASSUME NEW q, Apart(r, q), Sound(q, S, V, X)
        PROVE  Untouched(q, S, V, S2, V2)
    <3>1. r.set \notin q.locks
      BY <1>3, <2>4 DEF Inserts, Apart
    <3>2. ASSUME Running(q, "createRuleSet")
          PROVE  /\ S2[q.set] = S[q.set]
                 /\ /\ q.newSet # None
                    /\ CodeTaken(S2, q.newSet.scope, q.newSet.code)
                    => CodeTaken(S, q.newSet.scope, q.newSet.code)
      <4>1. /\ q.set # r.set /\ q.set \in SetIds
            /\ q.newSet # None =>
                  \/ NewSet(c).scope # q.newSet.scope
                  \/ NewSet(c).code # q.newSet.code
        BY <1>1, <1>2, <1>3, <2>1, <2>4, <3>2 DEF Apart, Running, Inserts
      <4>2. \A id \in Stored(S2) : id # r.set =>
               id \in Stored(S) /\ S2[id] = S[id]
        BY <2>2 DEF Stored, SetTable
      <4>3. QED
        BY <2>2, <4>1, <4>2 DEF CodeTaken
    <3>3. QED
      BY <1>3, <2>2, <3>1, <3>2 DEF Untouched
  <2>5. QED
    BY <1>3, <2>2, <2>3, <2>4
<1>4. ASSUME NEW row \in RuleSet, Revises(r, row, S, S2),
             row.scope = S[c.set].scope, row.code = S[c.set].code,
             row.version = S[c.set].version + 1
      PROVE  /\ SetsMove(S, S2)
             /\ HasSet(S2, c.scope, c.set) /\ S2[c.set].version > c.expSet
             /\ \A q : Apart(r, q) /\ Sound(q, S, V, X) =>
                   /\ \A id \in q.locks \cap SetIds :
                         id # c.set /\ S2[id] = S[id]
                   /\ Running(q, "createRuleSet") =>
                         /\ S2[q.set] = S[q.set]
                         /\ \A scope, code : CodeTaken(S2, scope, code)
                                                => CodeTaken(S, scope, code)
  <2>1. /\ SetsMove(S, S2)
        /\ c.set \in SetIds /\ S[c.set] # None
        /\ HasSet(S2, c.scope, c.set) /\ S2[c.set].version > c.expSet
        /\ \A id \in SetIds : id # c.set => S2[id] = S[id]
        /\ \A scope, code : CodeTaken(S2, scope, code)
                               => CodeTaken(S, scope, code)
    BY <1>1, <1>4, RevisesMove
  <2>2. \A q : Apart(r, q) => c.set \notin q.locks
    BY <1>4 DEF Revises, Apart
  <2>3. QED
    BY <1>2, <2>1, <2>2
<1>5. ASSUME c.op = "updateRuleSet", Revises(r, UpdatedSet(S[c.set], c), S, S2),
             V2 = V, X2 = X
      PROVE  Goal
  <2>1. S[c.set] \in RuleSet
    BY <1>5 DEF Revises, HasSet, Stored, SetTable
  <2> DEFINE row == UpdatedSet(S[c.set], c)
  <2>2. /\ row \in RuleSet
        /\ row.scope = S[c.set].scope /\ row.code = S[c.set].code
        /\ row.version = S[c.set].version + 1
    BY <1>1, <1>5, <2>1, ImagesTyped DEF UpdatedSet, RuleSet
  <2>3. /\ SetsMove(S, S2)
        /\ HasSet(S2, c.scope, c.set) /\ S2[c.set].version > c.expSet
    BY <1>4, <1>5, <2>2
  <2>4. \A q : Apart(r, q) /\ Sound(q, S, V, X) => Untouched(q, S, V, S2, V2)
    BY <1>4, <1>5, <2>2 DEF Untouched
  <2>5. QED
    BY <1>5, <2>3, <2>4, SameTables DEF Durable
<1>6. ASSUME c.op = "createRuleVersion",
             \E v \in WithKey(V, c.scope, c.set, c.key) :
                V[v].sum = Checksum(c.text),
             S2 = S, V2 = V, X2 = X
      PROVE  Goal
  BY <1>6, SameTables DEF Durable, Untouched
<1>7. ASSUME c.op = "createRuleVersion", Drafts(r, S, V, V2), S2 = S, X2 = X
      PROVE  Goal
  <2>1. /\ VersionsMove(V, V2) /\ NumbersRange(V2)
        /\ \A id \in VersionIds : id # r.ver => V2[id] = V[id]
        /\ \A scope, set : set # c.set =>
              VersionsOf(V2, scope, set) = VersionsOf(V, scope, set)
        /\ r.ver \in WithKey(V2, c.scope, c.set, c.key)
        /\ V2[r.ver].sum = Checksum(c.text)
    BY <1>1, <1>7, DraftsMove
  <2>2. Durable(c, S2, V2, X2)
    BY <1>7, <2>1 DEF Durable
  <2>3. ASSUME NEW q, Apart(r, q), Sound(q, S, V, X)
        PROVE  Untouched(q, S, V, S2, V2)
    <3>1. c.set \notin q.locks /\ r.ver \notin q.locks
      BY <1>7, <2>3 DEF Drafts, Apart
    <3>2. Running(q, "createRuleVersion") =>
             q.ver # r.ver /\ q.ver \in VersionIds
      BY <1>1, <1>2, <1>7, <2>3 DEF Apart, Running
    <3>3. QED
      BY <1>7, <2>1, <3>1, <3>2 DEF Untouched
  <2>4. QED
    BY <1>7, <2>1, <2>2, <2>3, SameTables
<1>8. ASSUME c.op = "publishRuleVersion", Publishes(r, V, V2),
             Revises(r, ActivatedSet(S[c.set], V[c.ver].number, c), S, S2),
             X2 = X \cup {r.event}, r.event \in OutboxEvent,
             Announced(r.event) =
                [scope |-> c.scope, set |-> c.set, ver |-> c.ver,
                 number |-> V[c.ver].number, rev |-> c.expSet + 1]
      PROVE  Goal
  <2> DEFINE row == ActivatedSet(S[c.set], V[c.ver].number, c)
  <2>1. S[c.set] \in RuleSet /\ V[c.ver].number \in Nat
    BY <1>8 DEF Revises, Publishes, HasSet, HasVersion, Stored, SetTable,
                VersionTable, RuleVersion
  <2>2. /\ row \in RuleSet
        /\ row.scope = S[c.set].scope /\ row.code = S[c.set].code
        /\ row.version = S[c.set].version + 1
    BY <1>1, <2>1, ImagesTyped DEF ActivatedSet, RuleSet
  <2>3. /\ SetsMove(S, S2)
        /\ HasSet(S2, c.scope, c.set) /\ S2[c.set].version > c.expSet
    BY <1>4, <1>8, <2>2
  <2>4. /\ VersionsMove(V, V2) /\ NumbersRange(V2)
        /\ c.ver \in VersionIds /\ V[c.ver] # None
        /\ \A id \in VersionIds : id # c.ver => V2[id] = V[id]
        /\ \A scope, set :
              VersionsOf(V2, scope, set) = VersionsOf(V, scope, set)
        /\ HasVersion(V2, c.scope, c.set, c.ver)
        /\ V2[c.ver].status = "published"
    BY <1>1, <1>8, PublishesMove
  <2>5. r.event.ver = c.ver /\ r.event.rev = c.expSet + 1
    BY <1>8 DEF Announced
  <2>6. Durable(c, S2, V2, X2)
    BY <1>8, <2>3, <2>4, <2>5 DEF Durable
  <2>7. ASSUME NEW q, Apart(r, q), Sound(q, S, V, X)
        PROVE  Untouched(q, S, V, S2, V2)
    <3>1. c.ver \notin q.locks
      BY <1>8, <2>7 DEF Publishes, Apart
    <3>2. Running(q, "createRuleVersion") =>
             q.ver # c.ver /\ q.ver \in VersionIds
      BY <1>2, <2>4, <2>7
    <3>3. /\ \A id \in q.locks \cap SetIds : S2[id] = S[id]
          /\ Running(q, "createRuleSet") =>
                /\ S2[q.set] = S[q.set]
                /\ \A scope, code : CodeTaken(S2, scope, code)
                                       => CodeTaken(S, scope, code)
      BY <1>4, <1>8, <2>2, <2>7
    <3>4. QED
      BY <2>4, <3>1, <3>2, <3>3 DEF Untouched
  <2>8. QED
    BY <1>8, <2>3, <2>4, <2>6, <2>7
<1>9. QED
  BY <1>3, <1>5, <1>6, <1>7, <1>8, CommitEffect DEF S2, V2, X2

LEMMA CommitInv ==
    ASSUME TxInv, NEW w \in Workers, NEW code \in {"ok", "internal"},
           req[w].pc = "commit", Apply(req[w]), Answer(w, code)
    PROVE  TxInv'
<1> DEFINE r == req[w]
           c == r.call
           done == Idle(IF code = "ok" THEN c ELSE None, code)
<1>1. /\ req \in [Workers -> Request] /\ outbox \subseteq OutboxEvent
      /\ sets \in SetTable /\ versions \in VersionTable
      /\ NumbersRange(versions)
      /\ \A o \in Workers : Sound(req[o], sets, versions, outbox)
      /\ \A o, p \in Workers : o # p => Apart(req[o], req[p])
  BY DEF TxInv, TypeOK, SetTable, VersionTable
<1>2. /\ sets' = SetsAfter(r, sets)
      /\ versions' = VersionsAfter(r, versions)
      /\ outbox' = OutboxAfter(r, outbox)
      /\ req' = [req EXCEPT ![w] = done]
  BY DEF Apply, Answer, Become, SetsAfter, VersionsAfter, OutboxAfter
<1>3. /\ SetsMove(sets, sets') /\ VersionsMove(versions, versions')
      /\ outbox \subseteq outbox' /\ outbox' \subseteq OutboxEvent
      /\ NumbersRange(versions')
      /\ Durable(c, sets', versions', outbox')
      /\ \A q : Apart(r, q) /\ Sound(q, sets, versions, outbox)
                   => Untouched(q, sets, versions, sets', versions')
  BY <1>1, <1>2, CommitMoves
<1>4. c \in Calls
  BY <1>1 DEF Sound
<1>5. /\ done.pc = "idle" /\ done.locks = {} /\ Quiet(done)
      /\ done.out = code
      /\ code = "ok" => done.call = c
  BY DEF Idle, Quiet
<1>6. done \in Request
  BY <1>4 DEF Idle, Request, PCs, ReplyCodes
<1>7. TypeOK'
  BY <1>1, <1>2, <1>3, <1>6
  DEF TypeOK, SetsMove, VersionsMove, SetTable, VersionTable
<1>8. ASSUME NEW o \in Workers
      PROVE  Sound(req'[o], sets', versions', outbox')
  <2>1. CASE o = w
    BY <1>1, <1>2, <1>3, <1>4, <1>5, <2>1 DEF Sound
  <2>2. CASE o # w
    <3>1. req'[o] = req[o] /\ Apart(r, req[o])
      BY <1>1, <1>2, <2>2
    <3>2. QED
      BY <1>1, <1>3, <3>1, SoundStable
  <2>3. QED
    BY <2>1, <2>2
<1>9. ASSUME NEW q, Sound(q, sets, versions, outbox)
      PROVE  Apart(done, q)
  <2>1. ASSUME Wrote(done), Wrote(q), done.call.set = q.call.set
        PROVE  done.call.expSet # q.call.expSet
    <3>1. /\ done.call = c
          /\ c.op \in {"updateRuleSet", "publishRuleVersion"}
      BY <1>5, <2>1 DEF Wrote
    <3>2. sets[c.set].version = c.expSet
      BY <1>1, <3>1 DEF Sound, Conforms, UpdatesSet, PublishesVersion
    <3>3. sets[q.call.set].version > q.call.expSet
      BY <1>9, <2>1 DEF Sound, Wrote, Durable
    <3>4. c.expSet \in Nat /\ q.call.expSet \in Nat
      BY <1>4, <1>9, <2>1, CallAssumption DEF Call, Sound, Wrote
    <3>5. QED
      BY <2>1, <3>1, <3>2, <3>3, <3>4
  <2>2. QED
    BY <1>5, <2>1 DEF Apart, Running
<1>10. ASSUME NEW o \in Workers, NEW p \in Workers, o # p
       PROVE  Apart(req'[o], req'[p])
  <2>1. CASE o = w
    BY <1>1, <1>2, <1>9, <1>10, <2>1
  <2>2. CASE p = w
    BY <1>1, <1>2, <1>9, <1>10, <2>2, ApartSymmetric
  <2>3. CASE o # w /\ p # w
    BY <1>1, <1>2, <1>10, <2>3
  <2>4. QED
    BY <2>1, <2>2, <2>3
<1>11. QED
  BY <1>3, <1>7, <1>8, <1>10 DEF TxInv
-----------------------------------------------------------------------------
(* The theorems *)

LEMMA InitInv == Init => TxInv
<1> SUFFICES ASSUME Init PROVE TxInv
  OBVIOUS
<1>1. \A w \in Workers : req[w] = Idle(None, None)
  BY DEF Init
<1>2. /\ Idle(None, None) \in Request
      /\ Sound(Idle(None, None), sets, versions, outbox)
      /\ Apart(Idle(None, None), Idle(None, None))
  BY RequestAssumption
  DEF Idle, Request, PCs, ReplyCodes, Sound, Quiet, Apart, Running, Wrote
<1>3. TypeOK
  BY <1>2 DEF Init, TypeOK
<1>4. NumbersRange(versions)
  <2> SUFFICES ASSUME NEW scope \in Scopes, NEW s \in SetIds
               PROVE  \E n \in Nat : Numbers(versions, scope, s) = 1 .. n
    BY DEF NumbersRange
  <2>1. Numbers(versions, scope, s) = {}
    BY DEF Init, Numbers, VersionsOf, Stored
  <2>2. Numbers(versions, scope, s) = 1 .. 0
    BY <2>1
  <2>3. QED
    BY <2>2
<1>5. QED
  BY <1>1, <1>2, <1>3, <1>4 DEF TxInv

LEMMA StepInv == TxInv /\ [Next]_vars => TxInv'
<1> SUFFICES ASSUME TxInv, [Next]_vars PROVE TxInv'
  OBVIOUS
<1>1. CASE UNCHANGED vars
  BY <1>1 DEF vars, TxInv, TypeOK
<1>2. ASSUME NEW w \in Workers, NEW c \in Calls, Refuse(w, c) \/ Admit(w, c)
      PROVE  TxInv'
  BY <1>2, RefuseInv, AdmitInv
<1>3. ASSUME NEW w \in Workers, Step(w)
      PROVE  TxInv'
  <2>1. CASE \/ InsertSet(w) \/ ReadSet(w) \/ UpdateSet(w) \/ LockSet(w)
             \/ SelectExisting(w) \/ SelectMax(w) \/ InsertVersion(w)
    BY <2>1, InsertSetInv, ReadSetInv, UpdateSetInv, LockSetInv,
       SelectExistingInv, SelectMaxInv, InsertVersionInv
  <2>2. CASE \/ ReadVersion(w) \/ PublishVersion(w) \/ PublishSet(w)
             \/ AddOutbox(w)
    BY <2>2, ReadVersionInv, PublishVersionInv, PublishSetInv, AddOutboxInv
  <2>3. CASE Commit(w) \/ CommitUnacked(w)
    BY <2>3, CommitInv DEF Commit, CommitUnacked
  <2>4. QED
    BY <1>3, <2>1, <2>2, <2>3 DEF Step
<1>4. ASSUME NEW w \in Workers, Fail(w)
      PROVE  TxInv'
  BY <1>4, FailInv
<1>5. QED
  BY <1>1, <1>2, <1>3, <1>4 DEF Next

(* The invariant holds whatever the requests do and wherever they fail.    *)
THEOREM TransactionsSafe == Spec => []TxInv
BY InitInv, StepInv, PTL DEF Spec

(* Tables, outbox and requests keep their types, for any number of workers.*)
THEOREM TypesCorrect == Spec => []TypeOK
<1>1. TxInv => TypeOK
  BY DEF TxInv
<1>2. QED
  BY <1>1, TransactionsSafe, PTL

(* An INSERT of CreateRuleVersion never meets a unique violation: the lock *)
(* of the rule set is held since before the key and the maximum were read. *)
THEOREM NoRaceOnVersions == Spec => []NoConstraintRace
<1>1. TxInv => NoConstraintRace
  <2> SUFFICES ASSUME TxInv, NEW w \in Workers, req[w].pc = "insertVersion"
               PROVE  /\ ~Collides(req[w].seenVer)
                      /\ \A o \in Workers \ {w} :
                            req[o].newVer # None =>
                               \/ req[o].newVer.set # req[w].call.set
                               \/ req[o].call.op # "createRuleVersion"
    BY DEF NoConstraintRace
  <2> DEFINE r == req[w]
             c == r.call
             number == NextNumber(versions, c.scope, c.set)
  <2>1. /\ CreatesVersion(r, sets, versions) /\ c.scope \in Scopes
        /\ c.set \in SetIds
    BY WhoIsWhere, RequestFacts DEF CreatesVersion, HasSet, Stored
  <2>2. ~Collides(r.seenVer)
    <3>1. r.seenVer = NewVersion(c, number)
      BY <2>1 DEF CreatesVersion
    <3>2. /\ r.seenVer.scope = c.scope /\ r.seenVer.set = c.set
          /\ r.seenVer.number = number /\ r.seenVer.key = c.key
      BY <3>1 DEF NewVersion
    <3>3. \A v \in VersionsOf(versions, c.scope, c.set) :
             versions[v].key # c.key
      BY <2>1 DEF CreatesVersion, WithKey
    <3>4. \A v \in VersionsOf(versions, c.scope, c.set) :
             versions[v].number # number
      BY <2>1, NextNumberFree DEF TxInv, Numbers
    <3>5. QED
      BY <3>2, <3>3, <3>4 DEF Collides
  <2>3. ASSUME NEW o \in Workers \ {w}, req[o].newVer # None,
               req[o].call.op = "createRuleVersion"
        PROVE  req[o].newVer.set # c.set
    <3>1. req[o].pc # "idle"
      BY <2>3, RequestFacts DEF Sound, Quiet
    <3>2. CreatesVersion(req[o], sets, versions)
      BY <2>3, <3>1, WhoIsWhere
    <3>3. /\ req[o].call.set \in req[o].locks
          /\ req[o].newVer.set = req[o].call.set
      BY <2>3, <3>2 DEF CreatesVersion, NewVersion
    <3>4. c.set \in r.locks
      BY <2>1 DEF CreatesVersion
    <3>5. r.locks \cap req[o].locks = {}
      BY RequestFacts DEF Apart
    <3>6. QED
      BY <3>3, <3>4, <3>5
  <2>4. QED
    BY <2>2, <2>3
<1>2. QED
  BY <1>1, TransactionsSafe, PTL

(* What UpdateRuleSet and PublishRuleVersion answer, and what the event    *)
(* says, is what the transaction writes, although it was read before.      *)
THEOREM RepliesDescribeCommits == Spec => []ReplyDescribesCommit
<1>1. TxInv => ReplyDescribesCommit
  <2> SUFFICES ASSUME TxInv, NEW w \in Workers,
                      req[w].pc = "commit", req[w].informed,
                      req[w].call.op \in {"updateRuleSet", "publishRuleVersion"}
               PROVE  /\ req[w].seenSet = req[w].newSet
                      /\ req[w].event # None =>
                            req[w].event.name = req[w].newSet.name
                      /\ req[w].seenVer = req[w].newVer
    BY DEF ReplyDescribesCommit
  <2>1. CASE req[w].call.op = "updateRuleSet"
    BY <2>1, WhoIsWhere DEF UpdatesSet
  <2>2. CASE req[w].call.op = "publishRuleVersion"
    <3>1. PublishesVersion(req[w], sets, versions)
      BY <2>2, WhoIsWhere
    <3>2. QED
      BY <3>1 DEF PublishesVersion
  <2>3. QED
    BY <2>1, <2>2
<1>2. QED
  BY <1>1, TransactionsSafe, PTL

LEMMA EffectIsDurable ==
    ASSUME NEW c, c.op \in Ops
    PROVE  /\ TookEffect(c) <=> Durable(c, sets, versions, outbox)
           /\ TookEffect(c)' <=> Durable(c, sets', versions', outbox')
BY DEF TookEffect, Durable, Ops

(* An acknowledged write is in the tables, whatever the others do later.   *)
THEOREM AckedWritesStay == Spec => []AckedWritesDurable
<1>1. TxInv => AckedWritesDurable
  <2> SUFFICES ASSUME TxInv, NEW w \in Workers, req[w].out = "ok"
               PROVE  TookEffect(req[w].call)
    BY DEF AckedWritesDurable
  <2>1. /\ Durable(req[w].call, sets, versions, outbox)
        /\ req[w].call.op \in Ops
    BY RequestFacts, CallAssumption DEF Sound, Call
  <2>2. QED
    BY <2>1 DEF Durable, TookEffect, Ops
<1>2. QED
  BY <1>1, TransactionsSafe, PTL

(* What a request that is about to commit asks for is not in the tables    *)
(* yet, or its transaction has no write.                                   *)
LEMMA CommitIsNew ==
    ASSUME TxInv, NEW w \in Workers, req[w].pc = "commit"
    PROVE  \/ ~TookEffect(req[w].call)
           \/ /\ req[w].newSet = None /\ req[w].newVer = None
              /\ req[w].event = None
<1> DEFINE r == req[w]
           c == r.call
<1>1. c.expSet \in Nat /\ c.op \in Ops
  BY WhoIsWhere DEF Call
<1>2. CASE c.op = "createRuleSet"
  BY <1>2, WhoIsWhere DEF CreatesSet, TookEffect
<1>3. CASE c.op = "updateRuleSet"
  <2>1. sets[c.set].version = c.expSet
    BY <1>3, WhoIsWhere DEF UpdatesSet
  <2>2. QED
    BY <1>1, <1>3, <2>1 DEF TookEffect
<1>4. CASE c.op = "createRuleVersion"
  <2>1. CreatesVersion(r, sets, versions)
    BY <1>4, WhoIsWhere
  <2>2. CASE WithKey(versions, c.scope, c.set, c.key) = {}
    BY <1>4, <2>2 DEF TookEffect
  <2>3. CASE r.newVer = None
    BY <2>1, <2>3 DEF CreatesVersion
  <2>4. QED
    BY <2>1, <2>2, <2>3 DEF CreatesVersion
<1>5. CASE c.op = "publishRuleVersion"
  <2>1. versions[c.ver].status = "draft"
    BY <1>5, WhoIsWhere DEF PublishesVersion
  <2>2. QED
    BY <1>5, <2>1 DEF TookEffect
<1>6. QED
  BY <1>1, <1>2, <1>3, <1>4, <1>5 DEF Ops

(* A commit undoes nothing.                                                *)
LEMMA CommitKeeps ==
    ASSUME TxInv, NEW w \in Workers, req[w].pc = "commit", Apply(req[w]),
           NEW c \in Calls, TookEffect(c)
    PROVE  TookEffect(c)'
<1>1. /\ sets \in SetTable /\ versions \in VersionTable
      /\ outbox \subseteq OutboxEvent /\ NumbersRange(versions)
      /\ req[w] \in Request /\ Sound(req[w], sets, versions, outbox)
  BY RequestFacts DEF TxInv, TypeOK, SetTable, VersionTable
<1>2. /\ sets' = SetsAfter(req[w], sets)
      /\ versions' = VersionsAfter(req[w], versions)
      /\ outbox' = OutboxAfter(req[w], outbox)
  BY DEF Apply, SetsAfter, VersionsAfter, OutboxAfter
<1>3. /\ SetsMove(sets, sets') /\ VersionsMove(versions, versions')
      /\ outbox \subseteq outbox'
  BY <1>1, <1>2, CommitMoves
<1>4. c.op \in Ops
  BY CallAssumption DEF Call
<1>5. Durable(c, sets, versions, outbox)
  BY <1>4, EffectIsDurable
<1>6. Durable(c, sets', versions', outbox')
  BY <1>1, <1>3, <1>5, DurableStable
<1>7. QED
  BY <1>4, <1>6, EffectIsDurable

(* A call takes effect at most once, exactly once if it was acknowledged:  *)
(* every writing commit finds its effect missing in the rows it has        *)
(* locked, and none takes an effect away.                                  *)
THEOREM EffectsAreUnique == Spec => EffectsHappenOnce
<1>1. TxInv /\ [Next]_vars =>
         [\/ UNCHANGED tables
          \/ /\ \E w \in Workers :
                   /\ req[w].pc = "commit" /\ req'[w].pc = "idle"
                   /\ ~TookEffect(req[w].call)
             /\ \A c \in Calls : TookEffect(c) => TookEffect(c)']_vars
  <2> SUFFICES ASSUME TxInv, [Next]_vars, ~UNCHANGED tables
               PROVE  /\ \E w \in Workers :
                            /\ req[w].pc = "commit" /\ req'[w].pc = "idle"
                            /\ ~TookEffect(req[w].call)
                      /\ \A c \in Calls : TookEffect(c) => TookEffect(c)'
    OBVIOUS
  <2>1. PICK w \in Workers : Commit(w) \/ CommitUnacked(w)
    BY DEF vars, tables, Next, Step, Refuse, Admit, Fail, InsertSet, ReadSet,
           UpdateSet, LockSet, SelectExisting, SelectMax, InsertVersion,
           ReadVersion, PublishVersion, PublishSet, AddOutbox
  <2>2. req[w].pc = "commit" /\ Apply(req[w])
    BY <2>1 DEF Commit, CommitUnacked
  <2>3. req'[w].pc = "idle"
    BY <2>1 DEF Commit, CommitUnacked, Answer, Become, Idle, TxInv, TypeOK
  <2>4. ~TookEffect(req[w].call)
    BY <2>2, CommitIsNew DEF Apply, tables
  <2>5. \A c \in Calls : TookEffect(c) => TookEffect(c)'
    BY <2>2, CommitKeeps
  <2>6. QED
    BY <2>2, <2>3, <2>4, <2>5
<1>2. QED
  BY <1>1, TransactionsSafe, AckedWritesStay, PTL
  DEF Spec, EffectsHappenOnce

(* Of the writers that expect one revision of a rule set one succeeds.     *)
THEOREM OneWriterWins == Spec => []OneWriterPerRevision
<1>1. TxInv => OneWriterPerRevision
  BY DEF TxInv, Apart, Wrote, OneWriterPerRevision
<1>2. QED
  BY <1>1, TransactionsSafe, PTL

(* Who waits for whom: only PublishRuleVersion takes a second lock that    *)
(* another request may hold, and it waits for one that waits for nobody.   *)
LEMMA WaitersHold ==
    ASSUME TxInv, NEW w \in Workers, NEW o \in Workers \ {w}, WaitsOn(w, o)
    PROVE  /\ req[w].pc \in {"updateSet", "lockSet", "publishVersion",
                             "publishSet"}
           /\ req[w].pc = "publishSet" => req[w].locks = {req[w].ver}
           /\ req[w].pc # "publishSet" => req[w].locks = {}
           /\ req[w].pc = "publishSet" => req[w].set \in req[o].locks
<1> DEFINE r == req[w]
           q == req[o]
<1>1. /\ r.pc \in {"insertSet", "updateSet", "lockSet", "publishSet",
                   "insertVersion", "publishVersion"}
      /\ r.pc \in {"insertSet", "updateSet", "lockSet", "publishSet"} =>
            r.set \in q.locks
      /\ r.pc \in {"insertVersion", "publishVersion"} => r.ver \in q.locks
  BY DEF WaitsOn, Needs
<1>2. q.pc # "idle"
  BY <1>1, RequestFacts DEF Sound, Quiet
<1>3. /\ \A s \in q.locks : \/ s \in SetIds /\ sets[s] # None
                            \/ s \in VersionIds /\ versions[s] # None
                            \/ q.call.op = "createRuleSet" /\ s = q.set
                               /\ q.set \in SetIds
                            \/ q.call.op = "createRuleVersion" /\ s = q.ver
                               /\ q.ver \in VersionIds
  <2>1. q.call.op \in Ops
    BY <1>2, WhoIsWhere DEF Call
  <2>2. CASE q.call.op = "createRuleSet"
    BY <1>2, <2>2, WhoIsWhere DEF CreatesSet, Quiet
  <2>3. CASE q.call.op = "updateRuleSet"
    BY <1>2, <2>3, WhoIsWhere, RequestFacts
    DEF UpdatesSet, Quiet, HasSet, Stored
  <2>4. CASE q.call.op = "createRuleVersion"
    <3>1. CreatesVersion(q, sets, versions)
      BY <1>2, <2>4, WhoIsWhere
    <3>2. q.pc # "lockSet" =>
             q.call.set \in SetIds /\ sets[q.call.set] # None
      BY <3>1, RequestFacts DEF CreatesVersion, HasSet, Stored
    <3>3. QED
      BY <2>4, <3>1, <3>2 DEF CreatesVersion
  <2>5. CASE q.call.op = "publishRuleVersion"
    <3>1. PublishesVersion(q, sets, versions)
      BY <1>2, <2>5, WhoIsWhere
    <3>2. q.pc # "readSet" =>
             q.call.set \in SetIds /\ sets[q.call.set] # None
      BY <3>1, RequestFacts DEF PublishesVersion, HasSet, Stored
    <3>3. q.pc \notin {"readSet", "readVersion"} =>
             q.call.ver \in VersionIds /\ versions[q.call.ver] # None
      BY <3>1, RequestFacts DEF PublishesVersion, HasVersion, Stored
    <3>4. QED
      BY <3>1, <3>2, <3>3 DEF PublishesVersion, Quiet
  <2>6. QED
    BY <2>1, <2>2, <2>3, <2>4, <2>5 DEF Ops
<1>4. r.pc # "insertSet"
  <2> SUFFICES ASSUME r.pc = "insertSet" PROVE FALSE
    OBVIOUS
  <2>1. /\ r.call.op = "createRuleSet"
        /\ r.set \in SetIds /\ sets[r.set] = None
    BY WhoIsWhere DEF CreatesSet
  <2>2. q.call.op = "createRuleSet" => r.set # q.set
    BY <1>2, <2>1, RequestFacts DEF Apart, Running
  <2>3. QED
    BY <1>1, <1>3, <2>1, <2>2, LockAssumption
<1>5. r.pc # "insertVersion"
  <2> SUFFICES ASSUME r.pc = "insertVersion" PROVE FALSE
    OBVIOUS
  <2>1. /\ r.call.op = "createRuleVersion"
        /\ r.ver \in VersionIds /\ versions[r.ver] = None
    BY WhoIsWhere DEF CreatesVersion
  <2>2. q.call.op = "createRuleVersion" => r.ver # q.ver
    BY <1>2, <2>1, RequestFacts DEF Apart, Running
  <2>3. QED
    BY <1>1, <1>3, <2>1, <2>2, LockAssumption
<1>6. /\ r.pc \in {"updateSet", "lockSet", "publishVersion"} => r.locks = {}
      /\ r.pc = "publishSet" => r.locks = {r.ver}
  BY WhoIsWhere DEF UpdatesSet, CreatesVersion, PublishesVersion, Quiet
<1>7. QED
  BY <1>1, <1>4, <1>5, <1>6

(* No circle: in one, everybody is waited for and so holds a lock, which   *)
(* only a request at publishSet does while it waits; the lock of a rule    *)
(* set that it waits for is not what another one at publishSet holds.      *)
THEOREM NeverWaitInCircle == Spec => []NoWaitCycle
<1>1. TxInv => NoWaitCycle
  <2> SUFFICES ASSUME TxInv, NEW C \in SUBSET Workers, C # {},
                      \A w \in C : \E o \in C \ {w} : WaitsOn(w, o)
               PROVE  FALSE
    BY DEF NoWaitCycle
  <2>1. PICK w \in C : TRUE
    OBVIOUS
  <2>2. PICK o \in C \ {w} : WaitsOn(w, o)
    OBVIOUS
  <2>3. PICK p \in C \ {o} : WaitsOn(o, p)
    OBVIOUS
  <2>4. PICK q \in C \ {p} : WaitsOn(p, q)
    OBVIOUS
  <2>5. req[o].locks # {} /\ req[p].locks # {}
    BY <2>2, <2>3 DEF WaitsOn
  <2>6. req[o].pc = "publishSet" /\ req[o].set \in req[p].locks
    BY <2>3, <2>5, WaitersHold
  <2>7. req[p].pc = "publishSet" /\ req[p].locks = {req[p].ver}
    BY <2>4, <2>5, WaitersHold
  <2>8. req[o].set \in SetIds
    BY <2>6, WhoIsWhere, RequestFacts DEF PublishesVersion, HasSet, Stored
  <2>9. req[p].ver \in VersionIds
    BY <2>7, WhoIsWhere, RequestFacts DEF PublishesVersion, HasVersion, Stored
  <2>10. QED
    BY <2>6, <2>7, <2>8, <2>9, LockAssumption
<1>2. QED
  BY <1>1, TransactionsSafe, PTL
-----------------------------------------------------------------------------
(* Every commit is one step of the atomic catalogue                        *)

(* RuleCatalog is instantiated with definitions of its own; they are the   *)
(* ones of this module.                                                    *)
LEMMA SameWords ==
    /\ \A t : Catalog!Stored(t) = Stored(t)
    /\ \A S, scope, id : Catalog!HasSet(S, scope, id) <=> HasSet(S, scope, id)
    /\ \A V, scope, set, id : Catalog!HasVersion(V, scope, set, id)
                                 <=> HasVersion(V, scope, set, id)
    /\ \A S, scope, code : Catalog!CodeTaken(S, scope, code)
                              <=> CodeTaken(S, scope, code)
    /\ \A V, scope, set, key : Catalog!WithKey(V, scope, set, key)
                                  = WithKey(V, scope, set, key)
    /\ \A V, scope, set : Catalog!NextNumber(V, scope, set)
                             = NextNumber(V, scope, set)
<1>1. \A t : Catalog!Stored(t) = Stored(t)
  BY DEF Catalog!Stored, Stored
<1>2. \A S, scope, id : Catalog!HasSet(S, scope, id) <=> HasSet(S, scope, id)
  BY <1>1 DEF Catalog!HasSet, HasSet
<1>3. \A V, scope, set, id : Catalog!HasVersion(V, scope, set, id)
                                <=> HasVersion(V, scope, set, id)
  BY <1>1 DEF Catalog!HasVersion, HasVersion
<1>4. \A V, scope, set : Catalog!VersionsOf(V, scope, set)
                            = VersionsOf(V, scope, set)
  BY <1>1, <1>3 DEF Catalog!VersionsOf, VersionsOf
<1>5. \A V, scope, set, key : Catalog!WithKey(V, scope, set, key)
                                 = WithKey(V, scope, set, key)
  BY <1>4 DEF Catalog!WithKey, WithKey
<1>6. \A V, scope, set : Catalog!Numbers(V, scope, set) = Numbers(V, scope, set)
  BY <1>4 DEF Catalog!Numbers, Numbers
<1>7. \A V, scope, set : Catalog!NextNumber(V, scope, set)
                            = NextNumber(V, scope, set)
  BY <1>6 DEF Catalog!NextNumber, NextNumber, Catalog!Max, Max
<1>8. \A S, scope, code : Catalog!CodeTaken(S, scope, code)
                             <=> CodeTaken(S, scope, code)
  BY <1>1 DEF Catalog!CodeTaken, CodeTaken
<1>9. QED
  BY <1>1, <1>2, <1>3, <1>5, <1>7, <1>8

LEMMA SameImages ==
    /\ \A c : Catalog!Admissible(c) <=> Admissible(c)
    /\ \A c : Catalog!NewSet(c) = NewSet(c)
    /\ \A row, c : Catalog!UpdatedSet(row, c) = UpdatedSet(row, c)
    /\ \A c, n : Catalog!NewVersion(c, n) = NewVersion(c, n)
    /\ \A row : Catalog!Publishable(row) <=> Publishable(row)
    /\ \A row, c : Catalog!PublishedVersion(row, c) = PublishedVersion(row, c)
    /\ \A row, n, c : Catalog!ActivatedSet(row, n, c) = ActivatedSet(row, n, c)
<1>1. \A text : /\ Catalog!Checksum(text) = Checksum(text)
                /\ Catalog!Compiles(text) <=> Compiles(text)
  BY DEF Catalog!Checksum, Checksum, Catalog!Compiles, Compiles
<1>2. \A c : Catalog!ValidRequest(c) <=> ValidRequest(c)
  BY <1>1
  DEF Catalog!ValidRequest, ValidRequest,
      Catalog!ValidCreateRuleSet, ValidCreateRuleSet,
      Catalog!ValidUpdateRuleSet, ValidUpdateRuleSet,
      Catalog!ValidCreateRuleVersion, ValidCreateRuleVersion,
      Catalog!ValidPublishRuleVersion, ValidPublishRuleVersion,
      Catalog!SetStatus, SetStatus
<1>3. \A c : Catalog!Admissible(c) <=> Admissible(c)
  BY <1>2 DEF Catalog!Admissible, Admissible, Catalog!Authorized, Authorized
<1>4. \A c, n : Catalog!NewVersion(c, n) = NewVersion(c, n)
  BY <1>1 DEF Catalog!NewVersion, NewVersion
<1>5. \A row : Catalog!Publishable(row) <=> Publishable(row)
  BY <1>1 DEF Catalog!Publishable, Publishable
<1>6. /\ \A c : Catalog!NewSet(c) = NewSet(c)
      /\ \A row, c : Catalog!UpdatedSet(row, c) = UpdatedSet(row, c)
      /\ \A row, c : Catalog!PublishedVersion(row, c) = PublishedVersion(row, c)
      /\ \A row, n, c :
            Catalog!ActivatedSet(row, n, c) = ActivatedSet(row, n, c)
  BY DEF Catalog!NewSet, NewSet, Catalog!UpdatedSet, UpdatedSet,
         Catalog!PublishedVersion, PublishedVersion,
         Catalog!ActivatedSet, ActivatedSet
<1>7. QED
  BY <1>3, <1>4, <1>5, <1>6

LEMMA CommitRefines ==
    ASSUME TxInv, NEW w \in Workers, req[w].pc = "commit", Apply(req[w])
    PROVE  Catalog!Next \/ UNCHANGED Catalog!vars
<1> DEFINE r == req[w]
           c == r.call
           ann(X) == {Announced(e) : e \in X}
<1>1. /\ sets' = SetsAfter(r, sets)
      /\ versions' = VersionsAfter(r, versions)
      /\ outbox' = OutboxAfter(r, outbox)
  BY DEF Apply, SetsAfter, VersionsAfter, OutboxAfter
<1>2. /\ r \in Request /\ sets \in SetTable /\ versions \in VersionTable
      /\ NumbersRange(versions) /\ Sound(r, sets, versions, outbox)
      /\ c \in Calls /\ Admissible(c)
  BY RequestFacts DEF TxInv, SetTable, VersionTable, Sound
<1>3. CASE /\ c.op = "createRuleSet" /\ Inserts(r, sets, sets')
           /\ versions' = versions /\ outbox' = outbox
  <2>1. /\ ~CodeTaken(sets, c.scope, c.code)
        /\ r.set \in SetIds \ Stored(sets)
        /\ sets' = [sets EXCEPT ![r.set] = NewSet(c)]
    BY <1>3 DEF Inserts, Stored
  <2>2. Catalog!CreateRuleSet(c)
    BY <1>2, <1>3, <2>1, SameWords, SameImages DEF Catalog!CreateRuleSet
  <2>3. QED
    BY <1>2, <2>2 DEF Catalog!Next
<1>4. CASE /\ c.op = "updateRuleSet"
           /\ Revises(r, UpdatedSet(sets[c.set], c), sets, sets')
           /\ versions' = versions /\ outbox' = outbox
  <2>1. Catalog!UpdateRuleSet(c)
    BY <1>2, <1>4, SameWords, SameImages DEF Catalog!UpdateRuleSet, Revises
  <2>2. QED
    BY <1>2, <2>1 DEF Catalog!Next
<1>5. CASE sets' = sets /\ versions' = versions /\ outbox' = outbox
  BY <1>5 DEF Catalog!vars
<1>6. CASE /\ c.op = "createRuleVersion"
           /\ Drafts(r, sets, versions, versions')
           /\ sets' = sets /\ outbox' = outbox
  <2>1. r.ver \in VersionIds \ Stored(versions)
    BY <1>6 DEF Drafts, Stored
  <2>2. Catalog!CreateRuleVersion(c)
    BY <1>2, <1>6, <2>1, SameWords, SameImages
    DEF Catalog!CreateRuleVersion, Drafts
  <2>3. QED
    BY <1>2, <2>2 DEF Catalog!Next
<1>7. CASE /\ c.op = "publishRuleVersion"
           /\ Publishes(r, versions, versions')
           /\ Revises(r, ActivatedSet(sets[c.set], versions[c.ver].number, c),
                      sets, sets')
           /\ outbox' = outbox \cup {r.event}
           /\ Announced(r.event) =
                [scope |-> c.scope, set |-> c.set, ver |-> c.ver,
                 number |-> versions[c.ver].number, rev |-> c.expSet + 1]
  <2>1. ann(outbox') = ann(outbox) \cup
           {Catalog!Publication(c, versions[c.ver].number)}
    BY <1>7 DEF Catalog!Publication
  <2>2. Catalog!PublishRuleVersion(c)
    BY <1>2, <1>7, <2>1, SameWords, SameImages
    DEF Catalog!PublishRuleVersion, Publishes, Revises
  <2>3. QED
    BY <1>2, <2>2 DEF Catalog!Next
<1>8. QED
  BY <1>1, <1>2, <1>3, <1>4, <1>5, <1>6, <1>7, CommitEffect

(* The concurrent write path implements the atomic catalogue: a commit is  *)
(* a step of its operation, or nothing if the version exists already, and  *)
(* every other statement, refusal and failure is invisible.                *)
THEOREM TransactionsImplementCatalog == Spec => ImplementsCatalog
<1>1. Init => Catalog!Init
  BY DEF Init, Catalog!Init
<1>2. TxInv /\ [Next]_vars => [Catalog!Next]_(Catalog!vars)
  <2> SUFFICES ASSUME TxInv, [Next]_vars
               PROVE  Catalog!Next \/ UNCHANGED Catalog!vars
    OBVIOUS
  <2>1. CASE UNCHANGED tables
    BY <2>1 DEF tables, Catalog!vars
  <2>2. ASSUME NEW w \in Workers, Commit(w) \/ CommitUnacked(w)
        PROVE  Catalog!Next \/ UNCHANGED Catalog!vars
    BY <2>2, CommitRefines DEF Commit, CommitUnacked
  <2>3. UNCHANGED tables \/ \E w \in Workers : Commit(w) \/ CommitUnacked(w)
    BY DEF Next, Step, Refuse, Admit, Fail, InsertSet, ReadSet, UpdateSet,
           LockSet, SelectExisting, SelectMax, InsertVersion, ReadVersion,
           PublishVersion, PublishSet, AddOutbox, vars, tables
  <2>4. QED
    BY <2>1, <2>2, <2>3
<1>3. QED
  BY <1>1, <1>2, TransactionsSafe, PTL DEF Spec, ImplementsCatalog, Catalog!Spec
=============================================================================
