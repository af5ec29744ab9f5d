----------------------- MODULE RuleEvaluationProofs -----------------------
(***************************************************************************)
(* Proofs about RuleEvaluation, for every number of replicas, readers,     *)
(* rows and queries.  The evaluation leaves the catalogue to its four      *)
(* operations, so CatalogInv holds throughout; the invariant says of each  *)
(* read what the rows it has seen, and the rule set as it was when it      *)
(* began, have to do with the tables now.                                  *)
(***************************************************************************)
EXTENDS RuleEvaluation, RuleCatalogProofs
-----------------------------------------------------------------------------
(* The inductive invariant.  S, V and X are the tables sets, versions and  *)
(* events; e is a read.                                                    *)

(* The rule set that a query names.                                        *)
Named(q, s, S) ==
    /\ s \in Stored(S)
    /\ S[s].scope = q.scope
    /\ IF q.set = Blank THEN S[s].code = q.code ELSE s = q.set

(* A pointer that is newer than the rule set was when the read began.      *)
SinceThen(e, s, number, X) ==
    \E x \in X : /\ x.set = s /\ x.number = number
                 /\ e.since = None \/ x.rev > e.since.version

(* The pointer of a row: unset, that of the beginning, or a newer one.     *)
Current(e, s, row, X) ==
    \/ row.pub = 0
    \/ e.since # None /\ row.pub = e.since.pub
    \/ SinceThen(e, s, row.pub, X)

(* Before the first statement: the rule set is still there if it was when  *)
(* the read began, and its revision has not decreased.                     *)
Awaits(e, S, X) ==
    /\ e.set = None /\ e.ver = None
    /\ e.since # None =>
          e.since \in RuleSet /\ \E s \in SetIds : Named(e.query, s, S)
    /\ \A s \in SetIds :
          Named(e.query, s, S) =>
             /\ Current(e, s, S[s], X)
             /\ e.since # None => e.since.version <= S[s].version

(* What the first statement saw.                                           *)
SawSet(e, S, X) ==
    /\ e.id \in Stored(S) /\ S[e.id].scope = e.query.scope
    /\ e.set \in RuleSet /\ e.set.scope = e.query.scope
    /\ e.set.pub # 0 => \E x \in X : x.set = e.id /\ x.number = e.set.pub
    /\ Current(e, e.id, e.set, X)

(* What the second statement saw.                                          *)
SawVersion(e) ==
    /\ e.set # None
    /\ e.ver \in RuleVersion
    /\ e.ver.scope = e.query.scope
    /\ e.ver.number = Wanted(e) /\ e.ver.number # 0
    /\ e.query.number = 0 => e.ver.status = "published" /\ Publishable(e.ver)

(* A version that may be evaluated.                                        *)
Evaluates(e, V) ==
    /\ e.ver # None
    /\ e.ver.status = "published" /\ Publishable(e.ver)
    /\ \E v \in Stored(V) : V[v].sum = e.ver.sum

RunsOn(e, program) ==
    /\ program \in Texts
    /\ Compiles(program) /\ Checksum(program) = e.ver.sum

ReadSound(e, S, V, X) ==
    /\ e.pc # "idle" =>
          e.at \in Replicas /\ e.query \in Queries /\ e.out = None
    /\ e.pc # "idle" \/ e.set # None =>
          Authorized(e.query.actor, e.query.scope.tenant)
    /\ e.pc = "readSet" => Awaits(e, S, X)
    /\ e.set # None => SawSet(e, S, X)
    /\ e.pc = "readVersion" => e.set # None /\ e.ver = None
    /\ e.ver # None => SawVersion(e)
    /\ e.pc \in {"load", "store", "run"} => Evaluates(e, V)
    /\ IF e.pc \in {"store", "run"} THEN RunsOn(e, e.program)
       ELSE e.program = None
    /\ e.set # None /\ e.set.pub # 0 /\ e.query.number = 0 =>
          e.out \notin {"notFound", "conflict"}

EvalInv ==
    /\ EvalTypeOK
    /\ CacheBacked
    /\ \A r \in Readers : ReadSound(eval[r], sets, versions, events)
-----------------------------------------------------------------------------
(* What a step of the catalogue leaves to the reads *)

(* Rows and events stay, with their names and checksums; a rule set starts *)
(* with nothing published, and a pointer moves with an event that is newer *)
(* than the row was.                                                       *)
RowsStay ==
    /\ \A s \in Stored(sets) :
          /\ s \in Stored(sets')
          /\ sets'[s].scope = sets[s].scope
          /\ sets'[s].code = sets[s].code
          /\ sets[s].version <= sets'[s].version
          /\ \/ sets'[s].pub = sets[s].pub
             \/ \E x \in events' : /\ x.set = s /\ x.number = sets'[s].pub
                                   /\ x.rev > sets[s].version
    /\ \A s \in Stored(sets') \ Stored(sets) : sets'[s].pub = 0
    /\ \A v \in Stored(versions) :
          v \in Stored(versions') /\ versions'[v].sum = versions[v].sum
    /\ events \subseteq events'

LEMMA StepRowsStay == CatalogInv /\ [Next]_vars => RowsStay
<1> SUFFICES ASSUME CatalogInv, [Next]_vars
             PROVE  RowsStay
  OBVIOUS
<1>1. /\ sets \in [SetIds -> RuleSet \cup {None}]
      /\ versions \in [VersionIds -> RuleVersion \cup {None}]
      /\ \A s \in Stored(sets) :
            s \in SetIds /\ sets[s] \in RuleSet /\ sets[s].version \in Nat
      /\ \A v \in Stored(versions) : v \in VersionIds /\ versions[v] \in RuleVersion
  BY NoneAssumption DEF CatalogInv, TypeOK, Stored, RuleSet
<1>2. CASE UNCHANGED vars
  BY <1>1, <1>2 DEF vars, RowsStay
<1>3. ASSUME NEW c \in Calls, CreateRuleSet(c)
      PROVE  RowsStay
  <2>1. PICK id \in SetIds \ Stored(sets) :
           sets' = [sets EXCEPT ![id] = NewSet(c)]
    BY <1>3 DEF CreateRuleSet
  <2>2. NewSet(c) # None /\ NewSet(c).pub = 0
    BY <1>3, ImagesTyped, NoneAssumption DEF CreateRuleSet, NewSet
  <2>3. /\ Stored(sets') = Stored(sets) \cup {id}
        /\ sets'[id] = NewSet(c)
        /\ \A s \in Stored(sets) : sets'[s] = sets[s]
    BY <1>1, <2>1, <2>2 DEF Stored
  <2>4. UNCHANGED <<versions, events>>
    BY <1>3 DEF CreateRuleSet
  <2>5. QED
    BY <1>1, <2>2, <2>3, <2>4 DEF RowsStay
<1>4. ASSUME NEW c \in Calls, UpdateRuleSet(c)
      PROVE  RowsStay
  <2> DEFINE row == UpdatedSet(sets[c.set], c)
  <2>1. /\ c.set \in Stored(sets) /\ sets' = [sets EXCEPT ![c.set] = row]
        /\ UNCHANGED <<versions, events>>
    BY <1>1, <1>4 DEF UpdateRuleSet, HasSet
  <2>2. row \in RuleSet /\ row # None
    BY <1>1, <1>4, <2>1, ImagesTyped, NoneAssumption DEF UpdateRuleSet
  <2>3. /\ row.scope = sets[c.set].scope /\ row.code = sets[c.set].code
        /\ row.pub = sets[c.set].pub /\ row.version = sets[c.set].version + 1
    BY <1>1, <2>1 DEF UpdatedSet, RuleSet
  <2>4. /\ Stored(sets') = Stored(sets) /\ sets'[c.set] = row
        /\ \A s \in Stored(sets) : s # c.set => sets'[s] = sets[s]
    BY <1>1, <2>1, <2>2 DEF Stored
  <2>5. \A s \in Stored(sets) :
           /\ sets'[s].scope = sets[s].scope /\ sets'[s].code = sets[s].code
           /\ sets'[s].pub = sets[s].pub
           /\ sets[s].version <= sets'[s].version
    BY <1>1, <2>1, <2>3, <2>4
  <2>6. QED
    BY <2>1, <2>4, <2>5 DEF RowsStay
<1>5. ASSUME NEW c \in Calls, CreateRuleVersion(c)
      PROVE  RowsStay
  <2>1. UNCHANGED <<sets, events>>
    BY <1>5 DEF CreateRuleVersion
  <2>2. PICK id \in VersionIds \ Stored(versions) :
           versions' = [versions EXCEPT ![id] =
                          NewVersion(c, NextNumber(versions, c.scope, c.set))]
    BY <1>5 DEF CreateRuleVersion
  <2>3. \A v \in Stored(versions) : versions'[v] = versions[v]
    BY <1>1, <2>2
  <2>4. \A v \in Stored(versions) : v \in Stored(versions')
    BY <1>1, <2>2, <2>3 DEF Stored
  <2>5. QED
    BY <1>1, <2>1, <2>3, <2>4 DEF RowsStay
<1>6. ASSUME NEW c \in Calls, PublishRuleVersion(c)
      PROVE  RowsStay
  <2> DEFINE number == versions[c.ver].number
             row == ActivatedSet(sets[c.set], number, c)
             ver == PublishedVersion(versions[c.ver], c)
             event == Publication(c, number)
  <2>1. /\ c.set \in Stored(sets) /\ sets[c.set].version = c.expSet
        /\ sets' = [sets EXCEPT ![c.set] = row]
        /\ c.ver \in Stored(versions)
        /\ versions' = [versions EXCEPT ![c.ver] = ver]
        /\ events' = events \cup {event}
    BY <1>1, <1>6 DEF PublishRuleVersion, HasSet, HasVersion
  <2>2. /\ number \in Nat
        /\ row \in RuleSet /\ row # None /\ ver \in RuleVersion /\ ver # None
    <3>1. number \in Nat
      BY <1>1, <2>1 DEF RuleVersion
    <3>2. QED
      BY <1>1, <1>6, <2>1, <3>1, ImagesTyped, NoneAssumption
      DEF PublishRuleVersion
  <2>3. /\ row.scope = sets[c.set].scope /\ row.code = sets[c.set].code
        /\ row.pub = number /\ row.version = sets[c.set].version + 1
        /\ ver.sum = versions[c.ver].sum
    BY <1>1, <2>1 DEF ActivatedSet, PublishedVersion, RuleSet, RuleVersion
  <2>4. /\ event.set = c.set /\ event.number = number
        /\ event.rev = sets[c.set].version + 1
    BY <2>1 DEF Publication
  <2>5. /\ Stored(sets') = Stored(sets) /\ sets'[c.set] = row
        /\ \A s \in Stored(sets) : s # c.set => sets'[s] = sets[s]
        /\ Stored(versions') = Stored(versions) /\ versions'[c.ver] = ver
        /\ \A v \in Stored(versions) : v # c.ver => versions'[v] = versions[v]
    BY <1>1, <2>1, <2>2 DEF Stored
  <2>6. event \in events' /\ events \subseteq events'
    BY <2>1
  <2>7. \A s \in Stored(sets) :
           /\ sets[s].version <= sets'[s].version
           /\ \/ sets'[s].pub = sets[s].pub
              \/ /\ event.set = s /\ event.number = sets'[s].pub
                 /\ event.rev > sets[s].version
    BY <1>1, <2>1, <2>3, <2>4, <2>5
  <2>8. QED
    BY <2>1, <2>3, <2>5, <2>6, <2>7 DEF RowsStay
<1>7. QED
  BY <1>2, <1>3, <1>4, <1>5, <1>6 DEF Next

(* A rule set that a query names is the only one it names.                 *)
LEMMA NamedOnce ==
    ASSUME CatalogInv, NEW q, NEW s, NEW t,
           Named(q, s, sets), Named(q, t, sets)
    PROVE  s = t
BY DEF CatalogInv, CodesUnique, Named

(* So what is sound of a read stays sound while it waits.                  *)
LEMMA ReadStays ==
    ASSUME CatalogInv, CatalogInv', RowsStay,
           NEW e, ReadSound(e, sets, versions, events),
           e.since \in RuleSet \cup {None}
    PROVE  ReadSound(e, sets', versions', events')
<1>1. \A s, n : SinceThen(e, s, n, events) => SinceThen(e, s, n, events')
  BY DEF SinceThen, RowsStay
<1>2. \A s, row : Current(e, s, row, events) => Current(e, s, row, events')
  BY <1>1 DEF Current
<1>3. \A s : Named(e.query, s, sets) => Named(e.query, s, sets')
  BY DEF Named, RowsStay
<1>4. ASSUME Awaits(e, sets, events)
      PROVE  Awaits(e, sets', events')
  <2>1. e.since # None =>
           e.since \in RuleSet /\ \E s \in SetIds : Named(e.query, s, sets')
    BY <1>3, <1>4 DEF Awaits
  <2>2. ASSUME NEW s \in SetIds, Named(e.query, s, sets')
        PROVE  /\ Current(e, s, sets'[s], events')
               /\ e.since # None => e.since.version <= sets'[s].version
    <3>1. CASE s \in Stored(sets)
      <4>1. Named(e.query, s, sets)
        BY <2>2, <3>1 DEF Named, RowsStay
      <4>2. /\ Current(e, s, sets[s], events')
            /\ e.since # None => e.since.version <= sets[s].version
        BY <1>2, <1>4, <4>1 DEF Awaits
      <4>3. /\ sets[s].version \in Nat /\ sets'[s].version \in Nat
            /\ \A x \in events' : x.rev \in Nat
            /\ e.since # None => e.since.version \in Nat
        BY <2>2, <3>1, NoneAssumption
        DEF CatalogInv, TypeOK, Stored, RuleSet, Named, Event
      <4>4. e.since # None => e.since.version <= sets'[s].version
        BY <3>1, <4>2, <4>3 DEF RowsStay
      <4>5. CASE sets'[s].pub = sets[s].pub
        BY <4>2, <4>4, <4>5 DEF Current
      <4>6. CASE \E x \in events' : /\ x.set = s /\ x.number = sets'[s].pub
                                    /\ x.rev > sets[s].version
        BY <4>2, <4>3, <4>4, <4>6 DEF Current, SinceThen
      <4>7. QED
        BY <3>1, <4>5, <4>6 DEF RowsStay
    <3>2. CASE s \notin Stored(sets)
      <4>1. sets'[s].pub = 0
        BY <2>2, <3>2 DEF Named, RowsStay
      <4>2. e.since = None
        <5>1. SUFFICES ASSUME e.since # None PROVE FALSE
          OBVIOUS
        <5>2. PICK t \in SetIds : Named(e.query, t, sets)
          BY <1>4, <5>1 DEF Awaits
        <5>3. Named(e.query, t, sets')
          BY <1>3, <5>2
        <5>4. s = t
          BY <2>2, <5>3 DEF CatalogInv, CodesUnique, Named
        <5>5. QED
          BY <3>2, <5>2, <5>4 DEF Named
      <4>3. QED
        BY <4>1, <4>2 DEF Current
    <3>3. QED
      BY <3>1, <3>2
  <2>3. QED
    BY <1>4, <2>1, <2>2 DEF Awaits
<1>5. SawSet(e, sets, events) => SawSet(e, sets', events')
  BY <1>2 DEF SawSet, RowsStay
<1>6. Evaluates(e, versions) => Evaluates(e, versions')
  BY DEF Evaluates, RowsStay
<1>7. QED
  BY <1>4, <1>5, <1>6 DEF ReadSound
-----------------------------------------------------------------------------
(* Steps of the catalogue *)

Backed(sum, text, V) ==
    /\ Compiles(text) /\ Checksum(text) = sum
    /\ \E v \in Stored(V) : V[v].sum = sum

LEMMA CacheIsBacked ==
    CacheBacked <=>
        \A p \in Replicas :
            /\ \A k \in Texts :
                  compiled[p][k] # None => Backed(k, compiled[p][k], versions)
            /\ \A e \in storing[p] : Backed(e.sum, e.text, versions)
BY DEF CacheBacked, Backed

LEMMA BackedStays ==
    ASSUME RowsStay, NEW sum, NEW text, Backed(sum, text, versions)
    PROVE  Backed(sum, text, versions')
BY DEF RowsStay, Backed

(* A step of the catalogue on a replica, and the Store it leaves behind.   *)
LEMMA WriteInv ==
    ASSUME EvalInv, CatalogInv, CatalogInv', RowsStay,
           UNCHANGED <<compiled, eval>>,
           storing' \in [Replicas -> SUBSET [sum : Texts, text : Texts]],
           \A p \in Replicas : \A e \in storing'[p] \ storing[p] :
              Backed(e.sum, e.text, versions')
    PROVE  EvalInv'
<1>1. EvalTypeOK'
  BY DEF EvalInv, EvalTypeOK
<1>2. CacheBacked'
  <2>1. ASSUME NEW p \in Replicas, NEW k \in Texts, compiled[p][k] # None
        PROVE  Backed(k, compiled[p][k], versions')
    BY <2>1, CacheIsBacked, BackedStays DEF EvalInv
  <2>2. ASSUME NEW p \in Replicas, NEW e \in storing'[p]
        PROVE  Backed(e.sum, e.text, versions')
    BY <2>2, CacheIsBacked, BackedStays DEF EvalInv
  <2>3. QED
    BY <2>1, <2>2 DEF CacheBacked, Backed
<1>3. ASSUME NEW r \in Readers
      PROVE  ReadSound(eval[r], sets', versions', events')
  <2>1. ReadSound(eval[r], sets, versions, events)
    BY DEF EvalInv
  <2>2. eval[r].since \in RuleSet \cup {None}
    BY DEF EvalInv, EvalTypeOK, Read
  <2>3. QED
    BY <2>1, <2>2, ReadStays
<1>4. QED
  BY <1>1, <1>2, <1>3 DEF EvalInv

(* The record that WillStore adds.                                         *)
LEMMA WillStoreBacked ==
    ASSUME EvalInv, NEW p \in Replicas, NEW sum \in Texts, NEW text \in Texts,
           WillStore(p, sum, text), Backed(sum, text, versions')
    PROVE  /\ storing' \in [Replicas -> SUBSET [sum : Texts, text : Texts]]
           /\ \A o \in Replicas : \A e \in storing'[o] \ storing[o] :
                 Backed(e.sum, e.text, versions')
<1>1. storing' = [storing EXCEPT ![p] = @ \cup {[sum |-> sum, text |-> text]}]
  BY DEF WillStore
<1>2. QED
  BY <1>1 DEF EvalInv, EvalTypeOK

LEMMA EditAtInv ==
    ASSUME EvalInv, CatalogInv, CatalogInv', RowsStay,
           NEW p \in Replicas, NEW c \in Calls, EditAt(p, c)
    PROVE  EvalInv'
<1>1. UNCHANGED <<compiled, storing, eval>>
  BY DEF EditAt, readVars
<1>2. storing' \in [Replicas -> SUBSET [sum : Texts, text : Texts]]
  BY <1>1 DEF EvalInv, EvalTypeOK
<1>3. QED
  BY <1>1, <1>2, WriteInv

LEMMA DraftAtInv ==
    ASSUME EvalInv, CatalogInv, CatalogInv', RowsStay,
           NEW p \in Replicas, NEW c \in Calls, DraftAt(p, c)
    PROVE  EvalInv'
<1>1. UNCHANGED <<compiled, eval>>
  BY DEF DraftAt
<1>2. CASE UNCHANGED storing
  <2>1. storing' \in [Replicas -> SUBSET [sum : Texts, text : Texts]]
    BY <1>2 DEF EvalInv, EvalTypeOK
  <2>2. QED
    BY <1>1, <1>2, <2>1, WriteInv
<1>3. CASE WillStore(p, Checksum(c.text), c.text)
  <2>1. c.op = "createRuleVersion" /\ Admissible(c)
    BY DEF DraftAt, CreateRuleVersion
  <2>2. c.text \in Texts /\ Checksum(c.text) \in Texts /\ Compiles(c.text)
    BY <2>1, CallAssumption, TextAssumption
    DEF Call, Checksum, Admissible, ValidRequest, ValidCreateRuleVersion
  <2>3. PICK id \in VersionIds \ Stored(versions) :
           versions' = [versions EXCEPT ![id] =
                          NewVersion(c, NextNumber(versions, c.scope, c.set))]
    BY DEF DraftAt, CreateRuleVersion
  <2>4. /\ versions'[id] = NewVersion(c, NextNumber(versions, c.scope, c.set))
        /\ id \in DOMAIN versions'
    BY <2>3 DEF CatalogInv, TypeOK
  <2>5. versions'[id].sum = Checksum(c.text)
    BY <2>4 DEF NewVersion
  <2>6. versions'[id] # None
    <3>1. versions \in [VersionIds -> RuleVersion \cup {None}]
          /\ versions' \in [VersionIds -> RuleVersion \cup {None}]
      BY DEF CatalogInv, TypeOK
    <3>2. PICK n \in Nat : NextNumber(versions, c.scope, c.set) = n + 1
      <4>1. c.set \in Stored(sets) /\ sets[c.set].scope = c.scope
        BY DEF DraftAt, CreateRuleVersion, HasSet
      <4>2. QED
        BY <4>1, NextNumberDense DEF CatalogInv
    <3>3. NewVersion(c, n + 1) \in RuleVersion
      BY <2>1, ImagesTyped
    <3>4. QED
      BY <2>4, <3>2, <3>3, NoneAssumption
  <2>7. Backed(Checksum(c.text), c.text, versions')
    BY <2>2, <2>4, <2>5, <2>6 DEF Backed, Stored
  <2>8. QED
    BY <1>1, <1>3, <2>2, <2>7, WillStoreBacked, WriteInv
<1>4. QED
  BY <1>2, <1>3 DEF DraftAt

LEMMA RedraftAtInv ==
    ASSUME EvalInv, CatalogInv, CatalogInv', RowsStay,
           NEW p \in Replicas, NEW c \in Calls, RedraftAt(p, c)
    PROVE  EvalInv'
<1>1. UNCHANGED <<versions, compiled, eval>>
  BY DEF RedraftAt
<1>2. c.op = "createRuleVersion" /\ Admissible(c)
  BY DEF RedraftAt
<1>3. c.text \in Texts /\ Checksum(c.text) \in Texts /\ Compiles(c.text)
  BY <1>2, CallAssumption, TextAssumption
  DEF Call, Checksum, Admissible, ValidRequest, ValidCreateRuleVersion
<1>4. PICK v \in WithKey(versions, c.scope, c.set, c.key) :
         /\ versions[v].sum = Checksum(c.text)
         /\ WillStore(p, versions[v].sum, c.text)
  BY DEF RedraftAt
<1>5. v \in Stored(versions)
  BY <1>4 DEF WithKey, VersionsOf
<1>6. Backed(Checksum(c.text), c.text, versions')
  BY <1>1, <1>3, <1>4, <1>5 DEF Backed
<1>7. QED
  BY <1>1, <1>3, <1>4, <1>6, WillStoreBacked, WriteInv

LEMMA PublishAtInv ==
    ASSUME EvalInv, CatalogInv, CatalogInv', RowsStay,
           NEW p \in Replicas, NEW c \in Calls, PublishAt(p, c)
    PROVE  EvalInv'
<1> DEFINE row == versions[c.ver]
<1>1. UNCHANGED <<compiled, eval>>
  BY DEF PublishAt
<1>2. CASE UNCHANGED storing
  <2>1. storing' \in [Replicas -> SUBSET [sum : Texts, text : Texts]]
    BY <1>2 DEF EvalInv, EvalTypeOK
  <2>2. QED
    BY <1>1, <1>2, <2>1, WriteInv
<1>3. CASE WillStore(p, row.sum, row.def)
  <2>1. c.ver \in Stored(versions) /\ Publishable(row)
    BY DEF PublishAt, PublishRuleVersion, HasVersion
  <2>2. row.sum \in Texts /\ row.def \in Texts
    BY <2>1, NoneAssumption DEF CatalogInv, TypeOK, Stored, RuleVersion
  <2>3. Backed(row.sum, row.def, versions)
    BY <2>1 DEF Publishable, Backed
  <2>4. Backed(row.sum, row.def, versions')
    BY <2>3, BackedStays
  <2>5. QED
    BY <1>1, <1>3, <2>2, <2>4, WillStoreBacked, WriteInv
<1>4. QED
  BY <1>2, <1>3 DEF PublishAt
-----------------------------------------------------------------------------
(* Steps of a read *)

LEMMA ReadFacts ==
    ASSUME EvalInv, NEW r \in Readers
    PROVE  eval[r] \in Read /\ ReadSound(eval[r], sets, versions, events)
BY DEF EvalInv, EvalTypeOK

LEMMA SameCache ==
    ASSUME EvalInv, UNCHANGED <<versions, compiled, storing>>
    PROVE  CacheBacked'
BY DEF EvalInv, CacheBacked

(* It is enough to look at the record the read becomes.                    *)
LEMMA ProceedInv ==
    ASSUME EvalInv, NEW r \in Readers, NEW e \in Read, Proceed(r, e),
           compiled' \in [Replicas -> [Texts -> Texts \cup {None}]],
           CacheBacked', e.pc = "run" => e.program # None,
           ReadSound(e, sets, versions, events)
    PROVE  EvalInv'
<1>1. /\ eval' = [eval EXCEPT ![r] = e]
      /\ UNCHANGED <<sets, versions, events, storing>>
  BY DEF Proceed
<1>2. \A o \in Readers : eval'[o] = IF o = r THEN e ELSE eval[o]
  BY <1>1 DEF EvalInv, EvalTypeOK
<1>3. EvalTypeOK'
  BY <1>1, <1>2 DEF EvalInv, EvalTypeOK
<1>4. \A o \in Readers : ReadSound(eval'[o], sets, versions, events)
  BY <1>2 DEF EvalInv
<1>5. QED
  BY <1>1, <1>3, <1>4 DEF EvalInv

(* What a read has seen does not depend on where it is.                    *)
LEMMA SameSight ==
    ASSUME NEW e, NEW f, NEW S, NEW X,
           f.query = e.query, f.since = e.since, f.id = e.id, f.set = e.set
    PROVE  /\ SawSet(e, S, X) => SawSet(f, S, X)
           /\ f.ver = e.ver /\ SawVersion(e) => SawVersion(f)
BY DEF SawSet, SawVersion, Current, SinceThen, Wanted

(* A read that is answered.                                                *)
LEMMA ReplyInv ==
    ASSUME EvalInv, NEW r \in Readers, NEW e \in Read,
           NEW code \in ReadCodes, Reply(r, e, code), UNCHANGED compiled,
           e.set # None => /\ SawSet(e, sets, events)
                           /\ Authorized(e.query.actor, e.query.scope.tenant),
           e.ver # None => SawVersion(e),
           /\ e.set # None /\ e.set.pub # 0 /\ e.query.number = 0
           => code \notin {"notFound", "conflict"}
    PROVE  EvalInv'
<1> DEFINE f == [e EXCEPT !.pc = "idle", !.at = None, !.program = None,
                          !.out = code]
<1>1. /\ f \in Read /\ f.pc = "idle" /\ f.program = None /\ f.out = code
      /\ f.query = e.query /\ f.since = e.since /\ f.id = e.id
      /\ f.set = e.set /\ f.ver = e.ver
  BY DEF Read, ReadPCs, ReadCodes
<1> HIDE DEF f
<1>2. /\ f.set # None => SawSet(f, sets, events)
      /\ f.ver # None => SawVersion(f)
  BY <1>1, SameSight
<1>3. ReadSound(f, sets, versions, events)
  BY <1>1, <1>2 DEF ReadSound
<1>4. Proceed(r, f)
  BY DEF Reply, f
<1>5. UNCHANGED <<versions, storing>>
  BY <1>4 DEF Proceed
<1>6. CacheBacked' /\ compiled' \in [Replicas -> [Texts -> Texts \cup {None}]]
  BY <1>5, SameCache DEF EvalInv, EvalTypeOK
<1>7. QED
  BY <1>1, <1>3, <1>4, <1>6, ProceedInv

(* Of two rule sets with one name there is one.                            *)
LEMMA MatchingNamed ==
    ASSUME NEW q, NEW s
    PROVE  s \in Matching(q) <=> Named(q, s, sets)
BY DEF Matching, Named

LEMMA BeginReadInv ==
    ASSUME EvalInv, CatalogInv, NEW r \in Readers, NEW p \in Replicas,
           NEW q \in Queries, BeginRead(r, p, q)
    PROVE  EvalInv'
<1>1. UNCHANGED compiled /\ compiled' \in [Replicas -> [Texts -> Texts \cup {None}]]
  BY DEF BeginRead, EvalInv, EvalTypeOK
<1>2. /\ NoRead \in Read /\ NoRead.pc = "idle" /\ NoRead.set = None
      /\ NoRead.ver = None /\ NoRead.program = None /\ NoRead.out = None
  BY DEF NoRead, Read, ReadPCs
<1>3. ASSUME NEW code \in {"forbidden", "unavailable"},
             Proceed(r, [NoRead EXCEPT !.out = code])
      PROVE  EvalInv'
  <2> DEFINE e == [NoRead EXCEPT !.out = code]
  <2>1. /\ e \in Read /\ e.pc = "idle" /\ e.set = None /\ e.ver = None
        /\ e.program = None
    BY <1>2 DEF NoRead, Read, ReadPCs, ReadCodes
  <2> HIDE DEF e
  <2>2. ReadSound(e, sets, versions, events)
    BY <2>1 DEF ReadSound
  <2>3. Proceed(r, e)
    BY <1>3 DEF e
  <2>4. CacheBacked'
    BY <1>1, <2>3, SameCache DEF Proceed
  <2>5. QED
    BY <1>1, <2>1, <2>2, <2>3, <2>4, ProceedInv
<1>4. ASSUME Authorized(q.actor, q.scope.tenant),
             NEW row \in {sets[s] : s \in Matching(q)} \cup {None},
             row = None <=> Matching(q) = {},
             Proceed(r, [NoRead EXCEPT !.pc = "readSet", !.at = p,
                           !.query = q, !.since = row])
      PROVE  EvalInv'
  <2> DEFINE e == [NoRead EXCEPT !.pc = "readSet", !.at = p, !.query = q,
                                 !.since = row]
  <2>1. \A s \in Matching(q) :
           s \in SetIds /\ sets[s] \in RuleSet /\ sets[s].version \in Nat
    BY NoneAssumption DEF Matching, Stored, CatalogInv, TypeOK, RuleSet
  <2>2. row \in RuleSet \cup {None}
    BY <2>1
  <2>3. /\ e \in Read /\ e.pc = "readSet" /\ e.at = p /\ e.query = q
        /\ e.since = row /\ e.set = None /\ e.ver = None
        /\ e.program = None /\ e.out = None
    BY <2>2 DEF NoRead, Read, ReadPCs
  <2> HIDE DEF e
  <2>4. ASSUME NEW s \in SetIds, Named(q, s, sets)
        PROVE  /\ Current(e, s, sets[s], events)
               /\ row # None /\ row.version <= sets[s].version
    <3>1. s \in Matching(q)
      BY <2>4, MatchingNamed
    <3>2. PICK t \in Matching(q) : row = sets[t]
      BY <1>4, <3>1
    <3>3. s = t
      BY <2>4, <3>2, MatchingNamed, NamedOnce
    <3>4. QED
      BY <1>4, <2>1, <2>3, <3>1, <3>2, <3>3 DEF Current
  <2>5. row # None => \E s \in SetIds : Named(q, s, sets)
    BY <1>4, <2>1, MatchingNamed
  <2>6. Awaits(e, sets, events)
    BY <2>2, <2>3, <2>4, <2>5 DEF Awaits
  <2>7. ReadSound(e, sets, versions, events)
    BY <1>4, <2>3, <2>6 DEF ReadSound
  <2>8. Proceed(r, e)
    BY <1>4 DEF e
  <2>9. CacheBacked'
    BY <1>1, <2>8, SameCache DEF Proceed
  <2>10. QED
    BY <1>1, <2>3, <2>7, <2>8, <2>9, ProceedInv
<1>5. QED
  BY <1>3, <1>4 DEF BeginRead

LEMMA ReadRuleSetInv ==
    ASSUME EvalInv, CatalogInv, NEW r \in Readers, ReadRuleSet(r)
    PROVE  EvalInv'
<1> DEFINE e == eval[r]  q == e.query
<1>1. /\ e \in Read /\ e.pc = "readSet" /\ e.at \in Replicas
      /\ e.set = None /\ e.ver = None /\ e.program = None /\ e.out = None
      /\ q \in Queries /\ Authorized(q.actor, q.scope.tenant)
      /\ Awaits(e, sets, events)
  BY ReadFacts DEF ReadRuleSet, ReadSound, Awaits
<1>2. UNCHANGED compiled
  BY DEF ReadRuleSet
<1>3. ASSUME NEW code \in {"notFound", "conflict"}, Finish(r, code)
      PROVE  EvalInv'
  BY <1>1, <1>2, <1>3, ReplyInv DEF Finish, ReadCodes
<1>4. ASSUME NEW s \in Matching(q), NEW f \in Read,
             f.query = q, f.since = e.since, f.id = s, f.set = sets[s]
      PROVE  SawSet(f, sets, events)
  <2>1. s \in Stored(sets) /\ sets[s].scope = q.scope
    BY <1>4 DEF Matching
  <2>2. s \in SetIds /\ sets[s] \in RuleSet
    BY <2>1, NoneAssumption DEF Stored, CatalogInv, TypeOK
  <2>3. Current(e, s, sets[s], events)
    BY <1>1, <1>4, <2>2, MatchingNamed DEF Awaits
  <2>4. sets[s].pub # 0 => \E x \in events : x.set = s /\ x.number = sets[s].pub
    BY <2>1 DEF CatalogInv, LatestEventIsPointer
  <2>5. QED
    BY <1>4, <2>1, <2>2, <2>3, <2>4 DEF SawSet, Current, SinceThen
<1>5. \A s \in Matching(q) : s \in SetIds /\ sets[s] \in RuleSet /\ sets[s] # None
  BY NoneAssumption DEF Matching, Stored, CatalogInv, TypeOK
<1>6. ASSUME NEW s \in Matching(q),
             Reply(r, [e EXCEPT !.id = s, !.set = sets[s]], "ok")
      PROVE  EvalInv'
  <2> DEFINE f == [e EXCEPT !.id = s, !.set = sets[s]]
  <2>1. /\ f \in Read /\ f.query = q /\ f.since = e.since /\ f.id = s
        /\ f.set = sets[s] /\ f.ver = None
    BY <1>1, <1>5 DEF Read
  <2> HIDE DEF f
  <2>2. SawSet(f, sets, events)
    BY <1>4, <2>1
  <2>3. Reply(r, f, "ok")
    BY <1>6 DEF f
  <2>4. QED
    BY <1>1, <1>2, <2>1, <2>2, <2>3, ReplyInv DEF ReadCodes
<1>7. ASSUME NEW s \in Matching(q),
             Proceed(r, [e EXCEPT !.pc = "readVersion", !.id = s,
                                  !.set = sets[s]])
      PROVE  EvalInv'
  <2> DEFINE f == [e EXCEPT !.pc = "readVersion", !.id = s, !.set = sets[s]]
  <2>1. /\ f \in Read /\ f.pc = "readVersion" /\ f.at = e.at /\ f.query = q
        /\ f.since = e.since /\ f.id = s /\ f.set = sets[s] /\ f.ver = None
        /\ f.program = None /\ f.out = None
    BY <1>1, <1>5 DEF Read, ReadPCs, ReadCodes
  <2> HIDE DEF f
  <2>2. SawSet(f, sets, events)
    BY <1>4, <2>1
  <2>3. ReadSound(f, sets, versions, events)
    BY <1>1, <1>5, <2>1, <2>2, ReadAssumption DEF ReadSound, ReadCodes
  <2>4. Proceed(r, f)
    BY <1>7 DEF f
  <2>5. /\ compiled' \in [Replicas -> [Texts -> Texts \cup {None}]]
        /\ CacheBacked'
    BY <1>2, <2>4, SameCache DEF Proceed, EvalInv, EvalTypeOK
  <2>6. QED
    BY <2>1, <2>3, <2>4, <2>5, ProceedInv
<1>8. QED
  BY <1>3, <1>6, <1>7 DEF ReadRuleSet

(* The version that the pointer of a row names, or a number names, in the  *)
(* scope of the row: its number is not 0, and following the pointer finds  *)
(* a version, a published one.                                             *)
LEMMA VersionFound ==
    ASSUME CatalogInv, NEW e, SawSet(e, sets, events),
           NEW v \in VersionsOf(versions, e.set.scope, e.id)
    PROVE  /\ v \in Stored(versions) /\ versions[v] \in RuleVersion
           /\ versions[v].scope = e.query.scope
           /\ versions[v].number # 0
           /\ versions[v].number = e.set.pub =>
                 versions[v].status = "published" /\ Publishable(versions[v])
<1>1. /\ v \in Stored(versions) /\ versions[v].scope = e.query.scope
      /\ versions[v].set = e.id /\ e.set.scope = e.query.scope
      /\ e.id \in Stored(sets) /\ sets[e.id].scope = e.query.scope
  BY DEF VersionsOf, HasVersion, SawSet
<1>2. versions[v] \in RuleVersion
  BY <1>1, NoneAssumption DEF Stored, CatalogInv, TypeOK
<1>3. versions[v].number # 0
  <2>1. PICK n : Numbers(versions, e.query.scope, e.id) = 1 .. n
    BY <1>1 DEF CatalogInv, NumbersDense
  <2>2. versions[v].number \in 1 .. n
    BY <1>1, <2>1 DEF Numbers
  <2>3. QED
    BY <2>2
<1>4. ASSUME versions[v].number = e.set.pub
      PROVE  versions[v].status = "published" /\ Publishable(versions[v])
  <2>1. PICK x \in events : x.set = e.id /\ x.number = e.set.pub
    BY <1>3, <1>4 DEF SawSet
  <2>2. /\ x.ver \in VersionsOf(versions, x.scope, x.set)
        /\ versions[x.ver].number = x.number
        /\ versions[x.ver].status = "published"
        /\ x.ver \in Stored(versions)
    BY OwnersStored DEF CatalogInv, EventsMatchPublished
  <2>3. x.ver \in VersionsOf(versions, e.query.scope, e.id)
    <3>1. versions[x.ver].scope = x.scope /\ versions[x.ver].set = e.id
      BY <2>1, <2>2 DEF VersionsOf, HasVersion
    <3>2. sets[e.id].scope = versions[x.ver].scope
      BY <2>2, <3>1 DEF CatalogInv, VersionsInScope, HasSet
    <3>3. QED
      BY <1>1, <2>2, <3>1, <3>2 DEF VersionsOf, HasVersion
  <2>4. v = x.ver
    BY <1>1, <1>4, <2>1, <2>2, <2>3 DEF CatalogInv, NumbersDense
  <2>5. QED
    BY <2>2, <2>4 DEF CatalogInv, PublishedDefinitionsCompile
<1>5. QED
  BY <1>1, <1>2, <1>3, <1>4

LEMMA PointerFollowed ==
    ASSUME CatalogInv, NEW e, SawSet(e, sets, events), e.set.pub # 0
    PROVE  \E v \in VersionsOf(versions, e.set.scope, e.id) :
              versions[v].number = e.set.pub
<1>1. PICK x \in events : x.set = e.id /\ x.number = e.set.pub
  BY DEF SawSet
<1>2. /\ x.ver \in Stored(versions) /\ versions[x.ver].set = e.id
      /\ versions[x.ver].number = e.set.pub
  BY <1>1, OwnersStored DEF CatalogInv, EventsMatchPublished
<1>3. versions[x.ver].scope = e.set.scope
  BY <1>2 DEF SawSet, CatalogInv, VersionsInScope, HasSet
<1>4. QED
  BY <1>2, <1>3 DEF VersionsOf, HasVersion

LEMMA ReadRuleVersionInv ==
    ASSUME EvalInv, CatalogInv, NEW r \in Readers, ReadRuleVersion(r)
    PROVE  EvalInv'
<1> DEFINE e == eval[r]
           all == VersionsOf(versions, e.set.scope, e.id)
           found == {v \in all : versions[v].number = Wanted(e)}
<1>1. /\ e \in Read /\ e.pc = "readVersion" /\ e.at \in Replicas
      /\ e.set # None /\ e.ver = None /\ e.program = None /\ e.out = None
      /\ e.query \in Queries
      /\ Authorized(e.query.actor, e.query.scope.tenant)
      /\ SawSet(e, sets, events)
  BY ReadFacts DEF ReadRuleVersion, ReadSound
<1>2. UNCHANGED compiled
  BY DEF ReadRuleVersion
<1>3. \A v \in all :
         /\ v \in Stored(versions) /\ versions[v] \in RuleVersion
         /\ versions[v].scope = e.query.scope /\ versions[v].number # 0
         /\ versions[v].number = e.set.pub =>
               versions[v].status = "published" /\ Publishable(versions[v])
  BY <1>1, VersionFound
<1>4. CASE found = {} /\ Finish(r, "notFound")
  <2>1. ~(e.set.pub # 0 /\ e.query.number = 0)
    BY <1>1, <1>4, PointerFollowed DEF Wanted
  <2>2. QED
    BY <1>1, <1>2, <1>4, <2>1, ReplyInv DEF Finish, ReadCodes
<1>5. ASSUME NEW v \in found, NEW f \in Read, f.query = e.query,
             f.since = e.since, f.id = e.id, f.set = e.set,
             f.ver = versions[v]
      PROVE  SawSet(f, sets, events) /\ SawVersion(f)
  <2>1. SawSet(f, sets, events)
    BY <1>1, <1>5, SameSight
  <2>2. Wanted(f) = Wanted(e)
    BY <1>5 DEF Wanted
  <2>3. e.query.number = 0 => versions[v].number = e.set.pub
    BY <1>5 DEF Wanted
  <2>4. SawVersion(f)
    BY <1>1, <1>3, <1>5, <2>2, <2>3 DEF SawVersion
  <2>5. QED
    BY <2>1, <2>4
<1>6. ASSUME NEW v \in found, Reply(r, [e EXCEPT !.ver = versions[v]], "ok")
      PROVE  EvalInv'
  <2> DEFINE f == [e EXCEPT !.ver = versions[v]]
  <2>1. /\ f \in Read /\ f.query = e.query /\ f.since = e.since
        /\ f.id = e.id /\ f.set = e.set /\ f.ver = versions[v]
    BY <1>1, <1>3 DEF Read
  <2> HIDE DEF f
  <2>2. SawSet(f, sets, events) /\ SawVersion(f)
    BY <1>5, <2>1
  <2>3. Reply(r, f, "ok")
    BY <1>6 DEF f
  <2>4. QED
    BY <1>1, <1>2, <2>1, <2>2, <2>3, ReplyInv DEF ReadCodes
<1>7. ASSUME NEW v \in found, versions[v].status # "published",
             Finish(r, "conflict")
      PROVE  EvalInv'
  <2>1. e.query.number # 0
    BY <1>3, <1>7 DEF Wanted
  <2>2. QED
    BY <1>1, <1>2, <1>7, <2>1, ReplyInv DEF Finish, ReadCodes
<1>8. ASSUME NEW v \in found, versions[v].status = "published",
             Proceed(r, [e EXCEPT !.pc = "load", !.ver = versions[v]])
      PROVE  EvalInv'
  <2> DEFINE f == [e EXCEPT !.pc = "load", !.ver = versions[v]]
  <2>1. /\ f \in Read /\ f.pc = "load" /\ f.at = e.at /\ f.query = e.query
        /\ f.since = e.since /\ f.id = e.id /\ f.set = e.set
        /\ f.ver = versions[v] /\ f.program = None /\ f.out = None
    BY <1>1, <1>3 DEF Read, ReadPCs
  <2> HIDE DEF f
  <2>2. SawSet(f, sets, events) /\ SawVersion(f)
    BY <1>5, <2>1
  <2>3. Evaluates(f, versions)
    BY <1>3, <1>8, <2>1, NoneAssumption
    DEF Evaluates, CatalogInv, PublishedDefinitionsCompile
  <2>4. ReadSound(f, sets, versions, events)
    BY <1>1, <2>1, <2>2, <2>3, ReadAssumption DEF ReadSound, ReadCodes
  <2>5. Proceed(r, f)
    BY <1>8 DEF f
  <2>6. /\ compiled' \in [Replicas -> [Texts -> Texts \cup {None}]]
        /\ CacheBacked'
    BY <1>2, <2>5, SameCache DEF Proceed, EvalInv, EvalTypeOK
  <2>7. QED
    BY <2>1, <2>4, <2>5, <2>6, ProceedInv
<1>9. QED
  BY <1>4, <1>6, <1>7, <1>8 DEF ReadRuleVersion

(* A read that has its version.                                            *)
LEMMA EvaluatingFacts ==
    ASSUME EvalInv, NEW r \in Readers, eval[r].pc \in {"load", "store", "run"}
    PROVE  LET e == eval[r]
           IN  /\ e \in Read /\ e.at \in Replicas /\ e.out = None
               /\ e.query \in Queries
               /\ Authorized(e.query.actor, e.query.scope.tenant)
               /\ e.set # None /\ SawSet(e, sets, events)
               /\ e.ver # None /\ SawVersion(e)
               /\ e.ver.sum \in Texts /\ e.ver.def \in Texts
               /\ Evaluates(e, versions)
BY ReadFacts DEF ReadSound, SawVersion, Evaluates, RuleVersion

(* It goes on to its program.                                              *)
LEMMA ProgramInv ==
    ASSUME EvalInv, NEW r \in Readers, eval[r].pc \in {"load", "store"},
           NEW pc \in {"store", "run"}, NEW program,
           RunsOn(eval[r], program),
           Proceed(r, [eval[r] EXCEPT !.pc = pc, !.program = program]),
           compiled' \in [Replicas -> [Texts -> Texts \cup {None}]],
           CacheBacked'
    PROVE  EvalInv'
<1> DEFINE e == eval[r]
           f == [e EXCEPT !.pc = pc, !.program = program]
<1>1. /\ e \in Read /\ e.at \in Replicas /\ e.out = None
      /\ e.query \in Queries
      /\ Authorized(e.query.actor, e.query.scope.tenant)
      /\ e.set # None /\ SawSet(e, sets, events)
      /\ e.ver # None /\ SawVersion(e) /\ Evaluates(e, versions)
  BY EvaluatingFacts
<1>2. program \in Texts /\ program # None
  BY ReadAssumption DEF RunsOn
<1>3. /\ f \in Read /\ f.pc = pc /\ f.at = e.at /\ f.query = e.query
      /\ f.since = e.since /\ f.id = e.id /\ f.set = e.set /\ f.ver = e.ver
      /\ f.program = program /\ f.out = None
  BY <1>1, <1>2 DEF Read, ReadPCs
<1>4. Proceed(r, f)
  OBVIOUS
<1> HIDE DEF f
<1>5. /\ SawSet(f, sets, events) /\ SawVersion(f) /\ Evaluates(f, versions)
      /\ RunsOn(f, program)
  BY <1>1, <1>3, SameSight DEF Evaluates, RunsOn
<1>6. ReadSound(f, sets, versions, events)
  BY <1>1, <1>2, <1>3, <1>5, ReadAssumption DEF ReadSound, ReadCodes
<1>7. QED
  BY <1>2, <1>3, <1>4, <1>6, ProceedInv

LEMMA LoadCompiledInv ==
    ASSUME EvalInv, NEW r \in Readers, LoadCompiled(r)
    PROVE  EvalInv'
<1> DEFINE e == eval[r]
           hit == compiled[e.at][e.ver.sum]
<1>1. /\ e.pc = "load" /\ UNCHANGED compiled
  BY DEF LoadCompiled
<1>2. /\ e \in Read /\ e.at \in Replicas /\ e.out = None
      /\ Authorized(e.query.actor, e.query.scope.tenant)
      /\ e.set # None /\ SawSet(e, sets, events)
      /\ e.ver # None /\ SawVersion(e)
      /\ e.ver.sum \in Texts /\ e.ver.def \in Texts
      /\ Evaluates(e, versions)
  BY <1>1, EvaluatingFacts
<1>3. compiled' \in [Replicas -> [Texts -> Texts \cup {None}]]
  BY <1>1 DEF EvalInv, EvalTypeOK
<1>4. UNCHANGED <<versions, storing>>
  BY DEF LoadCompiled, Proceed, Finish, Reply
<1>5. CacheBacked'
  BY <1>1, <1>4, SameCache
<1>6. ASSUME hit # None, Proceed(r, [e EXCEPT !.pc = "run", !.program = hit])
      PROVE  EvalInv'
  <2>1. Backed(e.ver.sum, hit, versions)
    BY <1>2, <1>6, CacheIsBacked DEF EvalInv
  <2>2. hit \in Texts
    BY <1>2, <1>6 DEF EvalInv, EvalTypeOK
  <2>3. RunsOn(e, hit)
    BY <2>1, <2>2 DEF Backed, RunsOn
  <2>4. QED
    BY <1>1, <1>3, <1>5, <1>6, <2>3, ProgramInv
<1>7. ASSUME Proceed(r, [e EXCEPT !.pc = "store", !.program = e.ver.def])
      PROVE  EvalInv'
  <2>1. RunsOn(e, e.ver.def)
    BY <1>2 DEF Evaluates, Publishable, RunsOn
  <2>2. QED
    BY <1>1, <1>3, <1>5, <1>7, <2>1, ProgramInv
<1>8. ASSUME Finish(r, "internal")
      PROVE  EvalInv'
  BY <1>1, <1>2, <1>8, ReplyInv DEF Finish, ReadCodes
<1>9. QED
  BY <1>6, <1>7, <1>8 DEF LoadCompiled

LEMMA LoadOrStoreInv ==
    ASSUME EvalInv, NEW r \in Readers, LoadOrStore(r)
    PROVE  EvalInv'
<1> DEFINE e == eval[r]
           hit == compiled[e.at][e.ver.sum]
           kept == IF hit = None THEN e.program ELSE hit
<1>1. /\ e.pc = "store"
      /\ compiled' = [compiled EXCEPT ![e.at][e.ver.sum] = kept]
      /\ Proceed(r, [e EXCEPT !.pc = "run", !.program = kept])
  BY DEF LoadOrStore
<1>2. /\ e.at \in Replicas /\ e.ver.sum \in Texts /\ Evaluates(e, versions)
      /\ RunsOn(e, e.program)
  BY <1>1, EvaluatingFacts, ReadFacts DEF ReadSound
<1>3. RunsOn(e, kept)
  <2>1. CASE hit = None
    BY <1>2, <2>1
  <2>2. CASE hit # None
    <3>1. Backed(e.ver.sum, hit, versions)
      BY <1>2, <2>2, CacheIsBacked DEF EvalInv
    <3>2. hit \in Texts
      BY <1>2, <2>2 DEF EvalInv, EvalTypeOK
    <3>3. QED
      BY <2>2, <3>1, <3>2 DEF Backed, RunsOn
  <2>3. QED
    BY <2>1, <2>2
<1>4. kept \in Texts /\ Backed(e.ver.sum, kept, versions)
  BY <1>2, <1>3 DEF RunsOn, Evaluates, Backed
<1> HIDE DEF kept
<1>5. compiled' \in [Replicas -> [Texts -> Texts \cup {None}]]
  BY <1>1, <1>2, <1>4 DEF EvalInv, EvalTypeOK
<1>6. \A p \in Replicas, k \in Texts :
         compiled'[p][k] = IF p = e.at /\ k = e.ver.sum THEN kept
                           ELSE compiled[p][k]
  BY <1>1, <1>2 DEF EvalInv, EvalTypeOK
<1>7. CacheBacked'
  <2>1. UNCHANGED <<versions, storing>>
    BY <1>1 DEF Proceed
  <2>2. \A p \in Replicas, k \in Texts :
           compiled'[p][k] # None => Backed(k, compiled'[p][k], versions)
    BY <1>4, <1>6, CacheIsBacked DEF EvalInv
  <2>3. QED
    BY <2>1, <2>2, CacheIsBacked DEF EvalInv, CacheBacked, Backed
<1>8. QED
  BY <1>1, <1>3, <1>5, <1>7, ProgramInv

LEMMA RunInv ==
    ASSUME EvalInv, NEW r \in Readers, Run(r)
    PROVE  EvalInv'
<1>1. eval[r].pc = "run" /\ UNCHANGED compiled
  BY DEF Run
<1>2. PICK code \in {"ok", "invalid", "internal"} : Finish(r, code)
  BY DEF Run
<1>3. code \in ReadCodes /\ code \notin {"notFound", "conflict"}
  BY DEF ReadCodes
<1>4. QED
  BY <1>1, <1>2, <1>3, EvaluatingFacts, ReplyInv DEF Finish

LEMMA ReadFailsInv ==
    ASSUME EvalInv, NEW r \in Readers, ReadFails(r)
    PROVE  EvalInv'
<1>1. /\ eval[r].pc \in {"readSet", "readVersion"}
      /\ Finish(r, "internal") /\ UNCHANGED compiled
  BY DEF ReadFails
<1>2. "internal" \in ReadCodes
  BY DEF ReadCodes
<1>3. QED
  BY <1>1, <1>2, ReadFacts, ReplyInv DEF Finish, ReadSound

LEMMA StoreCompiledInv ==
    ASSUME EvalInv, NEW p \in Replicas, StoreCompiled(p)
    PROVE  EvalInv'
<1>1. PICK e \in storing[p] :
         /\ compiled' = [compiled EXCEPT ![p][e.sum] = e.text]
         /\ storing' = [storing EXCEPT ![p] = @ \ {e}]
         /\ UNCHANGED <<sets, versions, events, eval>>
  BY DEF StoreCompiled
<1>2. /\ e.sum \in Texts /\ e.text \in Texts
      /\ Backed(e.sum, e.text, versions)
  BY CacheIsBacked DEF EvalInv, EvalTypeOK
<1>3. \A o \in Replicas, k \in Texts :
         compiled'[o][k] = IF o = p /\ k = e.sum THEN e.text
                           ELSE compiled[o][k]
  BY <1>1, <1>2 DEF EvalInv, EvalTypeOK
<1>4. \A o \in Replicas : storing'[o] \subseteq storing[o]
  BY <1>1 DEF EvalInv, EvalTypeOK
<1>5. EvalTypeOK'
  BY <1>1, <1>2 DEF EvalInv, EvalTypeOK
<1>6. CacheBacked'
  <2>1. \A o \in Replicas, k \in Texts :
           compiled'[o][k] # None => Backed(k, compiled'[o][k], versions)
    BY <1>2, <1>3, CacheIsBacked DEF EvalInv
  <2>2. \A o \in Replicas : \A d \in storing'[o] : Backed(d.sum, d.text, versions)
    BY <1>4, CacheIsBacked DEF EvalInv
  <2>3. QED
    BY <1>1, <2>1, <2>2 DEF CacheBacked, Backed
<1>7. QED
  BY <1>1, <1>5, <1>6 DEF EvalInv

LEMMA RestartInv ==
    ASSUME EvalInv, NEW p \in Replicas, Restart(p)
    PROVE  EvalInv'
<1>1. /\ compiled' = [compiled EXCEPT ![p] = EmptyCache]
      /\ storing' = [storing EXCEPT ![p] = {}]
      /\ eval' = [r \in Readers |-> IF eval[r].at = p THEN NoRead ELSE eval[r]]
      /\ UNCHANGED <<sets, versions, events>>
  BY DEF Restart
<1>2. NoRead \in Read /\ ReadSound(NoRead, sets, versions, events)
      /\ NoRead.pc = "idle"
  BY DEF NoRead, Read, ReadPCs, ReadSound
<1>3. /\ \A r \in Readers : eval'[r] \in {NoRead, eval[r]}
      /\ \A r \in Readers : eval'[r] \in Read
  BY <1>1, <1>2 DEF EvalInv, EvalTypeOK
<1>4. EvalTypeOK'
  <2>1. EmptyCache \in [Texts -> Texts \cup {None}]
    BY DEF EmptyCache
  <2>2. /\ compiled' \in [Replicas -> [Texts -> Texts \cup {None}]]
        /\ storing' \in [Replicas -> SUBSET [sum : Texts, text : Texts]]
    BY <1>1, <2>1 DEF EvalInv, EvalTypeOK
  <2>3. eval' \in [Readers -> Read]
    BY <1>1, <1>3
  <2>4. \A r \in Readers : eval'[r].pc = "run" => eval'[r].program # None
    BY <1>2, <1>3 DEF EvalInv, EvalTypeOK
  <2>5. QED
    BY <2>2, <2>3, <2>4 DEF EvalTypeOK
<1>5. CacheBacked'
  <2>1. \A o \in Replicas, k \in Texts :
           compiled'[o][k] # None => compiled'[o][k] = compiled[o][k]
    BY <1>1 DEF EvalInv, EvalTypeOK, EmptyCache
  <2>2. \A o \in Replicas : storing'[o] \subseteq storing[o]
    BY <1>1 DEF EvalInv, EvalTypeOK
  <2>3. QED
    BY <1>1, <2>1, <2>2, CacheIsBacked DEF EvalInv, CacheBacked, Backed
<1>6. \A r \in Readers : ReadSound(eval'[r], sets, versions, events)
  BY <1>2, <1>3 DEF EvalInv
<1>7. QED
  BY <1>1, <1>4, <1>5, <1>6 DEF EvalInv
-----------------------------------------------------------------------------
(* The theorems *)

LEMMA InitEvalInv == EvalInit => EvalInv
<1> SUFFICES ASSUME EvalInit PROVE EvalInv
  OBVIOUS
<1>1. NoRead \in Read /\ ReadSound(NoRead, sets, versions, events)
      /\ NoRead.pc = "idle"
  BY DEF NoRead, Read, ReadPCs, ReadSound
<1>2. EmptyCache \in [Texts -> Texts \cup {None}]
  BY DEF EmptyCache
<1>3. EvalTypeOK
  BY <1>1, <1>2 DEF EvalInit, EvalTypeOK
<1>4. CacheBacked
  BY DEF EvalInit, CacheBacked, EmptyCache
<1>5. QED
  BY <1>1, <1>3, <1>4 DEF EvalInv, EvalInit

(* The catalogue takes no step of its own kind beside the four operations. *)
LEMMA CatalogSteps == [EvalNext]_allVars => [Next]_vars
<1> SUFFICES ASSUME [EvalNext]_allVars PROVE [Next]_vars
  OBVIOUS
<1>1. CASE UNCHANGED allVars
  BY <1>1 DEF allVars, vars
<1>2. ASSUME NEW p \in Replicas, NEW c \in Calls,
             EditAt(p, c) \/ DraftAt(p, c) \/ PublishAt(p, c)
      PROVE  Next
  BY <1>2 DEF EditAt, DraftAt, PublishAt, Next
<1>3. ASSUME NEW p \in Replicas, NEW c \in Calls, RedraftAt(p, c)
      PROVE  UNCHANGED vars
  BY <1>3 DEF RedraftAt, vars
<1>4. ASSUME NEW p \in Replicas, StoreCompiled(p) \/ Restart(p)
      PROVE  UNCHANGED vars
  BY <1>4 DEF StoreCompiled, Restart, vars
<1>5. ASSUME NEW p \in Replicas, NEW r \in Readers, NEW q \in Queries,
             BeginRead(r, p, q)
      PROVE  UNCHANGED vars
  BY <1>5 DEF BeginRead, Proceed, vars
<1>6. ASSUME NEW r \in Readers, ReadStep(r) \/ ReadFails(r)
      PROVE  UNCHANGED vars
  BY <1>6 DEF ReadStep, ReadFails, ReadRuleSet, ReadRuleVersion,
              LoadCompiled, LoadOrStore, Run, Finish, Reply, Proceed, vars
<1>7. QED
  BY <1>1, <1>2, <1>3, <1>4, <1>5, <1>6 DEF EvalNext

(* Whatever is evaluated meanwhile, the tables and the events behave as    *)
(* RuleCatalog says: a read, a cache or a restart never changes a row.     *)
THEOREM EvaluationKeepsCatalog == EvalSpec => Spec
<1>1. EvalInit => Init
  BY DEF EvalInit
<1>2. QED
  BY <1>1, CatalogSteps, PTL DEF EvalSpec, Spec

LEMMA StepEvalInv ==
    CatalogInv /\ CatalogInv' /\ EvalInv /\ [EvalNext]_allVars => EvalInv'
<1> SUFFICES ASSUME CatalogInv, CatalogInv', EvalInv, [EvalNext]_allVars
             PROVE  EvalInv'
  OBVIOUS
<1>1. RowsStay
  BY CatalogSteps, StepRowsStay
<1>2. CASE UNCHANGED allVars
  <2>1. EvalTypeOK'
    BY <1>2 DEF allVars, EvalInv, EvalTypeOK
  <2>2. CacheBacked'
    BY <1>2, SameCache DEF allVars
  <2>3. QED
    BY <1>2, <2>1, <2>2 DEF allVars, EvalInv
<1>3. ASSUME NEW p \in Replicas, NEW c \in Calls,
             EditAt(p, c) \/ DraftAt(p, c) \/ RedraftAt(p, c) \/ PublishAt(p, c)
      PROVE  EvalInv'
  BY <1>1, <1>3, EditAtInv, DraftAtInv, RedraftAtInv, PublishAtInv
<1>4. ASSUME NEW p \in Replicas, StoreCompiled(p) \/ Restart(p)
      PROVE  EvalInv'
  BY <1>4, StoreCompiledInv, RestartInv
<1>5. ASSUME NEW p \in Replicas, NEW r \in Readers, NEW q \in Queries,
             BeginRead(r, p, q)
      PROVE  EvalInv'
  BY <1>5, BeginReadInv
<1>6. ASSUME NEW r \in Readers, ReadStep(r) \/ ReadFails(r)
      PROVE  EvalInv'
  BY <1>6, ReadRuleSetInv, ReadRuleVersionInv, LoadCompiledInv,
     LoadOrStoreInv, RunInv, ReadFailsInv DEF ReadStep
<1>7. QED
  BY <1>2, <1>3, <1>4, <1>5, <1>6 DEF EvalNext

(* The invariant holds throughout: a write leaves what each read has seen  *)
(* true, and each statement of a read sees what the invariant says.        *)
THEOREM EvaluationSafe == EvalSpec => [](CatalogInv /\ EvalInv)
<1>1. EvalSpec => []CatalogInv
  BY EvaluationKeepsCatalog, CatalogSafe, PTL
<1>2. EvalSpec => []EvalInv
  BY <1>1, InitEvalInv, StepEvalInv, PTL DEF EvalSpec
<1>3. QED
  BY <1>1, <1>2, PTL

(* The caches, the pending stores and the reads keep their types.          *)
THEOREM EvaluationTypes == EvalSpec => []EvalTypeOK
<1>1. EvalInv => EvalTypeOK
  BY DEF EvalInv
<1>2. QED
  BY <1>1, EvaluationSafe, PTL

(* No replica ever caches, or is about to cache, a program under another   *)
(* checksum than its own or for a version that was not committed.          *)
THEOREM CachesStayBacked == EvalSpec => []CacheBacked
<1>1. EvalInv => CacheBacked
  BY DEF EvalInv
<1>2. QED
  BY <1>1, EvaluationSafe, PTL

(* The program that compiledDefinition hands to a read, from any cache,    *)
(* is that of the published version the read found in its own scope.       *)
THEOREM ProgramsAreRight == EvalSpec => []RightProgram
<1>1. EvalInv => RightProgram
  <2> SUFFICES ASSUME EvalInv, NEW r \in Readers, eval[r].program # None
               PROVE  LET e == eval[r]
                      IN  /\ Checksum(e.program) = e.ver.sum
                          /\ e.ver.status = "published"
                          /\ e.ver.scope = e.query.scope
                          /\ Authorized(e.query.actor, e.ver.scope.tenant)
    BY DEF RightProgram
  <2>1. eval[r].pc \in {"store", "run"} /\ RunsOn(eval[r], eval[r].program)
    BY ReadFacts DEF ReadSound
  <2>2. QED
    BY <2>1, EvaluatingFacts DEF RunsOn, Evaluates, SawVersion
<1>2. QED
  BY <1>1, EvaluationSafe, PTL

(* The two statements of a read, without a transaction: the pointer that   *)
(* the first one saw leads the second to a published version, and to none  *)
(* that is older than the beginning of the read.                           *)
THEOREM ReadsAreConsistent == EvalSpec => []ReadsFollowPointer
<1>1. EvalInv => PointerNeverDangles
  BY ReadFacts DEF PointerNeverDangles, ReadSound, SawVersion, Wanted
<1>2. EvalInv => ReadIsCurrent
  <2> SUFFICES ASSUME EvalInv, NEW r \in Readers, eval[r].ver # None,
                      eval[r].query.number = 0
               PROVE  LET e == eval[r]
                      IN  \/ e.since # None /\ e.ver.number = e.since.pub
                          \/ \E v \in events :
                                /\ v.set = e.id /\ v.number = e.ver.number
                                /\ e.since = None \/ v.rev > e.since.version
    BY DEF ReadIsCurrent
  <2> DEFINE e == eval[r]
  <2>1. SawVersion(e) /\ e.set # None /\ SawSet(e, sets, events)
    BY ReadFacts DEF ReadSound, SawVersion
  <2>2. e.ver.number = e.set.pub /\ e.set.pub # 0
    BY <2>1 DEF SawVersion, Wanted
  <2>3. QED
    BY <2>1, <2>2 DEF SawSet, Current, SinceThen
<1>3. QED
  BY <1>1, <1>2, EvaluationSafe, PTL DEF ReadsFollowPointer
=============================================================================
