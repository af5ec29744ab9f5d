------------------------- MODULE RuleCatalogProofs -------------------------
(***************************************************************************)
(* Proofs about RuleCatalog, for every set of tenants, rows, texts and     *)
(* calls.                                                                  *)
(***************************************************************************)
EXTENDS RuleCatalog, TLAPS
-----------------------------------------------------------------------------
(* The row images the operations build are rows.                           *)
LEMMA ImagesTyped ==
    ASSUME NEW c \in Calls, Admissible(c)
    PROVE  /\ c.op = "createRuleSet" => NewSet(c) \in RuleSet
           /\ \A row \in RuleSet :
                 c.op = "updateRuleSet" => UpdatedSet(row, c) \in RuleSet
           /\ \A n \in Nat :
                 c.op = "createRuleVersion" => NewVersion(c, n) \in RuleVersion
           /\ \A row \in RuleVersion : PublishedVersion(row, c) \in RuleVersion
           /\ \A row \in RuleSet, n \in Nat :
                 ActivatedSet(row, n, c) \in RuleSet
<1>1. c \in Call
  BY CallAssumption
<1>2. c.op = "createRuleSet" => NewSet(c) \in RuleSet
  BY <1>1 DEF Call, Admissible, ValidRequest, ValidCreateRuleSet, NewSet,
              RuleSet, SetStatus
<1>3. \A row \in RuleSet :
         c.op = "updateRuleSet" => UpdatedSet(row, c) \in RuleSet
  <2> SUFFICES ASSUME NEW row \in RuleSet, c.op = "updateRuleSet"
               PROVE  UpdatedSet(row, c) \in RuleSet
    OBVIOUS
  <2>1. c.name \in Names /\ c.status \in SetStatus /\ c.actor \in Actors
    BY <1>1 DEF Call, Admissible, ValidRequest, ValidUpdateRuleSet
  <2>2. row.version + 1 \in Nat
    BY DEF RuleSet
  <2>3. QED
    BY <2>1, <2>2 DEF UpdatedSet, RuleSet
<1>4. \A n \in Nat :
         c.op = "createRuleVersion" => NewVersion(c, n) \in RuleVersion
  BY <1>1, TextAssumption, BlankAssumption
  DEF Call, Admissible, ValidRequest, ValidCreateRuleVersion, NewVersion,
      RuleVersion, VersionStatus, Checksum
<1>5. \A row \in RuleVersion : PublishedVersion(row, c) \in RuleVersion
  <2> SUFFICES ASSUME NEW row \in RuleVersion
               PROVE  PublishedVersion(row, c) \in RuleVersion
    OBVIOUS
  <2>1. row.version + 1 \in Nat
    BY DEF RuleVersion
  <2>2. QED
    BY <1>1, <2>1 DEF Call, PublishedVersion, RuleVersion, VersionStatus
<1>6. \A row \in RuleSet, n \in Nat : ActivatedSet(row, n, c) \in RuleSet
  <2> SUFFICES ASSUME NEW row \in RuleSet, NEW n \in Nat
               PROVE  ActivatedSet(row, n, c) \in RuleSet
    OBVIOUS
  <2>1. row.version + 1 \in Nat
    BY DEF RuleSet
  <2>2. QED
    BY <1>1, <2>1 DEF Call, ActivatedSet, RuleSet, SetStatus
<1>7. QED
  BY <1>2, <1>3, <1>4, <1>5, <1>6
-----------------------------------------------------------------------------
(* The maximum that SelectMax computes over 1 .. n.                        *)
LEMMA MaxOfRange ==
    ASSUME NEW n \in Nat
    PROVE  Max({0} \cup (1 .. n)) = n
<1> DEFINE S == {0} \cup (1 .. n)
<1>1. n \in S /\ \A y \in S : n >= y
  OBVIOUS
<1>2. \A x \in S : (\A y \in S : x >= y) => x = n
  BY <1>1
<1>3. QED
  BY <1>1, <1>2 DEF Max
-----------------------------------------------------------------------------
(* Version numbers *)

(* While the numbers are dense, the next number is one more than the last. *)
LEMMA NextNumberDense ==
    ASSUME TypeOK, NumbersDense, NEW s \in Stored(sets)
    PROVE  \E n \in Nat :
              /\ Numbers(versions, sets[s].scope, s) = 1 .. n
              /\ NextNumber(versions, sets[s].scope, s) = n + 1
<1> DEFINE N == Numbers(versions, sets[s].scope, s)
<1>1. N \subseteq Nat
  BY NoneAssumption
  DEF TypeOK, Numbers, VersionsOf, HasVersion, Stored, RuleVersion
<1>2. PICK n \in {0} \cup N : N = 1 .. n
  BY DEF NumbersDense
<1>3. n \in Nat
  BY <1>1, <1>2
<1>4. Max({0} \cup N) = n
  BY <1>2, <1>3, MaxOfRange
<1>5. QED
  BY <1>2, <1>3, <1>4 DEF NextNumber
-----------------------------------------------------------------------------
(* Each operation preserves the invariant *)

LEMMA InitInv == Init => CatalogInv
<1> SUFFICES ASSUME Init PROVE CatalogInv
  OBVIOUS
<1>1. Stored(sets) = {} /\ Stored(versions) = {} /\ events = {}
  BY DEF Init, Stored
<1>2. TypeOK
  BY DEF Init, TypeOK
<1>3. QED
  BY <1>1, <1>2
  DEF CatalogInv, VersionsInScope, CodesUnique, NumbersDense, KeysUnique,
      EventsMatchPublished, LatestEventIsPointer,
      PublishedDefinitionsCompile, TenantIsolation

(* Rule sets only: what the two operations that write nothing else keep.   *)
(* Scope, code and pointer of the rows that exist stay, revisions do not   *)
(* decrease, and a new row has nothing published.                          *)
SetsOnly ==
    /\ UNCHANGED <<versions, events>>
    /\ Stored(sets) \subseteq Stored(sets')
    /\ \A s \in Stored(sets) :
          /\ sets'[s].scope = sets[s].scope
          /\ sets'[s].code = sets[s].code
          /\ sets'[s].pub = sets[s].pub
          /\ sets[s].version <= sets'[s].version
    /\ \A s \in Stored(sets') \ Stored(sets) : sets'[s].pub = 0

(* The owner of an event or of a version is a stored rule set.             *)
LEMMA OwnersStored ==
    ASSUME CatalogInv
    PROVE  /\ \A v \in Stored(versions) : versions[v].set \in Stored(sets)
           /\ \A e \in events : e.ver \in Stored(versions) /\ e.set \in Stored(sets)
           /\ \A e \in events : versions[e.ver].set = e.set
BY DEF CatalogInv, VersionsInScope, EventsMatchPublished, HasSet, VersionsOf,
       HasVersion

LEMMA SetsOnlyInv ==
    ASSUME CatalogInv, SetsOnly, TypeOK', CodesUnique', TenantIsolation'
    PROVE  CatalogInv'
<1>1. \A s \in Stored(sets') \ Stored(sets) :
         /\ VersionsOf(versions, sets'[s].scope, s) = {}
         /\ \A e \in events : e.set # s
  BY OwnersStored DEF VersionsOf, HasVersion
<1>2. VersionsInScope'
  BY DEF CatalogInv, VersionsInScope, SetsOnly, HasSet
<1>3. NumbersDense'
  <2> SUFFICES ASSUME NEW s \in Stored(sets')
               PROVE  LET scope == sets'[s].scope
                      IN  /\ \E n \in {0} \cup Numbers(versions, scope, s) :
                                Numbers(versions, scope, s) = 1 .. n
                          /\ \A u, v \in VersionsOf(versions, scope, s) :
                                versions[u].number = versions[v].number
                                => u = v
    BY DEF NumbersDense, SetsOnly
  <2>1. CASE s \in Stored(sets)
    BY <2>1 DEF CatalogInv, NumbersDense, SetsOnly
  <2>2. CASE s \notin Stored(sets)
    <3>1. VersionsOf(versions, sets'[s].scope, s) = {}
      BY <1>1, <2>2
    <3>2. Numbers(versions, sets'[s].scope, s) = 1 .. 0
      BY <3>1 DEF Numbers
    <3>3. QED
      BY <3>1, <3>2
  <2>3. QED
    BY <2>1, <2>2
<1>4. LatestEventIsPointer'
  <2>1. ASSUME NEW s \in Stored(sets')
        PROVE  IF \A e \in events : e.set # s
               THEN sets'[s].pub = 0
               ELSE \E e \in events :
                       /\ e.set = s
                       /\ e.number = sets'[s].pub
                       /\ \A d \in events : d.set = s => d = e \/ d.rev < e.rev
    <3>1. CASE s \in Stored(sets)
      BY <3>1 DEF CatalogInv, LatestEventIsPointer, SetsOnly
    <3>2. CASE s \notin Stored(sets)
      BY <1>1, <3>2 DEF SetsOnly
    <3>3. QED
      BY <3>1, <3>2
  <2>2. ASSUME NEW e \in events
        PROVE  e.rev <= sets'[e.set].version
    <3>1. e.set \in Stored(sets) /\ e.rev <= sets[e.set].version
      BY OwnersStored DEF CatalogInv, LatestEventIsPointer
    <3>2. sets[e.set].version <= sets'[e.set].version
      BY <3>1 DEF SetsOnly
    <3>3. e.rev \in Nat /\ sets[e.set].version \in Nat
          /\ sets'[e.set].version \in Nat
      BY <3>1, NoneAssumption
      DEF CatalogInv, TypeOK, Event, RuleSet, SetsOnly, Stored
    <3>4. QED
      BY <3>1, <3>2, <3>3
  <2>3. QED
    BY <2>1, <2>2 DEF LatestEventIsPointer, SetsOnly
<1>5. KeysUnique' /\ EventsMatchPublished' /\ PublishedDefinitionsCompile'
  BY DEF CatalogInv, KeysUnique, EventsMatchPublished,
         PublishedDefinitionsCompile, SetsOnly
<1>6. QED
  BY <1>2, <1>3, <1>4, <1>5 DEF CatalogInv

LEMMA CreateRuleSetInv ==
    ASSUME CatalogInv, NEW c \in Calls, CreateRuleSet(c)
    PROVE  CatalogInv'
<1>1. PICK id \in SetIds \ Stored(sets) : sets' = [sets EXCEPT ![id] = NewSet(c)]
  BY DEF CreateRuleSet
<1>2. NewSet(c) \in RuleSet /\ NewSet(c) # None
  BY ImagesTyped, NoneAssumption DEF CreateRuleSet
<1>3. TypeOK'
  BY <1>1, <1>2 DEF CatalogInv, TypeOK, CreateRuleSet
<1>4. /\ Stored(sets') = Stored(sets) \cup {id}
      /\ sets'[id] = NewSet(c)
      /\ \A s \in Stored(sets) : sets'[s] = sets[s]
  BY <1>1, <1>2 DEF CatalogInv, TypeOK, Stored
<1>5. SetsOnly
  <2>1. \A s \in Stored(sets) : sets[s].version \in Nat
    BY NoneAssumption DEF CatalogInv, TypeOK, RuleSet, Stored
  <2>2. sets'[id].pub = 0
    BY <1>4 DEF NewSet
  <2>3. \A s \in Stored(sets) : sets[s].version <= sets'[s].version
    BY <1>4, <2>1
  <2>4. QED
    BY <1>4, <2>2, <2>3 DEF SetsOnly, CreateRuleSet
<1>6. CodesUnique'
  BY <1>4 DEF CatalogInv, CodesUnique, CreateRuleSet, CodeTaken, NewSet
<1>7. TenantIsolation'
  <2>1. Authorized(sets'[id].by, sets'[id].scope.tenant)
    BY <1>4 DEF CreateRuleSet, Admissible, NewSet
  <2>2. versions' = versions
    BY DEF CreateRuleSet
  <2>3. QED
    BY <1>4, <2>1, <2>2 DEF CatalogInv, TenantIsolation
<1>8. QED
  BY <1>3, <1>5, <1>6, <1>7, SetsOnlyInv

LEMMA UpdateRuleSetInv ==
    ASSUME CatalogInv, NEW c \in Calls, UpdateRuleSet(c)
    PROVE  CatalogInv'
<1> DEFINE row == UpdatedSet(sets[c.set], c)
<1>1. c.set \in Stored(sets) /\ c.set \in SetIds /\ sets[c.set] \in RuleSet
  BY NoneAssumption DEF UpdateRuleSet, HasSet, CatalogInv, TypeOK, Stored
<1>2. row \in RuleSet /\ row # None
  BY <1>1, ImagesTyped, NoneAssumption DEF UpdateRuleSet
<1>3. TypeOK'
  BY <1>1, <1>2 DEF CatalogInv, TypeOK, UpdateRuleSet
<1>4. /\ Stored(sets') = Stored(sets)
      /\ sets'[c.set] = row
      /\ \A s \in Stored(sets) : s # c.set => sets'[s] = sets[s]
  BY <1>1, <1>2 DEF CatalogInv, TypeOK, Stored, UpdateRuleSet
<1>5. /\ row.scope = sets[c.set].scope
      /\ row.code = sets[c.set].code
      /\ row.pub = sets[c.set].pub
      /\ row.version = sets[c.set].version + 1
      /\ row.by = c.actor
  BY <1>1 DEF UpdatedSet, RuleSet
<1>6. SetsOnly
  <2>1. \A s \in Stored(sets) : sets[s].version \in Nat
    BY NoneAssumption DEF CatalogInv, TypeOK, RuleSet, Stored
  <2>2. \A s \in Stored(sets) : sets[s].version <= sets'[s].version
    BY <1>4, <1>5, <2>1
  <2>3. QED
    BY <1>4, <1>5, <2>2 DEF SetsOnly, UpdateRuleSet
<1>7. CodesUnique'
  BY <1>4, <1>5 DEF CatalogInv, CodesUnique
<1>8. TenantIsolation'
  BY <1>1, <1>4, <1>5
  DEF CatalogInv, TenantIsolation, UpdateRuleSet, Admissible, HasSet
<1>9. QED
  BY <1>3, <1>6, <1>7, <1>8, SetsOnlyInv

LEMMA CreateRuleVersionInv ==
    ASSUME CatalogInv, NEW c \in Calls, CreateRuleVersion(c)
    PROVE  CatalogInv'
<1> DEFINE number == NextNumber(versions, c.scope, c.set)
           row == NewVersion(c, number)
<1>1. /\ c.set \in Stored(sets) /\ c.set \in SetIds
      /\ sets[c.set].scope = c.scope
  BY DEF CreateRuleVersion, HasSet, CatalogInv, TypeOK, Stored
<1>2. PICK n \in Nat : /\ Numbers(versions, c.scope, c.set) = 1 .. n
                       /\ number = n + 1
  BY <1>1, NextNumberDense DEF CatalogInv
<1>3. PICK id \in VersionIds \ Stored(versions) :
         versions' = [versions EXCEPT ![id] = row]
  BY DEF CreateRuleVersion
<1>4. row \in RuleVersion /\ row # None
  <2>1. number \in Nat
    BY <1>2
  <2>2. QED
    BY <2>1, ImagesTyped, NoneAssumption DEF CreateRuleVersion
<1>5. TypeOK'
  BY <1>3, <1>4 DEF CatalogInv, TypeOK, CreateRuleVersion
<1>6. /\ Stored(versions') = Stored(versions) \cup {id}
      /\ versions'[id] = row
      /\ \A v \in Stored(versions) : versions'[v] = versions[v]
      /\ sets' = sets /\ events' = events
  BY <1>3, <1>4 DEF CatalogInv, TypeOK, Stored, CreateRuleVersion
<1>7. /\ row.scope = c.scope /\ row.set = c.set /\ row.number = number
      /\ row.key = c.key /\ row.status = "draft" /\ row.by = c.actor
  BY DEF NewVersion
<1>8. VersionsInScope'
  BY <1>1, <1>6, <1>7 DEF CatalogInv, VersionsInScope, HasSet
<1>9. CodesUnique'
  BY <1>6 DEF CatalogInv, CodesUnique
<1>10. NumbersDense'
  <2> SUFFICES ASSUME NEW s \in Stored(sets)
               PROVE  LET scope == sets[s].scope
                      IN  /\ \E m \in {0} \cup Numbers(versions', scope, s) :
                                Numbers(versions', scope, s) = 1 .. m
                          /\ \A u, v \in VersionsOf(versions', scope, s) :
                                versions'[u].number = versions'[v].number
                                => u = v
    BY <1>6 DEF NumbersDense
  <2>1. CASE s # c.set
    <3>1. VersionsOf(versions', sets[s].scope, s)
            = VersionsOf(versions, sets[s].scope, s)
      BY <1>6, <1>7, <2>1 DEF VersionsOf, HasVersion
    <3>2. \A v \in VersionsOf(versions, sets[s].scope, s) :
             versions'[v] = versions[v]
      BY <1>6 DEF VersionsOf
    <3>3. Numbers(versions', sets[s].scope, s)
            = Numbers(versions, sets[s].scope, s)
      BY <3>1, <3>2 DEF Numbers
    <3>4. QED
      BY <3>1, <3>2, <3>3 DEF CatalogInv, NumbersDense
  <2>2. CASE s = c.set
    <3>1. VersionsOf(versions', c.scope, s)
            = VersionsOf(versions, c.scope, s) \cup {id}
      BY <1>6, <1>7, <2>2 DEF VersionsOf, HasVersion
    <3>2. \A v \in VersionsOf(versions, c.scope, s) :
             /\ versions'[v] = versions[v]
             /\ versions[v].number \in 1 .. n
      BY <1>2, <1>6, <2>2 DEF VersionsOf, Numbers
    <3>3. Numbers(versions', c.scope, s)
            = Numbers(versions, c.scope, s) \cup {n + 1}
      BY <1>2, <1>6, <1>7, <3>1, <3>2 DEF Numbers
    <3>4. Numbers(versions', c.scope, s) = 1 .. (n + 1)
      BY <1>2, <2>2, <3>3
    <3>5. \A v \in VersionsOf(versions, c.scope, s) :
             versions'[v].number # versions'[id].number
      BY <1>2, <1>6, <1>7, <3>2
    <3>6. \A u, v \in VersionsOf(versions', c.scope, s) :
             versions'[u].number = versions'[v].number => u = v
      BY <1>1, <2>2, <3>1, <3>2, <3>5 DEF CatalogInv, NumbersDense
    <3>7. QED
      BY <1>1, <2>2, <3>3, <3>4, <3>6
  <2>3. QED
    BY <2>1, <2>2
<1>11. KeysUnique'
  <2>1. \A v \in Stored(versions) :
           ~(versions[v].set = c.set /\ versions[v].key = c.key)
    BY <1>1 DEF CreateRuleVersion, WithKey, VersionsOf, HasVersion,
                CatalogInv, VersionsInScope, HasSet
  <2>2. QED
    BY <1>6, <1>7, <2>1 DEF CatalogInv, KeysUnique
<1>12. EventsMatchPublished'
  <2>1. \A e \in events : e.ver # id /\ e.ver \in Stored(versions)
    BY OwnersStored
  <2>2. \A e \in events : e.ver \in VersionsOf(versions', e.scope, e.set)
                          /\ versions'[e.ver].number = e.number
    BY <1>6, <2>1
    DEF CatalogInv, EventsMatchPublished, VersionsOf, HasVersion
  <2>3. \A v \in Stored(versions') :
           versions'[v].status = "published" <=> \E e \in events : e.ver = v
    BY <1>6, <1>7, <2>1 DEF CatalogInv, EventsMatchPublished
  <2>4. QED
    BY <1>6, <2>2, <2>3 DEF CatalogInv, EventsMatchPublished
<1>13. LatestEventIsPointer'
  BY <1>6 DEF CatalogInv, LatestEventIsPointer
<1>14. PublishedDefinitionsCompile'
  BY <1>6, <1>7 DEF CatalogInv, PublishedDefinitionsCompile
<1>15. TenantIsolation'
  BY <1>6, <1>7
  DEF CatalogInv, TenantIsolation, CreateRuleVersion, Admissible
<1>16. QED
  BY <1>5, <1>8, <1>9, <1>10, <1>11, <1>12, <1>13, <1>14, <1>15
  DEF CatalogInv

LEMMA PublishRuleVersionInv ==
    ASSUME CatalogInv, NEW c \in Calls, PublishRuleVersion(c)
    PROVE  CatalogInv'
<1> DEFINE old == versions[c.ver]
           ver == PublishedVersion(old, c)
           set == ActivatedSet(sets[c.set], old.number, c)
           event == Publication(c, old.number)
<1>1. /\ c.set \in Stored(sets) /\ c.set \in SetIds
      /\ sets[c.set] \in RuleSet /\ sets[c.set].scope = c.scope
      /\ sets[c.set].version = c.expSet /\ c.expSet \in Nat
  BY NoneAssumption
  DEF PublishRuleVersion, HasSet, CatalogInv, TypeOK, Stored, RuleSet
<1>2. /\ c.ver \in Stored(versions) /\ c.ver \in VersionIds
      /\ old \in RuleVersion /\ old.scope = c.scope /\ old.set = c.set
      /\ old.status = "draft" /\ Publishable(old) /\ old.number \in Nat
  BY NoneAssumption
  DEF PublishRuleVersion, HasVersion, CatalogInv, TypeOK, Stored, RuleVersion
<1>3. /\ ver \in RuleVersion /\ ver # None
      /\ set \in RuleSet /\ set # None
  BY <1>1, <1>2, ImagesTyped, NoneAssumption DEF PublishRuleVersion
<1>4. event \in Event
  BY <1>1, <1>2, CallAssumption DEF Publication, Event, Call
<1>5. TypeOK'
  BY <1>1, <1>2, <1>3, <1>4 DEF CatalogInv, TypeOK, PublishRuleVersion
<1>6. /\ Stored(sets') = Stored(sets)
      /\ sets'[c.set] = set
      /\ \A s \in Stored(sets) : s # c.set => sets'[s] = sets[s]
  BY <1>1, <1>3 DEF CatalogInv, TypeOK, Stored, PublishRuleVersion
<1>7. /\ Stored(versions') = Stored(versions)
      /\ versions'[c.ver] = ver
      /\ \A v \in Stored(versions) : v # c.ver => versions'[v] = versions[v]
  BY <1>2, <1>3 DEF CatalogInv, TypeOK, Stored, PublishRuleVersion
<1>8. events' = events \cup {event}
  BY DEF PublishRuleVersion
<1>9. /\ set.scope = c.scope /\ set.code = sets[c.set].code
      /\ set.pub = old.number /\ set.version = c.expSet + 1
      /\ set.by = c.actor
  BY <1>1 DEF ActivatedSet, RuleSet
<1>10. /\ ver.scope = c.scope /\ ver.set = c.set /\ ver.number = old.number
       /\ ver.key = old.key /\ ver.status = "published"
       /\ ver.def = old.def /\ ver.sum = old.sum /\ ver.by = c.actor
  BY <1>2 DEF PublishedVersion, RuleVersion
<1>11. /\ event.scope = c.scope /\ event.set = c.set /\ event.ver = c.ver
       /\ event.number = old.number /\ event.rev = c.expSet + 1
  BY DEF Publication
<1>12. \A v \in Stored(versions) :
          /\ versions'[v].scope = versions[v].scope
          /\ versions'[v].set = versions[v].set
          /\ versions'[v].number = versions[v].number
          /\ versions'[v].key = versions[v].key
  BY <1>2, <1>7, <1>10
<1>13. \A s \in Stored(sets) : /\ sets'[s].scope = sets[s].scope
                               /\ sets'[s].code = sets[s].code
  BY <1>1, <1>6, <1>9
<1>14. \A scope, s : /\ VersionsOf(versions', scope, s)
                          = VersionsOf(versions, scope, s)
                     /\ Numbers(versions', scope, s)
                          = Numbers(versions, scope, s)
  <2> SUFFICES ASSUME NEW scope, NEW s
               PROVE  /\ VersionsOf(versions', scope, s)
                           = VersionsOf(versions, scope, s)
                      /\ Numbers(versions', scope, s)
                           = Numbers(versions, scope, s)
    OBVIOUS
  <2>1. VersionsOf(versions', scope, s) = VersionsOf(versions, scope, s)
    BY <1>7, <1>12 DEF VersionsOf, HasVersion
  <2>2. \A v \in VersionsOf(versions, scope, s) :
           versions'[v].number = versions[v].number
    BY <1>12 DEF VersionsOf
  <2>3. QED
    BY <2>1, <2>2 DEF Numbers
<1>15. VersionsInScope'
  BY <1>6, <1>7, <1>12, <1>13 DEF CatalogInv, VersionsInScope, HasSet
<1>16. CodesUnique'
  BY <1>6, <1>13 DEF CatalogInv, CodesUnique
<1>17. NumbersDense'
  <2>1. \A scope, s : \A v \in VersionsOf(versions, scope, s) :
           versions'[v].number = versions[v].number
    BY <1>12 DEF VersionsOf
  <2>2. QED
    BY <1>6, <1>13, <1>14, <2>1 DEF CatalogInv, NumbersDense
<1>18. KeysUnique'
  BY <1>7, <1>12 DEF CatalogInv, KeysUnique
<1>19. EventsMatchPublished'
  <2>1. \A e \in events : e.ver # c.ver
    BY <1>2 DEF CatalogInv, EventsMatchPublished
  <2>2. \A v \in Stored(versions') :
           versions'[v].status = "published" <=> \E e \in events' : e.ver = v
    BY <1>7, <1>8, <1>10, <1>11, <2>1 DEF CatalogInv, EventsMatchPublished
  <2>3. event.ver \in VersionsOf(versions, event.scope, event.set)
    BY <1>2, <1>11 DEF VersionsOf, HasVersion
  <2>4. \A e \in events' :
           /\ e.ver \in VersionsOf(versions', e.scope, e.set)
           /\ versions'[e.ver].number = e.number
    BY <1>2, <1>8, <1>11, <1>12, <1>14, <2>3, OwnersStored
    DEF CatalogInv, EventsMatchPublished
  <2>5. \A d, e \in events' : d.ver = e.ver => d = e
    BY <1>8, <1>11, <2>1 DEF CatalogInv, EventsMatchPublished
  <2>6. QED
    BY <2>2, <2>4, <2>5 DEF EventsMatchPublished
<1>20. LatestEventIsPointer'
  <2>1. \A e \in events : e.set = c.set => e.rev < event.rev
    BY <1>1, <1>11 DEF CatalogInv, LatestEventIsPointer, TypeOK, Event
  <2>2. ASSUME NEW s \in Stored(sets)
        PROVE  IF \A e \in events' : e.set # s
               THEN sets'[s].pub = 0
               ELSE \E e \in events' :
                       /\ e.set = s
                       /\ e.number = sets'[s].pub
                       /\ \A d \in events' : d.set = s => d = e \/ d.rev < e.rev
    <3>1. CASE s = c.set
      BY <1>6, <1>8, <1>9, <1>11, <2>1, <3>1
    <3>2. CASE s # c.set
      BY <1>6, <1>8, <1>11, <3>2 DEF CatalogInv, LatestEventIsPointer
    <3>3. QED
      BY <3>1, <3>2
  <2>3. ASSUME NEW e \in events'
        PROVE  e.rev <= sets'[e.set].version
    <3>1. CASE e = event
      BY <1>1, <1>6, <1>9, <1>11, <3>1
    <3>2. CASE e \in events /\ e.set = c.set
      BY <1>1, <1>6, <1>9, <1>11, <2>1, <3>2
      DEF CatalogInv, TypeOK, Event
    <3>3. CASE e \in events /\ e.set # c.set
      BY <1>6, <3>3, OwnersStored DEF CatalogInv, LatestEventIsPointer
    <3>4. QED
      BY <1>8, <3>1, <3>2, <3>3
  <2>4. QED
    BY <1>6, <2>2, <2>3 DEF LatestEventIsPointer
<1>21. PublishedDefinitionsCompile'
  BY <1>2, <1>7, <1>10 DEF CatalogInv, PublishedDefinitionsCompile, Publishable
<1>22. TenantIsolation'
  <2>1. Authorized(c.actor, c.scope.tenant)
    BY DEF PublishRuleVersion, Admissible
  <2>2. QED
    BY <1>6, <1>7, <1>9, <1>10, <2>1 DEF CatalogInv, TenantIsolation
<1>23. QED
  BY <1>5, <1>15, <1>16, <1>17, <1>18, <1>19, <1>20, <1>21, <1>22
  DEF CatalogInv
-----------------------------------------------------------------------------
(* The theorems *)

LEMMA StepInv == CatalogInv /\ [Next]_vars => CatalogInv'
<1> SUFFICES ASSUME CatalogInv, [Next]_vars
             PROVE  CatalogInv'
  OBVIOUS
<1>1. CASE UNCHANGED vars
  BY <1>1
  DEF vars, CatalogInv, TypeOK, VersionsInScope, CodesUnique, NumbersDense,
      KeysUnique, EventsMatchPublished, LatestEventIsPointer,
      PublishedDefinitionsCompile, TenantIsolation
<1>2. ASSUME NEW c \in Calls, CreateRuleSet(c)
      PROVE  CatalogInv'
  BY <1>2, CreateRuleSetInv
<1>3. ASSUME NEW c \in Calls, UpdateRuleSet(c)
      PROVE  CatalogInv'
  BY <1>3, UpdateRuleSetInv
<1>4. ASSUME NEW c \in Calls, CreateRuleVersion(c)
      PROVE  CatalogInv'
  BY <1>4, CreateRuleVersionInv
<1>5. ASSUME NEW c \in Calls, PublishRuleVersion(c)
      PROVE  CatalogInv'
  BY <1>5, PublishRuleVersionInv
<1>6. QED
  BY <1>1, <1>2, <1>3, <1>4, <1>5 DEF Next

(* The invariant holds in every state of the catalogue: it holds at first, *)
(* and each of the four operations, whatever its arguments, preserves it.  *)
THEOREM CatalogSafe == Spec => []CatalogInv
BY InitInv, StepInv, PTL DEF Spec

(* Types, for any number of tenants, rows and calls.                       *)
THEOREM TypesCorrect == Spec => []TypeOK
<1>1. CatalogInv => TypeOK
  BY DEF CatalogInv
<1>2. QED
  BY <1>1, CatalogSafe, PTL

(* Version numbers have no gap and no repetition, however the calls of     *)
(* CreateRuleVersion succeed, fail and repeat.                             *)
THEOREM NumbersAlwaysDense == Spec => []NumbersDense
<1>1. CatalogInv => NumbersDense
  BY DEF CatalogInv
<1>2. QED
  BY <1>1, CatalogSafe, PTL

(* The latest event of a rule set, in the order of revisions, names the    *)
(* version its row points at.                                              *)
THEOREM EventsLeadToPointer == Spec => []LatestEventIsPointer
<1>1. CatalogInv => LatestEventIsPointer
  BY DEF CatalogInv
<1>2. QED
  BY <1>1, CatalogSafe, PTL

(* A version lies in the tenant and application of its rule set: creating  *)
(* one looks the set up in the caller's scope, and no operation moves rows.*)
THEOREM VersionsStayInScope == Spec => []VersionsInScope
<1>1. CatalogInv => VersionsInScope
  BY DEF CatalogInv
<1>2. QED
  BY <1>1, CatalogSafe, PTL

(* Two rule sets of one scope never share a code: CreateRuleSet inserts    *)
(* under the unique constraint and UpdateRuleSet leaves the code alone.    *)
THEOREM CodesStayUnique == Spec => []CodesUnique
<1>1. CatalogInv => CodesUnique
  BY DEF CatalogInv
<1>2. QED
  BY <1>1, CatalogSafe, PTL

(* An idempotency key never names two versions of a rule set.              *)
THEOREM KeysStayUnique == Spec => []KeysUnique
<1>1. CatalogInv => KeysUnique
  BY DEF CatalogInv
<1>2. QED
  BY <1>1, CatalogSafe, PTL

(* Publishing and its outbox row are one transaction: a version is         *)
(* published exactly if one event, and only one, announces it.             *)
THEOREM EventsAlwaysMatch == Spec => []EventsMatchPublished
<1>1. CatalogInv => EventsMatchPublished
  BY DEF CatalogInv
<1>2. QED
  BY <1>1, CatalogSafe, PTL

(* What PublishRuleVersion compiled stays what is stored, so no published  *)
(* version can fail to compile when it is evaluated.                       *)
THEOREM PublishedAlwaysCompile == Spec => []PublishedDefinitionsCompile
<1>1. CatalogInv => PublishedDefinitionsCompile
  BY DEF CatalogInv
<1>2. QED
  BY <1>1, CatalogSafe, PTL

(* No row is last written by a principal of another tenant: every operation*)
(* authorizes its actor for the scope of the row it writes.                *)
THEOREM TenantsIsolated == Spec => []TenantIsolation
<1>1. CatalogInv => TenantIsolation
  BY DEF CatalogInv
<1>2. QED
  BY <1>1, CatalogSafe, PTL

(* The published pointer of a rule set never dangles: from the events, the *)
(* latest of which names it, to the version that the event announces.      *)
THEOREM PointersValid == Spec => []PointerValid
<1>1. CatalogInv => PointerValid
  <2> SUFFICES ASSUME CatalogInv, NEW s \in Stored(sets), sets[s].pub # 0
               PROVE  \E v \in VersionsOf(versions, sets[s].scope, s) :
                         /\ versions[v].number = sets[s].pub
                         /\ versions[v].status = "published"
    BY DEF PointerValid
  <2>1. PICK e \in events : e.set = s /\ e.number = sets[s].pub
    BY DEF CatalogInv, LatestEventIsPointer
  <2>2. /\ e.ver \in VersionsOf(versions, e.scope, s)
        /\ versions[e.ver].number = sets[s].pub
        /\ versions[e.ver].status = "published"
    BY <2>1, OwnersStored DEF CatalogInv, EventsMatchPublished
  <2>3. e.scope = sets[s].scope
    BY <2>2 DEF CatalogInv, VersionsInScope, VersionsOf, HasVersion, HasSet
  <2>4. QED
    BY <2>2, <2>3
<1>2. QED
  BY <1>1, CatalogSafe, PTL

(* A step of the catalogue leaves a version as it is, or publishes it.     *)
LEMMA StepKeepsVersions ==
    CatalogInv /\ [Next]_vars => [\A v \in Stored(versions) : KeepsVersion(v)]_vars
<1> SUFFICES ASSUME CatalogInv, Next, NEW v \in Stored(versions)
             PROVE  KeepsVersion(v)
  BY DEF vars
<1>1. v \in VersionIds /\ versions \in [VersionIds -> RuleVersion \cup {None}]
  BY DEF CatalogInv, TypeOK, Stored
<1>2. ASSUME NEW c \in Calls, CreateRuleSet(c) \/ UpdateRuleSet(c)
      PROVE  KeepsVersion(v)
  BY <1>2 DEF CreateRuleSet, UpdateRuleSet, KeepsVersion
<1>3. ASSUME NEW c \in Calls, CreateRuleVersion(c)
      PROVE  KeepsVersion(v)
  BY <1>1, <1>3 DEF CreateRuleVersion, KeepsVersion
<1>4. ASSUME NEW c \in Calls, PublishRuleVersion(c)
      PROVE  KeepsVersion(v)
  <2>1. CASE v # c.ver
    BY <1>1, <1>4, <2>1 DEF PublishRuleVersion, KeepsVersion
  <2>2. CASE v = c.ver
    <3>1. /\ versions[v].status = "draft"
          /\ versions'[v] = PublishedVersion(versions[v], c)
      BY <1>1, <1>4, <2>2 DEF PublishRuleVersion
    <3>2. c.actor \in Actors
      BY CallAssumption DEF Call
    <3>3. QED
      BY <3>1, <3>2 DEF KeepsVersion, PublishedVersion
  <2>3. QED
    BY <2>1, <2>2
<1>5. QED
  BY <1>2, <1>3, <1>4 DEF Next

(* No operation changes a stored version, but for turning a draft into a   *)
(* published one.                                                          *)
THEOREM VersionsNeverChange == Spec => VersionsImmutable
BY StepKeepsVersions, CatalogSafe, PTL DEF Spec, VersionsImmutable

(* A step that changes a rule set raises its revision and announces a new  *)
(* pointer.                                                                *)
LEMMA StepRevisesSets ==
    CatalogInv /\ [Next]_vars => [\A s \in Stored(sets) : RevisesSet(s)]_vars
<1> SUFFICES ASSUME CatalogInv, Next, NEW s \in Stored(sets)
             PROVE  RevisesSet(s)
  BY DEF vars
<1>1. /\ s \in SetIds /\ sets \in [SetIds -> RuleSet \cup {None}]
      /\ sets[s] \in RuleSet /\ sets[s].version \in Nat
  BY NoneAssumption DEF CatalogInv, TypeOK, Stored, RuleSet
<1>2. ASSUME NEW c \in Calls, CreateRuleSet(c) \/ CreateRuleVersion(c)
      PROVE  RevisesSet(s)
  BY <1>1, <1>2 DEF CreateRuleSet, CreateRuleVersion, RevisesSet
<1>3. ASSUME NEW c \in Calls, UpdateRuleSet(c)
      PROVE  RevisesSet(s)
  <2>1. CASE s # c.set
    BY <1>1, <1>3, <2>1 DEF UpdateRuleSet, RevisesSet
  <2>2. CASE s = c.set
    <3>1. sets'[s] = UpdatedSet(sets[s], c)
      BY <1>1, <1>3, <2>2 DEF UpdateRuleSet
    <3>2. /\ sets'[s].version = sets[s].version + 1
          /\ sets'[s].pub = sets[s].pub
      BY <1>1, <3>1 DEF UpdatedSet, RuleSet
    <3>3. QED
      BY <3>2 DEF RevisesSet
  <2>3. QED
    BY <2>1, <2>2
<1>4. ASSUME NEW c \in Calls, PublishRuleVersion(c)
      PROVE  RevisesSet(s)
  <2>1. CASE s # c.set
    BY <1>1, <1>4, <2>1 DEF PublishRuleVersion, RevisesSet
  <2>2. CASE s = c.set
    <3> DEFINE number == versions[c.ver].number
               event == Publication(c, number)
    <3>1. /\ sets'[s] = ActivatedSet(sets[s], number, c)
          /\ sets[s].version = c.expSet
          /\ events' = events \cup {event}
      BY <1>1, <1>4, <2>2 DEF PublishRuleVersion
    <3>2. /\ sets'[s].version = c.expSet + 1
          /\ sets'[s].pub = number
      BY <1>1, <3>1 DEF ActivatedSet, RuleSet
    <3>3. event.set = s /\ event.number = number /\ event.rev = c.expSet + 1
      BY <2>2 DEF Publication
    <3>4. event \notin events
      BY <1>1, <3>1, <3>3 DEF CatalogInv, LatestEventIsPointer
    <3>5. QED
      BY <3>1, <3>2, <3>3, <3>4 DEF RevisesSet
  <2>3. QED
    BY <2>1, <2>2
<1>5. QED
  BY <1>2, <1>3, <1>4 DEF Next

(* Every change of a rule set row raises its revision by one, and a new    *)
(* pointer comes with an event that carries that revision.  The event is   *)
(* new because no earlier one has a revision beyond the row's.             *)
THEOREM RevisionsAlwaysIdentify == Spec => RevisionsIdentify
BY StepRevisesSets, CatalogSafe, PTL DEF Spec, RevisionsIdentify

(* The rows of the two tables agree, for any catalogue and any calls       *)
(* (CreateRuleSet, CreateRuleVersion and the unique indexes).              *)
THEOREM RowsAlwaysAgree == Spec => []RowsAgree
<1>1. CatalogInv => RowsAgree
  BY DEF CatalogInv, RowsAgree
<1>2. QED
  BY <1>1, CatalogSafe, PTL

(* Pointer, published versions and events agree, for any catalogue and any *)
(* calls (PublishRuleVersion).                                             *)
THEOREM PublicationsAlwaysAgree == Spec => []PublicationsAgree
<1>1. CatalogInv /\ PointerValid => PublicationsAgree
  BY DEF CatalogInv, PublicationsAgree
<1>2. QED
  BY <1>1, CatalogSafe, PointersValid, PTL
=============================================================================
