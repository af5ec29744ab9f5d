---------------------------- MODULE RuleCatalog ----------------------------
(***************************************************************************)
(* What the rule service promises about its catalogue: each write          *)
(* operation that succeeds is one atomic step on the rule sets, the rule   *)
(* versions and the publish events; each one that is refused or fails      *)
(* changes nothing.  RuleTransactions implements this specification.       *)
(***************************************************************************)
EXTENDS RuleModel

VARIABLES
    sets,       \* rule_sets:     [SetIds -> RuleSet \cup {None}]
    versions,   \* rule_versions: [VersionIds -> RuleVersion \cup {None}]
    events      \* the publications rule_outbox_events announces

vars == <<sets, versions, events>>

(* What a RuleVersionPublished event announces: version number of the set  *)
(* became the published one at revision rev of the set.                    *)
Event ==
    [scope : Scopes, set : SetIds, ver : VersionIds, number : Nat, rev : Nat]

Publication(c, number) ==
    [scope |-> c.scope, set |-> c.set, ver |-> c.ver, number |-> number,
     rev |-> c.expSet + 1]

Init ==
    /\ sets = [id \in SetIds |-> None]
    /\ versions = [id \in VersionIds |-> None]
    /\ events = {}

CreateRuleSet(c) ==
    /\ c.op = "createRuleSet" /\ Admissible(c)
    /\ ~CodeTaken(sets, c.scope, c.code)
    /\ \E id \in SetIds \ Stored(sets) :
          sets' = [sets EXCEPT ![id] = NewSet(c)]
    /\ UNCHANGED <<versions, events>>

UpdateRuleSet(c) ==
    /\ c.op = "updateRuleSet" /\ Admissible(c)
    /\ HasSet(sets, c.scope, c.set)
    /\ sets[c.set].version = c.expSet
    /\ sets' = [sets EXCEPT ![c.set] = UpdatedSet(@, c)]
    /\ UNCHANGED <<versions, events>>

(* Faulty: the rule set is looked up by its identifier alone.              *)
CreateRuleVersionAnyScope(c) ==
    /\ c.op = "createRuleVersion" /\ Admissible(c)
    /\ c.set \in Stored(sets)
    /\ WithKey(versions, c.scope, c.set, c.key) = {}
    /\ sets[c.set].version = c.expSet /\ sets[c.set].status # "disabled"
    /\ \E id \in VersionIds \ Stored(versions) :
          versions' = [versions EXCEPT ![id] =
                         NewVersion(c, NextNumber(versions, c.scope, c.set))]
    /\ UNCHANGED <<sets, events>>

(* A call that repeats a key with the same checksum returns the version    *)
(* that exists and changes nothing.                                        *)
CreateRuleVersion(c) ==
    /\ c.op = "createRuleVersion" /\ Admissible(c)
    /\ HasSet(sets, c.scope, c.set)
    /\ WithKey(versions, c.scope, c.set, c.key) = {}
    /\ sets[c.set].version = c.expSet /\ sets[c.set].status # "disabled"
    /\ \E id \in VersionIds \ Stored(versions) :
          versions' = [versions EXCEPT ![id] =
                         NewVersion(c, NextNumber(versions, c.scope, c.set))]
    /\ UNCHANGED <<sets, events>>

(* Faulty: a published version can be published again.                   *)
PublishRuleVersionAgain(c) ==
    /\ c.op = "publishRuleVersion" /\ Admissible(c)
    /\ HasSet(sets, c.scope, c.set)
    /\ HasVersion(versions, c.scope, c.set, c.ver)
    /\ versions[c.ver].version = c.expVer
    /\ Publishable(versions[c.ver])
    /\ sets[c.set].version = c.expSet
    /\ versions' = [versions EXCEPT ![c.ver] = PublishedVersion(@, c)]
    /\ sets' = [sets EXCEPT ![c.set] =
                  ActivatedSet(@, versions[c.ver].number, c)]
    /\ events' = events \cup {Publication(c, versions[c.ver].number)}

(* Faulty: the revision of the rule set is not compared.                 *)
PublishRuleVersionStale(c) ==
    /\ c.op = "publishRuleVersion" /\ Admissible(c)
    /\ HasSet(sets, c.scope, c.set)
    /\ HasVersion(versions, c.scope, c.set, c.ver)
    /\ versions[c.ver].status = "draft"
    /\ versions[c.ver].version = c.expVer
    /\ Publishable(versions[c.ver])
    /\ versions' = [versions EXCEPT ![c.ver] = PublishedVersion(@, c)]
    /\ sets' = [sets EXCEPT ![c.set] =
                  ActivatedSet(@, versions[c.ver].number, c)]
    /\ events' = events \cup {Publication(c, versions[c.ver].number)}

(* Faulty: the stored definition is not compiled again.                  *)
PublishRuleVersionUnchecked(c) ==
    /\ c.op = "publishRuleVersion" /\ Admissible(c)
    /\ HasSet(sets, c.scope, c.set)
    /\ HasVersion(versions, c.scope, c.set, c.ver)
    /\ versions[c.ver].status = "draft"
    /\ versions[c.ver].version = c.expVer
    /\ sets[c.set].version = c.expSet
    /\ versions' = [versions EXCEPT ![c.ver] = PublishedVersion(@, c)]
    /\ sets' = [sets EXCEPT ![c.set] =
                  ActivatedSet(@, versions[c.ver].number, c)]
    /\ events' = events \cup {Publication(c, versions[c.ver].number)}

PublishRuleVersion(c) ==
    /\ c.op = "publishRuleVersion" /\ Admissible(c)
    /\ HasSet(sets, c.scope, c.set)
    /\ HasVersion(versions, c.scope, c.set, c.ver)
    /\ versions[c.ver].status = "draft"
    /\ versions[c.ver].version = c.expVer
    /\ Publishable(versions[c.ver])
    /\ sets[c.set].version = c.expSet
    /\ versions' = [versions EXCEPT ![c.ver] = PublishedVersion(@, c)]
    /\ sets' = [sets EXCEPT ![c.set] =
                  ActivatedSet(@, versions[c.ver].number, c)]
    /\ events' = events \cup {Publication(c, versions[c.ver].number)}

Next ==
    \E c \in Calls : \/ CreateRuleSet(c)
                     \/ UpdateRuleSet(c)
                     \/ CreateRuleVersion(c)
                     \/ PublishRuleVersion(c)

Spec == Init /\ [][Next]_vars
-----------------------------------------------------------------------------
(* Properties *)

(* The tables and the events keep their types.                             *)
TypeOK ==
    /\ sets \in [SetIds -> RuleSet \cup {None}]
    /\ versions \in [VersionIds -> RuleVersion \cup {None}]
    /\ events \subseteq Event

(* A version belongs to a rule set of its own tenant and application: the  *)
(* scope columns of the two tables never disagree.                         *)
VersionsInScope ==
    \A v \in Stored(versions) :
        HasSet(sets, versions[v].scope, versions[v].set)

(* Two rule sets of one tenant and application have different codes.       *)
CodesUnique ==
    \A s, t \in Stored(sets) :
        /\ sets[s].scope = sets[t].scope
        /\ sets[s].code = sets[t].code
        => s = t

(* The versions of a rule set are numbered 1, 2, ..., n without a gap and  *)
(* without a repetition, however many calls failed or were repeated.       *)
NumbersDense ==
    \A s \in Stored(sets) :
        LET scope == sets[s].scope
        IN  /\ \E n \in {0} \cup Numbers(versions, scope, s) :
                  Numbers(versions, scope, s) = 1 .. n
            /\ \A u, v \in VersionsOf(versions, scope, s) :
                  versions[u].number = versions[v].number => u = v

(* An idempotency key names at most one version of a rule set.             *)
KeysUnique ==
    \A u, v \in Stored(versions) :
        /\ versions[u].set = versions[v].set
        /\ versions[u].key = versions[v].key
        => u = v

(* The published version a rule set points at exists, is published and     *)
(* belongs to the same tenant and application: Evaluate and GetRuleSet,    *)
(* which follow the pointer in a second statement, never find a hole.      *)
PointerValid ==
    \A s \in Stored(sets) :
        sets[s].pub # 0 =>
            \E v \in VersionsOf(versions, sets[s].scope, s) :
                /\ versions[v].number = sets[s].pub
                /\ versions[v].status = "published"

(* A version is published exactly when one event, and only one, announces  *)
(* it with its number and its scope.                                       *)
EventsMatchPublished ==
    /\ \A v \in Stored(versions) :
          versions[v].status = "published" <=> \E e \in events : e.ver = v
    /\ \A e \in events :
          /\ e.ver \in VersionsOf(versions, e.scope, e.set)
          /\ versions[e.ver].number = e.number
    /\ \A d, e \in events : d.ver = e.ver => d = e

(* A consumer that orders the events of a rule set by the revision they    *)
(* carry ends with the version the rule set points at: revisions are       *)
(* distinct, none is ahead of the row, and the latest one names pub.       *)
LatestEventIsPointer ==
    /\ \A s \in Stored(sets) :
          IF \A e \in events : e.set # s
          THEN sets[s].pub = 0
          ELSE \E e \in events :
                  /\ e.set = s
                  /\ e.number = sets[s].pub
                  /\ \A d \in events : d.set = s => d = e \/ d.rev < e.rev
    /\ \A e \in events : e.rev <= sets[e.set].version

(* Every published definition still compiles to the checksum stored with   *)
(* it, so that no published version can make Evaluate fail.                *)
PublishedDefinitionsCompile ==
    \A v \in Stored(versions) :
        versions[v].status = "published" => Publishable(versions[v])

(* No row is ever last written by a principal of another tenant.           *)
TenantIsolation ==
    /\ \A s \in Stored(sets) : Authorized(sets[s].by, sets[s].scope.tenant)
    /\ \A v \in Stored(versions) :
          Authorized(versions[v].by, versions[v].scope.tenant)

(* What the two tables promise with the unique indexes and the locked      *)
(* maximum of CreateRuleVersion: scopes, codes, numbers and keys agree     *)
(* across rows that no single statement reads together.                    *)
RowsAgree == VersionsInScope /\ CodesUnique /\ NumbersDense /\ KeysUnique

(* What PublishRuleVersion promises over three tables: the pointer of the  *)
(* rule set, the status and text of its versions and the events in the     *)
(* outbox tell the same story, in the order of the revisions.              *)
PublicationsAgree ==
    /\ PointerValid
    /\ EventsMatchPublished
    /\ LatestEventIsPointer
    /\ PublishedDefinitionsCompile

(* The inductive invariant: the properties above but PointerValid, which   *)
(* follows from them.  Types need NumbersDense (the maximum of the numbers *)
(* exists because they are 1 .. n), the pointer needs the events.          *)
CatalogInv ==
    /\ TypeOK
    /\ VersionsInScope
    /\ CodesUnique
    /\ NumbersDense
    /\ KeysUnique
    /\ EventsMatchPublished
    /\ LatestEventIsPointer
    /\ PublishedDefinitionsCompile
    /\ TenantIsolation

KeepsVersion(v) ==
    \/ versions'[v] = versions[v]
    \/ /\ versions[v].status = "draft"
       /\ \E a \in Actors :
             versions'[v] = [versions[v] EXCEPT
                 !.status = "published", !.version = @ + 1, !.by = a]

(* A version is immutable: once stored, a step may only turn a draft into  *)
(* a published version, and never touches number, key, text or checksum.   *)
VersionsImmutable == [][\A v \in Stored(versions) : KeepsVersion(v)]_vars

RevisesSet(s) ==
    \/ sets'[s] = sets[s]
    \/ /\ sets'[s].version = sets[s].version + 1
       /\ sets'[s].pub # sets[s].pub =>
             \E e \in events' \ events :
                /\ e.set = s
                /\ e.number = sets'[s].pub
                /\ e.rev = sets'[s].version

(* A revision of a rule set identifies its contents: a step that changes   *)
(* the row raises its revision by one, and a move of the published pointer *)
(* is announced at exactly that revision.                                  *)
RevisionsIdentify == [][\A s \in Stored(sets) : RevisesSet(s)]_vars
=============================================================================
