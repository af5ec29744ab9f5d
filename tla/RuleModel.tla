----------------------------- MODULE RuleModel -----------------------------
(***************************************************************************)
(* The vocabulary of the rule service that every other module shares: the  *)
(* rows of its two tables, the calls its write operations receive, the     *)
(* request checks, and what CompileDefinition tells about a definition     *)
(* text.  There is no state here.                                          *)
(*                                                                         *)
(* A definition text is an opaque member of Texts.  Two conversions act on *)
(* it: Marshal, the json.Marshal of the decoded definition (it drops the   *)
(* spacing but keeps the members of every "result" object in the order in  *)
(* which they were submitted, because they are json.RawMessage), and       *)
(* Column, what the JSONB / JSON column of rule_versions returns for a     *)
(* text that was written to it (the database prints the value again, in    *)
(* its own member order and spacing).                                      *)
(***************************************************************************)
EXTENDS Integers, FiniteSets, FiniteSetsExt

CONSTANTS
    Tenants, Apps,          \* the identifiers of tenants and applications
    Actors,                 \* principals
    ServiceActors,          \* those of type service account or system
    HomeTenant,             \* the tenant of a principal, or Blank
    SetIds, VersionIds,     \* the UUIDs rows may get
    Codes, Names, Keys,     \* valid codes, names and idempotency keys
    Texts,                  \* definition texts
    WellFormed,             \* the texts CompileDefinition accepts
    Marshal, Column,        \* the two conversions of texts
    Blank,                  \* a field that fails its validation
    None,                   \* no row
    Calls                   \* the calls clients make

Scopes == [tenant : Tenants, app : Apps]

SetStatus == {"draft", "active", "disabled"}

VersionStatus == {"draft", "published"}

(* A row of rule_sets.  The description behaves as the name does and the   *)
(* timestamps decide nothing, so neither is kept; by is updated_by.        *)
RuleSet ==
    [scope : Scopes, code : Codes, name : Names, status : SetStatus,
     pub : Nat, version : Nat, by : Actors]

(* A row of rule_versions.  def is the text the column returns, sum the    *)
(* checksum column: SHA-256 is represented by its preimage.                *)
RuleVersion ==
    [scope : Scopes, set : SetIds, number : Nat, status : VersionStatus,
     def : Texts, sum : Texts, key : Keys, version : Nat, by : Actors]

Ops == {"createRuleSet", "updateRuleSet", "createRuleVersion",
        "publishRuleVersion"}

(* The arguments of the four write operations; an operation ignores the    *)
(* fields it does not take.                                                *)
Call ==
    [op : Ops, actor : Actors, scope : Scopes, set : SetIds \cup {Blank},
     ver : VersionIds \cup {Blank}, code : Codes \cup {Blank},
     name : Names \cup {Blank}, status : SetStatus \cup {Blank},
     text : Texts, key : Keys \cup {Blank}, expSet : Nat, expVer : Nat]

ASSUME ActorAssumption ==
    /\ ServiceActors \subseteq Actors
    /\ HomeTenant \in [Actors -> Tenants \cup {Blank}]

ASSUME TextAssumption ==
    /\ WellFormed \subseteq Texts
    /\ Marshal \in [Texts -> Texts]
    /\ Column \in [Texts -> Texts]

ASSUME CallAssumption == Calls \subseteq Call

ASSUME NoneAssumption ==
    /\ None \notin RuleSet
    /\ None \notin RuleVersion

ASSUME BlankAssumption ==
    /\ Blank \notin Tenants \cup Codes \cup Names \cup Keys
    /\ Blank \notin SetStatus \cup SetIds \cup VersionIds
-----------------------------------------------------------------------------
(* Request checks *)

(* authorize: service accounts and the system may act for every tenant, a  *)
(* user only for its own, and a user without a tenant for none.            *)
Authorized(actor, tenant) ==
    \/ actor \in ServiceActors
    \/ HomeTenant[actor] # Blank /\ HomeTenant[actor] = tenant

Compiles(text) == text \in WellFormed

Checksum(text) == Marshal[text]

(* Faulty: the code is not matched against its pattern.                    *)
ValidCreateRuleSetAnyCode(c) == c.name # Blank

(* The argument checks of the four operations; Compiles stands for the     *)
(* compilation of the submitted definition.                                *)
ValidCreateRuleSet(c) == c.code # Blank /\ c.name # Blank

ValidUpdateRuleSet(c) ==
    /\ c.set # Blank /\ c.name # Blank
    /\ c.status \in SetStatus
    /\ c.expSet >= 1

ValidCreateRuleVersion(c) ==
    /\ c.set # Blank /\ c.key # Blank
    /\ c.expSet >= 1
    /\ Compiles(c.text)

ValidPublishRuleVersion(c) == c.expSet >= 1 /\ c.expVer >= 1

ValidRequest(c) ==
    \/ c.op = "createRuleSet" /\ ValidCreateRuleSet(c)
    \/ c.op = "updateRuleSet" /\ ValidUpdateRuleSet(c)
    \/ c.op = "createRuleVersion" /\ ValidCreateRuleVersion(c)
    \/ c.op = "publishRuleVersion" /\ ValidPublishRuleVersion(c)

(* Faulty: the tenant of the principal is not compared.                    *)
AdmissibleAnyTenant(c) == ValidRequest(c)

Admissible(c) == Authorized(c.actor, c.scope.tenant) /\ ValidRequest(c)
-----------------------------------------------------------------------------
(* Tables: a function from identifiers to rows, None where there is none.  *)

Stored(table) == {id \in DOMAIN table : table[id] # None}

(* GetRuleSet and the WHERE clauses on rule_sets that use the identifier.  *)
HasSet(sets, scope, id) == id \in Stored(sets) /\ sets[id].scope = scope

(* GetRuleVersion and the WHERE clauses on rule_versions.                  *)
HasVersion(versions, scope, set, id) ==
    /\ id \in Stored(versions)
    /\ versions[id].scope = scope
    /\ versions[id].set = set

(* Faulty: the unique index covers drafts only.                            *)
CodeTakenByDraft(sets, scope, code) ==
    \E id \in Stored(sets) : /\ sets[id].scope = scope
                             /\ sets[id].code = code
                             /\ sets[id].status = "draft"

(* The unique index on (tenant_id, application_id, code).                  *)
CodeTaken(sets, scope, code) ==
    \E id \in Stored(sets) : sets[id].scope = scope /\ sets[id].code = code

VersionsOf(versions, scope, set) ==
    {id \in Stored(versions) : HasVersion(versions, scope, set, id)}

(* Faulty: the lookup by key sees drafts only.                             *)
WithKeyDraft(versions, scope, set, key) ==
    {id \in VersionsOf(versions, scope, set) :
        versions[id].key = key /\ versions[id].status = "draft"}

WithKey(versions, scope, set, key) ==
    {id \in VersionsOf(versions, scope, set) : versions[id].key = key}

Numbers(versions, scope, set) ==
    {versions[id].number : id \in VersionsOf(versions, scope, set)}

(* Faulty: the maximum is taken over the whole table.                      *)
NextNumberOfTable(versions, scope, set) ==
    Max({0} \cup {versions[id].number : id \in Stored(versions)}) + 1

(* SELECT COALESCE(MAX(version_number),0)+1                                *)
NextNumber(versions, scope, set) ==
    Max({0} \cup Numbers(versions, scope, set)) + 1
-----------------------------------------------------------------------------
(* Row images *)

NewSet(c) ==
    [scope |-> c.scope, code |-> c.code, name |-> c.name, status |-> "draft",
     pub |-> 0, version |-> 1, by |-> c.actor]

(* Faulty: the revision is not raised.                                     *)
UpdatedSetSameRevision(row, c) ==
    [row EXCEPT !.name = c.name, !.status = c.status, !.by = c.actor]

UpdatedSet(row, c) ==
    [row EXCEPT !.name = c.name, !.status = c.status,
                !.version = @ + 1, !.by = c.actor]

(* The canonical text goes into the JSON column, its hash into checksum.   *)
NewVersion(c, number) ==
    [scope |-> c.scope, set |-> c.set, number |-> number, status |-> "draft",
     def |-> Column[Marshal[c.text]], sum |-> Checksum(c.text),
     key |-> c.key, version |-> 1, by |-> c.actor]

(* A stored draft is compiled again before it is published.                *)
Publishable(row) == Compiles(row.def) /\ Checksum(row.def) = row.sum

PublishedVersion(row, c) ==
    [row EXCEPT !.status = "published", !.version = @ + 1, !.by = c.actor]

ActivatedSet(row, number, c) ==
    [row EXCEPT !.status = "active", !.pub = number,
                !.version = @ + 1, !.by = c.actor]
=============================================================================
