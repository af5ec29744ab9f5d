---------------------------- MODULE MCRuleModel ----------------------------
(***************************************************************************)
(* The values the runs give to the constants of RuleModel, and builders    *)
(* for the sets of calls.  There are two tenants with one application      *)
(* each, a user of each tenant, a user without a tenant and a service      *)
(* account.  "plain" is a canonical text that the JSON column keeps and    *)
(* "spaced" is how the column prints it; "swapped" has the members of a    *)
(* result object in another order.  "other" and "other'" are a second pair *)
(* of such texts, and "broken" does not compile.                           *)
(***************************************************************************)
EXTENDS Integers, TLC

CONSTANTS NoRow, NoValue

MCTenants == {"t1", "t2"}
MCApps == {"app"}
MCActors == {"user1", "user2", "guest", "service"}
MCServiceActors == {"service"}
MCHomeTenant == ("user1" :> "t1") @@ ("user2" :> "t2")
                @@ ("guest" :> NoValue) @@ ("service" :> NoValue)
MCCodes == {"code"}
MCNames == {"one", "two"}
MCKeys == {"k1", "k2"}
MCWellFormed == {"plain", "spaced", "swapped", "other", "other'"}
MCTexts == MCWellFormed \cup {"broken"}
MCMarshal == ("plain" :> "plain") @@ ("spaced" :> "plain")
             @@ ("swapped" :> "swapped") @@ ("other" :> "other")
             @@ ("other'" :> "other") @@ ("broken" :> "broken")
MCColumn == ("plain" :> "spaced") @@ ("spaced" :> "spaced")
            @@ ("swapped" :> "spaced") @@ ("other" :> "other'")
            @@ ("other'" :> "other'") @@ ("broken" :> "broken")

T1 == [tenant |-> "t1", app |-> "app"]
T2 == [tenant |-> "t2", app |-> "app"]

Filled(op, actor, scope) ==
    [op |-> op, actor |-> actor, scope |-> scope, set |-> NoValue,
     ver |-> NoValue, code |-> NoValue, name |-> NoValue, status |-> NoValue,
     text |-> "broken", key |-> NoValue, expSet |-> 0, expVer |-> 0]

Create(who, scopes, codes, names) ==
    {[Filled("createRuleSet", a, s) EXCEPT !.code = c, !.name = n] :
        a \in who, s \in scopes, c \in codes, n \in names}

Update(who, scopes, ids, names, statuses, revs) ==
    {[Filled("updateRuleSet", a, s) EXCEPT !.set = i, !.name = n,
        !.status = t, !.expSet = r] :
        a \in who, s \in scopes, i \in ids, n \in names, t \in statuses,
        r \in revs}

Draft(who, scopes, ids, texts, keys, revs) ==
    {[Filled("createRuleVersion", a, s) EXCEPT !.set = i, !.text = d,
        !.key = k, !.expSet = r] :
        a \in who, s \in scopes, i \in ids, d \in texts, k \in keys,
        r \in revs}

Publish(who, scopes, ids, vers, revs, verRevs) ==
    {[Filled("publishRuleVersion", a, s) EXCEPT !.set = i, !.ver = v,
        !.expSet = r, !.expVer = q] :
        a \in who, s \in scopes, i \in ids, v \in vers, r \in revs,
        q \in verRevs}
=============================================================================
