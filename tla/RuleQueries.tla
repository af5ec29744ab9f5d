----------------------------- MODULE RuleQueries -----------------------------
(***************************************************************************)
(* ListRuleSets and ListRuleVersions: a count and a page in two statements *)
(* without a transaction, while other requests insert rows and change      *)
(* their status.  A client walks through the pages.  Both lists have the   *)
(* same form; rows are known by their rank in the list's order.            *)
(***************************************************************************)
EXTENDS Integers, FiniteSets, Sequences

CONSTANTS
    Ranks,      \* positions in the order: codes, or version numbers from the top
    Statuses,
    NoFilter,
    DefaultSize, MaxSize,   \* 20 and 200 in the code
    Asked       \* page sizes a client asks for

QueriesAssumption ==
    /\ Ranks \subseteq Nat /\ IsFiniteSet(Ranks) /\ NoFilter \notin Statuses
    /\ DefaultSize \in 1..MaxSize /\ MaxSize \in Nat /\ Asked \subseteq Nat

VARIABLES
    table,    \* status of each stored row
    query,    \* filter, requested page size and page of the client's walk
    pc,       \* next statement of the list operation
    total,    \* what the count returned
    items,    \* the ranks of the page just read, in order
    seen,     \* history: ranks the walk has met
    old       \* history: rows that matched at every moment of the walk

vars == <<table, query, pc, total, items, seen, old>>

(* WHERE: scope and, if it is given, status or keyword.                    *)
Matching(t) == {k \in DOMAIN t : query.filter \in {NoFilter, t[k]}}

(* ORDER BY ... LIMIT limit OFFSET offset                                  *)
Before(S, k) == Cardinality({j \in S : j < k})
Page(S, limit, offset) == {k \in S : Before(S, k) \in offset..offset + limit - 1}

(* Faulty: a missing page size stays 0.                                    *)
NormalizedNoDefault(page, size) ==
    [page |-> IF page < 1 THEN 1 ELSE page, size |-> IF size > MaxSize THEN MaxSize ELSE size]

(* Faulty: the page size is not limited.                                   *)
NormalizedUncapped(page, size) ==
    [page |-> IF page < 1 THEN 1 ELSE page, size |-> IF size < 1 THEN DefaultSize ELSE size]

(* page and page size; both 0 if the client names none.                    *)
Normalized(page, size) ==
    [page |-> IF page < 1 THEN 1 ELSE page,
     size |-> IF size < 1 THEN DefaultSize ELSE IF size > MaxSize THEN MaxSize ELSE size]

Offset(q) == (q.page - 1) * q.size

Init ==
    /\ \E T \in SUBSET Ranks : table \in [T -> Statuses]
    /\ query \in [filter : Statuses \cup {NoFilter}, asked : Asked, page : {0}]
    /\ pc = "idle" /\ total = 0 /\ items = {} /\ seen = {}
    /\ old = Matching(table)

List == UNCHANGED <<table, query, seen, old>>

(* The next page; after an empty page the walk is over.                    *)
Ask ==
    /\ pc = "idle"
    /\ query' = [query EXCEPT !.page = @ + 1]
    /\ pc' = "count"
    /\ UNCHANGED <<table, total, items, seen, old>>

Count ==
    /\ pc = "count"
    /\ total' = Cardinality(Matching(table))
    /\ pc' = "select"
    /\ UNCHANGED items /\ List

Select ==
    /\ pc = "select"
    /\ LET q == Normalized(query.page, query.asked)
           rows == Page(Matching(table), q.size, Offset(q))
       IN  /\ items' = rows
           /\ seen' = seen \cup rows
           /\ pc' = "reply"
    /\ UNCHANGED <<table, query, total, old>>

Reply ==
    /\ pc = "reply"
    /\ pc' = IF items = {} THEN "over" ELSE "idle"
    /\ UNCHANGED <<table, query, total, items, seen, old>>

(* A statement fails, or the scope is refused: the client gives up.        *)
ListFails ==
    /\ pc \in {"count", "select"}
    /\ pc' = "failed"
    /\ UNCHANGED <<items, total>> /\ List

(* Other requests.                                                         *)
Insert(k, st) ==
    /\ pc \notin {"over", "failed"} /\ k \notin DOMAIN table
    /\ table' = [j \in DOMAIN table \cup {k} |-> IF j = k THEN st ELSE table[j]]
    /\ UNCHANGED <<query, pc, total, items, seen, old>>

(* Faulty: the list is ordered by the last update, newest first.           *)
ChangeStatusReorders(k, st) ==
    /\ pc \notin {"over", "failed"} /\ table[k] # st
    /\ \E j \in Ranks \ DOMAIN table :
          /\ \A r \in DOMAIN table : j < r
          /\ LET rename(S) == IF k \in S THEN (S \ {k}) \cup {j} ELSE S
             IN  /\ table' = [r \in rename(DOMAIN table) |-> IF r = j THEN st ELSE table[r]]
                 /\ seen' = rename(seen) /\ items' = rename(items)
                 /\ old' = rename(old) \cap (Matching(table') \cup {j})
    /\ UNCHANGED <<query, pc, total>>

ChangeStatus(k, st) ==
    /\ pc \notin {"over", "failed"} /\ table[k] # st
    /\ table' = [table EXCEPT ![k] = st]
    /\ old' = old \cap Matching(table')
    /\ UNCHANGED <<query, pc, total, items, seen>>

Next ==
    \/ Ask \/ Count \/ Select \/ Reply \/ ListFails
    \/ \E k \in Ranks, st \in Statuses : Insert(k, st)
    \/ \E k \in DOMAIN table, st \in Statuses : ChangeStatus(k, st)

Spec == Init /\ [][Next]_vars
-----------------------------------------------------------------------------
(* Types; and no page is longer than the limit.                            *)
QueryTypeOK ==
    /\ DOMAIN table \subseteq Ranks /\ \A k \in DOMAIN table : table[k] \in Statuses
    /\ pc \in {"idle", "count", "select", "reply", "over", "failed"}
    /\ query.page \in Nat /\ total \in Nat
    /\ items \subseteq Ranks /\ Cardinality(items) <= MaxSize
    /\ seen \subseteq Ranks /\ old \subseteq seen \cup DOMAIN table

(* Rows are never deleted: without a filter a walk over the pages misses no*)
(* row that was there when it began, whatever is inserted meanwhile.  (With*)
(* a filter it may: a row that stops matching moves later ones up.)        *)
WalkSeesAll == pc = "over" /\ query.filter = NoFilter => old \subseteq seen

(* The count comes first: without a filter a page never holds fewer rows   *)
(* than the total beside it promises (it may hold more).                   *)
PageNotShort ==
    pc = "reply" /\ query.filter = NoFilter =>
        LET size == IF query.asked = 0 THEN DefaultSize
                    ELSE IF query.asked > MaxSize THEN MaxSize ELSE query.asked
            due == total - (query.page - 1) * size
        IN  Cardinality(items) >= IF due < size THEN due ELSE size

(* Two statements without a transaction and a walk without a snapshot are  *)
(* still good enough for a client that lists everything.                   *)
ListsSound == WalkSeesAll /\ PageNotShort
=============================================================================
