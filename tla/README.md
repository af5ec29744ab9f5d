# Formal model of rule-service

rule-service keeps versioned decision rules for tenants and applications: a
*rule set* has numbered *rule versions*, each holding a JSON definition whose
conditions are CEL expressions; one version at a time is *published*, and
callers evaluate facts against it. The service runs as several stateless
replicas (Gin HTTP and gRPC) over one SQL database; publishing writes an event
into an outbox table that a background goroutine forwards to NATS.

This directory holds TLA+ modules for the service, TLC configurations that
model-check them, and TLAPS proofs. `PROJECT.json` lists the components, runs,
mutants, the map from definitions to source lines, findings, hazards and
theorems in machine-readable form.

    tlc -workers 2 -config TxRaces.cfg MCRuleTransactions    # one run
    for m in *Proofs.tla; do tlapm $m; done                  # all proofs

## 1. Inventory

| Component | State | Operations | Modelled in |
|---|---|---|---|
| Rule catalogue, write side (`internal/rule/service.go`, `repository.go`, `internal/database/transaction.go`) | tables `rule_sets`, `rule_versions`, `rule_outbox_events`; per request: Go locals, an SQL transaction, row locks | CreateRuleSet, UpdateRuleSet, CreateRuleVersion, PublishRuleVersion | `RuleCatalog` (atomic), `RuleTransactions` (statement by statement) |
| Rule evaluation, read side (`service.go`) | per replica: `sync.Map` checksum -> compiled definition | Evaluate, GetRuleSet | `RuleEvaluation` |
| Rule lists (`service.go`, `repository.go`) | none; two statements per page | ListRuleSets, ListRuleVersions | `RuleQueries` |
| Rule engine (`engine.go`), BatchEvaluate | none; three loops | CompileDefinition, ValidateRuleVersion, Evaluate, BatchEvaluate | `RuleEngine`; what compiles and what the checksum is: `RuleModel` |
| Outbox dispatch (`internal/app/rule_eventbus.go`) | outbox row: lease, attempts, published_at; per replica two goroutines and a bus connection | start, stop, RunOnce of dispatcher and cleaner | `OutboxDispatch`, against `EventDelivery` |
| Request idempotency (`internal/transport/http/middleware.go`, interceptor in `transport/grpc/server.go`) | an expiring Redis record per key: processing / completed / failed, with owner | Begin, Complete, Fail around the handler | `IdempotencyGate` |
| Middleware and interceptors: recovery, CORS, content type, rate limit, authentication, authorization, timeout | buckets of the rate limiter in Redis | two chains, HTTP and gRPC | `Admission` |
| HTTP handlers, gRPC servers | none | request -> service -> answer or mapped error | `Admission` (partly: JSON is pure) |
| Outbound clients (`internal/outbound`, `internal/grpcclient`) | circuit breaker per upstream; retry loop per call | Do, the interceptor chain | `OutboundClient` |
| Scheduler and Redis lock (`internal/scheduler`, `internal/cache`) | an expiring lock with a token | the job, TryLock, Unlock, start, stop | `SchedulerLock` |
| Health (`internal/health`) | none; two goroutines per probe | Ready | `Readiness` |
| Lifecycle (`cmd/api/main.go`, `internal/app/app.go`, fx hooks) | open connections, goroutines | construct, start, roll back, drain, stop | `AppLifecycle` |
| Migrations (`internal/migration`, `cmd/migrate`) | schema, version row with a dirty flag, advisory locks | Run in several processes | `Migration` |
| Configuration (`internal/config`, what constructors check) | layers: defaults, file, profile file, environment, flag | LoadWithProfile, Validate, constructors | `Configuration` |
| Logging, metrics, tracing, request identifiers, generated API documentation | - | - | not modelled (section 7) |

Interactions. Handlers authenticate and call `rule.Service`. A write asks the
application service (an outbound gRPC call) whether the tenant owns the
application, then runs a transaction through `Transactor.Within`. The outbox row
is written by the publishing transaction and read by the dispatcher of any
replica. Writers and readers on different replicas share only the database. The
compiled cache is local to a replica and is never invalidated: it is keyed by
checksum.

What is hard here:

* rows are read *outside* the transaction and used inside it
  (`UpdateRuleSet`, `PublishRuleVersion`), with optimistic revisions as the
  only protection;
* version numbers and idempotency keys are allocated with look-up-then-insert,
  protected by a row lock on the rule set;
* two operations take row locks in different orders;
* a commit may succeed while its answer is lost, and the client repeats;
* two tables and an event must change together;
* readers follow a pointer in a second statement without a transaction;
* a definition passes through two conversions (json.Marshal, the JSON column)
  before its checksum is compared again.
* an idempotency record, or the lock of the job, may expire under its holder; a
  reply of Redis, or a result, may be lost after it took effect;
* a replica may die between the bus accepting an event and the row being marked;
* retries happen inside a circuit breaker that other calls change meanwhile;
* start, rollback and stop run the same hooks in two orders under one timeout.

What makes each component correct: the catalogue's rows agree with each other
and with the events and stay inside their tenant; the write path behaves as the
atomic catalogue whatever the interleaving; a read sees the current published
version and runs the program of exactly that version; a key runs its operation
at most once per life of its record, beside another execution only if one of the
two outlived its record; an event is
delivered at least once and forgotten only afterwards; a write that may not be
repeated is sent once; an item of a batch gets what it would get alone; one
replica at a time runs the job while its lock lives, and no owner releases
another owner's lock; a probe says ready exactly if what is configured answered;
nothing at work uses a closed connection; a clean version row tells what the
tables are; and a service that runs is guarded as its profile demands.

## 2. Modules

    RuleModel ── RuleCatalog ── MCRuleCatalog, RuleCatalogProofs
        │             └───────── RuleEvaluation ── MCRuleEvaluation, RuleEvaluationProofs
        └─────── RuleTransactions (INSTANCE RuleCatalog) ── MCRuleTransactions, RuleTransactionsProofs
    MCRuleModel: values and call builders for the three MC modules above

    IdempotencyGate ── MCIdempotencyGate, IdempotencyGateProofs
    Admission ── MCAdmission, AdmissionProofs
    EventDelivery ◄─(INSTANCE)─ OutboxDispatch ── MCOutboxDispatch, OutboxDispatchProofs
    SchedulerLock ── ServiceProcess (INSTANCE Readiness, AppLifecycle, Migration, Configuration)
                         └── MCProcess, ProcessProofs
    OutboundClient ── ServiceRequests (INSTANCE RuleEngine, RuleQueries)
        │                └── MCRequests, RequestsProofs
        └── MCOutboundClient

**RuleModel** has no state: the types of rows and calls, the request checks, and
row images shared by the atomic and the detailed specification. `Call` is one
record type for the arguments of the four write operations. `Blank` stands for
every field value that fails its validation (an empty name, a code that does not
match the pattern, an unknown status); `Authorized` is `authorize`. `NewSet`,
`UpdatedSet`, `NewVersion`, `PublishedVersion`, `ActivatedSet` are the rows the
INSERT and UPDATE statements write.

Definition texts are opaque, with two conversions: `Marshal` is
`json.Marshal(definition)`, which the service calls canonical, and `Column` is
what the JSON column returns for a text that was written to it. SHA-256 is
represented by its preimage, that is, taken to be collision-free. Trimming and
lower-casing happen before the model's values; PublishRuleVersion passes its
identifiers on untrimmed, which can only make it miss a row.

**RuleCatalog** is the abstract specification: every write operation that
succeeds is one step on `sets`, `versions` and `events`, every other call is a
stutter. `events` is the set of publications that the outbox announces, each
with the revision of the rule set it created.

**RuleTransactions** is the code. A request of worker `w` is a record `req[w]`:
the next statement (`pc`), the call, the Go locals `seenSet` and `seenVer`, the
uncommitted writes `newSet`, `newVer`, `event`, and the row locks it holds. Each
action is one SQL statement with the Go code around it:

| Operation | Actions |
|---|---|
| arrival: authorize, argument checks, verifyApplication | `Refuse`, `Admit` |
| CreateRuleSet | `InsertSet` |
| UpdateRuleSet | `ReadSet` (no transaction), `UpdateSet` |
| CreateRuleVersion | `LockSet` (FOR UPDATE), `SelectExisting`, `SelectMax`, `InsertVersion` |
| PublishRuleVersion | `ReadSet`, `ReadVersion` (no transaction), `PublishVersion`, `PublishSet`, `AddOutbox` |
| end of `Transactor.Within` | `Commit`, `CommitUnacked` (durable, but the caller sees an error), `Fail` (rollback, deadline or crash at any point) |

`Needs` is the row whose lock the next statement takes, `Granted` that nobody
else holds it. The database is external and modelled from its use: READ
COMMITTED with row locks as in PostgreSQL and Kingbase; under InnoDB the
locking statements read the latest committed row and the snapshot of the plain
reads is taken after FOR UPDATE was granted, which gives the same steps. An
UPDATE whose WHERE clause no committed row satisfies may return at once. The
application service is external too: it grants, denies or is unavailable at any
time. `Refuse` lets it answer out of `Outcomes`, in the order of the checks of
each operation.

**RuleEvaluation** extends the atomic catalogue, which is sound because
RuleTransactions implements it, with the replicas' caches and concurrent reads.
A read is `BeginRead` (authorize, verifyApplication),
`ReadRuleSet`, `ReadRuleVersion`, and for Evaluate `LoadCompiled`,
`LoadOrStore` and `Run`. The `compiled.Store` after a commit is a step of its own
(`StoreCompiled`), because a read may run between the commit and it, and it may
never come when the answer of the commit was lost; `RedraftAt` is the repeated
idempotency key, which also stores. `Restart` empties a replica's cache and
drops its reads and pending stores.

**IdempotencyGate.** `rec[k]` is the Redis record of a key: state, the message
whose fingerprint it keeps, and the owner token. `req[r]` is a request goroutine
of any replica. `Arrive` is IdempotencyKey and the decision whether the route is
covered; `Begin` the manager's Begin with all its answers (acquired, conflict,
in progress, replay, unavailable), where the manager may have taken the record
(`Take`) for a request that is refused because the reply was lost; `Execute` the handler behind the capture,
which may panic past the gate; `Persist` Complete or Fail under the context of
two seconds that outlives the caller; `PersistFails` the error that is logged;
`Crash` and `Expire` the replica and the time to live, which may end under a
running handler: nothing in the code relates the two. The manager is external:
only the owner that Begin named settles a record. `executions`, `expiries` and
`outlived` are history.

**Admission.** `Chain` is the order in which `NewServer` registers the middleware
and the interceptors, and every stage is an operator of its own with the answers
it may give. `Pass` and `Answer` move a request along the chain; `LimitUser` is
the user's bucket, which is shared state; `Deadline`, `Interrupt` and
`TimeoutWrites` are the timeout middleware, which interrupts nobody and writes
only if nothing was written; `Panic` unwinds to Recovery. `ruleHTTPRequirement`
and `ruleGRPCRequirement` are the two tables of permissions, `HTTPStatus` and
`ruleError` the two maps of errors. `ServiceCodes` are the errors a handler may
answer with: any of those of the service, one per item for a batch. The stage of
the idempotency gate is open here: besides its own refusals it may replay
whatever a handler has answered, failures with their status included. `by` is
the stage that answered, because over gRPC only a handler's error goes through
`ruleError` (`GRPCStatus`).

**OutboxDispatch** has the table rows, the lease of each row, and the runtime of
each replica: `OpenBus`, `Launch`, `LaunchFails` are start and its rollback,
`Cancel`, `DispatcherEnds`, `CleanerEnds`, `CloseBus` are stop, where `wg.Wait`
is the guard of `CloseBus`. `Claim`, `Publish`, `PublishFails`, `Mark`,
`MarkFails` are RunOnce of the library (external), in which a bus may accept an
event and lose the acknowledgement; `Clean` is the cleaner; `LeaseExpires` time.
**EventDelivery** is the promise: an event is owed from its transaction on, is
delivered at least once, and is settled only then. `ImplementsDelivery` says that
OutboxDispatch refines it, liveness included.

**RuleEngine** has a definition, its issues, its program, a batch and the
results; `validateShape` and `CompileRule` take one rule per step. An item of a
batch has a tenant, a rule set and a version of its own, hence checks, facts and a
program of its own: `LookUp` goes through the checks and reads of
Service.Evaluate in their order, `Evaluate` takes one rule of the item per step,
and `Expire` lets the deadline pass anywhere. What CEL says of a condition, and
what a check or read answers, is given with the item (`Inputs`). **RuleQueries** is a list as rows known by their rank in ORDER
BY; `Count` and `Select` are the two statements, between which `Insert` and
`ChangeStatus` of other requests take place, and a client walks page by page.

**OutboundClient** is both clients. They have one form: the breaker encloses the
retry loop. They differ in which answers are retried, in what the breaker
counts, in response bodies, and in whether the idempotency key is put on the
wire (`KeyOnWire`). `Start` and `Refused` are the breaker's admission, `Send`,
`Again`, `Return`, `BackoffOver`, `BackoffAbandoned` the loop, `Abandon` the
caller. The breaker library is external; its generations are modelled, so that a
late outcome does not count for a newer state.

**SchedulerLock** is the job of all replicas around the key "cron:sample":
`Acquire`, `Contended`, `LockFails` are TryLock, `Unlock` and `UnlockFails` the
deferred release, where Redis may have done what it did not confirm; `Expire` may
come at any time, under the body too, which nobody bounds and nobody extends the
lease for. Without
Redis there is no locker, and every replica runs the job. **Readiness** has, per
probe, the two goroutines and the channel they send to. **AppLifecycle** has the
parts in the order in which fx constructs and starts them; `Uses` is what a part
needs while it is at work. **Migration** has the schema, the version row with its
dirty flag, `applied` for what the tables show, and the two locks; `Dies` and
`BodyFails` are crashes and failed statements. **Configuration** layers settings
by rank, runs `Validate`, and then asks what the constructors ask (`Build`): the
rules they repeat, and the values Validate takes as they are and they must parse
(`ParsedLate`: log level, trusted proxies, zone and schedule of the job, base
URLs, database URLs). A setting is a yes or no, and all rules that bound a single
value are one setting.

**ServiceProcess** and **ServiceRequests** put parts together that share no
variable: `ProcessSpec` and `RequestsSpec` are the conjunctions of the
specifications of the parts, each of which moves on its own, and the properties
of the parts are named once more. The proofs are about these. To explore them,
**MCProcess** and **MCRequests** move one part per behaviour, chosen in the initial
state by `part`, while the others stay in one initial state. Nothing is lost by
that: a property of a part speaks about its variables only, and a behaviour of the
conjunction, seen through these variables, is a behaviour of the part alone. The
fairness of a part is restated for the behaviours in which it moves.

Definitions marked "Faulty:" are variants of the definition that follows them,
each with one plausible mistake; they are used to show that the properties can
fail, and no specification uses them.

History variables, which decide no step: `executions`, `expiries` and `outlived`
in IdempotencyGate, `overdue` (the replicas whose key expired under their body) in
SchedulerLock, `informed` in RuleTransactions (the
client's expected revision was committed when it called), `since` in
RuleEvaluation (the rule set when the read began), `used` in Admission, `streak`
in OutboundClient, `pinged` in Readiness, `why` in AppLifecycle, `cause` in
Migration, `seen` and `old` in RuleQueries. `outages` and `faults` only bound how
often something breaks.

## 3. What is checked

| Run | Question | Instance | Distinct states |
|---|---|---|---|
| catalog | do the rows of the atomic catalogue agree with each other, with the events and with the tenant rules? | 2 tenants, 2 rule sets, 3 versions, 4 principals, good, re-ordered and broken texts | 25 k |
| tx_races | is every interleaving of two requests, with failures, lost answers, repetitions, invalid arguments and a second tenant that uses the same identifiers, a history of the atomic catalogue? do answers describe what was committed, do acknowledged writes last, and does a repeated call take effect once? | 2 workers, 2 rule sets, 2 versions | 155 k |
| tx_queues | do three requests that queue for the same rows ever collide on a constraint, win the same revision, wait in a circle, or wait for ever? | 3 workers, fairness | 114 k |
| eval_reads | do reads without a transaction, from warm and cold caches of two replicas, use the current version and its program? | 2 replicas, 1 reader, 2 versions | 930 k |
| idem | does a key run its operation once per life of its record, never beside another execution unless one outlived its record, and replay only the right answer, whatever crashes, panics, expires, is lost or not stored? | 3 requests, 1 key, 7 messages | 1.79 M |
| admit_all | is every request answered once, by a handler only if the caller is entitled to it, alike over both transports, and within the user's bucket? | 2 requests, 14 queries, 3 configurations, bucket of 1 | 483 k |
| outbox | is every event delivered and only then forgotten, and does stop end without closing a bus in use? | 2 replicas, 2 events, 2 outages, fairness | 78 k |
| process | the parts around the requests: the locked job, readiness, start and stop, migrations, configuration | 3 replicas; 2 probes; all choices of optional parts; 2 processes, 3 migrations, 2 faults; the shipped files with each setting turned over; fairness | 257 k |
| requests | what requests do besides writing: retries and breaker, the loops of the engine, the walk through a list | 2 calls, 2 attempts, threshold 2; up to 3 rules and 2 items, each refused by any one check or evaluated; 4 rows, pages of 1 and 2; fairness | 955 k |
| tx_stale_event | finding 1, expected violation | as tx_races | |
| tx_json_column | finding 2, expected violation | as tx_races | |
| outbound_key | finding 3, expected violation | 1 upstream | |

Why the bounds are enough. *Catalogue.* The requests interact only through one
rule set's row, its versions and the unique indexes. Two workers give every pair
of operations in every interleaving, and since a worker goes on to further calls,
any number of requests one after the other; three are needed for queues and for
circles of waits longer than two. Two versions make a number or a key collide,
and let one publication replace another; three in `catalog` make a gap possible
that is not at the end. Revisions are bounded by the calls, which name the
revision they expect. Two tenants suffice for isolation, which is stated for
pairs. A reader interacts with other readers only through the cache, whose
entries for one checksum are equal texts; the pending `Store` calls play the part
of the second reader, one at a time per replica (`MaxStoring`).

*Gate.* Records of different keys never meet, so one key is enough. Three
requests are: one that took an expired record, one that holds the present one,
and one that asks; the first may be running still. The messages differ from the first in each part of the
fingerprint. *Admission.* Two requests are what the comparison of transports and
the race for a bucket need; a bucket of one is empty after one request. The three
configurations are those under which a stage behaves differently.
*Outbox.* Two replicas take an expired lease from each other; two events make a
batch that is left half done. Two outages let both replicas die, or one of them
fail to start again. *Client.* A second call is all the breaker needs to be
changed behind the first one's back; two attempts and a threshold of two have a
first, a last and one below the threshold. *Job.* One replica that lost the lock,
one that took it and one that may. *Migration.* With three migrations there is
one at neither end. *Lists.* Four rows are two full pages and two that may still
be inserted before or between them.

The properties, by what would break them. Some are conjunctions; their parts are
defined and explained beside them.

* *Catalogue.* `RowsAgree`: versions are in the scope of their rule set, numbers
  are dense, codes and keys unique. `PublicationsAgree`: version row, pointer and
  event change together, exactly one event announces each published version, the
  latest event leads to the pointer, and what is published compiles.
  `RevisionsIdentify`: a consumer that orders events by the revision they carry
  ends at the published version, in whatever order the bus delivers them.
  `TenantIsolation`.
* *Writing.* `ImplementsCatalog` is `RuleCatalog!Spec` under the mapping that
  keeps the two tables and forgets the copied name in each event.
  `NoConstraintRace`: the lock on the rule set makes the look-up by key and the
  maximum exclusive, so no INSERT of a version ever meets a unique constraint, as
  the comment at `repository.go:79` says. `OneWriterPerRevision`,
  `ReplyDescribesCommit`. `EffectsHappenOnce`: a client that was told `internal`
  although its commit is durable may send the call again, at any time and more
  than once; the tables change only by a call whose effect they do not show yet,
  never lose one they show, and show every acknowledged one
  (`AckedWritesDurable`, a part of it). `NoWaitCycle`: PublishRuleVersion
  takes the version and then the rule set, CreateRuleVersion the rule set and then
  a row nobody else knows. `EveryRequestAnswered`.
* *Reading.* `ReadsFollowPointer`: the pointer never dangles, and a read is
  linearizable with respect to publications. `RightProgram`: warm or cold, any
  replica, the program of the caller's own published version. `CacheBacked`.
* *Gate.* `AtMostOncePerRecord`, `SettledByOwner`, `ReplayFaithful`, and
  `NoOverlap`: two requests with one key run at the same time only if the record
  of one of them expired while it ran; no refusal, lost reply, crash, panic or
  lost result lets a second one in.
* *Admission.* `OneAnswer`, `HandlerIsEntitled`, `TransportsAgree` (whom the
  authentication or authorization of one transport refuses does not reach the
  handler over the other, and the same error means the same), `UserBurstBound`.
* *Outbox.* `ImplementsDelivery`, `BusOpenWhileUsed`, `StopEnds`.
* *Process.* `OneRunsTheJob` (two bodies at once only if the lock of one expired
  under it), `OnlyOwnerUnlocks`, `ReadyIsConjunction`;
  `LifecycleSound` (backends outlive work, nothing is served before they are
  open, an exit in time leaves nothing open); `MigrationSound` (a run fails only by
  a fault of its own, the timeout of the lock, a version that some fault left
  dirty, or, for single steps, for want of a file; and a clean version tells what
  the tables are) and `UpReachesLatest`; `ServingIsGuarded` (production is guarded
  whatever a file of lower rank says, a constructor refuses what Validate accepted
  only for a value it alone parses, every guard has its backend);
  `NothingWaitsForEver` (stops end, probes are answered, migrations end).
* *Requests.* `ClientSound` (a write is sent once, or over gRPC with its key;
  bodies are closed; the breaker trips at its threshold), `CallsEnd`;
  `AnswerFaithful` (all issues are reported, the program mirrors the definition,
  and every item of a batch gets what it would get alone (`Alone`: the first check
  that refuses it, else the first rule that matches), or the error of a passed
  deadline); `ListsSound` (a walk misses no row
  that was there, and a page is not short).

Deadlock checking is off where the model really comes to an end: in `catalog`
every call may have been used up; in `idem` every request may be done; in
`outbox` every event delivered and cleaned with no outage left; in `process` and
`requests` a process has exited, a configuration is in force or refused, a batch
is answered, a walk is over. In the other runs there is always a request to admit
or to refuse.

Fairness. RuleTransactions: strong fairness of each worker's next statement.
Goroutines are scheduled, so an enabled statement runs; a statement that waits
for a row lock is enabled again and again while others come and go, and the
database serves a row's waiters in turn. Migration: strong fairness for the same
reason, of the advisory locks. OutboxDispatch: weak fairness of the goroutines, of start, stop and
lease expiry; strong fairness of claiming a row and of publishing it, since the
library takes the oldest rows first and a bus that refuses an event for ever can
deliver it never. OutboundClient: weak fairness of a call's progress; attempts end
by their timeout. SchedulerLock, Readiness, AppLifecycle: weak fairness of the
steps a goroutine or a timer takes by itself. IdempotencyGate, Admission and the
rest need none. No fairness is assumed of
clients, failures, signals, or of a request that a stopping server waits for:
`StoppingExits` holds because of fx's timeout.

## 4. Findings

1. `tx_stale_event`. PublishRuleVersion copies the rule set before its
   transaction and puts the copy, with the revision set to expected + 1, into
   the event and the answer. The UPDATE compares the expected revision with the
   row, but nothing compares it with the copy. When an UpdateRuleSet commits in
   between, and the client asked for the revision that this update creates, the
   event carries the old name under the new revision. With clients that only
   expect revisions they have seen committed it cannot happen: that is
   `ReplyDescribesCommit`, which holds.
2. `tx_json_column`. The "canonical" text keeps the member order of each result
   object as submitted, the JSON column does not. A draft with, say,
   `{"z":1,"a":2}` as a result is stored with a checksum that its stored text
   does not have, and every attempt to publish it is refused with "stored rule
   definition failed validation". Its idempotency key and number are spent. Such a
   version is never evaluated, so published definitions are unaffected
   (`PublishedDefinitionsCompile`).

3. `outbound_key`. The HTTP client repeats a POST when the context of the call
   carries an idempotency key (`http.go:135`), but builds every attempt from the
   caller's headers (`http.go:107`) and never sends the key. The upstream sees two
   POSTs it cannot tell apart. The gRPC client sends the key with every attempt
   (`grpcclient/client.go:178`); `ResentWithKey` holds there. The test that calls
   such a request idempotent (`http_test.go:22`) counts attempts only.

Observed while modelling, and kept as it is:

* publishing a version of a disabled rule set activates it again; UpdateRuleSet
  accepts "active" for a rule set without a published version, after which
  Evaluate answers "not found"; a duplicate code is answered as an internal
  error, not as a conflict;
* a handler that a deadline interrupts while it waits for the database answers
  500, because the error is not one of package apperror (`service.go:357`) and
  Timeout writes 504 only if nothing was written (`middleware.go:210`);
* over gRPC there is neither a timeout nor a rate limit;
* nothing compares `idempotency.processing_ttl` with the request timeout: with a
  shorter one two requests with one key run at the same time. The theorem
  `RecordsExclude` says that an expiry under the first is the only way;
* the lock of the scheduled job is not extended, and its context of 30 seconds
  is not handed to the body, which today only logs;
* log level, trusted proxies, zone and schedule of the job, and base URLs pass
  `Validate` as they are; the constructors refuse what they cannot parse, the
  scheduler's even if it is disabled;
* `Validate` accepts an event bus without a database; the start hook refuses it;
* without Redis the scheduled job runs on every replica;
* a listener that fails after start is only logged, and the process lives on;
* `Locker.Lock` and `Extend`, and the issuing of tokens, have no caller;
* a filtered walk through a list may miss a row, when an earlier one stops
  matching. `WalkSeesAll` is stated without a filter.

## 5. What is proved

Every safety property that a run checks is also a theorem, and so is the
refinement of the catalogue, for every value of the constants: any, also
infinite, sets of tenants, rows, texts, calls, keys, workers, replicas and events;
any number of attempts, rules, items, rows of a list and migrations. (Requests in
Admission and the ranks of a list are finite sets, of any size, because they are
counted.) Eight modules hold the proofs. What they assume is declared by name
where the constants are, and TLC evaluates it in the runs:

| Assumption | What it says, and why the code justifies it |
|---|---|
| `ActorAssumption`, `TextAssumption`, `CallAssumption` | service accounts are principals; conversions map texts to texts; calls have the type `Call` |
| `NoneAssumption`, `BlankAssumption`, `RequestAssumption`, `RecordAssumption`, `ReadAssumption`, and parts of `GateAssumption`, `DispatchAssumption`, `SchedulerAssumption`, `AdmissionAssumption` | the marks for "nothing" and "invalid" are no values |
| `LockAssumption` | identifiers of rule sets and of versions differ: they name rows of two tables |
| `QueryAssumption`, `LoopAssumption`, `ListAssumption`, `ClientAssumption`, `MigratingAssumption`, `ConfigAssumption` | types of the constants; a page, an attempt and a threshold are at least one, which `Validate` enforces |

**RuleCatalogProofs**, about the atomic catalogue. The inductive invariant
`CatalogInv` is the conjunction of `TypeOK`, the parts of `RowsAgree` and those of
`PublicationsAgree` except `PointerValid`. Neither the types nor the pointer are
inductive alone:

* the number of a new version is `Max(...) + 1`, which is a natural number only
  if the maximum exists; it does because the numbers are 1 .. n
  (`NumbersDense`). `MaxOfRange` and `NextNumberDense` give the value n + 1;
* a new version keeps the numbers of *other* rule sets because a version is in
  the scope of its rule set (`VersionsInScope`);
* a publication keeps "exactly one event per published version" because the
  draft had none, and "latest revision wins" because no event is ahead of
  the row's revision;
* `PointerValid` then follows: the latest event of the rule set names its
  pointer, and `EventsMatchPublished` leads from the event to the version.

There is one lemma per action, with a step per conjunct that the action can
disturb; `SetsOnlyInv` is the part that creating and updating a rule set share.
`TenantsIsolated`, `VersionsNeverChange` and `RevisionsAlwaysIdentify` are action
properties.

**RuleTransactionsProofs**, about the code statement by statement. The invariant
`TxInv` has two halves. `Sound` speaks of one request with no other in sight: what
its Go locals and its uncommitted writes have to do with the *committed* rows at
each program counter (`CreatesSet`, `UpdatesSet`, `CreatesVersion`,
`PublishesVersion`), and what an acknowledged call left in the tables (`Durable`).
`Apart` speaks of two: they hold no lock in common, create different rows, and
expected different revisions if both wrote the same rule set. Two points carry the
argument. From `LockSet` on the numbers and keys of a rule set are as the request
saw them, because whoever would change them holds the same lock. And a copy made
without a lock need only be right *while the row still has the revision the
UPDATE asks for*: `ReadSet` makes it so for an informed client, and any write that
would falsify it raises the revision. A commit changes the tables under all the
other requests; `CommitInv` is the lemma that their halves survive it. From the
invariant: `NoRaceOnVersions`, `RepliesDescribeCommits`, `AckedWritesStay`,
`OneWriterWins`; `EffectsAreUnique`, because a writing transaction at its commit
still holds the rows in which its effect would show (the rule set at the expected
revision, no version with the key, a draft), and because every commit moves the
tables forward (`SetsMove`, `VersionsMove`); and `NeverWaitInCircle` for circles
of any length: in a circle everybody waits and holds something, which only PublishRuleVersion does, with the
row of its version in hand and waiting for the row of a rule set, which therefore
nobody in the circle holds.
`TransactionsImplementCatalog` is `Spec => ImplementsCatalog`: `Commit` and
`CommitUnacked` are the operation of the catalogue, or a stutter when the same
draft was repeated; every other step changes no table. With it the theorems about
the catalogue hold of the committed tables of the code, by instantiation; that
last substitution is left to the reader, since the prover cites no theorem of an
instantiated module.

**RuleEvaluationProofs**. `EvaluationKeepsCatalog` shows that evaluation leaves the
tables to the four operations, so that `CatalogInv` holds beside it. `EvalInv`
says of each read what it saw: from its first statement on, the pointer it holds
is that of the rule set when the read began or a newer one that an event announced
(`Current`), and that one stays true because rows, events and checksums stay
(`RowsStay`); the program it is about to run compiles to the checksum of its
version (`RunsOn`). `CacheBacked` is inductive with it, and `RightProgram` and
`ReadsFollowPointer` follow.

**AdmissionProofs**. `Orderly` says of one request where in its chain it can be,
which stages must have let it through by then, and, for a refusal, what is true of
the caller. `HandlersEntitled` and `DoorsAgree` follow: a transport's refusal tells
something about caller and configuration only, and the other transport asks the
same. `WithinBudget` counts the tokens left, the requests on their way and those
that ran, per user; `BurstHolds` follows from it.

**IdempotencyGateProofs**: `OncePerRecord`, `OwnersSettle`, `ReplaysFaithful`,
`GateTypesCorrect`, and `RecordsExclude`, that two requests with one key run at the
same time only if one of them outlived its record.
`GateInv` adds to the properties: a key has been executed at most once per
expiry of its record, and once more only if a record is there (`Counted`, which
makes "at most once" inductive); what each
program counter implies (`Known`); the owner of a record is past the gate with
the message of the record (`Owned`); a replayed execution has ended (`Replayed`,
so that its answer can no longer change); and who runs and has not outlived its
record is its owner (`Holds`), from which `NoOverlap` follows because a record
has one owner. `RepliesStay` and `QuietStep` carry the invariant over the steps
that disturb one request only.

**OutboxDispatchProofs**: `DispatchTypes`, `BusOutlivesDispatcher`, and
`DispatchImplementsDelivery`, that OutboxDispatch implements the safety part of
EventDelivery. `DispatchInv` says that a settled row was delivered, that what was
sent and not marked was delivered, that only written rows are claimed, and that
the bus is open exactly while a runtime is not down. The refinement follows step
by step: Publish is Deliver or a stutter, Mark is Settle or a stutter, everything
else leaves the mapped variables alone.

**ProcessProofs**, an invariant for each part of ServiceProcess:

* `LockInv`: who runs the job's body owns the key (`RunnerOwns`), unless it expired
  under the body, hence two that run are not both owners;
* `ReadyInv`: what a probe has collected is what was pinged for it;
* `AppInv`: parts are open from constructor or start hook to stop hook, only
  started parts take on work, and stopping leaves nothing open behind the hook
  that comes next. `HooksAreInOrder` then is a question about the order of the
  eleven parts alone;
* `MigrationInv`: who works holds the lock, the schema exists before anybody relies
  on it, and while the row is clean it tells what the tables are (`RowLeads`);
  `MigrationsAgree`, and the action property `UpIsComplete`;
* `ConfigInv`: the profile in force is the one of highest rank, and what was
  accepted satisfies the rules the constructors repeat.

**RequestsProofs**, an invariant for each part of ServiceRequests:

* `ClientInv`: a call that was sent and comes back to its loop may be sent again
  (`CallSound`), and the breaker has counted at least the failures in a row that
  its generation has seen, while no call of an earlier generation counts
  (`BreakerSound`). `ClientsAreSound` holds for any number of calls that overlap
  with the breaker's changes;
* `EngineInv`: after n turns of a loop, issues and program are those of the first
  n rules (`CompileSound`); the item in hand has passed all checks before its
  rules are asked, the rules before `turn` said "false" of it, and every item before
  it has its right result (`BatchSound`, `RightFor`);
  a repeated name would have been an issue, hence the names are distinct. From it
  `LoopsAreFaithful`;
* `ListInv`: whatever old row the walk has not seen has at least as many rows
  before it as the pages so far hold (`Walk`). An INSERT moves such a row back,
  never forward, so the page that ends the walk leaves none. It rests on lemmas
  about positions in a finite set of numbers: the row at a given position exists
  (`RankExists`), and a page holds as many rows as are due (`PageHolds`).

`ProcessesTyped` and `RequestsTyped` state the types of all parts of a composition
under its own specification.

Only model-checked:

* all liveness: `EveryRequestAnswered`, `StopEnds`, `NothingWaitsForEver`, `CallsEnd`, and the liveness half of
  `ImplementsDelivery`; fairness and ENABLED are outside what the prover does;
* the three findings, which are counterexamples;
* that `MCProcess` and `MCRequests` explore behaviours of `ProcessSpec` and
  `RequestsSpec`: that is the argument of section 2, not a theorem.

## 6. Plan

Done: every component of the inventory that has state of its own, and the safety
theorems of all of them. What is left:

1. IdempotencyGate composed with RuleCatalog: which guarantee a client has that
   repeats a write with a key whose record has expired;
2. RuleEvaluation over RuleTransactions instead of the atomic catalogue, where the
   `Store` after a commit is part of the request.

## 7. Not modelled

* Logging, metrics, tracing, request identifiers: values that are reported and
  never read back. Closing what they opened is part of AppLifecycle.
* The generated API documentation; the routes of swagger, metrics and pprof.
* Decoding and rendering of JSON, rewriting of DSNs and URLs, loading of TLS
  files: pure functions and library calls.
* The stream interceptors of gRPC: the service has no streaming methods.
* Libraries and services are external, modelled from their use or given: CEL,
  token verification and key fetching, the authorizer's decision, the rate
  limiter's script, the idempotency manager, the outbox library, NATS, Redis,
  golang-migrate, gobreaker, cron, redsync, fx and the SQL drivers.
* The arithmetic of the backoff. Validation allows five attempts
  (`config.go:626`), so the delay is shifted by three places at most and capped;
  an initial backoff it would overflow for is decades long, and `CallsEnd` needs
  only that a delay ends.
* BatchEvaluate over RuleEvaluation: an item's checks and reads are given, where
  RuleEvaluation has the rows and caches they look at.
