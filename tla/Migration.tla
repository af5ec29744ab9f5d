----------------------------- MODULE Migration ------------------------------
(***************************************************************************)
(* Run of internal/migration/migration.go in several processes at once:    *)
(* replicas that migrate up when they start (runStartupMigration) and the  *)
(* command cmd/migrate with its direction and steps.  golang-migrate and   *)
(* the database's advisory locks are external.                             *)
(***************************************************************************)
EXTENDS Integers, FiniteSets

CONSTANTS
    Processes,
    Latest,      \* the version of the last migration file
    None,        \* nobody
    MaxFaults    \* bound: crashes and failed statements

MigrationAssumption == Latest \in Nat \ {0} /\ MaxFaults \in Nat /\ None \notin Processes

VARIABLES
    creates,   \* create_schema, never changed
    schema,    \* the schema exists: a replica's connection finds its tables
    xactLock,  \* the process whose transaction holds the advisory lock
    lock,      \* the process that holds the lock of golang-migrate
    version,   \* the row of the migrations table
    dirty,     \* its flag: a migration has begun and not ended
    applied,   \* the migrations the tables show, the last perhaps in part
    run,       \* the progress of each process
    faults     \* history: counts towards MaxFaults

vars == <<creates, schema, xactLock, lock, version, dirty, applied, run, faults>>

(* Migrating to a goal: Up and Down go to the end, Steps(n) by n.          *)
Commands == {"up", "down", "step", "back"}

Run ==
    [pc : {"idle", "schema", "creating", "migrator", "applying", "body", "done", "failed"},
     command : Commands, goal : 0..Latest, cause : {"none", "fault", "dirty", "limit", "lock", "race"}]

Idle == [pc |-> "idle", command |-> "up", goal |-> 0, cause |-> "none"]

Init ==
    /\ creates \in BOOLEAN
    /\ schema = ~creates
    /\ xactLock = None /\ lock = None
    /\ version = 0 /\ dirty = FALSE /\ applied = 0
    /\ run = [p \in Processes |-> Idle]
    /\ faults = 0

Goes(p, pc) == run' = [run EXCEPT ![p].pc = pc]
Fails(p, cause) == run' = [run EXCEPT ![p].pc = "failed", ![p].cause = cause]
Tables == <<version, dirty, applied>>
Fault == faults < MaxFaults /\ faults' = faults + 1

Begin(p, command) ==
    /\ run[p].pc \in {"idle", "done", "failed"}
    /\ run' = [run EXCEPT ![p] = [Idle EXCEPT !.pc = IF creates THEN "schema" ELSE "migrator",
                                              !.command = command]]
    /\ UNCHANGED <<creates, schema, xactLock, lock, Tables, faults>>
-----------------------------------------------------------------------------
(* ensureSchema, createSchema                                              *)

(* Faulty: CREATE SCHEMA IF NOT EXISTS is trusted to be enough.            *)
LockSchemaNot(p) ==
    /\ run[p].pc = "schema"
    /\ Goes(p, "creating")
    /\ UNCHANGED <<creates, schema, xactLock, lock, Tables, faults>>

(* pg_advisory_xact_lock waits for the transaction that holds it.          *)
LockSchema(p) ==
    /\ run[p].pc = "schema" /\ xactLock = None
    /\ xactLock' = p
    /\ Goes(p, "creating")
    /\ UNCHANGED <<creates, schema, lock, Tables, faults>>

(* Two transactions that create the schema at the same time: one of them   *)
(* waits for the other and then violates the unique name.                  *)
Racing(p) == ~schema /\ \E q \in Processes \ {p} : run[q].pc = "creating"

CreateSchema(p) ==
    /\ run[p].pc = "creating"
    /\ IF Racing(p) THEN Fails(p, "race") /\ UNCHANGED schema
                    ELSE Goes(p, "migrator") /\ schema' = TRUE
    /\ xactLock' = None
    /\ UNCHANGED <<creates, lock, Tables, faults>>
-----------------------------------------------------------------------------
(* Up, Down and Steps of golang-migrate                                    *)

(* Faulty: up is one step.                                                 *)
GoalOfStep(command) ==
    IF command \in {"up", "step"} THEN version + 1
    ELSE IF command = "down" THEN 0 ELSE version - 1

GoalOf(command) ==
    CASE command = "up" -> Latest
      [] command = "down" -> 0
      [] command = "step" -> version + 1
      [] command = "back" -> version - 1

Locked(p, goal) ==
    /\ run' = [run EXCEPT ![p].pc = "applying", ![p].goal = goal]
    /\ lock' = p

Refuses(p, cause) == Fails(p, cause) /\ UNCHANGED lock

(* Faulty: the flag is not looked at.                                      *)
LockDirty(p) ==
    /\ run[p].pc = "migrator" /\ lock = None
    /\ LET goal == GoalOf(run[p].command)
       IN  IF goal \in 0..Latest THEN Locked(p, goal) ELSE Refuses(p, "limit")
    /\ UNCHANGED <<creates, schema, xactLock, Tables, faults>>

(* Faulty: ErrNoChange is an error like any other.                         *)
LockSame(p) ==
    /\ run[p].pc = "migrator" /\ lock = None
    /\ LET goal == GoalOf(run[p].command)
       IN  IF dirty THEN Refuses(p, "dirty")
           ELSE IF goal = version THEN Refuses(p, "limit")
           ELSE IF goal \in 0..Latest THEN Locked(p, goal) ELSE Refuses(p, "limit")
    /\ UNCHANGED <<creates, schema, xactLock, Tables, faults>>

(* Faulty: a dirty version is waited for.                                  *)
LockPatient(p) ==
    /\ run[p].pc = "migrator" /\ lock = None
    /\ LET goal == GoalOf(run[p].command)
       IN  IF dirty THEN UNCHANGED <<run, lock>>
           ELSE IF goal \in 0..Latest THEN Locked(p, goal) ELSE Refuses(p, "limit")
    /\ UNCHANGED <<creates, schema, xactLock, Tables, faults>>

(* A dirty version is refused; so are steps beyond the files.              *)
Lock(p) ==
    /\ run[p].pc = "migrator" /\ lock = None
    /\ LET goal == GoalOf(run[p].command)
       IN  IF dirty THEN Refuses(p, "dirty")
           ELSE IF goal \in 0..Latest THEN Locked(p, goal) ELSE Refuses(p, "limit")
    /\ UNCHANGED <<creates, schema, xactLock, Tables, faults>>

(* The migrator waits for the lock fifteen seconds at most.                *)
LockTimesOut(p) ==
    /\ run[p].pc = "migrator" /\ lock # None
    /\ Fails(p, "lock")
    /\ UNCHANGED <<creates, schema, xactLock, lock, Tables, faults>>

(* The way to the goal: undoing a migration marks the version below it.    *)
Step(p) == IF run[p].goal > version THEN 1 ELSE -1

Mark(p) ==
    /\ run[p].pc = "applying" /\ run[p].goal # version
    /\ version' = version + Step(p)
    /\ dirty' = TRUE
    /\ Goes(p, "body")
    /\ UNCHANGED <<creates, schema, xactLock, lock, applied, faults>>

Apply(p) ==
    /\ run[p].pc = "body"
    /\ applied' = IF version > applied THEN applied + 1 ELSE applied - 1
    /\ dirty' = FALSE
    /\ Goes(p, "applying")
    /\ UNCHANGED <<creates, schema, xactLock, lock, version, faults>>

(* A statement fails, or the process dies; the mark stays.                 *)
BodyFails(p) ==
    /\ run[p].pc = "body" /\ Fault
    /\ Fails(p, "fault")
    /\ lock' = None
    /\ UNCHANGED <<creates, schema, xactLock, Tables>>

(* ErrNoChange is no error; the migrator is closed.                        *)
Finish(p) ==
    /\ run[p].pc = "applying" /\ run[p].goal = version
    /\ Goes(p, "done")
    /\ lock' = None
    /\ UNCHANGED <<creates, schema, xactLock, Tables, faults>>

(* Anywhere else a failure or a crash frees what the process holds.        *)
Dies(p) ==
    /\ run[p].pc \in {"schema", "creating", "migrator", "applying"} /\ Fault
    /\ Fails(p, "fault")
    /\ xactLock' = IF xactLock = p THEN None ELSE xactLock
    /\ lock' = IF lock = p THEN None ELSE lock
    /\ UNCHANGED <<creates, schema, Tables>>

Work(p) ==
    \/ LockSchema(p) \/ CreateSchema(p)
    \/ Lock(p) \/ LockTimesOut(p) \/ Mark(p) \/ Apply(p) \/ Finish(p)

Next ==
    \E p \in Processes :
        \/ \E c \in Commands : Begin(p, c)
        \/ Work(p) \/ BodyFails(p) \/ Dies(p)

Spec == Init /\ [][Next]_vars

(* A connected process goes on; the database grants a free lock.           *)
FairSpec == Spec /\ \A p \in Processes : SF_vars(Work(p))
-----------------------------------------------------------------------------
(* properties                                                              *)

(* The type invariant.                                                     *)
MigrationTypeOK ==
    /\ creates \in BOOLEAN /\ schema \in BOOLEAN /\ dirty \in BOOLEAN
    /\ xactLock \in Processes \cup {None} /\ lock \in Processes \cup {None}
    /\ version \in 0..Latest /\ applied \in 0..Latest
    /\ run \in [Processes -> Run]
    /\ faults \in 0..MaxFaults

(* Why a run fails: a fault of its own, the lock's timeout, a dirty        *)
(* version that the fault of some process has left, or, for single steps   *)
(* only, no file to go to.  It never fails because another process creates *)
(* the schema too (createSchema) or because nothing is left to do (Run).   *)
FailsFor(p) ==
    \/ run[p].cause \in {"none", "fault", "lock"}
    \/ run[p].cause = "dirty" /\ faults > 0
    \/ run[p].cause = "limit" /\ run[p].command \in {"step", "back"}

NoSpuriousFailure == \A p \in Processes : FailsFor(p)

(* A version that is not dirty is what the tables show, whichever process  *)
(* died in whichever migration; nobody builds on a half-applied one.       *)
VersionTellsTables == ~dirty => applied = version

(* Concurrent and dying processes leave a schema whose row and tables      *)
(* agree; without a fault no run of up or down fails but by the timeout.   *)
MigrationSound == NoSpuriousFailure /\ VersionTellsTables

SucceedsAtLatest(p) ==
    run[p].pc # "done" /\ run'[p].pc = "done" /\ run[p].command = "up"
        => schema' /\ applied' = Latest /\ ~dirty'

(* A migration up, at the start of a replica or by the command, succeeds   *)
(* only on the last version, complete and in a schema that exists.         *)
UpReachesLatest == [][\A p \in Processes : SucceedsAtLatest(p)]_vars

(* Every run ends, waiting for nobody for ever.                            *)
MigrationEnds ==
    \A p \in Processes : run[p].pc \in {"schema", "migrator"} ~> run[p].pc \in {"done", "failed"}
=============================================================================
