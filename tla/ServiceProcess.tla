--------------------------- MODULE ServiceProcess ---------------------------
(***************************************************************************)
(* The parts of the service around its requests: the scheduled job of all  *)
(* replicas, readiness, the life of a process, its migration and its       *)
(* configuration.  They share no variable; each of them has a              *)
(* specification of its own, and here they are together.                   *)
(***************************************************************************)
EXTENDS SchedulerLock

CONSTANTS
    Probes,                                 \* of module Readiness
    Processes, Latest, MaxFaults,           \* of module Migration
    BaseLayers, ProfileLayers, EnvLayers    \* of module Configuration

VARIABLES
    enabled, up, probe,
    options, phase, built, started, opened, listening, working, migrated, why,
    creates, schema, xactLock, lock, version, dirty, applied, run, faults,
    flag, base, envVars, file, profile, cfg, step

readyVars == <<enabled, up, probe>>
appVars == <<options, phase, built, started, opened, listening, working, migrated, why>>
migrationVars == <<creates, schema, xactLock, lock, version, dirty, applied, run, faults>>
configVars == <<flag, base, envVars, file, profile, cfg, step>>

Ready == INSTANCE Readiness
App == INSTANCE AppLifecycle WITH enabled <- options
Migrating == INSTANCE Migration
Config == INSTANCE Configuration

ASSUME MigratingAssumption == Migrating!MigrationAssumption
ASSUME ConfigAssumption == Config!LayerAssumption

(* Every part moves on its own.                                            *)
ProcessSpec == Spec /\ Ready!Spec /\ App!Spec /\ Migrating!Spec /\ Config!Spec
-----------------------------------------------------------------------------
(* The type invariants of the parts.                                       *)
ProcessTypes ==
    /\ SchedulerTypeOK /\ Ready!ReadinessTypeOK /\ App!LifecycleTypeOK
    /\ Migrating!MigrationTypeOK /\ Config!ConfigTypeOK

(* Service.Ready answers with the conjunction of what it pinged.           *)
ReadyIsConjunction == Ready!ReadyIsConjunction

(* The start and stop hooks come in an order that suits what is at work.   *)
LifecycleSound == App!LifecycleSound

(* migration.Run of several processes leaves rows and tables that agree.   *)
MigrationSound == Migrating!MigrationSound

(* A migration up that succeeds has reached the last version.              *)
UpReachesLatest ==
    [][\A p \in Processes : Migrating!SucceedsAtLatest(p)]_migrationVars

(* What Config.Validate accepts is guarded, and built unless a value does  *)
(* not parse.                                                              *)
ServingIsGuarded == Config!ServingIsGuarded

(* Nothing around the requests waits for ever: schedulers and processes    *)
(* that are told to stop do, probes are answered and migrations end, with  *)
(* backends that fail, keys that are never freed and processes that die.   *)
NothingWaitsForEver ==
    /\ StopEnds
    /\ Ready!ProbesAnswered
    /\ App!StoppingExits
    /\ Migrating!MigrationEnds
=============================================================================
