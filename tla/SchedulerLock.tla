---------------------------- MODULE SchedulerLock ---------------------------
(***************************************************************************)
(* The scheduled job of internal/scheduler/scheduler.go on every replica,  *)
(* serialised by the Redis lock "cron:sample" of internal/cache/redis.go.  *)
(* cron, redsync and Redis are external: a lock is a key that holds the    *)
(* token of its owner and expires.                                         *)
(***************************************************************************)
EXTENDS Naturals

CONSTANTS
    Replicas,
    None      \* no owner

ASSUME SchedulerAssumption == None \notin Replicas

VARIABLES
    locker,    \* whether Redis is enabled: newLocker returns nil without it
    token,     \* the owner of the lock's key in Redis
    job,       \* how far the job of each replica is
    stopping,  \* the replicas whose scheduler is being stopped
    overdue    \* history: the replicas whose key expired under their body

vars == <<locker, token, job, stopping, overdue>>

Job == {"down", "idle", "locking", "body", "unlocking"}

Init ==
    /\ locker \in BOOLEAN
    /\ token = None
    /\ job = [p \in Replicas |-> "down"]
    /\ stopping = {} /\ overdue = {}

Goes(p, to) == job' = [job EXCEPT ![p] = to]

Start(p) ==
    /\ job[p] = "down" /\ p \notin stopping
    /\ Goes(p, "idle")
    /\ UNCHANGED <<locker, token, stopping, overdue>>

(* Faulty: a scheduler that is being stopped starts another run.           *)
TickOnStop(p) ==
    /\ job[p] = "idle"
    /\ Goes(p, IF locker THEN "locking" ELSE "body")
    /\ UNCHANGED <<locker, token, stopping, overdue>>

(* SkipIfStillRunning: a tick during a run does nothing.                   *)
Tick(p) ==
    /\ job[p] = "idle" /\ p \notin stopping
    /\ Goes(p, IF locker THEN "locking" ELSE "body")
    /\ UNCHANGED <<locker, token, stopping, overdue>>
-----------------------------------------------------------------------------
(* TryLock                                                                 *)

(* Faulty: the key is set even if it exists.                               *)
AcquireOver(p) ==
    /\ job[p] = "locking"
    /\ token' = p
    /\ Goes(p, "body")
    /\ UNCHANGED <<locker, stopping, overdue>>

Acquire(p) ==
    /\ job[p] = "locking" /\ token = None
    /\ token' = p
    /\ Goes(p, "body")
    /\ UNCHANGED <<locker, stopping, overdue>>

(* isContention: no error, the run is skipped.                             *)
Contended(p) ==
    /\ job[p] = "locking" /\ token # None
    /\ Goes(p, "idle")
    /\ UNCHANGED <<locker, token, stopping, overdue>>

(* Redis does not answer in time.  It may have set the key all the same;   *)
(* then nobody runs until the key expires.                                 *)
LockFails(p) ==
    /\ job[p] = "locking"
    /\ token' \in {token} \cup (IF token = None THEN {p} ELSE {})
    /\ Goes(p, "idle")
    /\ UNCHANGED <<locker, stopping, overdue>>
-----------------------------------------------------------------------------
(* the body and the deferred unlock                                        *)

Body(p) ==
    /\ job[p] = "body"
    /\ Goes(p, IF locker THEN "unlocking" ELSE "idle")
    /\ overdue' = overdue \ {p}
    /\ UNCHANGED <<locker, token, stopping>>

(* Faulty: the key is deleted whoever owns it.                             *)
UnlockAny(p) ==
    /\ job[p] = "unlocking"
    /\ token' = None
    /\ Goes(p, "idle")
    /\ UNCHANGED <<locker, stopping, overdue>>

(* A lock that is no longer owned is an error the job only logs.           *)
Unlock(p) ==
    /\ job[p] = "unlocking"
    /\ token' = IF token = p THEN None ELSE token
    /\ Goes(p, "idle")
    /\ UNCHANGED <<locker, stopping, overdue>>

UnlockFails(p) ==
    /\ job[p] = "unlocking"
    /\ token' \in {token} \cup (IF token = p THEN {None} ELSE {})
    /\ Goes(p, "idle")
    /\ UNCHANGED <<locker, stopping, overdue>>

(* The lease is a minute, nobody extends it, and no context bounds the     *)
(* body: it may expire at any time.                                        *)
Expire ==
    /\ token # None
    /\ token' = None
    /\ overdue' = overdue \cup {p \in {token} : job[p] = "body"}
    /\ UNCHANGED <<locker, job, stopping>>
-----------------------------------------------------------------------------
(* the end of a replica                                                    *)

(* Faulty: a scheduler that never started is stopped.                      *)
StopUnstarted(p) ==
    /\ p \notin stopping
    /\ stopping' = stopping \cup {p}
    /\ UNCHANGED <<locker, token, job, overdue>>

Stop(p) ==
    /\ job[p] # "down" /\ p \notin stopping
    /\ stopping' = stopping \cup {p}
    /\ UNCHANGED <<locker, token, job, overdue>>

(* runner.Stop() is over when the last run is.                             *)
Stopped(p) ==
    /\ p \in stopping /\ job[p] = "idle"
    /\ stopping' = stopping \ {p}
    /\ Goes(p, "down")
    /\ UNCHANGED <<locker, token, overdue>>

(* A crash, or the stop timeout of the application.                        *)
Die(p) ==
    /\ job[p] # "down"
    /\ stopping' = stopping \ {p} /\ overdue' = overdue \ {p}
    /\ Goes(p, "down")
    /\ UNCHANGED <<locker, token>>

(* One operation on Redis is bounded by the contexts of 30 and 3 seconds.  *)
Run(p) ==
    \/ Acquire(p) \/ Contended(p) \/ LockFails(p)
    \/ Body(p) \/ Unlock(p) \/ UnlockFails(p)

Next ==
    \/ Expire
    \/ \E p \in Replicas : Start(p) \/ Tick(p) \/ Run(p) \/ Stop(p) \/ Stopped(p) \/ Die(p)

Spec == Init /\ [][Next]_vars

(* A run goes on; a stopped scheduler lets go.                             *)
FairSpec ==
    /\ Spec
    /\ \A p \in Replicas : WF_vars(Run(p)) /\ WF_vars(Stopped(p))
-----------------------------------------------------------------------------
(* properties                                                              *)

(* The type invariant.                                                     *)
SchedulerTypeOK ==
    /\ locker \in BOOLEAN
    /\ token \in Replicas \cup {None}
    /\ job \in [Replicas -> Job]
    /\ stopping \subseteq {p \in Replicas : job[p] # "down"}
    /\ overdue \subseteq {p \in Replicas : job[p] = "body"}

(* Two replicas run the body of the job at the same time only if the key   *)
(* of one expired under its body: lost replies, replicas that die with the *)
(* lock and late unlocks never let a second one in (runSample).            *)
OneRunsTheJob ==
    locker => \A p, q \in Replicas :
                 job[p] = "body" /\ job[q] = "body" /\ p # q => {p, q} \cap overdue # {}

(* A replica that unlocks late does not release the lock another one has   *)
(* taken meanwhile: a key goes by its owner's step or by expiry.           *)
OnlyOwnerUnlocks ==
    [][ token # None /\ token' # token => job' = job \/ job'[token] # job[token] ]_vars

(* A scheduler that is told to stop stops (OnStop waits for the run).      *)
StopEnds == \A p \in Replicas : p \in stopping ~> p \notin stopping
=============================================================================
