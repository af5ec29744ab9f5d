--------------------------- MODULE ProcessProofs ----------------------------
(***************************************************************************)
(* Proofs about the parts of ServiceProcess: any number of replicas,       *)
(* probes, processes and migrations, any contents of the configuration     *)
(* files and the environment.  Each part has an invariant of its own.      *)
(***************************************************************************)
EXTENDS ServiceProcess, Integers, TLAPS

(* The scheduled job and its lock                                          *)

(* Who runs the body with a locker owns the key unless the lease has ended *)
(* under it: no other replica's unlock releases it.                        *)
RunnerOwns ==
    locker => \A p \in Replicas : job[p] = "body" /\ p \notin overdue => token = p

LockInv == SchedulerTypeOK /\ RunnerOwns

LEMMA LockInit == Init => LockInv
BY DEF Init, LockInv, SchedulerTypeOK, RunnerOwns, Job

(* Steps that leave the key alone and let no replica into the body.        *)
LEMMA KeepsKey ==
    ASSUME LockInv, SchedulerTypeOK', token' = token, locker' = locker,
           \A p \in Replicas :
              job'[p] = "body" /\ p \notin overdue' => job[p] = "body" /\ p \notin overdue
    PROVE  LockInv'
BY DEF LockInv, RunnerOwns

(* Starting, stopping and dying.                                           *)
LEMMA LifeInv ==
    ASSUME LockInv, NEW p \in Replicas, Start(p) \/ Stop(p) \/ Stopped(p) \/ Die(p)
    PROVE  LockInv'
<1>1. SchedulerTypeOK'
  BY DEF LockInv, SchedulerTypeOK, Job, Goes, Start, Stop, Stopped, Die
<1>2. /\ token' = token /\ locker' = locker
      /\ \A q \in Replicas :
            job'[q] = "body" /\ q \notin overdue' => job[q] = "body" /\ q \notin overdue
  BY DEF LockInv, SchedulerTypeOK, Job, Goes, Start, Stop, Stopped, Die
<1>3. QED
  BY <1>1, <1>2, KeepsKey

(* A tick lets a replica into the body only if there is no locker.         *)
LEMMA TickInv ==
    ASSUME LockInv, NEW p \in Replicas, Tick(p)
    PROVE  LockInv'
<1>1. SchedulerTypeOK'
  BY DEF LockInv, SchedulerTypeOK, Job, Goes, Tick
<1>2. RunnerOwns'
  BY DEF LockInv, SchedulerTypeOK, RunnerOwns, Job, Goes, Tick
<1>3. QED
  BY <1>1, <1>2 DEF LockInv

(* Taking the key: it was free, so whoever ran the body is overdue.        *)
LEMMA TakeInv ==
    ASSUME LockInv, NEW p \in Replicas, Acquire(p) \/ Contended(p) \/ LockFails(p)
    PROVE  LockInv'
<1>1. SchedulerTypeOK'
  BY DEF LockInv, SchedulerTypeOK, Job, Goes, Acquire, Contended, LockFails
<1>2. RunnerOwns'
  <2>1. ASSUME Acquire(p), locker, NEW q \in Replicas, job'[q] = "body", q \notin overdue'
        PROVE  token' = q
    <3>1. job[q] # "body"
      BY <2>1, SchedulerAssumption DEF Acquire, LockInv, RunnerOwns
    <3>2. q = p
      BY <2>1, <3>1 DEF Acquire, Goes, LockInv, SchedulerTypeOK
    <3>3. QED
      BY <2>1, <3>2 DEF Acquire
  <2>2. ASSUME Contended(p) PROVE RunnerOwns'
    BY <2>2 DEF Contended, Goes, LockInv, SchedulerTypeOK, RunnerOwns
  <2>3. ASSUME LockFails(p), locker, NEW q \in Replicas, job'[q] = "body", q \notin overdue'
        PROVE  token' = q
    <3>1. q # p /\ job[q] = "body" /\ q \notin overdue
      BY <2>3 DEF LockFails, Goes, LockInv, SchedulerTypeOK
    <3>2. token = q
      BY <2>3, <3>1 DEF LockInv, RunnerOwns
    <3>3. QED
      BY <2>3, <3>2, SchedulerAssumption DEF LockFails
  <2>4. locker' = locker
    BY DEF Acquire, Contended, LockFails
  <2>5. QED
    BY <2>1, <2>2, <2>3, <2>4 DEF RunnerOwns
<1>3. QED
  BY <1>1, <1>2 DEF LockInv

(* Leaving the body and unlocking: only the replica's own key goes.        *)
LEMMA LeaveInv ==
    ASSUME LockInv, NEW p \in Replicas, Body(p) \/ Unlock(p) \/ UnlockFails(p)
    PROVE  LockInv'
<1>1. SchedulerTypeOK'
  BY DEF LockInv, SchedulerTypeOK, Job, Goes, Body, Unlock, UnlockFails
<1>2. ASSUME NEW q \in Replicas, locker, job'[q] = "body", q \notin overdue'
      PROVE  token' = q
  <2>1. q # p /\ job[q] = "body" /\ q \notin overdue
    BY <1>2 DEF Body, Unlock, UnlockFails, Goes, LockInv, SchedulerTypeOK
  <2>2. token = q
    BY <1>2, <2>1 DEF LockInv, RunnerOwns
  <2>3. QED
    BY <2>1, <2>2 DEF Body, Unlock, UnlockFails
<1>3. locker' = locker
  BY DEF Body, Unlock, UnlockFails
<1>4. QED
  BY <1>1, <1>2, <1>3 DEF LockInv, RunnerOwns

(* A key that expires leaves its owner overdue or was not that of a body.  *)
LEMMA ExpireInv ==
    ASSUME LockInv, Expire
    PROVE  LockInv'
BY DEF LockInv, SchedulerTypeOK, RunnerOwns, Expire

LEMMA LockStep == LockInv /\ [Next]_vars => LockInv'
<1> SUFFICES ASSUME LockInv, [Next]_vars PROVE LockInv'
  OBVIOUS
<1>1. CASE UNCHANGED vars
  BY <1>1 DEF vars, LockInv, SchedulerTypeOK, RunnerOwns
<1>2. CASE Next
  BY <1>2, LifeInv, TickInv, TakeInv, LeaveInv, ExpireInv DEF Next, Run
<1>3. QED
  BY <1>1, <1>2

(* The types hold, for any number of replicas.                             *)
THEOREM LockTypes == Spec => []SchedulerTypeOK
<1>1. LockInv => SchedulerTypeOK
  BY DEF LockInv
<1>2. QED
  BY <1>1, LockInit, LockStep, PTL DEF Spec

(* Of any number of replicas two run the body of the job at once only if   *)
(* the key of one expired under its body, however often replies are lost,  *)
(* replicas die and unlocks come late (runSample).                         *)
THEOREM OneRunner == Spec => []OneRunsTheJob
<1>1. LockInv => OneRunsTheJob
  BY DEF LockInv, RunnerOwns, OneRunsTheJob
<1>2. QED
  BY <1>1, LockInit, LockStep, PTL DEF Spec

(* A late unlock never releases the key another replica has taken: a key   *)
(* goes by a step of its owner or by expiry.                               *)
THEOREM UnlocksOwn == Spec => OnlyOwnerUnlocks
<1>1. LockInv /\ [Next]_vars =>
        [token # None /\ token' # token => job' = job \/ job'[token] # job[token]]_vars
  <2> SUFFICES ASSUME LockInv, Next, token # None, token' # token
               PROVE  job' = job \/ job'[token] # job[token]
    BY DEF vars
  <2>1. CASE Expire
    BY <2>1 DEF Expire
  <2>2. ASSUME NEW p \in Replicas, Start(p) \/ Tick(p) \/ Stop(p) \/ Stopped(p) \/ Die(p)
        PROVE  FALSE
    BY <2>2 DEF Start, Tick, Stop, Stopped, Die
  <2>3. ASSUME NEW p \in Replicas, Run(p)
        PROVE  job'[token] # job[token]
    <3>1. token = p /\ job[p] = "unlocking" /\ Goes(p, "idle")
      BY <2>3 DEF Run, Acquire, Contended, LockFails, Body, Unlock, UnlockFails
    <3>2. QED
      BY <3>1 DEF Goes, LockInv, SchedulerTypeOK
  <2>4. QED
    BY <2>1, <2>2, <2>3 DEF Next
<1>2. QED
  BY <1>1, LockInit, LockStep, PTL DEF Spec, OnlyOwnerUnlocks

-----------------------------------------------------------------------------
(* Readiness                                                               *)

(* What a probe p knows of the dependencies E that are configured.         *)
Reports(p, E) ==
    /\ \A d \in Ready!Dependencies :
          /\ p.check[d] = "good" => d \notin E \/ d \in p.pinged
          /\ p.check[d] = "bad" => d \in E /\ d \notin p.pinged
          /\ p.check[d] \in {"none", "running"} => d \notin p.pinged
    /\ p.ready <=> \A d \in Ready!Dependencies :
                       p.check[d] = "taken" => d \notin E \/ d \in p.pinged
    /\ p.pc = "replied" => \A d \in Ready!Dependencies : p.check[d] = "taken"

ReadyInv == Ready!ReadinessTypeOK /\ \A i \in Probes : Reports(probe[i], enabled)

(* A probe nobody has asked yet is in order whatever is configured.        *)
LEMMA IdleReports ==
    /\ Ready!Idle \in Ready!Probe
    /\ \A E : Reports(Ready!Idle, E)
BY DEF Ready!Idle, Ready!Probe, Reports

LEMMA ReadyInit == Ready!Init => ReadyInv
<1> SUFFICES ASSUME Ready!Init PROVE ReadyInv
  OBVIOUS
<1>1. \A i \in Probes : probe[i] = Ready!Idle /\ probe[i].pinged = {}
  BY DEF Ready!Init, Ready!Idle
<1>2. Ready!ReadinessTypeOK
  BY <1>1, IdleReports DEF Ready!Init, Ready!ReadinessTypeOK
<1>3. QED
  BY <1>1, <1>2, IdleReports DEF ReadyInv

(* A step of one probe that leaves its record p in order.                  *)
LEMMA BecomesInv ==
    ASSUME ReadyInv, NEW i \in Probes, NEW p \in Ready!Probe, p.pinged \subseteq enabled,
           Reports(p, enabled), Ready!Becomes(i, p), UNCHANGED <<enabled, up>>
    PROVE  ReadyInv'
<1>1. probe' \in [Probes -> Ready!Probe]
  BY DEF Ready!Becomes, ReadyInv, Ready!ReadinessTypeOK
<1>2. \A j \in Probes : probe'[j] = IF j = i THEN p ELSE probe[j]
  BY DEF Ready!Becomes, ReadyInv, Ready!ReadinessTypeOK
<1>3. \A j \in Probes : Reports(probe'[j], enabled) /\ probe'[j].pinged \subseteq enabled
  BY <1>2 DEF ReadyInv, Ready!ReadinessTypeOK
<1>4. Ready!ReadinessTypeOK'
  BY <1>1, <1>3 DEF ReadyInv, Ready!ReadinessTypeOK
<1>5. \A j \in Probes : Reports(probe'[j], enabled')
  BY <1>3
<1>6. QED
  BY <1>4, <1>5 DEF ReadyInv

(* What a goroutine or the collector does to the record p of a probe.      *)
LEMMA ServeInv ==
    ASSUME ReadyInv, NEW i \in Probes, Ready!Serve(i)
    PROVE  ReadyInv'
<1>1. /\ probe[i] \in Ready!Probe /\ probe[i].pinged \subseteq enabled /\ up \subseteq enabled
      /\ enabled \subseteq Ready!Dependencies
      /\ Reports(probe[i], enabled)
  BY DEF ReadyInv, Ready!ReadinessTypeOK
<1>2. CASE Ready!Reply(i)
  <2> DEFINE p == [probe[i] EXCEPT !.pc = "replied"]
  <2>1. p \in Ready!Probe /\ p.pinged \subseteq enabled
    BY <1>1 DEF Ready!Probe
  <2>2. Reports(p, enabled)
    BY <1>1, <1>2 DEF Ready!Reply, Ready!Probe, Reports
  <2>3. QED
    BY <1>2, <2>1, <2>2, BecomesInv DEF Ready!Reply
<1>3. ASSUME NEW d \in Ready!Dependencies, Ready!Disabled(i, d) PROVE ReadyInv'
  <2> DEFINE p == [probe[i] EXCEPT !.check[d] = "good"]
  <2>1. p \in Ready!Probe /\ p.pinged \subseteq enabled
    BY <1>1 DEF Ready!Probe
  <2>2. Reports(p, enabled)
    BY <1>1, <1>3 DEF Ready!Disabled, Ready!Checking, Ready!Probe, Reports
  <2>3. QED
    BY <1>3, <2>1, <2>2, BecomesInv DEF Ready!Disabled, Ready!Sends
<1>4. ASSUME NEW d \in Ready!Dependencies, Ready!PingAnswered(i, d) PROVE ReadyInv'
  <2> DEFINE p == [probe[i] EXCEPT !.check[d] = "good", !.pinged = @ \cup {d}]
  <2>1. p \in Ready!Probe /\ p.pinged \subseteq enabled
    BY <1>1, <1>4 DEF Ready!Probe, Ready!PingAnswered
  <2>2. Reports(p, enabled)
    BY <1>1, <1>4 DEF Ready!PingAnswered, Ready!Checking, Ready!Probe, Reports
  <2>3. QED
    BY <1>4, <2>1, <2>2, BecomesInv DEF Ready!PingAnswered
<1>5. ASSUME NEW d \in Ready!Dependencies, Ready!PingFails(i, d) PROVE ReadyInv'
  <2> DEFINE p == [probe[i] EXCEPT !.check[d] = "bad"]
  <2>1. p \in Ready!Probe /\ p.pinged \subseteq enabled
    BY <1>1 DEF Ready!Probe
  <2>2. Reports(p, enabled)
    BY <1>1, <1>5 DEF Ready!PingFails, Ready!Checking, Ready!Probe, Reports
  <2>3. QED
    BY <1>5, <2>1, <2>2, BecomesInv DEF Ready!PingFails, Ready!Sends
<1>6. ASSUME NEW d \in Ready!Dependencies, Ready!Collect(i, d) PROVE ReadyInv'
  <2> DEFINE good == probe[i].check[d] = "good"
             p == [probe[i] EXCEPT !.check[d] = "taken", !.ready = @ /\ good]
  <2>1. p \in Ready!Probe /\ p.pinged \subseteq enabled
    BY <1>1 DEF Ready!Probe
  <2>2. Reports(p, enabled)
    BY <1>1, <1>6 DEF Ready!Collect, Ready!Probe, Reports
  <2>3. QED
    BY <1>6, <2>1, <2>2, BecomesInv DEF Ready!Collect
<1>7. QED
  BY <1>2, <1>3, <1>4, <1>5, <1>6 DEF Ready!Serve

LEMMA ReadyStep == ReadyInv /\ [Ready!Next]_readyVars => ReadyInv'
<1> SUFFICES ASSUME ReadyInv, [Ready!Next]_readyVars PROVE ReadyInv'
  OBVIOUS
<1>1. CASE UNCHANGED readyVars
  <2>1. Ready!ReadinessTypeOK'
    BY <1>1 DEF readyVars, ReadyInv, Ready!ReadinessTypeOK
  <2>2. \A i \in Probes : Reports(probe'[i], enabled')
    BY <1>1 DEF readyVars, ReadyInv
  <2>3. QED
    BY <2>1, <2>2 DEF ReadyInv
<1>2. CASE Ready!Turns
  <2>1. Ready!ReadinessTypeOK'
    BY <1>2 DEF Ready!Turns, ReadyInv, Ready!ReadinessTypeOK
  <2>2. \A i \in Probes : Reports(probe'[i], enabled')
    BY <1>2 DEF Ready!Turns, ReadyInv
  <2>3. QED
    BY <2>1, <2>2 DEF ReadyInv
<1>3. ASSUME NEW i \in Probes, Ready!Ask(i) PROVE ReadyInv'
  <2> DEFINE p == [Ready!Idle EXCEPT !.pc = "collecting",
                                    !.check = [d \in Ready!Dependencies |-> "running"]]
  <2>1. p \in Ready!Probe /\ p.pinged \subseteq enabled /\ Reports(p, enabled)
    BY DEF Ready!Probe, Ready!Idle, Reports
  <2>2. QED
    BY <1>3, <2>1, BecomesInv DEF Ready!Ask
<1>4. ASSUME NEW i \in Probes, Ready!HangUp(i) PROVE ReadyInv'
  <2> DEFINE p == [probe[i] EXCEPT !.live = FALSE]
  <2>1. probe[i] \in Ready!Probe /\ probe[i].pinged \subseteq enabled /\ Reports(probe[i], enabled)
    BY DEF ReadyInv, Ready!ReadinessTypeOK
  <2>2. p \in Ready!Probe /\ p.pinged \subseteq enabled /\ Reports(p, enabled)
    BY <2>1 DEF Ready!Probe, Reports
  <2>3. QED
    BY <1>4, <2>2, BecomesInv DEF Ready!HangUp
<1>5. ASSUME NEW i \in Probes, Ready!AskAgain(i) PROVE ReadyInv'
  <2>1. Ready!Idle.pinged \subseteq enabled
    BY DEF Ready!Idle
  <2>2. QED
    BY <1>5, <2>1, IdleReports, BecomesInv DEF Ready!AskAgain
<1>6. QED
  BY <1>1, <1>2, <1>3, <1>4, <1>5, ServeInv DEF Ready!Next

(* A reply to a probe is the conjunction of the pings made for it, for any *)
(* number of probes at the same time (Ready, checkResult).                 *)
THEOREM ProbesAreRight == Ready!Spec => []ReadyIsConjunction
<1>1. ReadyInv => ReadyIsConjunction
  <2> SUFFICES ASSUME ReadyInv, NEW i \in Probes, probe[i].pc = "replied"
               PROVE  probe[i].ready <=> probe[i].pinged = enabled
    BY DEF ReadyIsConjunction, Ready!ReadyIsConjunction
  <2> QED
    BY DEF ReadyInv, Ready!ReadinessTypeOK, Reports
<1>2. QED
  BY <1>1, ReadyInit, ReadyStep, PTL DEF Ready!Spec, readyVars, Ready!vars

-----------------------------------------------------------------------------
(* The life of a process                                                   *)

(* The parts up to the n-th in the order of the hooks.                     *)
UpTo(n) == {App!Order[i] : i \in 1..n}

Workers == {"eventbus", "scheduler"} \cup App!Handlers

(* What the phase of fx says of how far its hooks are.                     *)
HooksFollowPhase ==
    /\ phase = "building" => started = 0 /\ why = "none"
    /\ phase \in {"starting", "running", "stopping"} \/ started > 0 => built = App!Size
    /\ phase = "starting" => why = "none"
    /\ phase = "running" => why = "none" /\ started = App!Size
    /\ phase = "stopping" => why \in {"start", "signal"}
    /\ "migration" \notin options \/ built >= 2 => migrated

(* A part is open from its constructor, the event bus from its start hook, *)
(* until its stop hook; what never started stays open.                     *)
OpenFromConstruction ==
    /\ opened \subseteq App!Opens \cup UpTo(started)
    /\ phase \in {"building", "starting"} =>
          \A c \in App!Opens \cap UpTo(built) :
              c \in options \cup {"logger", "outbound"} => c \in opened
    /\ started > 0 =>
          \A c \in (App!Opens \cup {"eventbus"}) \cap UpTo(started) :
              c \in options \cup {"logger", "outbound"} => c \in opened

(* Only parts that are started and configured take on work, the event bus  *)
(* only with a database.                                                   *)
WorkersStarted ==
    /\ listening \cup working \subseteq UpTo(started) \cap Workers
    /\ "eventbus" \in listening \cup working => {"eventbus", "database"} \subseteq options

(* What stopping has left: nothing behind the hook that comes next, and    *)
(* after a failed start what was constructed and not started.              *)
StopsInOrder ==
    /\ why = "signal" /\ phase \in {"stopping", "exited"} => opened \subseteq UpTo(started)
    /\ why = "signal" /\ phase = "exited" => started = 0
    /\ why = "start" => opened \subseteq UpTo(started) \cup {"outbound", "verifier"}
    /\ why = "start" /\ phase = "exited" => started = 0

AppInv ==
    /\ App!LifecycleTypeOK
    /\ HooksFollowPhase /\ OpenFromConstruction /\ WorkersStarted /\ StopsInOrder

(* The order of the hooks, part by part, and the parts up to the n-th.     *)
LEMMA OrderOfParts ==
    /\ App!Size = 11
    /\ App!Order[1] = "logger" /\ App!Order[2] = "migration" /\ App!Order[3] = "database"
    /\ App!Order[4] = "tracing" /\ App!Order[5] = "redis" /\ App!Order[6] = "eventbus"
    /\ App!Order[7] = "outbound" /\ App!Order[8] = "scheduler" /\ App!Order[9] = "verifier"
    /\ App!Order[10] = "grpc" /\ App!Order[11] = "http"
BY DEF App!Order, App!Size

LEMMA PartsUpTo ==
    ASSUME NEW n \in 0..App!Size
    PROVE  /\ UpTo(n) \subseteq App!PartSet
           /\ n = 0 => UpTo(n) = {}
           /\ n < App!Size => UpTo(n + 1) = UpTo(n) \cup {App!Order[n + 1]}
           /\ n > 0 => UpTo(n) = UpTo(n - 1) \cup {App!Order[n]}
           /\ "logger" \in UpTo(n) <=> n >= 1
           /\ "migration" \in UpTo(n) <=> n >= 2
           /\ "database" \in UpTo(n) <=> n >= 3
           /\ "tracing" \in UpTo(n) <=> n >= 4
           /\ "redis" \in UpTo(n) <=> n >= 5
           /\ "eventbus" \in UpTo(n) <=> n >= 6
           /\ "outbound" \in UpTo(n) <=> n >= 7
           /\ "scheduler" \in UpTo(n) <=> n >= 8
           /\ "verifier" \in UpTo(n) <=> n >= 9
           /\ "grpc" \in UpTo(n) <=> n >= 10
           /\ "http" \in UpTo(n) <=> n >= 11
<1>1. UpTo(n) \subseteq App!PartSet /\ (n = 0 => UpTo(n) = {})
  BY OrderOfParts DEF UpTo, App!PartSet
<1>2. n < App!Size => UpTo(n + 1) = UpTo(n) \cup {App!Order[n + 1]}
  BY OrderOfParts DEF UpTo
<1>3. n > 0 => UpTo(n) = UpTo(n - 1) \cup {App!Order[n]}
  BY OrderOfParts DEF UpTo
<1>4. \A c : c \in UpTo(n) <=> \E i \in 1..11 : i <= n /\ c = App!Order[i]
  BY OrderOfParts DEF UpTo
<1>5. \A i \in 1..11 : i \in {1, 2, 3, 4, 5, 6, 7, 8, 9, 10, 11}
  OBVIOUS
<1>6. QED
  BY <1>1, <1>2, <1>3, <1>4, <1>5, OrderOfParts

LEMMA AppInit == App!Init => AppInv
<1> SUFFICES ASSUME App!Init PROVE AppInv
  OBVIOUS
<1>1. UpTo(0) = {} /\ 0 \in 0..App!Size
  BY OrderOfParts, PartsUpTo
<1>2. migrated \in BOOLEAN /\ ("migration" \notin options => migrated)
  BY Zenon DEF App!Init
<1>3. App!LifecycleTypeOK
  BY <1>1, <1>2 DEF App!Init, App!LifecycleTypeOK
<1>4. HooksFollowPhase
  BY <1>2 DEF App!Init, HooksFollowPhase
<1>5. OpenFromConstruction /\ WorkersStarted /\ StopsInOrder
  BY <1>1 DEF App!Init, OpenFromConstruction, WorkersStarted, StopsInOrder
<1>6. QED
  BY <1>3, <1>4, <1>5 DEF AppInv

(* Where the hooks are, with the facts about the order that steps need.    *)
LEMMA Counters ==
    ASSUME AppInv
    PROVE  /\ built \in 0..11 /\ started \in 0..built /\ started \in 0..App!Size
           /\ App!Size = 11 /\ built \in 0..App!Size
           /\ listening \subseteq UpTo(started) /\ opened \subseteq App!PartSet
BY OrderOfParts DEF AppInv, App!LifecycleTypeOK, UpTo

(* Constructors open; no hook has run yet.                                 *)
LEMMA ConstructInv ==
    ASSUME AppInv, App!Construct
    PROVE  AppInv'
<1>1. /\ phase = "building" /\ built < 11 /\ built' = built + 1 /\ started = 0
      /\ built' \in 0..11 /\ built' \in 0..App!Size
      /\ UNCHANGED <<options, phase, started, listening, working, why>>
  BY Counters DEF App!Construct, AppInv, HooksFollowPhase
<1> DEFINE c == App!Order[built + 1]
<1>2. /\ opened' = opened \cup (IF c \in App!Opens /\ App!Active(c) THEN {c} ELSE {})
      /\ migrated' = (migrated \/ c = "migration")
  BY DEF App!Construct
<1>3. UpTo(built + 1) = UpTo(built) \cup {c} /\ UpTo(built + 1) \subseteq App!PartSet
  BY <1>1, Counters, PartsUpTo
<1>4. built + 1 = 2 => c = "migration"
  BY OrderOfParts
<1> HIDE DEF c
<1>5. App!LifecycleTypeOK'
  <2>1. migrated' \in BOOLEAN
    BY <1>2, Zenon
  <2>2. opened' \subseteq App!PartSet
    BY <1>2, <1>3, Counters
  <2>3. started' \in 0..built'
    BY <1>1
  <2>4. QED
    BY <1>1, <2>1, <2>2, <2>3 DEF AppInv, App!LifecycleTypeOK
<1>6. HooksFollowPhase'
  <2>1. "migration" \notin options \/ built' >= 2 => migrated'
    <3>1. (migrated => migrated') /\ (c = "migration" => migrated')
      BY <1>2, Zenon
    <3>2. built' >= 2 => built >= 2 \/ built + 1 = 2
      BY <1>1, Counters
    <3>3. QED
      BY <1>1, <1>4, <3>1, <3>2 DEF AppInv, HooksFollowPhase
  <2>2. QED
    BY <1>1, <2>1 DEF HooksFollowPhase, AppInv
<1>7. OpenFromConstruction'
  <2>1. opened' \subseteq App!Opens \cup UpTo(started)
    BY <1>2 DEF AppInv, OpenFromConstruction
  <2>2. \A e \in App!Opens \cap UpTo(built') :
            e \in options \cup {"logger", "outbound"} => e \in opened'
    BY <1>1, <1>2, <1>3
       DEF AppInv, OpenFromConstruction, App!Active, App!Optional
  <2>3. QED
    BY <1>1, <2>1, <2>2 DEF OpenFromConstruction
<1>8. WorkersStarted' /\ StopsInOrder'
  BY <1>1 DEF AppInv, WorkersStarted, StopsInOrder, HooksFollowPhase
<1>9. QED
  BY <1>5, <1>6, <1>7, <1>8 DEF AppInv

(* The steps of fx between the hooks, and of the parts at work.            *)
LEMMA PhaseInv ==
    ASSUME AppInv,
           \/ App!ConstructFails \/ App!Constructed \/ App!StartFails \/ App!Started \/ App!Signal
           \/ App!TimesOut \/ App!Exit
    PROVE  AppInv'
<1>1. UNCHANGED <<options, built, started, opened, listening, working, migrated>>
  BY DEF App!ConstructFails, App!Constructed, App!StartFails, App!Started, App!Signal,
         App!TimesOut, App!Exit
<1>2. /\ phase' \in {"starting", "running", "stopping", "exited"}
      /\ why' \in {why, "construction", "start", "signal", "timeout"}
  BY DEF App!ConstructFails, App!Constructed, App!StartFails, App!Started, App!Signal,
         App!TimesOut, App!Exit
<1>3. App!LifecycleTypeOK'
  BY <1>1, <1>2 DEF AppInv, App!LifecycleTypeOK
<1>4. HooksFollowPhase'
  BY <1>1 DEF App!ConstructFails, App!Constructed, App!StartFails, App!Started, App!Signal,
         App!TimesOut, App!Exit, AppInv, HooksFollowPhase
<1>5. OpenFromConstruction'
  BY <1>1 DEF App!ConstructFails, App!Constructed, App!StartFails, App!Started, App!Signal,
         App!TimesOut, App!Exit, AppInv, OpenFromConstruction
<1>6. WorkersStarted'
  BY <1>1 DEF AppInv, WorkersStarted
<1>7. StopsInOrder'
  <2>1. CASE App!ConstructFails \/ App!Constructed \/ App!Started \/ App!TimesOut
    BY <1>1, <2>1 DEF App!ConstructFails, App!Constructed, App!Started, App!TimesOut,
       AppInv, HooksFollowPhase, StopsInOrder
  <2>2. CASE App!Signal
    BY <1>1, <2>2, Counters
       DEF App!Signal, AppInv, HooksFollowPhase, StopsInOrder, UpTo, App!PartSet
  <2>3. CASE App!Exit
    BY <1>1, <2>3 DEF App!Exit, AppInv, StopsInOrder
  <2>4. CASE App!StartFails
    <3>1. started \in {5, 9, 10}
      <4>1. started \in {0, 1, 2, 3, 4, 5, 6, 7, 8, 9, 10}
        BY <2>4, Counters DEF App!StartFails
      <4>2. App!Order[started + 1] \in {"eventbus", "grpc", "http"}
        BY <2>4 DEF App!StartFails, App!Starter, App!Handlers
      <4>3. QED
        BY <4>1, <4>2, OrderOfParts
    <3>2. App!Opens \subseteq UpTo(started) \cup {"outbound", "verifier"}
      BY <3>1, Counters, PartsUpTo DEF App!Opens
    <3>3. opened \subseteq UpTo(started) \cup {"outbound", "verifier"}
      BY <3>2 DEF AppInv, OpenFromConstruction
    <3>4. why' = "start" /\ phase' = "stopping"
      BY <2>4 DEF App!StartFails
    <3>5. QED
      BY <1>1, <3>3, <3>4 DEF StopsInOrder
  <2>5. QED
    BY <2>1, <2>2, <2>3, <2>4
<1>8. QED
  BY <1>3, <1>4, <1>5, <1>6, <1>7 DEF AppInv

(* Work begins and ends, listeners close.                                  *)
LEMMA WorkInv ==
    ASSUME AppInv, NEW c \in App!PartSet, App!Work(c) \/ App!WorkDone(c) \/ App!StopBegins
    PROVE  AppInv'
<1>1. /\ UNCHANGED <<options, phase, built, started, opened, migrated, why>>
      /\ listening' \subseteq listening
      /\ working' \subseteq working \cup listening
  BY DEF App!Work, App!WorkDone, App!StopBegins
<1>2. WorkersStarted'
  BY <1>1 DEF AppInv, WorkersStarted
<1>3. App!LifecycleTypeOK'
  <2>1. UpTo(started) \subseteq App!PartSet
    BY Counters, PartsUpTo
  <2>2. working' \subseteq App!PartSet
    BY <1>1, <2>1 DEF AppInv, WorkersStarted
  <2>3. QED
    BY <1>1, <2>2 DEF AppInv, App!LifecycleTypeOK
<1>4. HooksFollowPhase' /\ OpenFromConstruction' /\ StopsInOrder'
  BY <1>1 DEF AppInv, HooksFollowPhase, OpenFromConstruction, StopsInOrder
<1>5. QED
  BY <1>2, <1>3, <1>4 DEF AppInv

(* The next start hook: its part is the last one started.                  *)
LEMMA StartHookInv ==
    ASSUME AppInv, App!StartHook
    PROVE  AppInv'
<1> DEFINE c == App!Order[started + 1]
<1>1. /\ phase = "starting" /\ started < 11 /\ built = 11 /\ why = "none" /\ migrated
      /\ started' = started + 1 /\ started + 1 \in 0..11
      /\ UNCHANGED <<options, phase, built, working, migrated, why>>
  BY Counters DEF App!StartHook, AppInv, HooksFollowPhase
<1>2. App!Starter = c
  BY <1>1, Counters DEF App!Starter
<1>3. /\ listening' = listening \cup (IF c \in Workers /\ App!Active(c) THEN {c} ELSE {})
      /\ opened' = opened \cup (IF c = "eventbus" /\ App!Active(c) THEN {c} ELSE {})
      /\ c = "eventbus" /\ App!Active(c) => "database" \in options
  BY <1>2 DEF App!StartHook, App!StoreMissing, Workers
<1>4. UpTo(started + 1) = UpTo(started) \cup {c} /\ UpTo(started + 1) \subseteq App!PartSet
  BY <1>1, Counters, PartsUpTo
<1>5. UpTo(started + 1) \subseteq UpTo(built)
  BY <1>1 DEF UpTo
<1>6. c = "eventbus" /\ App!Active(c) => "eventbus" \in options
  BY DEF App!Active, App!Optional
<1> HIDE DEF c
<1>7. App!LifecycleTypeOK'
  <2>1. started' \in 0..built' /\ built' \in 0..App!Size
    BY <1>1, Counters
  <2>2. listening' \subseteq UpTo(started')
    BY <1>1, <1>3, <1>4, Counters
  <2>3. opened' \subseteq App!PartSet
    BY <1>3, <1>4, Counters
  <2>4. QED
    BY <1>1, <2>1, <2>2, <2>3 DEF AppInv, App!LifecycleTypeOK, UpTo
<1>8. HooksFollowPhase'
  BY <1>1, OrderOfParts DEF AppInv, HooksFollowPhase
<1>9. OpenFromConstruction'
  <2>1. opened' \subseteq App!Opens \cup UpTo(started')
    BY <1>1, <1>3, <1>4 DEF AppInv, OpenFromConstruction
  <2>2. \A e \in App!Opens \cap UpTo(built') :
            e \in options' \cup {"logger", "outbound"} => e \in opened'
    BY <1>1, <1>3 DEF AppInv, OpenFromConstruction
  <2>3. \A e \in (App!Opens \cup {"eventbus"}) \cap UpTo(started') :
            e \in options' \cup {"logger", "outbound"} => e \in opened'
    <3> SUFFICES ASSUME NEW e \in (App!Opens \cup {"eventbus"}) \cap UpTo(started'),
                        e \in options \cup {"logger", "outbound"}
                 PROVE  e \in opened'
      BY <1>1
    <3>1. CASE e \in App!Opens
      BY <1>1, <1>5, <2>2, <3>1
    <3>2. CASE e = "eventbus" /\ e \in UpTo(started)
      <4>1. started > 0
        BY <3>2, Counters DEF UpTo
      <4>2. QED
        BY <1>3, <3>2, <4>1 DEF AppInv, OpenFromConstruction
    <3>3. CASE e = "eventbus" /\ e = c
      BY <1>3, <3>3 DEF App!Active
    <3>4. QED
      BY <1>1, <1>4, <3>1, <3>2, <3>3
  <2>4. QED
    BY <2>1, <2>2, <2>3 DEF OpenFromConstruction
<1>10. WorkersStarted'
  BY <1>1, <1>3, <1>4, <1>6 DEF AppInv, WorkersStarted
<1>11. StopsInOrder'
  BY <1>1 DEF StopsInOrder
<1>12. QED
  BY <1>7, <1>8, <1>9, <1>10, <1>11 DEF AppInv

(* The next stop hook: its part is idle, and closed last of all so far.    *)
LEMMA StopEndsInv ==
    ASSUME AppInv, App!StopEnds
    PROVE  AppInv'
<1> DEFINE c == App!Order[started]
<1>1. /\ phase = "stopping" /\ started > 0 /\ c \notin listening \cup working
      /\ opened' = opened \ {c}
      /\ started' = started - 1 /\ started - 1 \in 0..11 /\ built = 11
      /\ UNCHANGED <<options, phase, built, listening, working, migrated, why>>
  BY Counters DEF App!StopEnds, App!Stopper, AppInv, HooksFollowPhase
<1>2. UpTo(started) = UpTo(started - 1) \cup {c}
  BY <1>1, Counters, PartsUpTo
<1>3. c \notin UpTo(started - 1)
  <2>1. \A i \in 1..11, j \in 1..11 : App!Order[i] = App!Order[j] => i = j
    <3>1. \A i \in 1..11 : i \in {1, 2, 3, 4, 5, 6, 7, 8, 9, 10, 11}
      OBVIOUS
    <3>2. QED
      BY <3>1, OrderOfParts
  <2>2. QED
    BY <1>1, <2>1, Counters DEF UpTo
<1> HIDE DEF c
<1>4. App!LifecycleTypeOK'
  <2>1. started' \in 0..built' /\ built' \in 0..App!Size
    BY <1>1, Counters
  <2>2. listening' \subseteq UpTo(started')
    BY <1>1, <1>2, Counters
  <2>3. QED
    BY <1>1, <2>1, <2>2 DEF AppInv, App!LifecycleTypeOK, UpTo
<1>5. HooksFollowPhase'
  BY <1>1, OrderOfParts DEF AppInv, HooksFollowPhase
<1>6. OpenFromConstruction'
  <2>1. opened' \subseteq App!Opens \cup UpTo(started')
    BY <1>1, <1>2 DEF AppInv, OpenFromConstruction
  <2>2. \A e \in (App!Opens \cup {"eventbus"}) \cap UpTo(started') :
            e \in options' \cup {"logger", "outbound"} => e \in opened'
    BY <1>1, <1>2, <1>3 DEF AppInv, OpenFromConstruction
  <2>3. QED
    BY <1>1, <2>1, <2>2 DEF OpenFromConstruction
<1>7. WorkersStarted'
  BY <1>1, <1>2 DEF AppInv, WorkersStarted
<1>8. StopsInOrder'
  BY <1>1, <1>2 DEF AppInv, StopsInOrder
<1>9. QED
  BY <1>4, <1>5, <1>6, <1>7, <1>8 DEF AppInv

LEMMA AppStep == AppInv /\ [App!Next]_appVars => AppInv'
<1> SUFFICES ASSUME AppInv, [App!Next]_appVars PROVE AppInv'
  OBVIOUS
<1>1. CASE UNCHANGED appVars
  BY <1>1 DEF appVars, AppInv, App!LifecycleTypeOK, HooksFollowPhase, OpenFromConstruction,
     WorkersStarted, StopsInOrder
<1>2. "logger" \in App!PartSet
  BY OrderOfParts DEF App!PartSet
<1>3. CASE App!Next
  BY <1>2, <1>3, ConstructInv, PhaseInv, WorkInv, StartHookInv, StopEndsInv
     DEF App!Next, App!Stopping
<1>4. QED
  BY <1>1, <1>3

(* What a part at work uses comes before it in the order.                  *)
LEMMA UsesAreOpen ==
    ASSUME AppInv, NEW c \in listening \cup working
    PROVE  App!Uses(c) \subseteq opened
<1>1. c \in UpTo(started) /\ c \in {"eventbus", "scheduler", "grpc", "http"}
      /\ (c = "eventbus" => {"eventbus", "database"} \subseteq options)
  BY DEF AppInv, WorkersStarted, Workers, App!Handlers
<1>2. /\ c = "eventbus" => started >= 6
      /\ c = "scheduler" => started >= 8
      /\ c \in {"grpc", "http"} => started >= 10
      /\ started >= 6
  <2>1. "eventbus" \in UpTo(started) => started >= 6
    BY Counters, PartsUpTo
  <2>2. "scheduler" \in UpTo(started) => started >= 8
    BY Counters, PartsUpTo
  <2>3. "grpc" \in UpTo(started) => started >= 10
    BY Counters, PartsUpTo
  <2>4. "http" \in UpTo(started) => started >= 11
    BY Counters, PartsUpTo
  <2>5. QED
    BY <1>1, <2>1, <2>2, <2>3, <2>4, Counters
<1>3. {"logger", "database", "tracing", "redis", "eventbus"} \subseteq UpTo(started)
  BY <1>2, Counters, PartsUpTo
<1>4. started >= 10 => {"outbound", "verifier"} \subseteq UpTo(started)
  BY Counters, PartsUpTo
<1>5. \A e \in (App!Opens \cup {"eventbus"}) \cap UpTo(started) :
          e \in options \cup {"logger", "outbound"} => e \in opened
  BY <1>2, Counters DEF AppInv, OpenFromConstruction
<1>6. App!Uses(c) \subseteq (App!Opens \cup {"eventbus"}) \cap UpTo(started)
      /\ App!Uses(c) \subseteq options \cup {"logger", "outbound"}
  <2>1. CASE c = "eventbus"
    BY <1>1, <1>3, <2>1 DEF App!Uses, App!Handlers, App!Opens
  <2>2. CASE c = "scheduler"
    BY <1>1, <1>3, <2>2 DEF App!Uses, App!Handlers, App!Opens
  <2>3. CASE c \in {"grpc", "http"}
    BY <1>2, <1>3, <1>4, <2>3 DEF App!Uses, App!Handlers, App!Opens
  <2>4. QED
    BY <1>1, <2>1, <2>2, <2>3
<1>7. QED
  BY <1>5, <1>6

(* With any choice of the optional parts the order of the hooks suits what *)
(* is at work, what is served and what is left open (app.go).              *)
THEOREM HooksAreInOrder == App!Spec => []LifecycleSound
<1>1. AppInv => LifecycleSound
  <2> SUFFICES ASSUME AppInv PROVE LifecycleSound
    OBVIOUS
  <2>1. App!BackendsOutliveWork
    BY UsesAreOpen DEF App!BackendsOutliveWork
  <2>2. App!ServesWhenReady
    <3>1. ASSUME NEW c \in listening PROVE migrated
      <4>1. started > 0
        BY <3>1, Counters DEF UpTo
      <4>2. QED
        BY <4>1, OrderOfParts DEF AppInv, HooksFollowPhase
    <3>2. QED
      BY <3>1, UsesAreOpen DEF App!ServesWhenReady
  <2>3. App!ExitReleasesAll
    <3>1. UpTo(0) = {}
      BY OrderOfParts, PartsUpTo
    <3>2. QED
      BY <3>1 DEF App!ExitReleasesAll, AppInv, StopsInOrder
  <2>4. QED
    BY <2>1, <2>2, <2>3 DEF LifecycleSound, App!LifecycleSound
<1>2. QED
  BY <1>1, AppInit, AppStep, PTL DEF App!Spec, appVars, App!vars

-----------------------------------------------------------------------------
(* Migration                                                               *)

(* Who holds which lock, what a process at work relies on, and how far the *)
(* tables are from the row while a migration runs.                         *)
HoldersWork ==
    /\ \A p \in Processes : run[p].pc = "creating" <=> xactLock = p
    /\ \A p \in Processes : run[p].pc \in {"applying", "body"} <=> lock = p

SchemaExists ==
    /\ ~creates => schema
    /\ \A p \in Processes : run[p].pc \in {"migrator", "applying", "body", "done"} => schema

RowLeads ==
    /\ ~dirty => applied = version
    /\ \A p \in Processes :
          /\ run[p].pc = "applying" => ~dirty
          /\ run[p].pc = "body" => dirty /\ applied \in {version - 1, version + 1}

(* A dirty version is that of the migration at work, or of one that failed.*)
DirtyIsLeft == dirty => faults > 0 \/ \E p \in Processes : run[p].pc = "body"

UpGoesToLatest ==
    \A p \in Processes :
        run[p].pc \in {"applying", "body"} /\ run[p].command = "up" => run[p].goal = Latest

MigrationInv ==
    /\ Migrating!MigrationTypeOK
    /\ HoldersWork /\ SchemaExists /\ RowLeads /\ DirtyIsLeft /\ UpGoesToLatest
    /\ Migrating!NoSpuriousFailure

LEMMA IdleIsRun == Migrating!Idle \in Migrating!Run /\ Migrating!Idle.cause = "none"
BY MigratingAssumption
   DEF Migrating!MigrationAssumption, Migrating!Idle, Migrating!Run, Migrating!Commands

LEMMA MigrationInit == Migrating!Init => MigrationInv
<1> SUFFICES ASSUME Migrating!Init PROVE MigrationInv
  OBVIOUS
<1>2. \A p \in Processes : run[p] = Migrating!Idle
  BY DEF Migrating!Init
<1>3. Migrating!MigrationTypeOK
  <2>1. creates \in BOOLEAN /\ schema \in BOOLEAN /\ dirty \in BOOLEAN
    BY Zenon DEF Migrating!Init
  <2>2. version \in 0..Latest /\ applied \in 0..Latest /\ faults \in 0..MaxFaults
    BY MigratingAssumption DEF Migrating!MigrationAssumption, Migrating!Init
  <2>3. run \in [Processes -> Migrating!Run]
    BY IdleIsRun DEF Migrating!Init
  <2>4. QED
    BY <2>1, <2>2, <2>3 DEF Migrating!Init, Migrating!MigrationTypeOK
<1>4. HoldersWork /\ SchemaExists /\ RowLeads /\ DirtyIsLeft /\ UpGoesToLatest
      /\ Migrating!NoSpuriousFailure
  BY <1>2, MigratingAssumption DEF Migrating!MigrationAssumption, Migrating!Init, Migrating!Idle,
     HoldersWork, SchemaExists, RowLeads, DirtyIsLeft, UpGoesToLatest,
     Migrating!NoSpuriousFailure, Migrating!FailsFor
<1>5. QED
  BY <1>3, <1>4 DEF MigrationInv

(* What a step of p makes of its record: the other processes keep theirs.  *)
LEMMA RunStep ==
    ASSUME MigrationInv, NEW p \in Processes, NEW r \in Migrating!Run, run' = [run EXCEPT ![p] = r]
    PROVE  /\ run' \in [Processes -> Migrating!Run]
           /\ run'[p] = r
           /\ \A q \in Processes : q # p => run'[q] = run[q]
BY DEF MigrationInv, Migrating!MigrationTypeOK

(* A process that begins anew holds no lock.                               *)
LEMMA BeginInv ==
    ASSUME MigrationInv, NEW p \in Processes, NEW c \in Migrating!Commands, Migrating!Begin(p, c)
    PROVE  MigrationInv'
<1> DEFINE pc == IF creates THEN "schema" ELSE "migrator"
           r == [Migrating!Idle EXCEPT !.pc = pc, !.command = c]
<1>0. pc \in {"schema", "migrator"}
  OBVIOUS
<1> HIDE DEF pc
<1>1. r \in Migrating!Run /\ r.pc = pc /\ r.cause = "none"
  BY <1>0, IdleIsRun DEF Migrating!Run
<1>2. run' = [run EXCEPT ![p] = r]
  BY DEF Migrating!Begin, pc
<1> HIDE DEF r
<1>3. /\ run' \in [Processes -> Migrating!Run] /\ run'[p] = r
      /\ \A q \in Processes : q # p => run'[q] = run[q]
  BY <1>1, <1>2, RunStep
<1>4. /\ run[p].pc \notin {"creating", "applying", "body"}
      /\ UNCHANGED <<creates, schema, xactLock, lock, version, dirty, applied, faults>>
  BY DEF Migrating!Begin, Migrating!Tables
<1>5. Migrating!MigrationTypeOK'
  BY <1>3, <1>4 DEF MigrationInv, Migrating!MigrationTypeOK
<1>6. HoldersWork' /\ SchemaExists'
  BY <1>0, <1>1, <1>3, <1>4 DEF MigrationInv, HoldersWork, SchemaExists, pc
<1>7. RowLeads' /\ DirtyIsLeft' /\ UpGoesToLatest' /\ Migrating!NoSpuriousFailure'
  BY <1>0, <1>1, <1>3, <1>4 DEF MigrationInv, RowLeads, DirtyIsLeft, UpGoesToLatest,
     Migrating!NoSpuriousFailure, Migrating!FailsFor
<1>8. QED
  BY <1>5, <1>6, <1>7 DEF MigrationInv

Places == {"idle", "schema", "creating", "migrator", "applying", "body", "done", "failed"}

(* Steps that only change how far p is and perhaps why it fails.           *)
LEMMA GoesFields ==
    ASSUME MigrationInv, NEW p \in Processes
    PROVE  /\ \A pc \in Places :
                 Migrating!Goes(p, pc) =>
                    /\ run' \in [Processes -> Migrating!Run]
                    /\ run'[p].pc = pc /\ run'[p].command = run[p].command
                    /\ run'[p].goal = run[p].goal /\ run'[p].cause = run[p].cause
                    /\ \A q \in Processes : q # p => run'[q] = run[q]
           /\ \A cause \in {"none", "fault", "dirty", "limit", "lock", "race"} :
                 Migrating!Fails(p, cause) =>
                    /\ run' \in [Processes -> Migrating!Run]
                    /\ run'[p].pc = "failed" /\ run'[p].cause = cause
                    /\ run'[p].command = run[p].command
                    /\ \A q \in Processes : q # p => run'[q] = run[q]
           /\ \A goal \in 0..Latest :
                 Migrating!Locked(p, goal) =>
                    /\ run' \in [Processes -> Migrating!Run]
                    /\ run'[p].pc = "applying" /\ run'[p].command = run[p].command
                    /\ run'[p].goal = goal /\ run'[p].cause = run[p].cause
                    /\ \A q \in Processes : q # p => run'[q] = run[q]
<1>1. run \in [Processes -> Migrating!Run] /\ run[p] \in Migrating!Run
  BY DEF MigrationInv, Migrating!MigrationTypeOK
<1>2. ASSUME NEW pc \in Places,
             Migrating!Goes(p, pc)
      PROVE  /\ run' \in [Processes -> Migrating!Run]
             /\ run'[p].pc = pc /\ run'[p].command = run[p].command
             /\ run'[p].goal = run[p].goal /\ run'[p].cause = run[p].cause
             /\ \A q \in Processes : q # p => run'[q] = run[q]
  BY <1>1, <1>2 DEF Migrating!Goes, Migrating!Run, Places
<1>3. ASSUME NEW cause \in {"none", "fault", "dirty", "limit", "lock", "race"},
             Migrating!Fails(p, cause)
      PROVE  /\ run' \in [Processes -> Migrating!Run]
             /\ run'[p].pc = "failed" /\ run'[p].cause = cause
             /\ run'[p].command = run[p].command
             /\ \A q \in Processes : q # p => run'[q] = run[q]
  BY <1>1, <1>3 DEF Migrating!Fails, Migrating!Run
<1>4. ASSUME NEW goal \in 0..Latest, Migrating!Locked(p, goal)
      PROVE  /\ run' \in [Processes -> Migrating!Run]
             /\ run'[p].pc = "applying" /\ run'[p].command = run[p].command
             /\ run'[p].goal = goal /\ run'[p].cause = run[p].cause
             /\ \A q \in Processes : q # p => run'[q] = run[q]
  BY <1>1, <1>4 DEF Migrating!Locked, Migrating!Run
<1>5. QED
  BY <1>2, <1>3, <1>4

(* Creating the schema: the lock makes sure that nobody races.             *)
LEMMA SchemaInv ==
    ASSUME MigrationInv, NEW p \in Processes, Migrating!LockSchema(p) \/ Migrating!CreateSchema(p)
    PROVE  MigrationInv'
<1>1. CASE Migrating!LockSchema(p)
  <2>1. /\ run' \in [Processes -> Migrating!Run]
        /\ run'[p].pc = "creating" /\ run'[p].cause = run[p].cause
        /\ run'[p].command = run[p].command
        /\ \A q \in Processes : q # p => run'[q] = run[q]
    BY <1>1, GoesFields DEF Migrating!LockSchema, Places
  <2>2. /\ run[p].pc = "schema" /\ xactLock = None /\ xactLock' = p
        /\ UNCHANGED <<creates, schema, lock, version, dirty, applied, faults>>
    BY <1>1 DEF Migrating!LockSchema, Migrating!Tables
  <2>3. Migrating!MigrationTypeOK'
    BY <2>1, <2>2 DEF MigrationInv, Migrating!MigrationTypeOK
  <2>4. HoldersWork' /\ SchemaExists'
    BY <2>1, <2>2, MigratingAssumption
       DEF Migrating!MigrationAssumption, MigrationInv, HoldersWork, SchemaExists
  <2>5. RowLeads' /\ DirtyIsLeft' /\ UpGoesToLatest' /\ Migrating!NoSpuriousFailure'
    BY <2>1, <2>2 DEF MigrationInv, RowLeads, DirtyIsLeft, UpGoesToLatest,
       Migrating!NoSpuriousFailure, Migrating!FailsFor
  <2>6. QED
    BY <2>3, <2>4, <2>5 DEF MigrationInv
<1>2. CASE Migrating!CreateSchema(p)
  <2>1. ~Migrating!Racing(p)
    BY <1>2 DEF Migrating!CreateSchema, Migrating!Racing, MigrationInv, HoldersWork
  <2>2. /\ run[p].pc = "creating" /\ xactLock' = None /\ schema' = TRUE
        /\ Migrating!Goes(p, "migrator")
        /\ UNCHANGED <<creates, lock, version, dirty, applied, faults>>
    BY <1>2, <2>1 DEF Migrating!CreateSchema, Migrating!Tables
  <2>3. /\ run' \in [Processes -> Migrating!Run]
        /\ run'[p].pc = "migrator" /\ run'[p].cause = run[p].cause
        /\ run'[p].command = run[p].command
        /\ \A q \in Processes : q # p => run'[q] = run[q]
    BY <2>2, GoesFields DEF Places
  <2>4. Migrating!MigrationTypeOK'
    BY <2>2, <2>3 DEF MigrationInv, Migrating!MigrationTypeOK
  <2>5. HoldersWork' /\ SchemaExists'
    BY <2>2, <2>3, MigratingAssumption
       DEF Migrating!MigrationAssumption, MigrationInv, HoldersWork, SchemaExists
  <2>6. RowLeads' /\ DirtyIsLeft' /\ UpGoesToLatest' /\ Migrating!NoSpuriousFailure'
    BY <2>2, <2>3 DEF MigrationInv, RowLeads, DirtyIsLeft, UpGoesToLatest,
       Migrating!NoSpuriousFailure, Migrating!FailsFor
  <2>7. QED
    BY <2>4, <2>5, <2>6 DEF MigrationInv
<1>3. QED
  BY <1>1, <1>2

(* A process that fails, for a cause it may fail for, and holds no lock.   *)
LEMMA FailsInv ==
    ASSUME MigrationInv, NEW p \in Processes, NEW cause \in {"fault", "dirty", "limit", "lock"},
           Migrating!Fails(p, cause),
           xactLock' = IF xactLock = p THEN None ELSE xactLock,
           lock' = IF lock = p THEN None ELSE lock,
           faults' \in 0..MaxFaults, faults' >= faults,
           run[p].pc = "body" => faults' > 0,
           cause = "dirty" => faults > 0,
           cause = "limit" => run[p].command \in {"step", "back"},
           UNCHANGED <<creates, schema, version, dirty, applied>>
    PROVE  MigrationInv'
<1>1. /\ run' \in [Processes -> Migrating!Run]
      /\ run'[p].pc = "failed" /\ run'[p].cause = cause
      /\ run'[p].command = run[p].command
      /\ \A q \in Processes : q # p => run'[q] = run[q]
  BY GoesFields DEF Places
<1>2. Migrating!MigrationTypeOK'
  BY <1>1 DEF MigrationInv, Migrating!MigrationTypeOK
<1>3. HoldersWork' /\ SchemaExists'
  BY <1>1, MigratingAssumption
     DEF Migrating!MigrationAssumption, MigrationInv, HoldersWork, SchemaExists
<1>4. RowLeads' /\ UpGoesToLatest'
  BY <1>1 DEF MigrationInv, RowLeads, UpGoesToLatest
<1>5. faults > 0 => faults' > 0
  BY MigratingAssumption DEF Migrating!MigrationAssumption, MigrationInv, Migrating!MigrationTypeOK
<1>6. DirtyIsLeft'
  BY <1>1, <1>5 DEF MigrationInv, DirtyIsLeft
<1>7. Migrating!FailsFor(p)'
  BY <1>1, <1>5 DEF Migrating!FailsFor
<1>8. Migrating!NoSpuriousFailure'
  BY <1>1, <1>5, <1>7 DEF MigrationInv, Migrating!NoSpuriousFailure, Migrating!FailsFor
<1>9. QED
  BY <1>2, <1>3, <1>4, <1>6, <1>8 DEF MigrationInv

(* Refusals, the lock's timeout, failures of statements and crashes.       *)
LEMMA FailureInv ==
    ASSUME MigrationInv, NEW p \in Processes,
           \/ Migrating!LockTimesOut(p) \/ Migrating!BodyFails(p) \/ Migrating!Dies(p)
           \/ Migrating!Lock(p) /\ \E cause \in {"dirty", "limit"} : Migrating!Refuses(p, cause)
    PROVE  MigrationInv'
<1>1. /\ xactLock = p <=> run[p].pc = "creating"
      /\ lock = p <=> run[p].pc \in {"applying", "body"}
      /\ faults \in 0..MaxFaults /\ MaxFaults \in Nat
  BY MigratingAssumption
     DEF Migrating!MigrationAssumption, MigrationInv, HoldersWork, Migrating!MigrationTypeOK
<1>2. CASE Migrating!LockTimesOut(p)
  BY <1>1, <1>2, FailsInv DEF Migrating!LockTimesOut, Migrating!Tables
<1>3. CASE Migrating!BodyFails(p)
  BY <1>1, <1>3, FailsInv DEF Migrating!BodyFails, Migrating!Tables, Migrating!Fault
<1>4. CASE Migrating!Dies(p)
  BY <1>1, <1>4, FailsInv DEF Migrating!Dies, Migrating!Tables, Migrating!Fault
<1>5. CASE Migrating!Lock(p) /\ \E cause \in {"dirty", "limit"} : Migrating!Refuses(p, cause)
  <2>1. /\ run[p].pc = "migrator" /\ lock = None /\ UNCHANGED <<lock, xactLock, faults>>
        /\ UNCHANGED <<creates, schema, version, dirty, applied>>
        /\ \/ dirty /\ Migrating!Fails(p, "dirty")
           \/ Migrating!GoalOf(run[p].command) \notin 0..Latest /\ Migrating!Fails(p, "limit")
    <3> DEFINE goal == Migrating!GoalOf(run[p].command)
    <3>1. /\ run[p].pc = "migrator" /\ lock = None
          /\ UNCHANGED <<creates, schema, xactLock, version, dirty, applied, faults>>
          /\ lock' = lock /\ run'[p].pc = "failed"
      <4>1. PICK cause \in {"dirty", "limit"} : Migrating!Fails(p, cause) /\ lock' = lock
        BY <1>5 DEF Migrating!Refuses
      <4>2. run'[p].pc = "failed"
        BY <4>1, GoesFields
      <4>3. QED
        BY <1>5, <4>1, <4>2 DEF Migrating!Lock, Migrating!Tables
    <3>2. CASE dirty
      BY <1>5, <3>1, <3>2 DEF Migrating!Lock, Migrating!Refuses
    <3>3. CASE ~dirty /\ goal \in 0..Latest
      <4>1. Migrating!Locked(p, goal)
        BY <1>5, <3>3 DEF Migrating!Lock
      <4>2. run'[p].pc = "applying"
        BY <3>3, <4>1, GoesFields
      <4>3. QED
        BY <3>1, <4>2
    <3>4. CASE ~dirty /\ goal \notin 0..Latest
      BY <1>5, <3>1, <3>4 DEF Migrating!Lock, Migrating!Refuses
    <3>5. QED
      BY <3>2, <3>3, <3>4
  <2>2. dirty => faults > 0
    BY <2>1, MigratingAssumption DEF Migrating!MigrationAssumption, MigrationInv, DirtyIsLeft, HoldersWork
  <2>3. Migrating!GoalOf(run[p].command) \notin 0..Latest => run[p].command \in {"step", "back"}
    BY MigratingAssumption DEF Migrating!MigrationAssumption, MigrationInv,
       Migrating!MigrationTypeOK, Migrating!Run, Migrating!Commands, Migrating!GoalOf
  <2>4. QED
    BY <1>1, <2>1, <2>2, <2>3, FailsInv
<1>6. QED
  BY <1>2, <1>3, <1>4, <1>5

(* Under the lock of golang-migrate: the others are not at work.           *)
LEMMA MigrateInv ==
    ASSUME MigrationInv, NEW p \in Processes,
           Migrating!Lock(p) \/ Migrating!Mark(p) \/ Migrating!Apply(p) \/ Migrating!Finish(p)
    PROVE  MigrationInv'
<1>0. /\ run[p] \in Migrating!Run /\ version \in 0..Latest /\ applied \in 0..Latest
      /\ run[p].goal \in 0..Latest /\ Latest \in Nat \ {0}
  BY MigratingAssumption
     DEF Migrating!MigrationAssumption, MigrationInv, Migrating!MigrationTypeOK, Migrating!Run
<1>1. ASSUME Migrating!Lock(p) PROVE MigrationInv'
  <2> DEFINE goal == Migrating!GoalOf(run[p].command)
  <2>1. CASE dirty
    BY <1>1, <2>1, FailureInv DEF Migrating!Lock
  <2>2. CASE ~dirty /\ goal \notin 0..Latest
    BY <1>1, <2>2, FailureInv DEF Migrating!Lock
  <2>3. CASE ~dirty /\ goal \in 0..Latest
    <3>1. /\ run[p].pc = "migrator" /\ lock = None /\ lock' = p /\ Migrating!Locked(p, goal)
          /\ UNCHANGED <<creates, schema, xactLock, version, dirty, applied, faults>>
      BY <1>1, <2>3 DEF Migrating!Lock, Migrating!Locked, Migrating!Tables
    <3>2. run[p].command = "up" => goal = Latest
      BY DEF Migrating!GoalOf
    <3> HIDE DEF goal
    <3>3. /\ run' \in [Processes -> Migrating!Run]
          /\ run'[p].pc = "applying" /\ run'[p].command = run[p].command
          /\ run'[p].goal = goal /\ run'[p].cause = run[p].cause
          /\ \A q \in Processes : q # p => run'[q] = run[q]
      BY <2>3, <3>1, GoesFields DEF Places
    <3>4. Migrating!MigrationTypeOK'
      BY <3>1, <3>3 DEF MigrationInv, Migrating!MigrationTypeOK
    <3>5. HoldersWork' /\ SchemaExists'
      BY <3>1, <3>3, MigratingAssumption
         DEF Migrating!MigrationAssumption, MigrationInv, HoldersWork, SchemaExists
    <3>6. RowLeads' /\ DirtyIsLeft' /\ UpGoesToLatest' /\ Migrating!NoSpuriousFailure'
      BY <2>3, <3>1, <3>2, <3>3
         DEF MigrationInv, RowLeads, DirtyIsLeft, UpGoesToLatest,
             Migrating!NoSpuriousFailure, Migrating!FailsFor
    <3>7. QED
      BY <3>4, <3>5, <3>6 DEF MigrationInv
  <2>4. QED
    BY <2>1, <2>2, <2>3
<1>2. CASE Migrating!Mark(p)
  <2>1. /\ run[p].pc = "applying" /\ run[p].goal # version /\ dirty' = TRUE
        /\ Migrating!Goes(p, "body")
        /\ UNCHANGED <<creates, schema, xactLock, lock, applied, faults>>
    BY <1>2 DEF Migrating!Mark
  <2>2. version' \in 0..Latest /\ applied \in {version' - 1, version' + 1}
    <3>1. ~dirty /\ applied = version
      BY <2>1 DEF MigrationInv, RowLeads
    <3>2. version' = version + (IF run[p].goal > version THEN 1 ELSE -1)
      BY <1>2 DEF Migrating!Mark, Migrating!Step
    <3>3. QED
      BY <1>0, <2>1, <3>1, <3>2
  <2>3. /\ run' \in [Processes -> Migrating!Run]
        /\ run'[p].pc = "body" /\ run'[p].command = run[p].command
        /\ run'[p].goal = run[p].goal /\ run'[p].cause = run[p].cause
        /\ \A q \in Processes : q # p => run'[q] = run[q]
    BY <2>1, GoesFields DEF Places
  <2>4. \A q \in Processes : q # p => run[q].pc \notin {"applying", "body"}
    BY <2>1 DEF MigrationInv, HoldersWork
  <2>5. Migrating!MigrationTypeOK'
    BY <2>1, <2>2, <2>3 DEF MigrationInv, Migrating!MigrationTypeOK
  <2>6. HoldersWork' /\ SchemaExists'
    BY <2>1, <2>3 DEF MigrationInv, HoldersWork, SchemaExists
  <2>7. RowLeads' /\ DirtyIsLeft' /\ UpGoesToLatest' /\ Migrating!NoSpuriousFailure'
    BY <2>1, <2>2, <2>3, <2>4
       DEF MigrationInv, RowLeads, DirtyIsLeft, UpGoesToLatest,
           Migrating!NoSpuriousFailure, Migrating!FailsFor
  <2>8. QED
    BY <2>5, <2>6, <2>7 DEF MigrationInv
<1>3. CASE Migrating!Apply(p)
  <2>1. /\ run[p].pc = "body" /\ dirty' = FALSE
        /\ Migrating!Goes(p, "applying")
        /\ UNCHANGED <<creates, schema, xactLock, lock, version, faults>>
    BY <1>3 DEF Migrating!Apply
  <2>2. applied' = version
    <3>1. applied \in {version - 1, version + 1}
      BY <2>1 DEF MigrationInv, RowLeads
    <3>2. applied' = IF version > applied THEN applied + 1 ELSE applied - 1
      BY <1>3 DEF Migrating!Apply
    <3>3. QED
      BY <1>0, <3>1, <3>2
  <2>3. /\ run' \in [Processes -> Migrating!Run]
        /\ run'[p].pc = "applying" /\ run'[p].command = run[p].command
        /\ run'[p].goal = run[p].goal /\ run'[p].cause = run[p].cause
        /\ \A q \in Processes : q # p => run'[q] = run[q]
    BY <2>1, GoesFields DEF Places
  <2>4. \A q \in Processes : q # p => run[q].pc \notin {"applying", "body"}
    BY <2>1 DEF MigrationInv, HoldersWork
  <2>5. Migrating!MigrationTypeOK'
    BY <2>1, <2>2, <2>3 DEF MigrationInv, Migrating!MigrationTypeOK
  <2>6. HoldersWork' /\ SchemaExists'
    BY <2>1, <2>3 DEF MigrationInv, HoldersWork, SchemaExists
  <2>7. RowLeads' /\ DirtyIsLeft' /\ UpGoesToLatest' /\ Migrating!NoSpuriousFailure'
    BY <2>1, <2>2, <2>3, <2>4
       DEF MigrationInv, RowLeads, DirtyIsLeft, UpGoesToLatest,
           Migrating!NoSpuriousFailure, Migrating!FailsFor
  <2>8. QED
    BY <2>5, <2>6, <2>7 DEF MigrationInv
<1>4. CASE Migrating!Finish(p)
  <2>1. /\ run[p].pc = "applying" /\ lock' = None
        /\ Migrating!Goes(p, "done")
        /\ UNCHANGED <<creates, schema, xactLock, version, dirty, applied, faults>>
    BY <1>4 DEF Migrating!Finish, Migrating!Tables
  <2>2. /\ run' \in [Processes -> Migrating!Run]
        /\ run'[p].pc = "done" /\ run'[p].cause = run[p].cause
        /\ run'[p].command = run[p].command
        /\ \A q \in Processes : q # p => run'[q] = run[q]
    BY <2>1, GoesFields DEF Places
  <2>3. Migrating!MigrationTypeOK'
    BY <2>1, <2>2 DEF MigrationInv, Migrating!MigrationTypeOK
  <2>4. HoldersWork' /\ SchemaExists'
    BY <2>1, <2>2, MigratingAssumption
       DEF Migrating!MigrationAssumption, MigrationInv, HoldersWork, SchemaExists
  <2>5. RowLeads' /\ DirtyIsLeft' /\ UpGoesToLatest' /\ Migrating!NoSpuriousFailure'
    BY <2>1, <2>2 DEF MigrationInv, RowLeads, DirtyIsLeft, UpGoesToLatest,
       Migrating!NoSpuriousFailure, Migrating!FailsFor
  <2>6. QED
    BY <2>3, <2>4, <2>5 DEF MigrationInv
<1>5. QED
  BY <1>1, <1>2, <1>3, <1>4

LEMMA MigrationStep == MigrationInv /\ [Migrating!Next]_migrationVars => MigrationInv'
<1> SUFFICES ASSUME MigrationInv, [Migrating!Next]_migrationVars PROVE MigrationInv'
  OBVIOUS
<1>1. CASE UNCHANGED migrationVars
  BY <1>1 DEF migrationVars, MigrationInv, Migrating!MigrationTypeOK, HoldersWork, SchemaExists,
     RowLeads, DirtyIsLeft, UpGoesToLatest,
     Migrating!NoSpuriousFailure, Migrating!FailsFor
<1>2. CASE Migrating!Next
  BY <1>2, BeginInv, SchemaInv, MigrateInv, FailureInv DEF Migrating!Next, Migrating!Work
<1>3. QED
  BY <1>1, <1>2

(* Any number of processes that migrate, fail and die keep the row and the *)
(* tables in agreement; a run fails only by a fault, the lock's timeout, a *)
(* dirty version that a fault has left, or a single step with no file (Run)*)
THEOREM MigrationsAgree == Migrating!Spec => []MigrationSound
<1>1. MigrationInv => MigrationSound
  BY DEF MigrationInv, RowLeads, MigrationSound, Migrating!MigrationSound,
     Migrating!VersionTellsTables
<1>2. QED
  BY <1>1, MigrationInit, MigrationStep, PTL DEF Migrating!Spec, migrationVars, Migrating!vars

(* A migration up succeeds only on the last version, whatever the other    *)
(* processes do meanwhile (runStartupMigration, cmd/migrate).              *)
THEOREM UpIsComplete == Migrating!Spec => UpReachesLatest
<1>1. MigrationInv /\ [Migrating!Next]_migrationVars =>
        [\A p \in Processes : Migrating!SucceedsAtLatest(p)]_migrationVars
  <2> SUFFICES ASSUME MigrationInv, Migrating!Next, NEW p \in Processes,
                      run[p].pc # "done", run'[p].pc = "done", run[p].command = "up"
               PROVE  schema' /\ applied' = Latest /\ ~dirty'
    BY DEF Migrating!SucceedsAtLatest
  <2>1. Migrating!Finish(p)
    <3>1. PICK q \in Processes :
              \/ \E c \in Migrating!Commands : Migrating!Begin(q, c)
              \/ Migrating!Work(q) \/ Migrating!BodyFails(q) \/ Migrating!Dies(q)
      BY DEF Migrating!Next
    <3>2. ~ \/ \E pc \in {"creating", "migrator", "applying", "body"} : Migrating!Goes(q, pc)
            \/ \E cause \in {"fault", "dirty", "limit", "lock", "race"} : Migrating!Fails(q, cause)
            \/ \E goal \in 0..Latest : Migrating!Locked(q, goal)
      BY GoesFields DEF Places
    <3>3. CASE Migrating!Finish(q)
      BY <3>3, GoesFields DEF Migrating!Finish, Places
    <3>4. ASSUME NEW c \in Migrating!Commands, Migrating!Begin(q, c) PROVE FALSE
      <4>1. run[p] \in Migrating!Run /\ run \in [Processes -> Migrating!Run]
        BY DEF MigrationInv, Migrating!MigrationTypeOK
      <4>2. QED
        BY <3>4, <4>1, IdleIsRun DEF Migrating!Begin, Migrating!Run
    <3>5. ~Migrating!LockSchema(q) /\ ~Migrating!CreateSchema(q)
      BY <3>2 DEF Migrating!LockSchema, Migrating!CreateSchema
    <3>6. ~Migrating!Lock(q)
      BY <3>2 DEF Migrating!Lock, Migrating!Refuses
    <3>7. ~Migrating!Mark(q) /\ ~Migrating!Apply(q)
      BY <3>2 DEF Migrating!Mark, Migrating!Apply, Places
    <3>8. ~Migrating!LockTimesOut(q) /\ ~Migrating!BodyFails(q) /\ ~Migrating!Dies(q)
      BY <3>2 DEF Migrating!LockTimesOut, Migrating!BodyFails, Migrating!Dies
    <3>9. QED
      BY <3>1, <3>3, <3>4, <3>5, <3>6, <3>7, <3>8 DEF Migrating!Work
  <2>2. /\ run[p].pc = "applying" /\ run[p].goal = version
        /\ UNCHANGED <<schema, version, dirty, applied>>
    BY <2>1 DEF Migrating!Finish, Migrating!Tables
  <2>3. QED
    BY <2>2 DEF MigrationInv, SchemaExists, RowLeads, UpGoesToLatest
<1>2. QED
  BY <1>1, MigrationInit, MigrationStep, PTL
     DEF Migrating!Spec, migrationVars, Migrating!vars, UpReachesLatest

-----------------------------------------------------------------------------
(* Configuration                                                           *)

(* The profile of highest rank is the one in force, and what goes on from  *)
(* Validate is valid under it.                                             *)
ConfigInv ==
    /\ Config!ConfigTypeOK
    /\ step # "start" =>
          profile = Config!FirstOf(flag, Config!FirstOf(envVars.env,
                                       Config!FirstOf(base.env, "development")))
    /\ step \in {"accepted", "serving", "refused", "storeMissing"} => Config!Valid
    /\ step = "refused" => Config!ParsersRefuse

LEMMA ConfigInit == Config!Init => ConfigInv
BY DEF Config!Init, ConfigInv, Config!ConfigTypeOK, Config!Defaults, Config!Settings

(* A layer over settings that are typed.                                   *)
LEMMA OverTyped ==
    ASSUME NEW l \in BaseLayers \cup ProfileLayers \cup EnvLayers \cup {Config!NoFile},
           NEW f \in [Config!Settings -> BOOLEAN]
    PROVE  Config!Over(l, f) \in [Config!Settings -> BOOLEAN]
BY ConfigAssumption DEF Config!LayerAssumption, Config!Over, Config!NoFile

LEMMA ConfigStep == ConfigInv /\ [Config!Next]_configVars => ConfigInv'
<1> SUFFICES ASSUME ConfigInv, [Config!Next]_configVars PROVE ConfigInv'
  OBVIOUS
<1>1. CASE UNCHANGED configVars
  BY <1>1 DEF configVars, ConfigInv, Config!ConfigTypeOK, Config!Valid, Config!ValidBackends,
     Config!ValidUpstreams, Config!ValidPolicy, Config!ValidInProduction, Config!Production,
     Config!ValidatedProfile, Config!ParsersRefuse, Config!Parsed
<1>2. CASE Config!ReadConfig
  <2>1. flag \in Config!Profiles \cup {None} /\ base \in BaseLayers /\ envVars \in EnvLayers
    BY DEF ConfigInv, Config!ConfigTypeOK
  <2>2. base.env \in Config!Profiles \cup {None} /\ envVars.env \in Config!Profiles \cup {None}
    BY <2>1, ConfigAssumption DEF Config!LayerAssumption
  <2>3. profile' \in Config!Profiles
    BY <1>2, <2>1, <2>2 DEF Config!ReadConfig, Config!FirstOf, Config!Profiles
  <2>4. QED
    BY <1>2, <2>3 DEF Config!ReadConfig, ConfigInv, Config!ConfigTypeOK
<1>3. ASSUME NEW l \in ProfileLayers \cup {Config!NoFile}, Config!MergeProfile(l)
      PROVE  ConfigInv'
  <2>1. cfg' \in [Config!Settings -> BOOLEAN]
    <3>1. Config!Defaults \in [Config!Settings -> BOOLEAN]
      BY DEF Config!Defaults
    <3>2. QED
      BY <1>3, <3>1, OverTyped DEF Config!MergeProfile, ConfigInv, Config!ConfigTypeOK
  <2>2. QED
    BY <1>3, <2>1 DEF Config!MergeProfile, ConfigInv, Config!ConfigTypeOK
<1>4. CASE Config!Validate
  <2>1. Config!Valid' <=> Config!Valid
    BY <1>4 DEF Config!Validate, Config!Valid, Config!ValidBackends,
     Config!ValidUpstreams, Config!ValidPolicy, Config!ValidInProduction, Config!Production,
     Config!ValidatedProfile
  <2>2. QED
    BY <1>4, <2>1 DEF Config!Validate, ConfigInv, Config!ConfigTypeOK
<1>5. CASE Config!Build
  <2>1. Config!Valid' <=> Config!Valid
    BY <1>5 DEF Config!Build, Config!Valid, Config!ValidBackends,
     Config!ValidUpstreams, Config!ValidPolicy, Config!ValidInProduction, Config!Production,
     Config!ValidatedProfile
  <2>2. Config!Valid
    BY <1>5 DEF Config!Build, ConfigInv
  <2>3. ~Config!ClientsRefuse /\ ~Config!VerifierRefuses
    BY <2>2 DEF Config!Valid, Config!ValidPolicy, Config!ValidUpstreams,
       Config!ClientsRefuse, Config!VerifierRefuses
  <2>4. Config!ParsersRefuse' <=> Config!ParsersRefuse
    BY <1>5 DEF Config!Build, Config!ParsersRefuse, Config!Parsed
  <2>5. QED
    BY <1>5, <2>1, <2>2, <2>3, <2>4 DEF Config!Build, ConfigInv, Config!ConfigTypeOK
<1>6. QED
  BY <1>1, <1>2, <1>3, <1>4, <1>5 DEF Config!Next

(* Whatever the files and the environment say: what Validate accepts is    *)
(* guarded, and a constructor refuses it only for a value that Validate    *)
(* leaves to it to parse (Config.Validate).                                *)
THEOREM AcceptedIsGuarded == Config!Spec => []ServingIsGuarded
<1>1. ConfigInv => ServingIsGuarded
  <2>0. ASSUME ConfigInv PROVE Config!RefusedByParsersOnly
    BY <2>0 DEF ConfigInv, Config!RefusedByParsersOnly, Config!Valid, Config!ValidPolicy,
       Config!ValidUpstreams, Config!ClientsRefuse, Config!VerifierRefuses
  <2> SUFFICES ASSUME ConfigInv, step = "serving"
               PROVE  Config!ProductionIsGuarded /\ Config!GuardsHaveBackends
    BY <2>0 DEF ServingIsGuarded, Config!ServingIsGuarded,
       Config!ProductionIsGuarded, Config!GuardsHaveBackends
  <2>1. Config!Valid
    BY DEF ConfigInv
  <2>2. Config!GuardsHaveBackends
    BY <2>1 DEF Config!Valid, Config!ValidBackends, Config!ValidUpstreams,
       Config!GuardsHaveBackends, Config!BackendMissing
  <2>3. Config!ProductionIsGuarded
    BY <2>1 DEF ConfigInv, Config!Valid, Config!ValidUpstreams, Config!ValidPolicy,
       Config!ValidInProduction, Config!Production, Config!ValidatedProfile,
       Config!ProductionIsGuarded
  <2>4. QED
    BY <2>2, <2>3
<1>2. QED
  BY <1>1, ConfigInit, ConfigStep, PTL DEF Config!Spec, configVars, Config!vars

-----------------------------------------------------------------------------
(* All parts                                                               *)

(* The types hold in all parts together (the state of the five packages).  *)
THEOREM ProcessesTyped == ProcessSpec => []ProcessTypes
<1>1. LockInv => SchedulerTypeOK
  BY DEF LockInv
<1>2. Spec => []SchedulerTypeOK
  BY <1>1, LockInit, LockStep, PTL DEF Spec
<1>3. ReadyInv => Ready!ReadinessTypeOK
  BY DEF ReadyInv
<1>4. Ready!Spec => []Ready!ReadinessTypeOK
  BY <1>3, ReadyInit, ReadyStep, PTL DEF Ready!Spec, readyVars, Ready!vars
<1>5. AppInv => App!LifecycleTypeOK
  BY DEF AppInv
<1>6. App!Spec => []App!LifecycleTypeOK
  BY <1>5, AppInit, AppStep, PTL DEF App!Spec, appVars, App!vars
<1>7. MigrationInv => Migrating!MigrationTypeOK
  BY DEF MigrationInv
<1>8. Migrating!Spec => []Migrating!MigrationTypeOK
  BY <1>7, MigrationInit, MigrationStep, PTL DEF Migrating!Spec, migrationVars, Migrating!vars
<1>9. ConfigInv => Config!ConfigTypeOK
  BY DEF ConfigInv
<1>10. Config!Spec => []Config!ConfigTypeOK
  BY <1>9, ConfigInit, ConfigStep, PTL DEF Config!Spec, configVars, Config!vars
<1>11. QED
  BY <1>2, <1>4, <1>6, <1>8, <1>10, PTL DEF ProcessSpec, ProcessTypes
=============================================================================
