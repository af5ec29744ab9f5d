---------------------------- MODULE AppLifecycle ----------------------------
(***************************************************************************)
(* One process of the service from main to its exit (cmd/api/main.go,      *)
(* internal/app/app.go and the fx hooks of every part).  fx is external:   *)
(* it constructs the parts in the order of the invokes, starts their hooks *)
(* in that order and stops them in the reverse one, all under one timeout. *)
(***************************************************************************)
EXTENDS Naturals, Sequences

VARIABLES
    enabled,    \* the optional parts the configuration asks for, never changed
    phase,      \* what fx is doing
    built,      \* how many parts are constructed
    started,    \* how many parts are started and not stopped
    opened,     \* the parts whose connection, file or goroutine is open
    listening,  \* the parts that take on new work
    working,    \* the parts that are at work
    migrated,   \* whether startup migration is over or not wanted
    why         \* history: what the process exits for

vars == <<enabled, phase, built, started, opened, listening, working, migrated, why>>

Optional == {"migration", "database", "tracing", "redis", "eventbus", "scheduler", "verifier", "grpc"}

(* Faulty: the registry is wired after the transports that call through it.*)
OrderOutboundLast ==
    <<"logger", "migration", "database", "tracing", "redis", "eventbus",
      "scheduler", "verifier", "grpc", "http", "outbound">>

(* The order in which constructors append their hooks: a part comes after  *)
(* all it takes as a parameter.  Migration runs while fx constructs.       *)
Order ==
    <<"logger", "migration", "database", "tracing", "redis", "eventbus",
      "outbound", "scheduler", "verifier", "grpc", "http">>

Size == Len(Order)
PartSet == {Order[i] : i \in 1..Size}
Active(c) == c \in enabled \/ c \notin Optional

(* Config.Validate: a startup migration needs the database.  That the      *)
(* event bus does is checked by its start hook.                            *)
ValidOptions(options) == "migration" \in options => "database" \in options

Init ==
    /\ enabled \in {options \in SUBSET Optional : ValidOptions(options)}
    /\ phase = "building" /\ built = 0 /\ started = 0
    /\ opened = {} /\ listening = {} /\ working = {}
    /\ migrated = ("migration" \notin enabled)
    /\ why = "none"

(* What a part at work uses.                                               *)
Handlers == {"grpc", "http"}
Uses(c) ==
    {"logger"} \cup
    (CASE c \in Handlers -> {"outbound"} \cup (enabled \cap {"database", "tracing", "redis", "verifier"})
       [] c = "scheduler" -> enabled \cap {"redis"}
       [] c = "eventbus" -> {"database", "eventbus"}
       [] OTHER -> {})
-----------------------------------------------------------------------------
(* construction                                                            *)

Opens == {"logger", "database", "tracing", "redis", "outbound", "verifier"}

Construct ==
    /\ phase = "building" /\ built < Size
    /\ LET c == Order[built + 1]
       IN  /\ opened' = opened \cup (IF c \in Opens /\ Active(c) THEN {c} ELSE {})
           /\ migrated' = (migrated \/ c = "migration")
    /\ built' = built + 1
    /\ UNCHANGED <<enabled, phase, started, listening, working, why>>

(* main prints the error and exits; no hook has been started, so none is   *)
(* stopped.  The registry closes the clients it has made so far.  A part   *)
(* that is not enabled may fail too: the scheduler parses its zone and the *)
(* gRPC server loads its certificates.                                     *)
ConstructFails ==
    /\ phase = "building" /\ built < Size
    /\ LET c == Order[built + 1] IN Active(c) \/ c \in {"scheduler", "grpc"}
    /\ phase' = "exited" /\ why' = "construction"
    /\ UNCHANGED <<enabled, built, started, opened, listening, working, migrated>>

Constructed ==
    /\ phase = "building" /\ built = Size
    /\ phase' = "starting"
    /\ UNCHANGED <<enabled, built, started, opened, listening, working, migrated, why>>
-----------------------------------------------------------------------------
(* start hooks                                                             *)

Starter == IF started < Size THEN Order[started + 1] ELSE "logger"

StoreMissing == Starter = "eventbus" /\ Active("eventbus") /\ "database" \notin enabled

StartHook ==
    /\ phase = "starting" /\ started < Size /\ ~StoreMissing
    /\ listening' = listening \cup
           (IF Starter \in {"eventbus", "scheduler"} \cup Handlers /\ Active(Starter)
            THEN {Starter} ELSE {})
    /\ opened' = opened \cup (IF Starter = "eventbus" /\ Active(Starter) THEN {Starter} ELSE {})
    /\ started' = started + 1
    /\ UNCHANGED <<enabled, phase, built, working, migrated, why>>

(* Faulty: what has been started stays as it is.                           *)
StartFailsExit ==
    /\ phase = "starting" /\ started < Size
    /\ Starter \in {"eventbus"} \cup Handlers /\ Active(Starter)
    /\ phase' = "exited" /\ why' = "start"
    /\ UNCHANGED <<enabled, built, started, opened, listening, working, migrated>>

(* The bus cannot be reached, a port cannot be listened on: fx stops what  *)
(* it has started, not what it has only constructed.                       *)
StartFails ==
    /\ phase = "starting" /\ started < Size
    /\ Starter \in {"eventbus"} \cup Handlers /\ Active(Starter)
    /\ phase' = "stopping" /\ why' = "start"
    /\ UNCHANGED <<enabled, built, started, opened, listening, working, migrated>>

Started ==
    /\ phase = "starting" /\ started = Size
    /\ phase' = "running"
    /\ UNCHANGED <<enabled, built, started, opened, listening, working, migrated, why>>
-----------------------------------------------------------------------------
(* work, and the signal that ends it                                       *)

Work(c) ==
    /\ phase # "exited" /\ c \in listening \ working
    /\ working' = working \cup {c}
    /\ UNCHANGED <<enabled, phase, built, started, opened, listening, migrated, why>>

WorkDone(c) ==
    /\ phase # "exited" /\ c \in working
    /\ working' = working \ {c}
    /\ UNCHANGED <<enabled, phase, built, started, opened, listening, migrated, why>>

Signal ==
    /\ phase = "running"
    /\ phase' = "stopping" /\ why' = "signal"
    /\ UNCHANGED <<enabled, built, started, opened, listening, working, migrated>>
-----------------------------------------------------------------------------
(* stop hooks: the last part started is stopped first                      *)

Stopper == Order[started]

(* Listeners are closed, the scheduler and the dispatcher are cancelled.   *)
StopBegins ==
    /\ phase = "stopping" /\ started > 0 /\ Stopper \in listening
    /\ listening' = listening \ {Stopper}
    /\ UNCHANGED <<enabled, phase, built, started, opened, working, migrated, why>>

(* Faulty: a hook is over before its part has stopped taking on work.      *)
StopEndsListening ==
    /\ phase = "stopping" /\ started > 0 /\ Stopper \notin working
    /\ opened' = opened \ {Stopper}
    /\ started' = started - 1
    /\ UNCHANGED <<enabled, phase, built, listening, working, migrated, why>>

(* Faulty: a hook does not wait for the work in hand.                      *)
StopEndsBusy ==
    /\ phase = "stopping" /\ started > 0 /\ Stopper \notin listening
    /\ opened' = opened \ {Stopper}
    /\ started' = started - 1
    /\ UNCHANGED <<enabled, phase, built, listening, working, migrated, why>>

(* Shutdown, GracefulStop, runner.Stop() and wg.Wait() wait for the work   *)
(* in hand; the other parts close what they opened.                        *)
StopEnds ==
    /\ phase = "stopping" /\ started > 0 /\ Stopper \notin listening \cup working
    /\ opened' = opened \ {Stopper}
    /\ started' = started - 1
    /\ UNCHANGED <<enabled, phase, built, listening, working, migrated, why>>

(* Faulty: only a process with no work in hand runs out of time.           *)
TimesOutIdle ==
    /\ phase = "stopping" /\ started > 0 /\ working = {}
    /\ phase' = "exited" /\ why' = "timeout"
    /\ UNCHANGED <<enabled, built, started, opened, listening, working, migrated>>

(* The timeout is one for all hooks; those that are left are not run.      *)
TimesOut ==
    /\ phase = "stopping" /\ started > 0
    /\ phase' = "exited" /\ why' = "timeout"
    /\ UNCHANGED <<enabled, built, started, opened, listening, working, migrated>>

Exit ==
    /\ phase = "stopping" /\ started = 0
    /\ phase' = "exited"
    /\ UNCHANGED <<enabled, built, started, opened, listening, working, migrated, why>>

Stopping == StopBegins \/ StopEnds \/ TimesOut \/ Exit

Next ==
    \/ Construct \/ ConstructFails \/ Constructed
    \/ StartHook \/ StartFails \/ Started
    \/ \E c \in PartSet : Work(c) \/ WorkDone(c)
    \/ Signal \/ Stopping

Spec == Init /\ [][Next]_vars

(* fx goes on with the hooks, and its timer fires.                         *)
FairSpec == Spec /\ WF_vars(StopBegins \/ StopEnds \/ Exit) /\ WF_vars(TimesOut)
-----------------------------------------------------------------------------
(* properties                                                              *)

(* The type invariant: only started parts take on work.                    *)
LifecycleTypeOK ==
    /\ enabled \subseteq Optional
    /\ phase \in {"building", "starting", "running", "stopping", "exited"}
    /\ built \in 0..Size /\ started \in 0..built
    /\ opened \subseteq PartSet
    /\ listening \subseteq {Order[i] : i \in 1..started}
    /\ working \subseteq PartSet
    /\ migrated \in BOOLEAN /\ why \in {"none", "construction", "start", "signal", "timeout"}

(* Nothing a handler, the job or the dispatcher uses is closed while it is *)
(* at work, in start, rollback and stop (the hooks of app.go, registry.go, *)
(* scheduler.go and both servers).                                         *)
BackendsOutliveWork ==
    phase # "exited" => \A c \in working : Uses(c) \subseteq opened

(* No request is taken before the schema is migrated and every backend the *)
(* handlers use is open.                                                   *)
ServesWhenReady ==
    \A c \in listening \cap Handlers : migrated /\ Uses(c) \subseteq opened

(* A process that is stopped in time has closed everything; one whose      *)
(* start failed leaves at most the outbound connections and the verifier,  *)
(* constructed but not started when the event bus cannot be reached.       *)
ExitReleasesAll ==
    /\ phase = "exited" /\ why = "signal" => opened = {}
    /\ phase = "exited" /\ why = "start" => opened \subseteq {"outbound", "verifier"}

(* Whatever fails in start, rollback or stop: the order of the hooks is    *)
(* right for what works, for what is served and for what is left open.     *)
LifecycleSound == BackendsOutliveWork /\ ServesWhenReady /\ ExitReleasesAll

(* A process that is told to stop, or whose start failed, exits even if a  *)
(* request never ends.                                                     *)
StoppingExits == phase = "stopping" ~> phase = "exited"
=============================================================================
