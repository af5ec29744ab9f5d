----------------------------- MODULE Readiness ------------------------------
(***************************************************************************)
(* Service.Ready of internal/health/service.go: two goroutines check the   *)
(* database and Redis at the same time and send one result each; the probe *)
(* collects both in the order they come.  It is asked by POST /ready and   *)
(* by the gRPC health service; the backends are external.                  *)
(***************************************************************************)
EXTENDS Naturals, FiniteSets

CONSTANT Probes

Dependencies == {"database", "redis"}

VARIABLES
    enabled,  \* the dependencies that are configured; the others are nil
    up,       \* the dependencies that answer now
    probe     \* the probes being served

vars == <<enabled, up, probe>>

(* check: each goroutine; ready: the conjunction so far; pinged: the       *)
(* dependencies that answered a ping of this probe.                        *)
Probe ==
    [pc : {"idle", "collecting", "replied"}, live : BOOLEAN, ready : BOOLEAN,
     check : [Dependencies -> {"none", "running", "good", "bad", "taken"}],
     pinged : SUBSET Dependencies]

Idle ==
    [pc |-> "idle", live |-> TRUE, ready |-> TRUE,
     check |-> [d \in Dependencies |-> "none"], pinged |-> {}]

Init ==
    /\ enabled \in SUBSET Dependencies
    /\ up \in SUBSET enabled
    /\ probe = [i \in Probes |-> Idle]

Becomes(i, p) == probe' = [probe EXCEPT ![i] = p]

Turns ==
    /\ up' \in SUBSET enabled
    /\ UNCHANGED <<enabled, probe>>

Ask(i) ==
    /\ probe[i].pc = "idle"
    /\ Becomes(i, [Idle EXCEPT !.pc = "collecting",
                               !.check = [d \in Dependencies |-> "running"]])
    /\ UNCHANGED <<enabled, up>>

(* The client hangs up: the context of both pings is cancelled.            *)
HangUp(i) ==
    /\ probe[i].pc = "collecting" /\ probe[i].live
    /\ Becomes(i, [probe[i] EXCEPT !.live = FALSE])
    /\ UNCHANGED <<enabled, up>>
-----------------------------------------------------------------------------
(* checkDatabase, checkRedis: the channel has room for both results        *)

Checking(i, d) == probe[i].check[d] = "running"

Sends(i, d, result) == Becomes(i, [probe[i] EXCEPT !.check[d] = result])

(* Faulty: what is not configured is not reported.                         *)
DisabledSilent(i, d) ==
    /\ Checking(i, d) /\ d \notin enabled
    /\ Sends(i, d, "none")
    /\ UNCHANGED <<enabled, up>>

Disabled(i, d) ==
    /\ Checking(i, d) /\ d \notin enabled
    /\ Sends(i, d, "good")
    /\ UNCHANGED <<enabled, up>>

PingAnswered(i, d) ==
    /\ Checking(i, d) /\ d \in up /\ probe[i].live
    /\ Becomes(i, [probe[i] EXCEPT !.check[d] = "good", !.pinged = @ \cup {d}])
    /\ UNCHANGED <<enabled, up>>

(* An error, the timeout of the dependency or the end of the request.      *)
PingFails(i, d) ==
    /\ Checking(i, d) /\ d \in enabled
    /\ Sends(i, d, "bad")
    /\ UNCHANGED <<enabled, up>>

(* Faulty: the result that comes last decides.                             *)
CollectLast(i, d) ==
    /\ probe[i].pc = "collecting" /\ probe[i].check[d] \in {"good", "bad"}
    /\ Becomes(i, [probe[i] EXCEPT !.check[d] = "taken",
                                   !.ready = probe[i].check[d] = "good"])
    /\ UNCHANGED <<enabled, up>>

Collect(i, d) ==
    /\ probe[i].pc = "collecting" /\ probe[i].check[d] \in {"good", "bad"}
    /\ Becomes(i, [probe[i] EXCEPT !.check[d] = "taken",
                                   !.ready = @ /\ probe[i].check[d] = "good"])
    /\ UNCHANGED <<enabled, up>>

(* 200 and SERVING, or 503 and NOT_SERVING.                                *)
Reply(i) ==
    /\ probe[i].pc = "collecting"
    /\ \A d \in Dependencies : probe[i].check[d] = "taken"
    /\ Becomes(i, [probe[i] EXCEPT !.pc = "replied"])
    /\ UNCHANGED <<enabled, up>>

AskAgain(i) ==
    /\ probe[i].pc = "replied"
    /\ Becomes(i, Idle)
    /\ UNCHANGED <<enabled, up>>

Serve(i) ==
    \/ Reply(i)
    \/ \E d \in Dependencies :
           Disabled(i, d) \/ PingAnswered(i, d) \/ PingFails(i, d) \/ Collect(i, d)

Next == Turns \/ \E i \in Probes : Ask(i) \/ HangUp(i) \/ Serve(i) \/ AskAgain(i)

Spec == Init /\ [][Next]_vars

(* Goroutines run and a ping ends by its timeout.                          *)
FairSpec == Spec /\ \A i \in Probes : WF_vars(Serve(i))
-----------------------------------------------------------------------------
(* properties                                                              *)

(* The type invariant.                                                     *)
ReadinessTypeOK ==
    /\ enabled \subseteq Dependencies /\ up \subseteq enabled
    /\ probe \in [Probes -> Probe]
    /\ \A i \in Probes : probe[i].pinged \subseteq enabled

(* A probe says ready exactly if every configured dependency answered a    *)
(* ping made for it, in whatever order the two results arrive and whatever *)
(* fails meanwhile (Ready, checkResult).                                   *)
ReadyIsConjunction ==
    \A i \in Probes :
        probe[i].pc = "replied" => (probe[i].ready <=> probe[i].pinged = enabled)

(* Every probe is answered, with backends down and its client gone: each   *)
(* goroutine sends exactly one result (the loop of Ready waits for two).   *)
ProbesAnswered == \A i \in Probes : probe[i].pc = "collecting" ~> probe[i].pc = "replied"
=============================================================================
